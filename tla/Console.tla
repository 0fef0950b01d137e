------------------------------- MODULE Console -------------------------------
(***************************************************************************)
(* Human access to the lab: mqlab console open, which finds the live mqweb *)
(* of a queue manager and re-points this VM's forwarder unit at it, and    *)
(* mqlab obs relay-heal, which restarts the Grafana relays and verifies    *)
(* them.  Meanwhile instances fail over, candidates stop answering, the    *)
(* forwarder dies, another process takes its port, Grafana bounces.        *)
(***************************************************************************)
EXTENDS Integers, Sequences

CONSTANTS
    Terminals,   \* terminals that run console open
    ATTEMPTS,    \* connects of wait_listening
    RETRIES,     \* curl attempts per relay
    MaxOpens,    \* bound on console opens
    MaxHeals,    \* bound on relay-heals
    MaxMoves,    \* bound on changes of the instances
    MaxFaults,   \* bound on deaths of the forwarder and kills of the verb
    MaxBounces,  \* bound on Grafana bounces
    Foreigners   \* whether another process may listen on the forward port

ConsoleAssumption ==
    /\ {ATTEMPTS, RETRIES, MaxOpens, MaxHeals, MaxMoves, MaxFaults, MaxBounces} \subseteq Nat
    /\ Foreigners \in BOOLEAN

\* lab/topology.yaml: a VIP stack, a Native HA stack without one, the counterparty.
Stacks == {"vip", "nha", "svc-sim"}
Groups == [vip |-> <<>>, nha |-> <<"a1", "a2">>, svc |-> <<"s">>]
GroupsB == <<"b1">>
Instances == {"va", "vb", "a1", "a2", "b1", "s"}
StackOf == [va |-> "vip", vb |-> "vip", a1 |-> "nha", a2 |-> "nha", b1 |-> "nha", s |-> "svc-sim"]
Members == {"replica", "recoveryGroupLeader"}
Answers == {"running", "garbled", "unreachable", "denied"} \cup Members
GrafanaRelays == {"g1", "g2"}
ConsoleRelays == {"c1"}
Units == GrafanaRelays \cup ConsoleRelays
Nobody == "nobody"

VARIABLES
    setup,    \* the checkout: whole, a VIP stack without vip_b, no lab CA
    role,     \* instance -> what its mqweb answers for the queue manager
    unit,     \* the forwarder unit's target, Nobody when it is not loaded
    port,     \* who listens on 19443: Nobody, "unit", "foreign"
    relay,    \* relay unit -> absent, unreadable, serving, stale, binding
    grafana,  \* Grafana answers
    op,       \* terminal -> its console open
    heal,     \* the relay-heal
    opens, moves, faults, bounces
vars == <<setup, role, unit, port, relay, grafana, op, heal, opens, moves, faults, bounces>>
lab == <<setup, role, relay, grafana, heal, moves, faults, bounces>>

NoOpen == [pc |-> "idle", stack |-> "vip", site |-> "a", left |-> <<>>, live |-> Nobody, try |-> 0,
           was |-> Nobody, moved |-> FALSE, hit |-> FALSE, end |-> "none"]

Init ==
    /\ setup \in {"whole", "no vip_b", "no CA"}
    /\ \E x \in {<<"running", "replica", "recoveryGroupLeader">>, <<"unreachable", "running", "recoveryGroupLeader">>,
               <<"recoveryGroupLeader", "replica", "running">>} :
        role = [va |-> "running", vb |-> "unreachable", a1 |-> x[1], a2 |-> x[2], b1 |-> x[3], s |-> "running"]
    /\ unit \in {Nobody, "va"} /\ port = (IF unit = Nobody THEN Nobody ELSE "unit")
    /\ \E x \in {<<"serving", "serving", "serving">>, <<"serving", "absent", "serving">>,
               <<"serving", "unreadable", "serving">>, <<"absent", "absent", "serving">>,
               <<"serving", "serving", "absent">>} : relay = [g1 |-> x[1], g2 |-> x[2], c1 |-> x[3]]
    /\ grafana = TRUE
    /\ op = [t \in Terminals |-> NoOpen]
    /\ heal = [pc |-> "idle", todo |-> {}, try |-> 0, calm |-> TRUE, n |-> 0]
    /\ opens = 0 /\ moves = 0 /\ faults = 0 /\ bounces = 0

-----------------------------------------------------------------------------
(***************************************************************************)
(* mqweb_endpoints: the published addresses of every stack, or an error    *)
(* for all of them.                                                        *)
(***************************************************************************)
EndpointError == setup = "no vip_b"
mqweb_endpoints(stack, site) ==
    CASE stack = "vip" -> IF site = "a" THEN <<"va">> ELSE <<"vb">>
      [] stack = "nha" -> IF site = "a" THEN Groups.nha ELSE GroupsB
      [] OTHER -> IF site = "a" THEN Groups.svc ELSE <<>>

classify(state) ==
    CASE state = "running" -> "live" [] state \in Members -> "member" [] OTHER -> "unknown"

Step(t, r) == op' = [op EXCEPT ![t] = r]
\* A failing verb exits.
Exit(t, how) == Step(t, [op[t] EXCEPT !.pc = "idle", !.end = how])

Open(t, stack, site) ==
    /\ op[t].pc = "idle" /\ opens < MaxOpens
    /\ opens' = opens + 1
    /\ LET urls == mqweb_endpoints(stack, site)
           new == [NoOpen EXCEPT !.pc = "probe", !.stack = stack, !.site = site, !.left = urls, !.was = unit]
       IN  Step(t, IF EndpointError THEN [new EXCEPT !.pc = "idle", !.end = "endpoints"]
                   ELSE IF urls = <<>> THEN [new EXCEPT !.pc = "idle", !.end = "site"]
                   ELSE IF setup = "no CA" THEN [new EXCEPT !.pc = "idle", !.end = "CA"]
                   ELSE new)
    /\ UNCHANGED <<unit, port, lab>>

\* One turn of resolve_live's loop.
Probe(t) ==
    /\ op[t].pc = "probe"
    /\ IF op[t].left = <<>> THEN Exit(t, "none live")
       ELSE LET url == Head(op[t].left) IN
            IF role[url] = "denied" THEN Exit(t, "login")
            ELSE IF classify(role[url]) = "live" THEN Step(t, [op[t] EXCEPT !.pc = "access", !.live = url])
            ELSE Step(t, [op[t] EXCEPT !.left = Tail(@)])
    /\ UNCHANGED <<unit, port, opens, lab>>

\* parse_relays reads every unit's description, of whatever target.
RelayError == \E u \in Units : relay[u] = "unreadable"
relays_to(targets) == {u \in targets : relay[u] # "absent"}

Access(t) ==
    /\ op[t].pc = "access"
    /\ IF RelayError \/ relays_to(ConsoleRelays) = {} THEN Exit(t, "no relay")
       ELSE Step(t, [op[t] EXCEPT !.pc = "state"])
    /\ UNCHANGED <<unit, port, opens, lab>>

LoadState(t) ==
    /\ op[t].pc = "state"
    /\ Step(t, [op[t] EXCEPT !.pc = IF unit = Nobody THEN "start" ELSE "stop"])
    /\ UNCHANGED <<unit, port, opens, lab>>

\* systemctl stop ends the whole unit; it fails for a unit that is not loaded.
Gone == unit' = Nobody /\ port' = IF port = "unit" THEN Nobody ELSE port
StopForward(t) ==
    /\ op[t].pc = "stop"
    /\ IF unit = Nobody THEN Exit(t, "stop failed") /\ UNCHANGED <<unit, port>>
       ELSE Gone /\ Step(t, [op[t] EXCEPT !.pc = "start"])
    /\ UNCHANGED <<opens, lab>>

\* systemd-run refuses a unit name in use; it returns before socat has bound.
StartForward(t) ==
    /\ op[t].pc = "start"
    /\ IF unit # Nobody THEN Exit(t, "start failed") /\ UNCHANGED unit
       ELSE unit' = op[t].live /\ Step(t, [op[t] EXCEPT !.pc = "wait"])
    /\ UNCHANGED <<port, opens, lab>>

\* Mutant: what the last connect found is not looked at.
Wait_unheeded(t) ==
    /\ op[t].pc = "wait"
    /\ IF port # Nobody \/ op[t].try + 1 = ATTEMPTS THEN Exit(t, "banner")
       ELSE Step(t, [op[t] EXCEPT !.try = @ + 1])
    /\ UNCHANGED <<unit, port, opens, lab>>

Wait(t) ==
    /\ op[t].pc = "wait"
    /\ IF port # Nobody THEN Exit(t, "banner")
       ELSE IF op[t].try + 1 = ATTEMPTS THEN Exit(t, "deaf")
       ELSE Step(t, [op[t] EXCEPT !.try = @ + 1])
    /\ UNCHANGED <<unit, port, opens, lab>>

-----------------------------------------------------------------------------
(***************************************************************************)
(* mqlab obs relay-heal: restart the Grafana relays, then verify each with *)
(* retries.                                                                *)
(***************************************************************************)
HealStart ==
    /\ heal.pc \in {"idle", "ok", "failed", "error"}
    /\ heal.n < MaxHeals
    /\ heal' = [pc |-> IF RelayError \/ relays_to(GrafanaRelays) = {} THEN "error" ELSE "restart",
                todo |-> relays_to(GrafanaRelays), try |-> 0, calm |-> TRUE, n |-> heal.n + 1]
    /\ UNCHANGED <<setup, role, unit, port, relay, grafana, op, opens, moves, faults, bounces>>

\* One systemctl restart of all the units; if it fails for some, the heal ends.
HealRestart ==
    /\ heal.pc = "restart"
    /\ \E done \in SUBSET heal.todo :
        /\ relay' = [u \in Units |-> IF u \in done THEN "binding" ELSE relay[u]]
        /\ heal' = [heal EXCEPT !.pc = IF done = heal.todo THEN "verify" ELSE "error"]
    /\ UNCHANGED <<setup, role, unit, port, grafana, op, opens, moves, faults, bounces>>

\* Mutant: one URL is verified for all.
HealVerify_one ==
    /\ heal.pc = "verify"
    /\ \E u \in heal.todo :
        heal' = IF relay[u] = "serving" /\ grafana THEN [heal EXCEPT !.pc = "ok"]
                ELSE IF heal.try + 1 = RETRIES THEN [heal EXCEPT !.pc = "failed"]
                ELSE [heal EXCEPT !.try = @ + 1]
    /\ UNCHANGED <<setup, role, unit, port, relay, grafana, op, opens, moves, faults, bounces>>

\* curl --retry: one attempt on the next relay.
HealVerify ==
    /\ heal.pc = "verify"
    /\ LET u == CHOOSE x \in heal.todo : TRUE IN
        heal' = IF relay[u] = "serving" /\ grafana
                THEN [heal EXCEPT !.todo = @ \ {u}, !.try = 0,
                                  !.pc = IF heal.todo = {u} THEN "ok" ELSE @]
                ELSE IF heal.try + 1 = RETRIES THEN [heal EXCEPT !.pc = "failed"]
                ELSE [heal EXCEPT !.try = @ + 1]
    /\ UNCHANGED <<setup, role, unit, port, relay, grafana, op, opens, moves, faults, bounces>>

-----------------------------------------------------------------------------
(***************************************************************************)
(* systemd, the queue managers, Grafana and the operator.                  *)
(***************************************************************************)
Hit == op' = [t \in Terminals |-> [op[t] EXCEPT !.hit = TRUE]]

\* socat binds its port, or finds it taken, exits, and the unit is collected.
Bind ==
    /\ unit # Nobody /\ port # "unit"
    /\ IF port = Nobody THEN port' = "unit" /\ UNCHANGED unit ELSE unit' = Nobody /\ UNCHANGED port
    /\ UNCHANGED <<op, opens, lab>>

Death ==
    /\ unit # Nobody /\ faults < MaxFaults /\ faults' = faults + 1
    /\ Gone /\ Hit
    /\ UNCHANGED <<setup, role, relay, grafana, heal, opens, moves, bounces>>

KillOpen(t) ==
    /\ op[t].pc # "idle" /\ faults < MaxFaults /\ faults' = faults + 1
    /\ Exit(t, "killed")
    /\ UNCHANGED <<setup, role, unit, port, relay, grafana, heal, opens, moves, bounces>>

Foreign ==
    /\ Foreigners /\ port = Nobody /\ port' = "foreign"
    /\ UNCHANGED <<unit, op, opens, lab>>

\* A failover or a cutover is a loss and a promotion; any other instance may stop answering.
Move(i, s) ==
    /\ moves < MaxMoves /\ role[i] # s /\ moves' = moves + 1
    /\ s = "running" => \A j \in Instances : StackOf[j] = StackOf[i] => role[j] # "running"
    /\ role' = [role EXCEPT ![i] = s]
    /\ op' = [t \in Terminals |-> [op[t] EXCEPT !.moved = TRUE]]
    /\ UNCHANGED <<setup, unit, port, relay, grafana, heal, opens, faults, bounces>>

RelayBinds(u) ==
    /\ relay[u] = "binding" /\ relay' = [relay EXCEPT ![u] = "serving"]
    /\ UNCHANGED <<setup, role, unit, port, grafana, op, heal, opens, moves, faults, bounces>>

\* Grafana restarts: the relays in front of it keep a stale downstream.
Bounce ==
    /\ grafana /\ bounces < MaxBounces /\ bounces' = bounces + 1
    /\ grafana' = FALSE
    /\ relay' = [u \in Units |-> IF u \in GrafanaRelays /\ relay[u] = "serving" THEN "stale" ELSE relay[u]]
    /\ heal' = [heal EXCEPT !.calm = FALSE]
    /\ UNCHANGED <<setup, role, unit, port, op, opens, moves, faults>>
GrafanaBack ==
    /\ ~grafana /\ grafana' = TRUE
    /\ UNCHANGED <<setup, role, unit, port, relay, op, heal, opens, moves, faults, bounces>>

Verb(t) == Probe(t) \/ Access(t) \/ LoadState(t) \/ StopForward(t) \/ StartForward(t) \/ Wait(t)
Healing == HealRestart \/ HealVerify

Next ==
    \/ \E t \in Terminals :
        \/ \E stack \in Stacks, site \in {"a", "b"} : Open(t, stack, site)
        \/ Verb(t) \/ KillOpen(t)
    \/ HealStart \/ Healing
    \/ Bind \/ Death \/ Foreign \/ Bounce \/ GrafanaBack
    \/ \E i \in Instances, s \in Answers : Move(i, s)
    \/ \E u \in Units : RelayBinds(u)

\* The verbs are straight-line programs: nothing but a kill stops one.
Spec == Init /\ [][Next]_vars /\ WF_vars(Healing) /\ \A t \in Terminals : WF_vars(Verb(t))

-----------------------------------------------------------------------------
TypeOK ==
    /\ role \in [Instances -> Answers] /\ unit \in Instances \cup {Nobody}
    /\ port = "unit" => unit # Nobody
    /\ \A t \in Terminals : op[t].try < ATTEMPTS
    /\ heal.try < RETRIES

\* The addresses of a list.
Listed(urls) == {urls[k] : k \in 1..Len(urls)}
Ended(t, how) == op[t].pc = "idle" /\ op[t].end = how

(* "Never fall back to a replica or to the first candidate": an instance that
   console open announced as live was running, unless instances changed while
   the verb ran. *)
AnnouncedLive ==
    \A t \in Terminals : Ended(t, "banner") /\ ~op[t].moved => role[op[t].live] = "running"

(* A search that ends without a live instance missed none: among the site's
   candidates none was running, or instances changed meanwhile. *)
MissesNone ==
    \A t \in Terminals : Ended(t, "none live") /\ ~op[t].moved =>
        \A i \in Listed(mqweb_endpoints(op[t].stack, op[t].site)) : role[i] # "running"

(* An open that nobody disturbs never trips over the forwarder an earlier,
   perhaps killed, open left: its stop and its start succeed. *)
NeverTrips ==
    \A t \in Terminals : ~op[t].hit => ~Ended(t, "stop failed") /\ ~Ended(t, "start failed")

(* "so a bind failure would otherwise pass silently": when the banner is
   printed, port 19443 is the forwarder's, and it leads to the instance the
   banner names. *)
BannerTrueStep ==
  \A t \in Terminals : Ended(t, "banner")' /\ ~Ended(t, "banner") =>
         port' = "unit" /\ unit' = op'[t].live
BannerTrue == [][BannerTrueStep]_vars

(* A re-run that finds no live instance, no login or no relay leaves the
   forward of the earlier run as it was. *)
FailureKeepsForward ==
    \A t \in Terminals : \A how \in {"endpoints", "site", "CA", "none live", "login", "no relay"} :
        Ended(t, how) /\ ~op[t].hit => unit = op[t].was

(* relay-heal: "don't report success while the browser path is dead". *)
HealTrue ==
    heal.pc = "ok" /\ heal.calm => \A u \in relays_to(GrafanaRelays) : relay[u] = "serving"

(* No relay keeps its stale downstream through a heal that got as far as
   its verification, whether that succeeds or not. *)
HealMends ==
    heal.pc \in {"ok", "failed"} /\ heal.calm => \A u \in GrafanaRelays : relay[u] # "stale"

(* Every console open ends, whoever moves or dies meanwhile. *)
Idle(t) == op[t].pc = "idle"
OpensEnd == \A t \in Terminals : ~Idle(t) ~> Idle(t)

(* Every heal ends: its retries are bounded. *)
HealBusy == heal.pc \in {"restart", "verify"}
HealsEnd == HealBusy ~> ~HealBusy
-----------------------------------------------------------------------------
(***************************************************************************)
(* The inductive invariants behind these properties: one for the opens of  *)
(* one terminal, when nothing else binds the port, and one for the heals.  *)
(***************************************************************************)
OneOpener == (\A t, u \in Terminals : t = u) /\ ~Foreigners

Ends == {"none", "endpoints", "site", "CA", "none live", "login", "no relay", "stop failed", "start failed",
         "banner", "deaf", "killed"}
Opens == [pc : {"idle", "probe", "access", "state", "stop", "start", "wait"}, stack : Stacks,
          site : {"a", "b"}, left : Seq(Instances), live : Instances \cup {Nobody}, try : Nat,
          was : Instances \cup {Nobody}, moved : BOOLEAN, hit : BOOLEAN, end : Ends]
PortInv ==
    /\ role \in [Instances -> Answers] /\ op \in [Terminals -> Opens]
    /\ unit \in Instances \cup {Nobody} /\ port \in {Nobody, "unit"}
    /\ port = "unit" => unit # Nobody

\* A search has ahead of it every candidate that runs; what it found is running.
SearchInv(o) ==
    /\ o.pc = "probe" /\ ~o.moved =>
          \A i \in Listed(mqweb_endpoints(o.stack, o.site)) : role[i] = "running" => i \in Listed(o.left)
    /\ o.pc \in {"access", "state", "stop", "start", "wait"} =>
          o.live \in Instances /\ (~o.moved => role[o.live] = "running")

\* What an undisturbed open knows of the unit.
UnitInv(o) ==
    /\ o.pc \in {"probe", "access", "state"} /\ ~o.hit => unit = o.was
    /\ o.pc = "stop" /\ ~o.hit => unit # Nobody
    /\ o.pc = "start" /\ ~o.hit => unit = Nobody
    /\ o.pc = "wait" /\ unit # Nobody => unit = o.live

\* What an open that ended leaves to be said.
EndInv(o) ==
    o.pc = "idle" =>
        /\ o.end = "banner" /\ ~o.moved => role[o.live] = "running"
        /\ o.end = "none live" /\ ~o.moved =>
              \A i \in Listed(mqweb_endpoints(o.stack, o.site)) : role[i] # "running"
        /\ o.end \in {"stop failed", "start failed"} => o.hit
        /\ o.end \in {"endpoints", "site", "CA", "none live", "login", "no relay"} /\ ~o.hit => unit = o.was

ConsoleInv ==
    PortInv /\ \A t \in Terminals : SearchInv(op[t]) /\ UnitInv(op[t]) /\ EndInv(op[t])

\* Who is not to be verified any more serves, and none has been stale since the restart.
HealInv ==
    /\ relay \in [Units -> {"absent", "unreadable", "serving", "stale", "binding"}]
    /\ heal \in [pc : {"idle", "restart", "verify", "ok", "failed", "error"}, todo : SUBSET GrafanaRelays,
                 try : Nat, calm : BOOLEAN, n : Nat]
    /\ heal.pc \in {"restart", "verify"} => heal.todo # {}
    /\ heal.pc = "restart" => heal.todo = relays_to(GrafanaRelays)
    /\ heal.pc = "ok" => heal.todo = {}
    /\ heal.pc \in {"verify", "ok"} /\ heal.calm =>
          \A u \in relays_to(GrafanaRelays) \ heal.todo : relay[u] = "serving"
    /\ heal.pc \in {"verify", "ok", "failed"} /\ heal.calm => \A u \in GrafanaRelays : relay[u] # "stale"
=============================================================================
