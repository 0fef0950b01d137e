-------------------------------- MODULE Probes --------------------------------
(***************************************************************************)
(* The probe clients of mq-resiliency-clients and the drill that runs one  *)
(* of them: mq-authz-probe, which attempts one put or get and compares the *)
(* reason code; the N5 drill, which has a reply dead-lettered and takes it *)
(* from the dead-letter queue with mq-dlq-probe; mq-reconnect-probe, which *)
(* puts under syncpoint while the queue manager restarts.  One probe runs  *)
(* at a time, while an administrator changes authorities, the queue        *)
(* manager restarts and other applications' messages are dead-lettered.    *)
(***************************************************************************)
EXTENDS Integers, Sequences

CONSTANTS
    Kinds,       \* probes run, of "authz", "drill", "reconnect"
    MaxProbes,   \* bound on probes
    PUTS,        \* puts of the reconnect probe
    MaxChanges,  \* bound on authority changes and on restarts
    MaxForeign,  \* bound on dead letters of other applications
    MaxKills     \* bound on killed drills

ProbesAssumption == {MaxProbes, PUTS, MaxChanges, MaxForeign, MaxKills} \subseteq Nat

OK == 0
NOT_AUTHORIZED == 2035
NO_MSG == 2033
PUT_INHIBITED == 2051
BROKEN == 2009
BACKED_OUT == 2003
Authorities == {"connect", "put", "get", "setid", "setall"}
Contexts == {"none", "identity", "all"}

VARIABLES
    auth,     \* what the presented identity is authorised to
    up,       \* the queue manager answers
    queue,    \* the messages of the target queue, by the probe and put they are of
    dlq,      \* the dead-letter queue, oldest first
    retrying, \* the drill whose reply the receiver channel is retrying, 0 for none
    inhibited,
    p,        \* the running or last probe
    held,     \* the authorities held all through it
    told,     \* what the reconnect probe printed: put -> ok
    taken,    \* the dead letters taken from the dead-letter queue, by the running drill
    n, changes, foreign, kills
vars == <<auth, up, queue, dlq, retrying, inhibited, p, held, told, taken, n, changes, foreign, kills>>
env == <<auth, up, dlq, retrying, inhibited, held, taken, n, changes, foreign, kills>>

None == [kind |-> "none", pc |-> "done", op |-> "put", ctx |-> "none", expect |-> 0, observed |-> 0,
         put |-> 0, uow |-> FALSE, lost |-> FALSE, pass |-> FALSE]

Init ==
    /\ auth \in (IF "authz" \in Kinds THEN SUBSET Authorities ELSE {Authorities}) /\ held = auth
    /\ up = TRUE /\ inhibited = FALSE
    /\ queue \in {{}, {<<0, 0>>}} /\ dlq = <<>> /\ retrying = 0
    /\ p = None /\ told = {} /\ taken = <<>>
    /\ n = 0 /\ changes = 0 /\ foreign = 0 /\ kills = 0

Start(k, new) ==
    /\ p.pc = "done" /\ n < MaxProbes /\ k \in Kinds
    /\ n' = n + 1 /\ p' = new /\ held' = auth /\ taken' = <<>>
    /\ UNCHANGED <<auth, up, dlq, retrying, changes, foreign, kills>>

-----------------------------------------------------------------------------
(***************************************************************************)
(* mq-authz-probe: connect, open, one operation; the first reason raised   *)
(* is the observation.  The queue manager checks the authorities at the    *)
(* connect and, for the open options, at the open.                         *)
(***************************************************************************)
AuthzStart ==
    \E op \in {"put", "get"}, ctx \in Contexts, expect \in {OK, NOT_AUTHORIZED} :
        /\ op = "get" => ctx = "none"
        /\ Start("authz", [None EXCEPT !.kind = "authz", !.pc = "connect", !.op = op,
                                       !.ctx = ctx, !.expect = expect])
        /\ UNCHANGED <<queue, inhibited, told>>

open_opts == {p.op} \cup (CASE p.ctx = "identity" -> {"setid"} [] p.ctx = "all" -> {"setall"} [] OTHER -> {})

\* The observation; the teardown that follows raises nothing and changes nothing.
Observe(r) == p' = [p EXCEPT !.pc = "done", !.observed = r, !.pass = (r = p.expect)]

AuthzConnect ==
    /\ p.pc = "connect"
    /\ IF ~up THEN Observe(BROKEN)
       ELSE IF "connect" \notin auth THEN Observe(NOT_AUTHORIZED)
       ELSE p' = [p EXCEPT !.pc = "open"]
    /\ UNCHANGED <<queue, told, env>>

AuthzOpen ==
    /\ p.pc = "open"
    /\ IF ~up THEN Observe(BROKEN)
       ELSE IF ~(open_opts \subseteq auth) THEN Observe(NOT_AUTHORIZED)
       ELSE p' = [p EXCEPT !.pc = "op"]
    /\ UNCHANGED <<queue, told, env>>

AuthzOp ==
    /\ p.pc = "op"
    /\ \/ ~up /\ Observe(BROKEN) /\ UNCHANGED queue
       \/ up /\ p.op = "put" /\ Observe(OK) /\ queue' = queue \cup {<<n, 1>>}
       \/ up /\ p.op = "get" /\ queue = {} /\ Observe(NO_MSG) /\ UNCHANGED queue
       \/ /\ up /\ p.op = "get" /\ Observe(OK)
          /\ \E m \in queue : queue' = queue \ {m}
    /\ UNCHANGED <<told, env>>

\* Put and get are outside syncpoint: done, and the answer is lost.
AuthzOpInDoubt ==
    /\ p.pc = "op" /\ up /\ changes < MaxChanges /\ changes' = changes + 1
    /\ Observe(BROKEN)
    /\ \/ p.op = "put" /\ queue' = queue \cup {<<n, 1>>}
       \/ p.op = "get" /\ \E m \in queue : queue' = queue \ {m}
    /\ UNCHANGED <<auth, up, dlq, retrying, inhibited, held, told, taken, n, foreign, kills>>

-----------------------------------------------------------------------------
(***************************************************************************)
(* The N5 drill: the reply queue is put-inhibited, one request is sent, the *)
(* receiver channel retries the reply and dead-letters it; after a pause   *)
(* mq-dlq-probe takes the oldest dead letter; the queue is opened again    *)
(* and, when the retry is over, a dead letter and two replies are drained. *)
(* A dead letter is a body: its length, its byte order, the reason and the *)
(* queue it was for.                                                       *)
(***************************************************************************)
Letter(d, len, order) ==
    [drill |-> d, reason |-> PUT_INHIBITED, len |-> len, order |-> order, dest |-> IF d = 0 THEN "other" ELSE "testq"]

\* An integer below 2^16 read in the other byte order.
Swapped(r) == (r % 256) * 2^24 + (r \div 256) * 2^16
NoHeader == [reason |-> 0, dest |-> "none"]

\* parse_mqdlh: too short is no header; little-endian is read.
parse_mqdlh(l) ==
    IF l.len < 60 THEN NoHeader
    ELSE [reason |-> IF l.order = "little" THEN l.reason ELSE Swapped(l.reason), dest |-> l.dest]

DrillStart ==
    /\ Start("drill", [None EXCEPT !.kind = "drill", !.pc = "induced", !.expect = PUT_INHIBITED])
    /\ inhibited' = TRUE
    /\ UNCHANGED <<queue, told>>

Induce ==
    /\ p.pc = "induced" /\ retrying = 0
    /\ retrying' = n
    /\ p' = [p EXCEPT !.pc = "wait"]
    /\ UNCHANGED <<auth, up, queue, dlq, inhibited, held, told, taken, n, changes, foreign, kills>>

Channel ==
    /\ retrying # 0
    /\ IF inhibited THEN dlq' = Append(dlq, Letter(retrying, 108, "little")) /\ UNCHANGED queue
       ELSE queue' = queue \cup {<<retrying, 1>>} /\ UNCHANGED dlq
    /\ retrying' = 0
    /\ UNCHANGED <<auth, up, inhibited, p, held, told, taken, n, changes, foreign, kills>>

Take == dlq' = Tail(dlq) /\ taken' = Append(taken, Head(dlq))

\* inspect and main: the oldest letter is removed, then compared.
Inspect ==
    /\ p.pc = "wait"
    /\ IF dlq = <<>> THEN p' = [p EXCEPT !.pc = "enable"] /\ UNCHANGED <<dlq, taken>>
       ELSE /\ Take
            /\ LET h == parse_mqdlh(Head(dlq)) IN
               p' = [p EXCEPT !.pc = "enable", !.observed = h.reason,
                              !.pass = (h.reason = p.expect /\ h.dest = "testq")]
    /\ UNCHANGED <<auth, up, queue, retrying, inhibited, held, told, n, changes, foreign, kills>>

\* The teardown: PUT(ENABLED); one dead letter; what is left of the reply queue.
Enable ==
    /\ p.pc = "enable"
    /\ inhibited' = FALSE /\ p' = [p EXCEPT !.pc = "drain"]
    /\ UNCHANGED <<auth, up, queue, dlq, retrying, held, told, taken, n, changes, foreign, kills>>

Drain ==
    /\ p.pc = "drain" /\ retrying = 0
    /\ IF dlq = <<>> THEN UNCHANGED <<dlq, taken>> ELSE Take
    /\ queue' = {m \in queue : m[1] = 0} /\ p' = [p EXCEPT !.pc = "done"]
    /\ UNCHANGED <<auth, up, retrying, inhibited, held, told, n, changes, foreign, kills>>

\* The play is killed before its teardown.
KillDrill ==
    /\ p.kind = "drill" /\ p.pc \in {"wait", "enable"} /\ kills < MaxKills
    /\ kills' = kills + 1 /\ p' = [p EXCEPT !.pc = "done", !.kind = "killed"]
    /\ UNCHANGED <<auth, up, queue, dlq, retrying, inhibited, held, told, taken, n, changes, foreign>>

-----------------------------------------------------------------------------
(***************************************************************************)
(* mq-reconnect-probe: put under syncpoint and commit, PUTS times; a call  *)
(* that raises is printed and the next put follows.  A unit of work that   *)
(* was open at a break is backed out, which the next commit says.          *)
(***************************************************************************)
ReconnectStart ==
    /\ Start("reconnect", [None EXCEPT !.kind = "reconnect", !.pc = "put", !.put = 1])
    /\ up /\ told' = {}
    /\ UNCHANGED <<queue, inhibited>>

NextPut == IF p.put = PUTS THEN [p EXCEPT !.pc = "done", !.uow = FALSE]
           ELSE [p EXCEPT !.pc = "put", !.put = @ + 1, !.uow = FALSE, !.lost = FALSE]

Put ==
    /\ p.pc = "put"
    /\ p' = IF up THEN [p EXCEPT !.pc = "commit", !.uow = TRUE] ELSE NextPut
    /\ UNCHANGED <<queue, told, env>>

\* Mutant: "ok" is printed before the commit.
Commit_early ==
    /\ p.pc = "commit"
    /\ queue' = IF up /\ ~p.lost THEN queue \cup {<<n, p.put>>} ELSE queue
    /\ told' = told \cup {p.put} /\ p' = NextPut
    /\ UNCHANGED env

Commit ==
    /\ p.pc = "commit"
    /\ \/ /\ up /\ ~p.lost
          /\ queue' = queue \cup {<<n, p.put>>} /\ told' = told \cup {p.put}
       \/ /\ ~up \/ p.lost
          /\ UNCHANGED <<queue, told>>
    /\ p' = NextPut
    /\ UNCHANGED env

\* The commit is done and the answer is lost.
CommitInDoubt ==
    /\ p.pc = "commit" /\ up /\ ~p.lost /\ changes < MaxChanges
    /\ queue' = queue \cup {<<n, p.put>>} /\ p' = NextPut
    /\ changes' = changes + 1
    /\ UNCHANGED <<auth, up, dlq, retrying, inhibited, held, told, taken, n, foreign, kills>>

-----------------------------------------------------------------------------
Change(a) ==
    /\ changes < MaxChanges /\ changes' = changes + 1
    /\ auth' = IF a \in auth THEN auth \ {a} ELSE auth \cup {a}
    /\ held' = held \cap auth'
    /\ UNCHANGED <<up, queue, dlq, retrying, inhibited, p, told, taken, n, foreign, kills>>

Stop ==
    /\ up /\ changes < MaxChanges /\ changes' = changes + 1
    /\ up' = FALSE /\ p' = [p EXCEPT !.lost = p.uow]
    /\ UNCHANGED <<auth, queue, dlq, retrying, inhibited, held, told, taken, n, foreign, kills>>

Restart ==
    /\ ~up /\ up' = TRUE
    /\ UNCHANGED <<auth, queue, dlq, retrying, inhibited, p, held, told, taken, n, changes, foreign, kills>>

\* Another application's message is dead-lettered.
Foreign ==
    /\ foreign < MaxForeign /\ foreign' = foreign + 1
    /\ \E l \in {Letter(0, 59, "little"), Letter(0, 60, "big"), Letter(0, 108, "little")} : dlq' = Append(dlq, l)
    /\ UNCHANGED <<auth, up, queue, retrying, inhibited, p, held, told, taken, n, changes, kills>>

\* The steps of a running probe and of the channel, which nothing but a kill stops.
Running ==
    \/ AuthzConnect \/ AuthzOpen \/ AuthzOp
    \/ Induce \/ Channel \/ Inspect \/ Enable \/ Drain
    \/ Put \/ Commit

Next ==
    \/ AuthzStart \/ DrillStart \/ ReconnectStart
    \/ Running
    \/ KillDrill \/ AuthzOpInDoubt \/ CommitInDoubt
    \/ \E a \in Authorities : Change(a)
    \/ Stop \/ Restart \/ Foreign

Spec == Init /\ [][Next]_vars /\ WF_vars(Running)

-----------------------------------------------------------------------------
TypeOK ==
    /\ auth \subseteq Authorities /\ held \subseteq auth
    /\ queue \subseteq (0..MaxProbes) \X (0..PUTS) /\ told \subseteq 1..PUTS
    /\ p.put \in 0..PUTS /\ retrying \in 0..MaxProbes

Ended(k) == p.kind = k /\ p.pc = "done"
Needed(op, ctx) == {"connect", op} \cup (IF ctx = "identity" THEN {"setid"} ELSE {})
                                   \cup (IF ctx = "all" THEN {"setall"} ELSE {})

(* mq-authz-probe "pins that one authority, not a superset": an identity that
   held the connect and the one access of the operation all along is never
   reported as denied, whatever is granted or revoked meanwhile. *)
DenialTrue ==
    Ended("authz") /\ p.observed = NOT_AUTHORIZED => ~(Needed(p.op, p.ctx) \subseteq held)

(* "The reason code is the whole assertion": a put reported as permitted is on
   the queue, and one reported as refused is not; only one that lost its
   connection may be there and be reported as an error. *)
PermitTrue ==
    Ended("authz") /\ p.op = "put" =>
        /\ p.observed = OK => <<n, 1>> \in queue
        /\ <<n, 1>> \in queue => p.observed \in {OK, BROKEN}

(* mq-reconnect-probe: "put i ok" means message i is on the queue, across any
   restart; every put that is not there was printed as an error. *)
OkLanded == p.kind = "reconnect" => \A i \in told : <<n, i>> \in queue

(* A drill that takes the letter it induced passes: the probe reads the reason
   and the queue the queue manager wrote. *)
InducedPasses ==
    p.kind = "drill" /\ p.pc = "enable" /\ taken # <<>> /\ taken[1].drill = n => p.pass

(* A drill that is not killed leaves none of its own messages behind, late as
   the channel may be, unless it took another's letter in the place of its own. *)
DrillCleans ==
    Ended("drill") =>
        /\ \A m \in queue : m[1] # n
        /\ (\E i \in 1..Len(dlq) : dlq[i].drill = n) => \E i \in 1..Len(taken) : taken[i].drill # n

(* Every probe ends: no error of the queue manager stops the reconnect probe
   before its last put, and nothing waits for ever. *)
Over == p.pc = "done"
ProbesEnd == ~Over ~> Over

(* Claimed, and not kept by the code.  "prove that an induced-undeliverable
   message landed": a passing drill took the letter it induced. *)
ProvesOwn == p.kind = "drill" /\ p.pass => \E i \in 1..Len(taken) : taken[i].drill = n

(* Claimed, and not kept by the code.  "to drain the test message afterwards
   so the shared arm is left clean": the probe removes no other application's
   dead letter. *)
OnlyOwnDrained == \A i \in 1..Len(taken) : taken[i].drill # 0
-----------------------------------------------------------------------------
(***************************************************************************)
(* The inductive invariants behind these properties: one for the probes    *)
(* that put and get, one for the drill.                                    *)
(***************************************************************************)
Probe == [kind : {"none", "authz", "drill", "reconnect", "killed"},
          pc : {"done", "connect", "open", "op", "induced", "wait", "enable", "drain", "put", "commit"},
          op : {"put", "get"}, ctx : Contexts, expect : Nat, observed : Nat, put : Nat, uow : BOOLEAN,
          lost : BOOLEAN, pass : BOOLEAN]
Letters == [drill : Nat, reason : Nat, len : Nat, order : {"little", "big"}, dest : {"other", "testq"}]
ShapeInv ==
    /\ p \in Probe /\ dlq \in Seq(Letters) /\ taken \in Seq(Letters)
    /\ n \in Nat /\ retrying \in 0..n
    /\ p.pc \in {"connect", "open", "op"} => p.kind = "authz"
    /\ p.pc \in {"put", "commit"} => p.kind = "reconnect"
    /\ p.pc \in {"induced", "wait", "enable", "drain"} => p.kind = "drill"
    /\ p.kind = "none" <=> n = 0

\* What the probe found so far, and which messages can be its own.
PuttingInv ==
    /\ held \subseteq auth
    /\ \A m \in queue : m \in (0..n) \X Nat
    /\ retrying = n /\ n # 0 => p.kind \in {"drill", "killed"}
    /\ p.kind = "authz" /\ p.pc # "done" => <<n, 1>> \notin queue
    /\ DenialTrue /\ PermitTrue /\ OkLanded
ProbesInv == ShapeInv /\ PuttingInv

\* A drill's letter is not there before its reply was given up, and then once.
LettersInv ==
    /\ \A i \in 1..Len(dlq) : dlq[i].drill # 0 => dlq[i] = Letter(dlq[i].drill, 108, "little")
    /\ \A i \in 1..Len(dlq) : dlq[i].drill <= n
    /\ p.pc = "induced" => retrying # n
    /\ n # 0 /\ (retrying = n \/ p.pc = "induced") => \A i \in 1..Len(dlq) : dlq[i].drill # n
    /\ n # 0 => \A i, j \in 1..Len(dlq) : dlq[i].drill = n /\ dlq[j].drill = n => i = j
OwnInv ==
    /\ p.kind = "drill" /\ p.pc \in {"induced", "wait"} => p.expect = PUT_INHIBITED /\ taken = <<>>
    /\ p.kind = "drill" /\ p.pc = "done" => retrying = 0
    /\ InducedPasses /\ DrillCleans
DrillInv == ShapeInv /\ LettersInv /\ OwnInv
=============================================================================
