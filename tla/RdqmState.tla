------------------------------ MODULE RdqmState ------------------------------
(***************************************************************************)
(* lab-rdqm-state (rdqmstate.py): on every node of an RDQM HA/DR pair a    *)
(* 5 s timer runs the collector.  It probes rdqmstatus, drbdsetup and      *)
(* crm_mon one after the other, renders what answered into one textfile    *)
(* and renames it over the last one; the boards read all nodes' files.     *)
(* The cluster changes while the probes run.                               *)
(*                                                                         *)
(* The cluster itself (RDQM, Pacemaker, DRBD) is external; a probe either  *)
(* answers with the state of its instant, fails (timeout, exit code,       *)
(* OSError), or answers what the parser cannot read (crm_mon's XML).       *)
(* drbdsetup is taken at the instant of crm_mon: no file relates the two.  *)
(***************************************************************************)
EXTENDS Integers, FiniteSets, SequencesExt

CONSTANTS
    N,           \* nodes, in the order the tools list them
    MaxChanges,  \* bound on the changes of the cluster
    MaxLosses    \* bound on the probes that fail

RdqmStateAssumption == N \in Nat \ {0} /\ MaxChanges \in Nat /\ MaxLosses \in Nat

Nodes == 1..N
Sites == {"A", "B"}
None == 0
ThisNode == N + 1    \* "This node", as rdqmstatus names the local one
INFINITY == 2    \* Pacemaker's fail-count that bans a node, scaled
Sources == {"rdqmstatus", "drbd", "crm"}

VARIABLES
    site,        \* node -> its site; never changes
    live,        \* the DR primary site
    primary,     \* site -> its HA primary, None if the site has no node
    running,     \* the node that runs the queue manager, or None
    online, fails,   \* per node: Pacemaker's view
    cut,         \* the pairs of nodes whose DRBD connection is StandAlone
    changes, losses,
    pc,          \* node -> the next probe, "idle" or "publish"
    status, drbd, crm,   \* node -> the readings of the tick under way
    file,        \* node -> what its textfile says
    torn,        \* history: nodes whose tick has seen a change
    past         \* history: per node, the readings and files a change made old
truth == <<site, live, primary, running, online, fails, cut>>
reads == <<status, drbd, crm>>
vars == <<truth, changes, losses, pc, reads, file, torn, past>>

Here(s) == {n \in Nodes : site[n] = s}
NoFile == [fresh |-> {}, owner |-> None, vip |-> FALSE, location |-> None, quorate |-> -1, running |-> -1,
           dr |-> "", drok |-> -1, conn |-> "", ready |-> [n \in {} |-> 0]]

Init ==
    /\ site \in [Nodes -> Sites] /\ site[1] = "A" /\ live = "A"
    /\ primary = [s \in Sites |-> IF \E n \in Nodes : site[n] = s
                                  THEN CHOOSE n \in Nodes : site[n] = s /\ \A m \in Nodes : site[m] = s => n <= m
                                  ELSE None]
    /\ running = 1 /\ online = [n \in Nodes |-> TRUE] /\ fails = [n \in Nodes |-> 0] /\ cut = {}
    /\ changes = 0 /\ losses = 0 /\ pc = [n \in Nodes |-> "idle"]
    /\ status = [n \in Nodes |-> {}] /\ drbd = [n \in Nodes |-> {}] /\ crm = [n \in Nodes |-> {}]
    /\ file = [n \in Nodes |-> NoFile] /\ torn = {} /\ past = [n \in Nodes |-> {}]

----------------------------------------------------------------------------
(* The cluster *)

Change ==
    /\ changes < MaxChanges /\ changes' = changes + 1
    /\ torn' = {n \in Nodes : pc[n] # "idle"} /\ past' = [n \in Nodes |-> IF pc[n] = "idle" THEN {"file"} ELSE {"read", "file"}]
    /\ UNCHANGED <<site, losses, pc, reads, file>>
CanRun(n) == online[n] /\ fails[n] < INFINITY /\ site[n] = live /\ primary[site[n]] = n
Starts(n) ==
    /\ Change /\ running = None /\ CanRun(n) /\ running' = n
    /\ UNCHANGED <<live, primary, online, fails, cut>>
(* The queue manager fails on its node, which may ban it there. *)
Fails ==
    /\ Change /\ running # None /\ running' = None
    /\ \E k \in 1..INFINITY : fails' = [fails EXCEPT ![running] = k]
    /\ UNCHANGED <<live, primary, online, cut>>
(* The HA role moves within a site whose primary does not run it. *)
Relocates(n) ==
    /\ Change /\ running # primary[site[n]] /\ online[n] /\ primary[site[n]] # n
    /\ primary' = [primary EXCEPT ![site[n]] = n]
    /\ UNCHANGED <<live, running, online, fails, cut>>
NodeTurns(n) ==
    /\ Change /\ online' = [online EXCEPT ![n] = ~@]
    /\ running' = IF running = n THEN None ELSE running
    /\ UNCHANGED <<live, primary, fails, cut>>
LinkTurns ==
    /\ Change /\ \E n, m \in Nodes : n < m /\ site[n] = site[m]
                     /\ cut' = IF <<n, m>> \in cut THEN cut \ {<<n, m>>} ELSE cut \cup {<<n, m>>}
    /\ UNCHANGED <<live, primary, running, online, fails>>
(* rdqmdr -s, then -p *)
CutsOver ==
    /\ Change /\ \A s \in Sites : primary[s] # None
    /\ live' = CHOOSE s \in Sites : s # live
    /\ running' = None /\ UNCHANGED <<primary, online, fails, cut>>

StandAlone(n, m) == <<n, m>> \in cut \/ <<m, n>> \in cut

----------------------------------------------------------------------------
(* What the tools print on node n *)

rdqmstatus(n) ==
    [qm |-> IF running = n THEN "Running" ELSE "Ended",
     location |-> IF primary[site[n]] = n THEN ThisNode ELSE primary[site[n]],
     vip |-> TRUE,
     ha |-> IF \A m \in Here(site[n]) : online[m] /\ ~StandAlone(n, m) THEN "Normal" ELSE "Remote unavailable",
     dr |-> IF site[n] = live THEN "Primary" ELSE "Secondary",
     drstatus |-> IF primary[site[n]] = n THEN "Normal" ELSE "See primary"]
(* The local resource, then one line for each peer. *)
drbdsetup(n) ==
    <<[role |-> IF primary[site[n]] = n THEN "Primary" ELSE "Secondary"]>>
    \o SetToSortSeq({[connection |-> IF StandAlone(n, m) THEN "StandAlone" ELSE "Connected", peer |-> m] :
                     m \in Here(site[n]) \ {n}}, LAMBDA x, y : x.peer < y.peer)
crm_mon(n) == [online |-> online, fails |-> fails]

----------------------------------------------------------------------------
(* The parsers *)

parse_drbd(lines) ==
    FoldLeft(LAMBDA cur, t : IF "role" \in DOMAIN t THEN [role |-> t.role, conn |-> "Unknown"]
                             ELSE [cur EXCEPT !.conn = t.connection],
             [role |-> "Unknown", conn |-> "Unknown"], lines)
resolve(location, n) == IF location = ThisNode THEN n ELSE location
startable(fc) == fc < INFINITY
node_ready(c, m) == c.online[m] /\ startable(c.fails[m])

----------------------------------------------------------------------------
(* The collector.  A reading is a set: empty when the probe failed. *)

Begin(n) ==
    /\ pc[n] = "idle" /\ pc' = [pc EXCEPT ![n] = "rdqmstatus"]
    /\ UNCHANGED <<truth, changes, losses, reads, file, torn, past>>
(* A probe fails on a node that is down, and may fail on any. *)
Answered(n, ok) ==
    IF online[n] /\ ~ok THEN losses < MaxLosses /\ losses' = losses + 1
                        ELSE online[n] = ok /\ UNCHANGED losses
ProbeStatus(n, ok) ==
    /\ pc[n] = "rdqmstatus" /\ Answered(n, ok) /\ pc' = [pc EXCEPT ![n] = "crm"]
    /\ IF ok THEN status' = [status EXCEPT ![n] = {rdqmstatus(n)}] ELSE UNCHANGED status
    /\ UNCHANGED <<truth, changes, drbd, crm, file, torn, past>>
(* drbdsetup and crm_mon, each of which may fail. *)
ProbeCrm(n, ok) ==
    /\ pc[n] = "crm" /\ Answered(n, ok) /\ pc' = [pc EXCEPT ![n] = "publish"]
    /\ IF ok THEN crm' = [crm EXCEPT ![n] = {crm_mon(n)}] ELSE UNCHANGED crm
    /\ \/ drbd' = [drbd EXCEPT ![n] = {parse_drbd(drbdsetup(n))}]
       \/ ~ok /\ UNCHANGED drbd
    /\ UNCHANGED <<truth, changes, status, file, torn, past>>
(* A tick's readings end with it. *)
ForgetCrm(n) ==
    /\ drbd' = [drbd EXCEPT ![n] = {}] /\ crm' = [crm EXCEPT ![n] = {}] /\ UNCHANGED status
Forget(n) ==
    /\ status' = [status EXCEPT ![n] = {}] /\ drbd' = [drbd EXCEPT ![n] = {}] /\ crm' = [crm EXCEPT ![n] = {}]
(* ET.fromstring raises: the tick ends and the last file stays. *)
Garbled(n) ==
    /\ pc[n] = "crm" /\ online[n] /\ Answered(n, FALSE) /\ pc' = [pc EXCEPT ![n] = "idle"]
    /\ Forget(n) /\ torn' = torn \ {n} /\ past' = [past EXCEPT ![n] = @ \ {"read"}]
    /\ UNCHANGED <<truth, changes, file>>

(* Ownership belongs only to the node that runs the queue manager. *)
owner(s, n) == IF s.qm = "Running" THEN resolve(s.location, n) ELSE None

(* render_rdqm_state_prom; -1 and "" stand for a series that is not there. *)
render(n) ==
    LET Has(r) == r # {}
        Of(r) == CHOOSE x \in r : TRUE
        s == status[n]  d == drbd[n]  c == crm[n]
    IN [fresh |-> {x \in Sources : Has(CASE x = "rdqmstatus" -> s [] x = "drbd" -> d [] x = "crm" -> c)},
        owner |-> IF Has(s) THEN owner(Of(s), n) ELSE None,
        vip |-> Has(s) /\ Of(s).qm = "Running" /\ Of(s).vip,
        location |-> IF Has(s) THEN resolve(Of(s).location, n) ELSE None,
        quorate |-> IF Has(s) THEN (IF Of(s).ha = "Normal" THEN 1 ELSE 0) ELSE -1,
        running |-> IF Has(s) THEN (IF Of(s).qm = "Running" THEN 1 ELSE 0) ELSE -1,
        dr |-> IF Has(s) THEN Of(s).dr ELSE "",
        drok |-> IF Has(s) /\ Of(s).drstatus # "See primary" THEN (IF Of(s).drstatus = "Normal" THEN 1 ELSE 0) ELSE -1,
        conn |-> IF Has(d) THEN Of(d).conn ELSE "",
        ready |-> [m \in (IF Has(c) THEN Nodes ELSE {}) |-> IF node_ready(Of(c), m) THEN 1 ELSE 0]]
Publish(n) ==
    /\ pc[n] = "publish" /\ pc' = [pc EXCEPT ![n] = "idle"]
    /\ file' = [file EXCEPT ![n] = render(n)]
    /\ past' = [past EXCEPT ![n] = IF "read" \in @ THEN {"file"} ELSE {}]
    /\ Forget(n) /\ torn' = torn \ {n} /\ UNCHANGED <<truth, changes, losses>>

Tick(n) == Begin(n) \/ \E ok \in BOOLEAN : ProbeStatus(n, ok) \/ ProbeCrm(n, ok)
           \/ Garbled(n) \/ Publish(n)
Cluster == \E n \in Nodes : Starts(n) \/ Relocates(n) \/ NodeTurns(n)
Next == \/ Cluster \/ Fails \/ LinkTurns \/ CutsOver
        \/ \E n \in Nodes : Tick(n)

(* The timer fires again and again; a probe ends, within its timeout. *)
Fairness == \A n \in Nodes : WF_vars(Tick(n))
Spec == Init /\ [][Next]_vars /\ Fairness

----------------------------------------------------------------------------
(* What the boards may rely on *)

TypeOK ==
    /\ running \in Nodes \cup {None} /\ pc \in [Nodes -> {"idle", "rdqmstatus", "crm", "publish"}]
    /\ \A n \in Nodes : /\ file[n].fresh \subseteq Sources /\ file[n].owner \in {None, n}
                        /\ (file[n].owner # None) = file[n].vip
                        /\ file[n].ready \in [IF "crm" \in file[n].fresh THEN Nodes ELSE {} -> 0..1]

(* The board never shows the queue manager running on two nodes, nor two
   floating IPs, unless one of the two files was read before the cluster's last
   change: in a DR pair both HA primaries name themselves as the location. *)
OneOwnerShown ==
    \A n, m \in Nodes : file[n].owner # None /\ file[m].owner # None /\ file[n].owner # file[m].owner
                        => "file" \in past[n] \cup past[m]

(* One file never shows the queue manager running on a node it also shows unable
   to run it, unless the cluster changed between the two probes of that tick. *)
CoherentFile ==
    \A n \in Nodes : pc[n] = "publish" /\ n \notin torn => LET f == render(n) IN
        f.running = 1 /\ DOMAIN f.ready # {} => f.ready[n] = 1 /\ f.dr = "Primary"

(***************************************************************************)
(* The strengthening that is inductive.  A queue manager runs only where   *)
(* it can; the readings of a tick that has seen no change are what the     *)
(* tools would still print; an owner in a file as old as the last change   *)
(* runs it.                                                                *)
(***************************************************************************)
ShapeInv ==
    /\ site \in [Nodes -> Sites] /\ live \in Sites /\ DOMAIN primary = Sites
    /\ running \in Nodes \cup {None} /\ pc \in [Nodes -> {"idle", "rdqmstatus", "crm", "publish"}]
    /\ online \in [Nodes -> BOOLEAN] /\ fails \in [Nodes -> 0..INFINITY]
    /\ DOMAIN status = Nodes /\ DOMAIN crm = Nodes /\ DOMAIN file = Nodes /\ torn \subseteq Nodes
    /\ past \in [Nodes -> SUBSET {"read", "file"}]
RunsInv == running # None => CanRun(running)
ReadsInv ==
    \A n \in Nodes :
        /\ pc[n] \in {"idle", "rdqmstatus"} => status[n] = {}
        /\ pc[n] \in {"idle", "rdqmstatus", "crm"} => crm[n] = {}
        /\ n \in torn <=> "read" \in past[n]
        /\ n \notin torn => status[n] \subseteq {rdqmstatus(n)} /\ crm[n] \subseteq {crm_mon(n)}
OwnersInv == \A n \in Nodes : "file" \notin past[n] /\ file[n].owner # None => file[n].owner = running
RdqmInv == ShapeInv /\ RunsInv /\ ReadsInv /\ OwnersInv

(* Once the cluster and the probes rest, the file of a node that is up shows
   which nodes could run the queue manager, and every claim in it is so: who runs
   it, which site is live, who is ready. *)
Agrees(n) ==
    LET f == file[n] IN
    /\ "rdqmstatus" \in f.fresh => /\ f.owner = (IF running = n THEN n ELSE None)
                                   /\ f.dr = (IF site[n] = live THEN "Primary" ELSE "Secondary")
    /\ \A m \in DOMAIN f.ready : f.ready[m] = (IF online[m] /\ fails[m] < INFINITY THEN 1 ELSE 0)
AllAgree == \A n \in Nodes : online[n] => Agrees(n) /\ "crm" \in file[n].fresh
EventuallyTrue == <>[]AllAgree

(* Claimed, and not kept by the code.  clusterboard.py: the integrity light
   goes loud on StandAlone; it counts the connection state every node
   publishes. *)
StandAloneShown ==
    \A n \in Nodes : "drbd" \in file[n].fresh /\ past[n] = {} /\ (\E m \in Nodes : StandAlone(n, m))
                      => file[n].conn = "StandAlone"
=============================================================================
