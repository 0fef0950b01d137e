------------------------------ MODULE PcmkState ------------------------------
(***************************************************************************)
(* lab-cluster-state (clusterstate.py) on the Pacemaker members, and the   *)
(* compute rows of the cockpit that read it (clusterboard.py): every       *)
(* member reports the whole cluster, a cell is the maximum over the        *)
(* reports that are scraped.                                               *)
(*                                                                         *)
(* The cluster is external: a member may be cut off, is then fenced by the *)
(* others, and is powered on again; a member's daemons stop and start.  A  *)
(* cut-off member sees itself online and the others gone.  A member that   *)
(* is off runs no collector and is not scraped; one whose collector is     *)
(* wedged still serves its last file.                                      *)
(***************************************************************************)
EXTENDS Integers, FiniteSets, FiniteSetsExt

CONSTANTS
    Members,
    MaxChanges,  \* bound on the changes of the cluster
    MaxLosses    \* bound on the probes that fail

PcmkStateAssumption == IsFiniteSet(Members) /\ MaxChanges \in Nat /\ MaxLosses \in Nat

None == "none"
Absent == -1     \* a series that is not in the file, a cell with no data

VARIABLES
    off,         \* members powered off
    cutoff,      \* the members partitioned away
    fenced,      \* member -> its fence actions in the history
    owner,       \* the member that holds the queue manager, or None
    daemon,      \* member -> its pacemaker unit is active
    wedged,      \* members whose collector does not run
    changes, losses,
    pc,          \* member -> the next probe of its tick
    crm, stonith, up,    \* member -> the readings of its tick; {} is none
    file         \* member -> its textfile
cluster == <<off, cutoff, fenced, owner, daemon, wedged>>
reads == <<crm, stonith, up>>
vars == <<cluster, changes, losses, pc, reads, file>>

NoFile == [online |-> [m \in Members |-> Absent], fence |-> [m \in Members |-> Absent],
           holder |-> None, daemon |-> Absent]

Init ==
    /\ off = {} /\ cutoff = {} /\ fenced = [m \in Members |-> 0] /\ owner \in Members
    /\ daemon = [m \in Members |-> TRUE] /\ wedged = {} /\ changes = 0 /\ losses = 0
    /\ pc = [m \in Members |-> "idle"] /\ file = [m \in Members |-> NoFile]
    /\ crm = [m \in Members |-> {}] /\ stonith = [m \in Members |-> {}] /\ up = [m \in Members |-> {}]

----------------------------------------------------------------------------
(* The cluster *)

Changes == changes < MaxChanges /\ changes' = changes + 1
Undisturbed == UNCHANGED <<losses, pc, reads, file>>
CutOff(m) ==
    /\ Changes /\ cutoff = {} /\ off = {} /\ cutoff' = {m}
    /\ UNCHANGED <<off, fenced, owner, daemon, wedged>> /\ Undisturbed
(* The others fence the cut-off member and take its resources. *)
Fence ==
    /\ \E m \in cutoff : \E w \in Members \ {m} :
          /\ off' = {m} /\ fenced' = [fenced EXCEPT ![m] = @ + 1]
          /\ owner' = IF owner = m THEN w ELSE owner
          /\ pc' = [pc EXCEPT ![m] = "idle"]
          /\ crm' = [crm EXCEPT ![m] = {}] /\ stonith' = [stonith EXCEPT ![m] = {}] /\ up' = [up EXCEPT ![m] = {}]
    /\ cutoff' = {} /\ UNCHANGED <<daemon, wedged, changes, losses, file>>
PowerOn ==
    /\ Changes /\ off # {} /\ off' = {}
    /\ UNCHANGED <<cutoff, fenced, owner, daemon, wedged>> /\ Undisturbed
DaemonTurns(m) ==
    /\ Changes /\ m # owner /\ daemon' = [daemon EXCEPT ![m] = ~@]
    /\ UNCHANGED <<off, cutoff, fenced, owner, wedged>> /\ Undisturbed
CollectorWedges(m) ==
    /\ Changes /\ pc[m] = "idle" /\ wedged' = wedged \cup {m}
    /\ UNCHANGED <<off, cutoff, fenced, owner, daemon>> /\ Undisturbed

Online(m) == m \notin off \cup cutoff /\ daemon[m]
(* crm_mon as member n runs it *)
crm_mon(n) == IF n \in cutoff THEN [online |-> {n}, holder |-> None]
              ELSE [online |-> {m \in Members : Online(m)}, holder |-> owner]

----------------------------------------------------------------------------
(* The collector *)

Answered(ok) == IF ok THEN UNCHANGED losses ELSE losses < MaxLosses /\ losses' = losses + 1
At(n, step, next) == pc[n] = step /\ n \notin off /\ pc' = [pc EXCEPT ![n] = next]
(* crm_mon and stonith_admin need the local cluster daemons. *)
Asks(n, ok) == IF daemon[n] THEN Answered(ok) ELSE ~ok /\ UNCHANGED losses

Begin(n) == At(n, "idle", "crm") /\ n \notin wedged /\ UNCHANGED <<cluster, changes, losses, reads, file>>
ProbeCrm(n, ok) ==
    /\ At(n, "crm", "stonith") /\ Asks(n, ok)
    /\ crm' = [crm EXCEPT ![n] = IF ok THEN {crm_mon(n)} ELSE {}]
    /\ UNCHANGED <<cluster, changes, stonith, up, file>>
(* Each reset or fence in the history counts for its member. *)
parse_stonith == fenced
ProbeStonith(n, ok) ==
    /\ At(n, "stonith", "daemons") /\ Asks(n, ok)
    /\ stonith' = [stonith EXCEPT ![n] = IF ok THEN {parse_stonith} ELSE {}]
    /\ UNCHANGED <<cluster, changes, crm, up, file>>
(* systemctl is-active exits non-zero for a unit that is down: still an answer. *)
probe_daemons(active) == IF active THEN {1} ELSE {0}
ProbeDaemons(n, ok) ==
    /\ At(n, "daemons", "publish") /\ Answered(ok)
    /\ up' = [up EXCEPT ![n] = IF ok THEN probe_daemons(daemon[n]) ELSE {}]
    /\ UNCHANGED <<cluster, changes, crm, stonith, file>>

fences(n) == IF stonith[n] = {} THEN [m \in Members |-> 0] ELSE CHOOSE f \in stonith[n] : TRUE
(* The baseline is tied to the members crm_mon names. *)
fence_series(n) == IF crm[n] = {} THEN [m \in Members |-> Absent] ELSE fences(n)
render(n) ==
    LET c == CHOOSE x \in crm[n] : TRUE
        Known(f) == IF crm[n] = {} THEN [m \in Members |-> Absent] ELSE f
    IN [online |-> Known([m \in Members |-> IF m \in c.online THEN 1 ELSE 0]),
        fence |-> fence_series(n),
        holder |-> IF crm[n] = {} THEN None ELSE c.holder,
        daemon |-> IF up[n] = {} THEN Absent ELSE CHOOSE x \in up[n] : TRUE]
Publish(n) ==
    /\ At(n, "publish", "idle") /\ file' = [file EXCEPT ![n] = render(n)]
    /\ crm' = [crm EXCEPT ![n] = {}] /\ stonith' = [stonith EXCEPT ![n] = {}] /\ up' = [up EXCEPT ![n] = {}]
    /\ UNCHANGED <<cluster, changes, losses>>

Tick(n) == Begin(n) \/ Publish(n)
           \/ \E ok \in BOOLEAN : ProbeCrm(n, ok) \/ ProbeStonith(n, ok) \/ ProbeDaemons(n, ok)
Next == \/ Fence \/ PowerOn
        \/ \E m \in Members : CutOff(m) \/ DaemonTurns(m) \/ CollectorWedges(m) \/ Tick(m)

(* The survivors fence; a tick that began ends, and the timer starts another. *)
Fairness == WF_vars(Fence) /\ \A n \in Members : WF_vars(Tick(n))
Spec == Init /\ [][Next]_vars /\ Fairness

----------------------------------------------------------------------------
(* The cockpit's compute rows *)

Scraped == Members \ off
(* max by (n)(...) *)
norm(samples) == LET vs == samples \ {Absent} IN IF vs = {} THEN Absent ELSE Max(vs)
cell_online(m) == norm({file[n].online[m] : n \in Scraped})
cell_fence(m) == norm({file[n].fence[m] : n \in Scraped})
cell_daemon(m) == IF m \in Scraped THEN file[m].daemon ELSE Absent
rows_held == {file[n].holder : n \in Scraped} \ {None}

TypeOK ==
    /\ cutoff \cap off = {} /\ Cardinality(off) <= 1
    /\ \A m \in Members : /\ cell_online(m) \in {Absent, 0, 1} /\ cell_daemon(m) \in {Absent, 0, 1}
                          /\ cell_fence(m) \in Absent..fenced[m]
                          /\ (file[m].online[m] = Absent) = (file[m].fence[m] = Absent)

(* Once the cluster and the probes rest, with the collectors alive and some
   member online, the rows tell the truth: who is online, who was fenced, whose
   daemons are down, and one row, the owner's, holds the queue manager. *)
RowsAgree ==
    wedged = {} /\ (\E m \in Members : Online(m)) =>
        /\ \A m \in Members : /\ cell_online(m) = (IF Online(m) THEN 1 ELSE 0) /\ cell_fence(m) = fenced[m]
                              /\ m \in Scraped => cell_daemon(m) = (IF daemon[m] THEN 1 ELSE 0)
        /\ rows_held = {owner}
RowsTrue == <>[]RowsAgree

(* Claimed, and not kept by the code.  The cockpit's design: "the
   authoritative cluster-wide view wins", and a collector that cannot run
   "must read stale, never healthy": with a live reporter, a member that stays
   offline does not stay green. *)
AuthoritativeWins ==
    <>[]((\E n \in Members \ wedged : Online(n)) => \A m \in Members : cell_online(m) = 1 => Online(m))

(* Claimed, and not kept by the code.  The cockpit's design: on a timeout a
   signal has no fresh sample "rather than ... guessing", "never a faked
   green". *)
NeverGuessed ==
    \A n \in Members : pc[n] = "publish" /\ stonith[n] = {} => \A m \in Members : render(n).fence[m] = Absent
=============================================================================
