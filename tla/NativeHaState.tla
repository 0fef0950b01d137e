---------------------------- MODULE NativeHaState ----------------------------
(***************************************************************************)
(* lab-nativeha-state.service on the nodes of a Native HA group: every 5 s *)
(* it runs lab-nativeha-state (nativehastate.py) and, when that succeeded, *)
(* lab-loglifecycle-state (loglifecycle.py), each writing a textfile.      *)
(*                                                                         *)
(* The group is external: a minority may be cut off, the active instance   *)
(* moves within the quorum, and dspmq reports Unknown for what it cannot   *)
(* say (a recovery group that waits to be rebased).                        *)
(***************************************************************************)
EXTENDS Integers, FiniteSets

CONSTANTS
    N,           \* instances of the group
    Observers,   \* the nodes whose collectors are followed
    MaxChanges,  \* bound on the changes of the group
    MaxLosses    \* bound on the probes that fail

NativeHaStateAssumption ==
    N \in Nat \ {0} /\ Observers \subseteq 1..N /\ MaxChanges \in Nat /\ MaxLosses \in Nat

Instances == 1..N
None == 0
Unknown == -1    \* a numeric field dspmq prints as Unknown
Absent == -2     \* a series that is not in the file
ROLE_CODE == [Active |-> 2, Replica |-> 1, Unknown |-> 0]

VARIABLES
    cutoff,      \* the minority partitioned away
    active,      \* the active instance, or None
    backlog,     \* of the recovery group: a count or Unknown
    disk,        \* what df prints: "ok" or "garbled"
    changes, losses,
    pc,          \* observer -> the next step of its service
    hax, grp,    \* observer -> the readings of its tick; {} is none
    file, log,   \* observer -> its two textfiles
    past         \* observer -> history: what a change made old, of "read" and "file"
group == <<cutoff, active, backlog, disk>>
vars == <<group, changes, losses, pc, hax, grp, file, log, past>>

majority_half(total) == total \div 2
majority(total) == total \div 2 + 1

NoFile == [quorate |-> Absent, role |-> [m \in Instances |-> Absent], holder |-> None, backlog |-> Absent]
NoLog == [used |-> Absent, extents |-> Absent, role |-> "unknown", stale |-> 1]

Init ==
    /\ cutoff = {} /\ active = 1 /\ backlog = 0 /\ disk = "ok" /\ changes = 0 /\ losses = 0
    /\ pc = [n \in Observers |-> "idle"] /\ hax = [n \in Observers |-> {}] /\ grp = [n \in Observers |-> {}]
    /\ file = [n \in Observers |-> NoFile] /\ log = [n \in Observers |-> NoLog] /\ past = [n \in Observers |-> {}]

----------------------------------------------------------------------------
(* The group *)

Change ==
    /\ changes < MaxChanges /\ changes' = changes + 1
    /\ past' = [n \in Observers |-> {"file"} \cup IF pc[n] \in {"g", "publish"} THEN {"read"} ELSE {}]
    /\ UNCHANGED <<losses, pc, hax, grp, file, log>>
Partition ==
    /\ Change /\ \E S \in SUBSET Instances : 2 * Cardinality(S) < N /\ S # cutoff /\ cutoff' = S
                                             /\ active' = IF active \in S THEN None ELSE active
    /\ UNCHANGED <<backlog, disk>>
Elect == Change /\ \E m \in Instances \ cutoff : m # active /\ active' = m /\ UNCHANGED <<cutoff, backlog, disk>>
Backlog == Change /\ \E b \in {Unknown, 0, 1} : b # backlog /\ backlog' = b /\ UNCHANGED <<cutoff, active, disk>>
Disk == Change /\ disk' \in {"ok", "garbled"} \ {disk} /\ UNCHANGED <<cutoff, active, backlog>>

Peers(n) == IF n \in cutoff THEN cutoff ELSE Instances \ cutoff
RoleSeen(n, m) == IF m \notin Peers(n) THEN "Unknown" ELSE IF m = active THEN "Active" ELSE "Replica"

----------------------------------------------------------------------------
(* The parsers *)

int_raises(v) == IF v = Unknown THEN {} ELSE {v}
(* A field that is not a number reads as missing. *)
int_or_none(v) == IF v = Unknown THEN {Absent} ELSE {v}

parse_nativeha_x(n) == [cur |-> Cardinality(Peers(n)), total |-> N, role |-> [m \in Instances |-> RoleSeen(n, m)]]
instance_role(n) == RoleSeen(n, n)

----------------------------------------------------------------------------
(* lab-nativeha-state *)

Answered(ok) == IF ok THEN UNCHANGED losses ELSE losses < MaxLosses /\ losses' = losses + 1
At(n, step, next) == pc[n] = step /\ pc' = [pc EXCEPT ![n] = next]

Begin(n) == At(n, "idle", "x") /\ UNCHANGED <<group, changes, losses, hax, grp, file, log, past>>
ProbeX(n, ok) ==
    /\ At(n, "x", "g") /\ Answered(ok)
    /\ hax' = [hax EXCEPT ![n] = IF ok THEN {parse_nativeha_x(n)} ELSE {}]
    /\ UNCHANGED <<group, changes, grp, file, log, past>>
(* A parser that raises would end the service here, before either file. *)
ProbeG(n, ok) ==
    /\ int_or_none(backlog) # {} /\ At(n, "g", "publish") /\ Answered(ok)
    /\ grp' = [grp EXCEPT ![n] = IF ok THEN int_or_none(backlog) ELSE {}]
    /\ UNCHANGED <<group, changes, hax, file, log, past>>
render(n) ==
    LET x == CHOOSE r \in hax[n] : TRUE IN
    [quorate |-> IF hax[n] = {} THEN Absent ELSE IF x.cur >= majority(x.total) THEN 1 ELSE 0,
     role |-> [m \in Instances |-> IF hax[n] = {} THEN Absent ELSE ROLE_CODE[x.role[m]]],
     holder |-> IF hax[n] # {} /\ \E m \in Instances : x.role[m] = "Active"
                THEN CHOOSE m \in Instances : x.role[m] = "Active" ELSE None,
     backlog |-> IF grp[n] = {} THEN Absent ELSE CHOOSE b \in grp[n] : TRUE]
Publish(n) ==
    /\ At(n, "publish", "log") /\ file' = [file EXCEPT ![n] = render(n)]
    /\ hax' = [hax EXCEPT ![n] = {}] /\ grp' = [grp EXCEPT ![n] = {}]
    /\ past' = [past EXCEPT ![n] = IF "read" \in @ THEN {"file"} ELSE {}]
    /\ UNCHANGED <<group, changes, losses, log>>

----------------------------------------------------------------------------
(* lab-loglifecycle-state: role, df and ls, of which one may
   fail; a garbled df parses to no value. *)

df_values == IF disk = "ok" THEN 1 ELSE Absent
LogTick(n, failed) ==
    /\ At(n, "log", "idle") /\ Answered(failed = "")
    /\ log' = [log EXCEPT ![n] = [used |-> IF failed # "df" THEN df_values ELSE Absent,
                                  extents |-> IF failed # "ls" THEN 1 ELSE Absent,
                                  role |-> IF failed # "role" THEN instance_role(n) ELSE "unknown",
                                  stale |-> IF failed \in {"df", "ls"} THEN 1 ELSE 0]]
    /\ UNCHANGED <<group, changes, hax, grp, file, past>>

Tick(n) == \/ Begin(n) \/ Publish(n)
           \/ \E ok \in BOOLEAN : ProbeX(n, ok) \/ ProbeG(n, ok)
           \/ \E failed \in {"", "role", "df", "ls"} : LogTick(n, failed)
Next == Partition \/ Elect \/ Backlog \/ Disk \/ \E n \in Observers : Tick(n)
Spec == Init /\ [][Next]_vars /\ \A n \in Observers : WF_vars(Tick(n))

----------------------------------------------------------------------------
TypeOK ==
    /\ active \in (Instances \ cutoff) \cup {None} /\ losses \in 0..MaxLosses
    /\ \A n \in Observers : /\ file[n].quorate \in {Absent, 0, 1} /\ file[n].backlog \in {Absent} \cup Nat
                            /\ (file[n].holder # None) = (\E m \in Instances : file[n].role[m] = 2)

(* No two sides of a partition are shown quorate, and no two instances active,
   by files as old as the group's last change. *)
OneQuorumShown ==
    \A n, m \in Observers : past[n] = {} /\ past[m] = {} =>
        /\ file[n].quorate = 1 /\ file[m].quorate = 1 => Peers(n) = Peers(m)
        /\ file[n].holder # None /\ file[m].holder # None => file[n].holder = file[m].holder

(***************************************************************************)
(* The strengthening that is inductive.  Those cut off are a minority; a   *)
(* reading no change has made old is what dspmq would still print, and a   *)
(* file no change has made old calls only the majority quorate and only    *)
(* the active instance active.                                             *)
(***************************************************************************)
ShapeInv ==
    /\ cutoff \subseteq Instances /\ 2 * Cardinality(cutoff) < N
    /\ pc \in [Observers -> {"idle", "x", "g", "publish", "log"}]
    /\ DOMAIN hax = Observers /\ DOMAIN file = Observers /\ past \in [Observers -> SUBSET {"read", "file"}]
ReadsInv ==
    \A n \in Observers : /\ pc[n] \notin {"g", "publish"} => hax[n] = {}
                         /\ "read" \notin past[n] => hax[n] \subseteq {parse_nativeha_x(n)}
ShownInv ==
    \A n \in Observers : "file" \notin past[n] => /\ file[n].quorate = 1 => n \notin cutoff
                                                  /\ file[n].holder # None => file[n].holder = active
NativeHaInv == ShapeInv /\ ReadsInv /\ ShownInv

(* A group that degrades and stays so is shown as it is: an Unknown backlog never
   blanks the node's roles nor stops the log collector behind it. *)
FilesAgree ==
    \A n \in Observers :
        /\ file[n].role[n] = ROLE_CODE[RoleSeen(n, n)] /\ file[n].quorate = (IF n \in cutoff THEN 0 ELSE 1)
        /\ file[n].backlog = (IF backlog = Unknown THEN Absent ELSE backlog)
        /\ log[n].role = RoleSeen(n, n) /\ (log[n].used = Absent) = (disk = "garbled")
DegradedShown == <>[]FilesAgree

(* Claimed, and not kept by the code.  loglifecycle.py: a garbled reading
   "degrades the cell to STALE". *)
GarbledIsStale == \A n \in Observers : log[n].used = Absent => log[n].stale = 1
=============================================================================
