------------------------------ MODULE Cutover ------------------------------
(***************************************************************************)
(* A controlled cross-site cutover: `mqlab dr cutover` (cli.py) runs       *)
(* rdqm-dr-cutover.sh on an RDQM stack; pcmk-dr-cutover.sh does the same   *)
(* for the Pacemaker/SAN arm.  Messages are numbered as they are committed *)
(* at the live site; the recovery copy holds a prefix of them.             *)
(*                                                                         *)
(* Replication (DRBD) is external: it ships in order while the link is up; *)
(* after an interruption it resynchronises first, and a demotion then      *)
(* leaves the copy where it is, where otherwise it catches up.  A copy cut *)
(* off from its peer may still be promoted.  A script ends at its first    *)
(* failing step; the operator may run it again.                            *)
(***************************************************************************)
EXTENDS Naturals

CONSTANTS MaxMsgs, MaxFaults, MaxRuns    \* bounds: commits, link faults, runs

CutoverAssumption == MaxMsgs \in Nat /\ MaxFaults \in Nat /\ MaxRuns \in Nat

Arms == {"rdqm", "pcmk"}
Pcs == {"idle", "discover", "gate", "quiesce", "demote", "promote", "settle", "verify", "rpo0",
        "start", "complete"}

VARIABLES
    arm,
    written, copy,    \* messages committed; those on the recovery copy
    link,             \* "up", "resync" or "broken"
    role,             \* site -> "primary" or "secondary"
    qm,               \* site -> "running" or "ended"
    pc,               \* the next step of the script, "idle", or "complete"
    drill, rpo0,      \* --rpo0-drill; whether the verb implements it
    token,            \* the seeded message, 0 if none
    verified,         \* "RPO-0 VERIFIED" was printed
    runs, faults,
    gated             \* history: the link has been up since the gate passed
vars == <<arm, written, copy, link, role, qm, pc, drill, rpo0, token, verified, runs, faults, gated>>
script == <<arm, drill, rpo0, runs>>
data == <<written, copy, token>>
sites == <<role, qm>>

Init ==
    /\ arm \in Arms /\ rpo0 = (arm = "rdqm")
    /\ written = 0 /\ copy = 0 /\ link = "up"
    /\ role = [from |-> "primary", to |-> "secondary"]
    /\ qm = [from |-> "running", to |-> "ended"]
    /\ pc = "idle" /\ drill = FALSE /\ token = 0 /\ verified = FALSE
    /\ runs = 0 /\ faults = 0 /\ gated = FALSE

----------------------------------------------------------------------------
(* The queue manager, the replication and its faults *)

Commit ==
    /\ qm.from = "running" /\ role.from = "primary" /\ written < MaxMsgs
    /\ written' = written + 1
    /\ UNCHANGED <<copy, token, link, sites, pc, verified, faults, gated, script>>
Ship ==
    /\ link # "broken" /\ copy < written /\ role.to = "secondary" /\ copy' = copy + 1
    /\ link' = IF copy' = written THEN "up" ELSE link
    /\ UNCHANGED <<written, token, sites, pc, verified, faults, gated, script>>
LinkBreaks ==
    /\ link # "broken" /\ faults < MaxFaults /\ faults' = faults + 1
    /\ link' = "broken" /\ gated' = FALSE
    /\ UNCHANGED <<data, sites, pc, verified, script>>
LinkRestored ==
    /\ link = "broken" /\ role.to = "secondary"
    /\ link' = IF copy = written THEN "up" ELSE "resync"
    /\ UNCHANGED <<data, sites, pc, verified, faults, gated, script>>

----------------------------------------------------------------------------
(* The verb *)

(* A drill the verb does not implement is refused before anything runs. *)
drill_refused(d) == d /\ ~rpo0

Start ==
    /\ pc = "idle" /\ runs < MaxRuns
    /\ \E d \in BOOLEAN : ~drill_refused(d) /\ drill' = d
    /\ runs' = runs + 1 /\ gated' = FALSE
    /\ pc' = IF arm = "rdqm" THEN "discover" ELSE "quiesce"
    /\ UNCHANGED <<arm, rpo0, data, link, sites, verified, faults>>

At(a, step) == arm = a /\ pc = step
Goto(step) == pc' = step
(* A step fails: the script ends. *)
Fails == pc \notin {"idle", "complete"} /\ pc' = "idle"
         /\ UNCHANGED <<data, link, sites, verified, faults, gated, script>>
Quiet == UNCHANGED <<link, verified, faults, gated, script>>

----------------------------------------------------------------------------
(* rdqm-dr-cutover.sh *)

(* Both HA primaries are resolved; with a drill, a persistent message is put. *)
DiscoverAndSeed ==
    /\ At("rdqm", "discover") /\ Goto("gate")
    /\ IF drill
       THEN /\ qm.from = "running" /\ role.from = "primary" /\ written < MaxMsgs
            /\ written' = written + 1 /\ token' = written'
       ELSE UNCHANGED <<written, token>>
    /\ UNCHANGED <<copy, sites>> /\ Quiet

in_sync_any == TRUE
(* DR status Normal. *)
in_sync == link = "up"

(* confirm_dr_in_sync: polled until it holds; a timeout is a failed step. *)
Gate ==
    /\ At("rdqm", "gate") /\ in_sync /\ Goto("demote")
    /\ gated' = TRUE
    /\ UNCHANGED <<data, sites, link, verified, faults, script>>

(* A demotion ends the queue manager; in sync, the copy catches up.  In the
   pcmk arm, where a failed standby is ignored, it is the disk that goes: the
   LUN is withdrawn, and a queue manager without its disk counts as ended. *)
Demote ==
    /\ role' = [role EXCEPT !.from = "secondary"] /\ qm' = [qm EXCEPT !.from = "ended"]
    /\ copy' = IF link = "up" THEN written ELSE copy
    /\ UNCHANGED <<written, token>>
RdqmDemote == At("rdqm", "demote") /\ Demote /\ Goto("promote") /\ Quiet
RdqmPromote ==
    /\ At("rdqm", "promote") /\ Goto("settle")
    /\ role' = [role EXCEPT !.to = "primary"]
    /\ \E q \in {"running", "ended"} : qm' = [qm EXCEPT !.to = q]   \* HA may block it
    /\ UNCHANGED data /\ Quiet
(* wait_ha_settle only warns; the floating IP is checked or added. *)
Settle ==
    /\ At("rdqm", "settle") /\ Goto("verify")
    /\ \E q \in {qm.to, "running"} : qm' = [qm EXCEPT !.to = q]
    /\ UNCHANGED <<data, role>> /\ Quiet
Verify ==
    /\ At("rdqm", "verify") /\ role.to = "primary" /\ qm.to = "running"
    /\ Goto(IF drill THEN "rpo0" ELSE "complete")
    /\ UNCHANGED <<data, sites>> /\ Quiet
rpo0_verify ==
    /\ At("rdqm", "rpo0") /\ token <= copy
    /\ Goto("complete") /\ verified' = TRUE
    /\ UNCHANGED <<data, link, sites, faults, gated, script>>

----------------------------------------------------------------------------
(* pcmk-dr-cutover.sh *)

(* Standby may fail and is ignored; the wait for the unmount gives up. *)
Quiesce ==
    /\ At("pcmk", "quiesce") /\ Goto("demote")
    /\ \E q \in {"running", "ended"} : qm' = [qm EXCEPT !.from = IF @ = "ended" THEN @ ELSE q]
    /\ UNCHANGED <<data, role>> /\ Quiet
(* The replication status is shown; the LUN is withdrawn and DRBD demoted. *)
PcmkDemote == At("pcmk", "demote") /\ Demote /\ Goto("promote") /\ Quiet
PcmkPromote ==
    /\ At("pcmk", "promote") /\ Goto("start")
    /\ role' = [role EXCEPT !.to = "primary"]
    /\ UNCHANGED <<data, qm>> /\ Quiet
(* Export, attach and enable the group; nothing asks whether it runs. *)
StartGroup ==
    /\ At("pcmk", "start") /\ Goto("complete")
    /\ \E q \in {"running", "ended"} : qm' = [qm EXCEPT !.to = q]
    /\ UNCHANGED <<data, role>> /\ Quiet

Next ==
    \/ Commit \/ Ship \/ LinkBreaks \/ LinkRestored \/ Start \/ Fails
    \/ DiscoverAndSeed \/ Gate \/ RdqmDemote \/ RdqmPromote \/ Settle \/ Verify \/ rpo0_verify
    \/ Quiesce \/ PcmkDemote \/ PcmkPromote \/ StartGroup
Spec == Init /\ [][Next]_vars

----------------------------------------------------------------------------
TypeOK ==
    /\ arm \in Arms /\ written \in 0..MaxMsgs /\ copy \in 0..written /\ token \in 0..written
    /\ link \in {"up", "resync", "broken"}
    /\ role \in [from : {"primary", "secondary"}, to : {"primary", "secondary"}]
    /\ qm \in [from : {"running", "ended"}, to : {"running", "ended"}]
    /\ pc \in Pcs /\ drill \in BOOLEAN /\ rpo0 \in BOOLEAN /\ verified \in BOOLEAN
    /\ runs \in 0..MaxRuns /\ faults \in 0..MaxFaults /\ gated \in BOOLEAN

(* At no step of either script, nor after one that failed and was run again, is
   the queue manager live at both sites. *)
OneLiveSite ==
    /\ ~(role.from = "primary" /\ role.to = "primary")
    /\ ~(qm.from = "running" /\ role.from = "primary" /\ qm.to = "running")

(* The RDQM cutover loses nothing that was committed, unless the link broke
   after the gate had passed. *)
GatedCutLosesNothing == arm = "rdqm" /\ role.to = "primary" /\ gated => copy = written

(* An operator who asked for the drill and sees the cutover complete has the
   seeded message verified at the peer: no silent pass. *)
NoSilentPass == pc = "complete" /\ drill => verified /\ token # 0 /\ token <= copy

(* The cutover scripts, also failed and run again: the queue manager is never live
   at both sites, the RDQM one loses nothing that was committed unless the link
   broke after its gate had passed, and a drill that completes has its seeded
   message verified at the peer. *)
CutoverSound == OneLiveSite /\ GatedCutLosesNothing /\ NoSilentPass

(* Why they hold.  The sites: a promotion waits for the demotion, which nothing
   undoes.  The copy: from the gate on it follows an unbroken link, and after the
   demotion nothing more is committed.  The drill: a seeded message precedes the
   gate and is verified before the end. *)
SitesInv ==
    /\ role.from = "secondary" => qm.from = "ended"
    /\ role.to = "primary" \/ qm.to = "running" => role.from = "secondary"
    /\ pc \in {"promote", "settle", "verify", "rpo0", "start", "complete"} => role.from = "secondary"
CopyInv ==
    /\ gated => link = "up"
    /\ role.from = "secondary" /\ link = "up" => copy = written
DrillInv ==
    /\ rpo0 = (arm = "rdqm") /\ (drill => rpo0)
    /\ drill /\ pc \in {"gate", "demote", "promote", "settle", "verify", "rpo0", "complete"} => token # 0
    /\ drill /\ pc = "complete" => verified /\ token <= copy
CutoverInv == TypeOK /\ SitesInv /\ CopyInv /\ DrillInv

(* Claimed, and not kept by the code.  rdqm-dr-cutover.sh: "an incomplete
   recovery copy is never activated". *)
NeverIncomplete == arm = "rdqm" /\ role.to = "primary" => copy = written

(* Claimed, and not kept by the code.  pcmk-dr-cutover.sh's discipline:
   replication is confirmed caught up before DRBD flips. *)
CaughtUpBeforeFlip == arm = "pcmk" /\ role.to = "primary" => copy = written

(* Claimed, and not kept by the code.  pcmk-dr-cutover.sh prints that the live
   site is now the peer. *)
CompleteIsLive == pc = "complete" => qm.to = "running"
=============================================================================
