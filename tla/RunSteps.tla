------------------------------- MODULE RunSteps -------------------------------
(***************************************************************************)
(* The run loop of a bootstrap (src/mqlab/orchestrator.py) over the boot   *)
(* batches of the vms phase (phases.py) and two later steps, with what the *)
(* perf recorder says of the run (perf.py, perfrun.py).                    *)
(*                                                                         *)
(* A step is one subprocess.  `vagrant up` of a batch boots its guests in  *)
(* parallel, or one after the other under --no-parallel; an attempt may    *)
(* fail after any of them came up, and a batch is attempted again with     *)
(* some guests running.  Seconds, labels and the text of notes are left    *)
(* out; Ctrl-C may come at any time, and so may the end of the process.    *)
(***************************************************************************)
EXTENDS Naturals, Sequences, FiniteSets

CONSTANTS
  AllVms,     \* the stack's guests and the commons, in the order of all_vms
  Infra,      \* the guests of the infra group (DNS)
  BoxOf,      \* guest -> the box volume its boot clones
  BootBatch,  \* topology boot_batch
  Attempts,   \* RetryPolicy.attempts of a boot step
  StepMode    \* --step

Guests == {AllVms[i] : i \in DOMAIN AllVms}

RunStepsAssumption ==
  /\ AllVms \in Seq(Guests) /\ Infra \subseteq Guests
  /\ BootBatch \in Nat \ {0} /\ Attempts \in Nat \ {0}
  /\ StepMode \in BOOLEAN

-----------------------------------------------------------------------------
(***************************************************************************)
(* The boot order: the infra guests first, the rest in the order of        *)
(* all_vms, in contiguous batches.                                         *)
(***************************************************************************)
\* Mutant: the order of all_vms, with the infra guests at the tail.
boot_order_unhoisted == AllVms

boot_order ==
  SelectSeq(AllVms, LAMBDA g : g \in Infra) \o SelectSeq(AllVms, LAMBDA g : g \notin Infra)

batch_guests(guests, size) ==
  LET n == Len(guests)
  IN  [k \in 1 .. ((n + size - 1) \div size) |->
        SubSeq(guests, (k - 1) * size + 1, IF k * size < n THEN k * size ELSE n)]

batch_shares_box(batch) ==
  \E i, j \in 1 .. Len(batch) : i # j /\ BoxOf[batch[i]] = BoxOf[batch[j]]

(***************************************************************************)
(* The steps of the run: the batches, then one step of the provision and   *)
(* one of the observe phase, which are not retried.                        *)
(***************************************************************************)
vms_build_steps ==
  LET batches == batch_guests(boot_order, BootBatch)
  IN  [k \in DOMAIN batches |->
        [phase |-> "vms", batch |-> batches[k], attempts |-> Attempts]]

Single(p) == [phase |-> p, batch |-> <<>>, attempts |-> 1]

Steps == vms_build_steps \o <<Single("provision"), Single("observe")>>

\* A batch two of whose guests clone one box is booted with --no-parallel.
serial(i) == batch_shares_box(Steps[i].batch)

InBatch(i) == {g \in Guests : \E k \in 1 .. Len(Steps[i].batch) : Steps[i].batch[k] = g}

\* Where guest g stands on the command line of step i.
Position(i, g) == CHOOSE k \in 1 .. Len(Steps[i].batch) : Steps[i].batch[k] = g

-----------------------------------------------------------------------------
VARIABLES
  pc,        \* where the main thread stands
  index,     \* the step it runs
  attempt,   \* which attempt of it
  dom,       \* guest -> "off", "booting" or "up"
  tried,     \* the guests this attempt has dealt with
  fault,     \* a guest of this attempt failed to boot
  staged,    \* the boxes whose base volume is in the pool
  steps,     \* PerfRecord.steps
  batches,   \* BootstrapPerf._batches: the registered boot steps
  outcome,   \* BootstrapPerf._outcome
  exit,      \* how the process ended
  report,    \* the perf report on disk, <<>> if there is none
  ran        \* history: how often each step's command was run, up to Attempts + 1

vars == <<pc, index, attempt, dom, tried, fault, staged, steps, batches, outcome, exit, report, ran>>
command == <<dom, tried, fault, staged>>

TypeOK ==
  /\ pc \in {"run", "vagrant", "backoff", "pause", "finish", "exited"}
  /\ index \in 1 .. (Len(Steps) + 1) /\ attempt \in 0 .. Attempts
  /\ dom \in [Guests -> {"off", "booting", "up"}]
  /\ tried \subseteq Guests /\ fault \in BOOLEAN
  /\ staged \subseteq {BoxOf[g] : g \in Guests}
  /\ steps \in Seq([index : DOMAIN Steps, retries : Nat, ok : BOOLEAN])
  /\ batches \subseteq DOMAIN Steps
  /\ outcome \in {"none", "failed", "completed"}
  /\ exit \in {"none", "ok", "step", "notty", "interrupt", "killed"}
  /\ ran \in [DOMAIN Steps -> Nat]

(***************************************************************************)
(* A bootstrap finds some guests up, left by an earlier run, with their    *)
(* boxes staged.  register_phase has noted the batches.                    *)
(***************************************************************************)
Init ==
  /\ pc = "run" /\ index = 1 /\ attempt = 0
  /\ dom \in [Guests -> {"off", "up"}]
  /\ tried = {} /\ fault = FALSE
  /\ staged = {BoxOf[g] : g \in {h \in Guests : dom[h] = "up"}}
  /\ steps = <<>> /\ batches = {} /\ outcome = "none"
  /\ exit = "none" /\ report = <<>>
  /\ ran = [i \in DOMAIN Steps |-> 0]

-----------------------------------------------------------------------------
RanOnce == ran' = [ran EXCEPT ![index] = IF @ > Attempts THEN @ ELSE @ + 1]

(***************************************************************************)
(* Starting an attempt of the current step.                                *)
(***************************************************************************)
Attempt ==
  /\ attempt' = attempt + 1
  /\ RanOnce

register_phase ==
  batches' = IF index = 1 THEN {i \in DOMAIN Steps : Steps[i].phase = "vms"} ELSE batches

RunCommand ==
  /\ pc = "run" /\ index \leq Len(Steps)
  /\ Attempt
  /\ register_phase
  /\ pc' = "vagrant" /\ tried' = {} /\ fault' = FALSE
  /\ UNCHANGED <<index, dom, staged, steps, outcome, exit, report>>

(***************************************************************************)
(* vagrant up: a guest that is up is skipped; under --no-parallel the      *)
(* guests are taken in the listed order, one at a time.                    *)
(***************************************************************************)
StartBoot(g) ==
  /\ pc = "vagrant" /\ g \in InBatch(index) \ tried
  /\ dom[g] = "off"
  /\ serial(index) =>
       /\ ~fault
       /\ \A h \in InBatch(index) :
            Position(index, h) < Position(index, g) => dom[h] = "up"
  /\ dom' = [dom EXCEPT ![g] = "booting"]
  /\ tried' = tried \cup {g}
  /\ UNCHANGED <<pc, index, attempt, fault, staged, steps, batches, outcome, exit, report, ran>>

BootDone(g) ==
  /\ pc = "vagrant" /\ dom[g] = "booting"
  /\ dom' = [dom EXCEPT ![g] = "up"]
  /\ staged' = staged \cup {BoxOf[g]}
  /\ UNCHANGED <<pc, index, attempt, tried, fault, steps, batches, outcome, exit, report, ran>>

(***************************************************************************)
(* A boot that fails: the guest is not created, or it runs and is not      *)
(* reached over SSH in time.                                               *)
(***************************************************************************)
BootFails(g) ==
  /\ pc = "vagrant" /\ dom[g] = "booting"
  /\ \/ dom' = [dom EXCEPT ![g] = "off"] /\ UNCHANGED staged
     \/ dom' = [dom EXCEPT ![g] = "up"] /\ staged' = staged \cup {BoxOf[g]}
  /\ fault' = TRUE
  /\ UNCHANGED <<pc, index, attempt, tried, steps, batches, outcome, exit, report, ran>>

Booting == \E g \in Guests : dom[g] = "booting"

ExitZero ==
  /\ pc = "vagrant" /\ ~fault
  /\ \A g \in InBatch(index) : dom[g] = "up"

ExitNonZero == pc = "vagrant" /\ ~Booting /\ (fault \/ Steps[index].batch = <<>>)

(***************************************************************************)
(* What run_steps and _run_step_with_retry do with the exit code.          *)
(***************************************************************************)
Recorded(ok) == Append(steps, [index |-> index, retries |-> attempt - 1, ok |-> ok])

StepOk ==
  /\ ExitZero
  /\ steps' = Recorded(TRUE)
  /\ index' = index + 1 /\ attempt' = 0
  /\ pc' = IF StepMode /\ index < Len(Steps) THEN "pause" ELSE "run"
  /\ UNCHANGED <<command, batches, outcome, exit, report, ran>>

\* Mutant: the bound is on the retries, not on the attempts.
exhausted_late == attempt > Steps[index].attempts

exhausted == attempt \geq Steps[index].attempts

StepRetries ==
  /\ ExitNonZero /\ ~exhausted
  /\ pc' = "backoff"
  /\ UNCHANGED <<index, attempt, command, steps, batches, outcome, exit, report, ran>>

RunAgain ==
  /\ pc = "backoff"
  /\ Attempt
  /\ pc' = "vagrant" /\ tried' = {} /\ fault' = FALSE
  /\ UNCHANGED <<index, dom, staged, steps, batches, outcome, exit, report>>

StepFails ==
  /\ ExitNonZero /\ exhausted
  /\ steps' = Recorded(FALSE)
  /\ outcome' = "failed" /\ exit' = "step"
  /\ pc' = "finish"
  /\ UNCHANGED <<index, attempt, command, batches, report, ran>>

(***************************************************************************)
(* --step: the operator presses enter, or there is no terminal to ask on.  *)
(***************************************************************************)
wait ==
  /\ pc = "pause"
  /\ \/ pc' = "run" /\ UNCHANGED exit
     \/ pc' = "finish" /\ exit' = "notty"
  /\ UNCHANGED <<index, attempt, command, steps, batches, outcome, report, ran>>

Completed ==
  /\ pc = "run" /\ index > Len(Steps)
  /\ outcome' = "completed" /\ exit' = "ok" /\ pc' = "finish"
  /\ UNCHANGED <<index, attempt, command, steps, batches, report, ran>>

(***************************************************************************)
(* Ctrl-C unwinds to the finally clause; guests in the middle of a boot    *)
(* may end either way.                                                     *)
(***************************************************************************)
Settle ==
  dom' \in {d \in [Guests -> {"off", "up"}] : \A g \in Guests : dom[g] # "booting" => d[g] = dom[g]}

Interrupt ==
  /\ pc \in {"run", "vagrant", "backoff", "pause"}
  /\ exit' = "interrupt" /\ pc' = "finish"
  /\ Settle
  /\ staged' = staged \cup {BoxOf[g] : g \in {h \in Guests : dom'[h] = "up"}}
  /\ UNCHANGED <<index, attempt, tried, fault, steps, batches, outcome, report, ran>>

Killed ==
  /\ pc \notin {"exited"}
  /\ exit' = "killed" /\ pc' = "exited"
  /\ Settle
  /\ staged' = staged \cup {BoxOf[g] : g \in {h \in Guests : dom'[h] = "up"}}
  /\ UNCHANGED <<index, attempt, tried, fault, steps, batches, outcome, report, ran>>

-----------------------------------------------------------------------------
(***************************************************************************)
(* BootstrapPerf.finish: the milestones of the recorded batches and the    *)
(* report.  A write that fails is noted and changes nothing else.          *)
(***************************************************************************)
boot_milestones ==
  UNION {InBatch(steps[k].index) :
           k \in {j \in DOMAIN steps : steps[j].index \in batches /\ steps[j].ok}}

untimed ==
  UNION {InBatch(i) : i \in {b \in batches :
           ~\E k \in DOMAIN steps : steps[k].index = b /\ steps[k].ok}}

finish ==
  /\ pc = "finish"
  /\ \/ report' = [steps |-> steps, outcome |-> outcome,
                   booted |-> boot_milestones, untimed |-> untimed]
     \/ UNCHANGED report
  /\ pc' = "exited"
  /\ UNCHANGED <<index, attempt, command, steps, batches, outcome, exit, ran>>

Run ==
  \/ RunCommand
  \/ \E g \in Guests : StartBoot(g) \/ BootDone(g)
  \/ StepOk \/ StepRetries \/ RunAgain \/ StepFails \/ wait \/ Completed \/ finish

Next ==
  \/ Run
  \/ \E g \in Guests : BootFails(g)
  \/ Interrupt
  \/ Killed

Spec == Init /\ [][Next]_vars /\ WF_vars(Run)

-----------------------------------------------------------------------------
(***************************************************************************)
(* Two boots that clone one box are never under way together before the    *)
(* box's volume is staged: the race --no-parallel exists to prevent        *)
(* (_batch_shares_box), also when a batch is attempted again.              *)
(***************************************************************************)
NoStagingRace ==
  \A g, h \in Guests :
    g # h /\ dom[g] = "booting" /\ dom[h] = "booting" /\ BoxOf[g] = BoxOf[h] =>
      BoxOf[g] \in staged

(***************************************************************************)
(* The inductive invariant behind it: a boot under way is one of the       *)
(* current step's, and under --no-parallel all the guests listed before it *)
(* are up, so that no second one is under way.                             *)
(***************************************************************************)
StagingInv ==
  /\ dom \in [Guests -> {"off", "booting", "up"}]
  /\ \A g \in Guests : dom[g] = "booting" =>
       /\ pc = "vagrant" /\ g \in InBatch(index)
       /\ serial(index) =>
            \A h \in InBatch(index) : Position(index, h) < Position(index, g) => dom[h] = "up"

(***************************************************************************)
(* The DNS guests come before their dependents: while any guest of a later *)
(* batch starts, every infra guest that precedes it is up, whatever the    *)
(* retries and whatever an earlier run left (_boot_order).                 *)
(***************************************************************************)
ResolverFirstStep ==
  \A g \in Guests \ Infra : dom[g] = "off" /\ dom'[g] = "booting" =>
    \A r \in Infra : dom[r] = "up" \/ r \in InBatch(index)
ResolverFirst == [][ResolverFirstStep]_vars

(***************************************************************************)
(* The record agrees with what was run: its steps are the run's steps in   *)
(* order, each was run once more than its retries say and within its       *)
(* bound, and only the last can be a failure.                              *)
(***************************************************************************)
RecordTrue ==
  /\ \A k \in DOMAIN steps :
       /\ steps[k].index = k
       /\ ran[k] = steps[k].retries + 1 /\ ran[k] \leq Steps[k].attempts
       /\ steps[k].ok \/ (k = Len(steps) /\ exit \in {"step", "killed"})
  /\ \A i \in DOMAIN Steps : i > Len(steps) + 1 => ran[i] = 0
  /\ exit = "step" => steps # <<>> /\ ~steps[Len(steps)].ok

(***************************************************************************)
(* A report that was written tells how the run ended, and gives a boot     *)
(* time to exactly the guests whose batch succeeded.                       *)
(***************************************************************************)
ReportTrue ==
  report # <<>> =>
    /\ report.outcome = "completed" <=> exit = "ok"
    /\ report.outcome = "failed" <=> exit = "step"
    /\ \A i \in DOMAIN Steps : \A g \in InBatch(i) :
         /\ g \in report.booted => i < index
         /\ i < index => g \in report.booted
         /\ g \in report.untimed => ~(i < index)

(***************************************************************************)
(* Every run ends: the retries are bounded and no boot is waited for       *)
(* without end.                                                            *)
(***************************************************************************)
Exited == pc = "exited"
RunEnds == <>Exited
=============================================================================
