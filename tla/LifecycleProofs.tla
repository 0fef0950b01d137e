--------------------------- MODULE LifecycleProofs ---------------------------
(***************************************************************************)
(* Theorems about Lifecycle, for every set of stacks, guests and operating *)
(* systems.                                                                *)
(***************************************************************************)
EXTENDS Lifecycle, FiniteSetTheorems, TLAPS

LEMMA GuestFacts ==
  /\ Commons \subseteq Guests /\ ObsBox \subseteq Commons /\ SvcBox \subseteq Commons
  /\ \A s \in Stacks : Members(s) \subseteq Guests
  /\ \A s \in Stacks, no_dr \in BOOLEAN : all_vms(s, no_dr) \subseteq Guests
BY DEF Guests, Commons, Members, all_vms

LEMMA CardinalityType ==
  ASSUME NEW S \in SUBSET Guests
  PROVE  Cardinality(S) \in Nat
BY FS_Subset, FS_CardinalityType, LifecycleAssumption

LEMMA UsedType == Used \in Nat
<1>1. Cardinality({g \in Guests : is_live(dom, g)}) \in Nat
  BY CardinalityType
<1> QED BY <1>1 DEF Used

LEMMA IdleType == Idle \in Job
BY LifecycleAssumption DEF Idle, Job, DomStates, Plays, Commands

LEMMA PlanType ==
  ASSUME NEW G \in SUBSET Guests, NEW st
  PROVE  plan_destroy(G, st) \in SUBSET (Guests \X Commands)
BY DEF plan_destroy, Commands

LEMMA UpdateType ==
  ASSUME op \in [Ops -> Job], NEW o \in Ops, NEW j \in Job, Update(o, j)
  PROVE  /\ op' \in [Ops -> Job]
         /\ op'[o] = j
         /\ \A p \in Ops \ {o} : op'[p] = op[p]
BY DEF Update

LEMMA AdvanceType ==
  ASSUME op \in [Ops -> Job], NEW o \in Ops, NEW p \in Phases, Advance(o, p)
  PROVE  /\ op' \in [Ops -> Job]
         /\ \E pc \in {"done", "phase"} :
              /\ pc = "phase" => p # 4
              /\ op'[o] = [op[o] EXCEPT !.pc = pc, !.phase = p + 1]
         /\ \A q \in Ops \ {o} : op'[q] = op[q]
<1> DEFINE pc == IF p = 4 \/ op[o].mode = "only" THEN "done" ELSE "phase"
<1>1. pc \in {"done", "phase"} /\ p + 1 \in 1..5 /\ (pc = "phase" => p # 4)
  BY DEF Phases
<1>2. Update(o, [op[o] EXCEPT !.pc = pc, !.phase = p + 1])
  BY DEF Advance
<1> HIDE DEF pc
<1>j. op[o] \in Job
  OBVIOUS
<1>3. [op[o] EXCEPT !.pc = pc, !.phase = p + 1] \in Job
  BY <1>1, <1>j DEF Job
<1> QED BY <1>1, <1>2, <1>3, UpdateType

LEMMA StartType ==
  ASSUME TypeOK, NEW o \in Ops, NEW j \in Job, NewJob(o, j)
  PROVE  op' \in [Ops -> Job] /\ jobs' \in 0..MaxJobs
BY UpdateType, LifecycleAssumption DEF TypeOK, NewJob

LEMMA TypeBootstrap ==
  ASSUME TypeOK, NEW o \in Ops, Bootstrap(o)
  PROVE  TypeOK'
<1>j. op[o] \in Job
  BY DEF TypeOK
<1>1. ASSUME NEW s \in Stacks, NEW config \in Oses \cup {NoOs}, NEW no_dr \in BOOLEAN,
             NEW mode \in {"auto", "from", "only"}, NEW p \in Phases,
             BootstrapStart(o, s, config, no_dr, mode, p)
      PROVE  TypeOK'
  <2> DEFINE os == IF config # NoOs THEN config ELSE IF rec[s] # NoOs THEN rec[s] ELSE DefaultOs
             live == rec[s] = NoOs /\ AnyLive(dom, Members(s))
  <2>1. os \in Oses /\ live \in BOOLEAN /\ p \in 1..5
    BY LifecycleAssumption DEF TypeOK, Phases
  <2> HIDE DEF os, live
  <2>2. [Idle EXCEPT !.pc = "pin", !.stack = s, !.no_dr = no_dr, !.mode = mode, !.phase = p,
                     !.os = os, !.live = live] \in Job
    BY <2>1, IdleType DEF Job
  <2> QED
    BY <1>1, <2>2, StartType DEF TypeOK, BootstrapStart, host, provisioned, os, live
<1>2. CASE reconcile(o)
  <2>1. [op[o] EXCEPT !.pc = "probe"] \in Job
    BY <1>j DEF Job
  <2>2. op[o].stack \in Stacks /\ op[o].os \in Oses
    BY <1>j DEF Job
  <2> QED
    BY <1>2, <2>1, <2>2, IdleType, UpdateType DEF TypeOK, reconcile, Exit, host, provisioned
<1>3. CASE probe_all(o)
  <2>1. PICK p \in 1..5, pc \in {"done", "reserve", "phase"}, snap \in [Guests -> DomStates] :
          Update(o, [op[o] EXCEPT !.phase = p, !.fell = {}, !.skips = p > 3, !.snap = snap, !.pc = pc])
    <3>1. op[o].snap \in [Guests -> DomStates]
      BY <1>j DEF Job
    <3> QED BY <1>3, <3>1 DEF probe_all, TypeOK
  <2>2. [op[o] EXCEPT !.phase = p, !.fell = {}, !.skips = p > 3, !.snap = snap, !.pc = pc] \in Job
    <3> DEFINE b == p > 3
    <3>1. b \in BOOLEAN
      OBVIOUS
    <3> HIDE DEF b
    <3>2. [op[o] EXCEPT !.phase = p, !.fell = {}, !.skips = b, !.snap = snap, !.pc = pc] \in Job
      BY <1>j, <3>1 DEF Job
    <3> QED BY <3>2 DEF b
  <2> QED
    BY <1>3, <2>1, <2>2, UpdateType DEF TypeOK, probe_all, host, provisioned
<1>4. CASE net_phase(o)
  <2>1. op' \in [Ops -> Job]
    <3>1. Advance(o, 1) /\ 1 \in Phases /\ op \in [Ops -> Job]
      BY <1>4 DEF TypeOK, net_phase, Phases
    <3> QED BY <3>1, AdvanceType
  <2> QED
    BY <1>4, <2>1 DEF TypeOK, net_phase, provisioned
<1>5. CASE vms_phase(o)
  <2>1. [op[o] EXCEPT !.pc = "boot", !.todo = all_vms(op[o].stack, op[o].no_dr)] \in Job
    BY <1>j, GuestFacts DEF Job
  <2> QED
    BY <1>5, <2>1, UpdateType DEF TypeOK, vms_phase, reconcile_box_meta, provisioned
<1>6. ASSUME NEW g \in Guests, vagrant_up(o, g) PROVE TypeOK'
  <2>1. [op[o] EXCEPT !.todo = op[o].todo \ {g}] \in Job
    BY <1>j DEF Job
  <2>2. Box(o, g) \in Oses
    BY <1>j, LifecycleAssumption DEF Box, Job
  <2> QED
    BY <1>6, <2>1, <2>2, UpdateType DEF TypeOK, vagrant_up, DomStates, provisioned
<1>7. CASE vms_done(o)
  <2>1. op' \in [Ops -> Job]
    <3>1. Advance(o, 2) /\ 2 \in Phases /\ op \in [Ops -> Job]
      BY <1>7 DEF TypeOK, vms_done, Phases
    <3> QED BY <3>1, AdvanceType
  <2> QED
    BY <1>7, <2>1 DEF TypeOK, vms_done, host, provisioned
<1>8. CASE provision_phase(o)
  <2> DEFINE plays == IF op[o].no_dr THEN Plays \ {"dr"} ELSE Plays
  <2>1. plays \subseteq Plays
    OBVIOUS
  <2> HIDE DEF plays
  <2>2. [op[o] EXCEPT !.pc = "play", !.plays = plays] \in Job
    BY <1>j, <2>1 DEF Job
  <2> QED
    BY <1>8, <2>2, UpdateType DEF TypeOK, provision_phase, host, provisioned, plays
<1>9. ASSUME NEW p \in Plays, play(o, p) PROVE TypeOK'
  <2>1. [op[o] EXCEPT !.plays = op[o].plays \ {p}] \in Job
    BY <1>j DEF Job
  <2>2. op[o].stack \in Stacks
    BY <1>j DEF Job
  <2> QED
    BY <1>9, <2>1, <2>2, UpdateType DEF TypeOK, play, host
<1>10. CASE provision_done(o)
  <2>1. op' \in [Ops -> Job]
    <3>1. Advance(o, 3) /\ 3 \in Phases /\ op \in [Ops -> Job]
      BY <1>10 DEF TypeOK, provision_done, Phases
    <3> QED BY <3>1, AdvanceType
  <2> QED
    BY <1>10, <2>1 DEF TypeOK, provision_done, host, provisioned
<1>11. CASE observe_phase(o)
  <2>1. op' \in [Ops -> Job]
    <3>1. Advance(o, 4) /\ 4 \in Phases /\ op \in [Ops -> Job]
      BY <1>11 DEF TypeOK, observe_phase, Phases
    <3> QED BY <3>1, AdvanceType
  <2>2. op[o].stack \in Stacks
    BY <1>j DEF Job
  <2> QED
    BY <1>11, <2>1, <2>2 DEF TypeOK, observe_phase, host
<1>12. CASE reserve_hugepages(o)
  <2>1. [op[o] EXCEPT !.snap = Idle.snap,
                      !.pc = IF op[o].verb = "bootstrap" THEN "phase" ELSE "boot"] \in Job
    <3>1. Idle.snap \in [Guests -> DomStates]
      BY DEF Idle, DomStates
    <3> QED BY <1>j, <3>1 DEF Job
  <2>2. op' \in [Ops -> Job]
    BY <1>12, <2>1, IdleType, UpdateType DEF TypeOK, reserve_hugepages, Exit
  <2>3. ASSUME NEW S \in SUBSET Guests PROVE Used + Cardinality(S) \in Nat
    BY UsedType, CardinalityType
  <2>4. pages' \in Nat
    <3>1. all_vms(op[o].stack, op[o].no_dr) \subseteq Guests
      BY <1>j, GuestFacts DEF Job
    <3>2. pages \in Nat /\ MaxPages \in Nat
      BY LifecycleAssumption DEF TypeOK
    <3> QED BY <1>12, <2>3, <3>1, <3>2, GuestFacts DEF reserve_hugepages, needed_pages
  <2> QED
    BY <1>12, <2>2, <2>4 DEF TypeOK, reserve_hugepages, provisioned
<1> QED
  BY <1>1, <1>2, <1>3, <1>4, <1>5, <1>6, <1>7, <1>8, <1>9, <1>10, <1>11, <1>12
  DEF Bootstrap, Phases

LEMMA TypeTeardown ==
  ASSUME TypeOK, NEW o \in Ops, Teardown(o)
  PROVE  TypeOK'
<1>j. op[o] \in Job
  BY DEF TypeOK
<1>1. ASSUME NEW s \in Stacks, NEW commons \in BOOLEAN, TeardownStart(o, s, commons)
      PROVE  TypeOK'
  <2>1. plan_destroy(Members(s), dom) \in SUBSET (Guests \X Commands)
    BY GuestFacts, PlanType
  <2>2. dom \in [Guests -> DomStates]
    BY DEF TypeOK
  <2>3. [Idle EXCEPT !.verb = "teardown", !.pc = "refcount", !.stack = s, !.forced = commons,
                     !.snap = dom, !.plan = plan_destroy(Members(s), dom)] \in Job
    BY <2>1, <2>2, IdleType DEF Job
  <2> QED
    BY <1>1, <2>3, StartType DEF TypeOK, TeardownStart, host, provisioned
<1>2. CASE refcount(o)
  <2> DEFINE last == (Lever \/ ~op[o].forced) /\ ~other_stacks_up(op[o].stack)
             more == IF op[o].forced \/ last THEN plan_destroy(Commons, op[o].snap) ELSE {}
  <2>1. op[o].plan \cup more \in SUBSET (Guests \X Commands)
    <3>1. more \in SUBSET (Guests \X Commands)
      BY GuestFacts, PlanType
    <3>2. op[o].plan \in SUBSET (Guests \X Commands)
      BY <1>j DEF Job
    <3> QED BY <3>1, <3>2
  <2>2. last \in BOOLEAN
    OBVIOUS
  <2>3. Update(o, [op[o] EXCEPT !.pc = "destroy", !.last = last, !.snap = Idle.snap,
                                !.plan = op[o].plan \cup more])
    BY <1>2 DEF refcount
  <2> HIDE DEF last, more
  <2>4. Idle.snap \in [Guests -> DomStates]
    BY DEF Idle, DomStates
  <2>5. [op[o] EXCEPT !.pc = "destroy", !.last = last, !.snap = Idle.snap,
                      !.plan = op[o].plan \cup more] \in Job
    BY <1>j, <2>1, <2>2, <2>4 DEF Job
  <2> QED
    BY <1>2, <2>3, <2>5, UpdateType DEF TypeOK, refcount, host, provisioned
<1>3. ASSUME NEW g \in Guests, NEW c \in Commands, MayRun(o, g, c)
      PROVE  op' \in [Ops -> Job]
  <2>1. [op[o] EXCEPT !.plan = op[o].plan \ {<<g, c>>}] \in Job
    BY <1>j DEF Job
  <2> QED BY <1>3, <2>1, UpdateType DEF TypeOK, MayRun
<1>4. ASSUME NEW g \in Guests, forceoff(o, g) PROVE TypeOK'
  <2>1. op' \in [Ops -> Job]
    BY <1>3, <1>4 DEF forceoff, Commands
  <2> QED BY <1>4, <2>1 DEF TypeOK, forceoff, DomStates, provisioned
<1>5. ASSUME NEW g \in Guests, undefine(o, g) PROVE TypeOK'
  <2>1. op' \in [Ops -> Job]
    BY <1>3, <1>5 DEF undefine, Commands
  <2> QED BY <1>5, <2>1 DEF TypeOK, undefine, DomStates
<1>6. ASSUME NEW g \in Guests, forget_machine(o, g) PROVE TypeOK'
  <2>1. op' \in [Ops -> Job]
    BY <1>3, <1>6 DEF forget_machine, Commands
  <2> QED BY <1>6, <2>1 DEF TypeOK, forget_machine, provisioned
<1>7. CASE delete_record(o)
  <2> DEFINE pc == IF Lever /\ op[o].last THEN "release" ELSE "done"
  <2>1. pc \in {"release", "done"} /\ Update(o, [op[o] EXCEPT !.pc = pc])
    BY <1>7 DEF delete_record
  <2> HIDE DEF pc
  <2>2. [op[o] EXCEPT !.pc = pc] \in Job
    BY <1>j, <2>1 DEF Job
  <2>3. op[o].stack \in Stacks
    BY <1>j DEF Job
  <2> QED
    BY <1>7, <2>1, <2>2, <2>3, UpdateType DEF TypeOK, delete_record, host, provisioned
<1>8. CASE release_hugepages(o)
  <2>1. [op[o] EXCEPT !.pc = "done"] \in Job
    BY <1>j DEF Job
  <2>2. op' \in [Ops -> Job]
    BY <1>8, <2>1, IdleType, UpdateType DEF TypeOK, release_hugepages, Exit
  <2> QED
    BY <1>8, <2>2, UsedType DEF TypeOK, release_hugepages, provisioned
<1> QED
  BY <1>1, <1>2, <1>4, <1>5, <1>6, <1>7, <1>8 DEF Teardown

LEMMA TypeCommons ==
  ASSUME TypeOK, NEW o \in Ops, CommonsVerbs(o)
  PROVE  TypeOK'
<1>j. op[o] \in Job /\ [op[o] EXCEPT !.pc = "done"] \in Job
  <2>1. op[o] \in Job
    BY DEF TypeOK
  <2> QED BY <2>1 DEF Job
<1>1. CASE CommonsUpStart(o)
  <2> DEFINE pc == IF Lever THEN "reserve" ELSE "boot"
  <2>1. pc \in {"reserve", "boot"}
    OBVIOUS
  <2> HIDE DEF pc
  <2>2. [Idle EXCEPT !.verb = "commons up", !.todo = ObsBox, !.pc = pc] \in Job
    BY <2>1, IdleType, GuestFacts DEF Job
  <2> QED
    BY <1>1, <2>2, StartType DEF TypeOK, CommonsUpStart, reconcile_box_meta, provisioned, pc
<1>2. CASE commons_provision(o)
  <2>1. [op[o] EXCEPT !.phase = 2, !.todo = SvcBox] \in Job
    <3>1. SvcBox \in SUBSET Guests
      BY GuestFacts
    <3>2. op[o] \in Job
      BY <1>j
    <3> DEFINE second == 2
    <3>3. second \in 1..5
      OBVIOUS
    <3> HIDE DEF second
    <3>4. [op[o] EXCEPT !.phase = second, !.todo = SvcBox] \in Job
      BY <3>1, <3>2, <3>3 DEF Job
    <3> QED BY <3>4 DEF second
  <2> QED
    BY <1>2, <2>1, UpdateType DEF TypeOK, commons_provision, host
<1>3. CASE commons_done(o)
  BY <1>3, <1>j, UpdateType DEF TypeOK, commons_done, host, provisioned
<1>4. CASE CommonsDownStart(o)
  <2>1. plan_destroy(Commons, dom) \in SUBSET (Guests \X Commands)
    BY GuestFacts, PlanType
  <2>2. [Idle EXCEPT !.verb = "commons down", !.pc = "destroy",
                     !.plan = plan_destroy(Commons, dom)] \in Job
    BY <2>1, IdleType DEF Job
  <2> QED
    BY <1>4, <2>2, StartType DEF TypeOK, CommonsDownStart, host, provisioned
<1>5. CASE commons_down_done(o)
  BY <1>5, <1>j, UpdateType DEF TypeOK, commons_down_done, host, provisioned
<1> QED
  BY <1>1, <1>2, <1>3, <1>4, <1>5 DEF CommonsVerbs

LEMMA TypeHost ==
  ASSUME TypeOK,
         \/ \E o \in Ops : Done(o) \/ Abort(o)
         \/ \E g \in Guests : GuestStops(g)
         \/ NetDown \/ HostReboot
  PROVE  TypeOK'
<1>1. ASSUME NEW o \in Ops, Done(o) \/ Abort(o) PROVE TypeOK'
  BY <1>1, IdleType, UpdateType DEF TypeOK, Done, Abort, Exit, host, provisioned
<1>2. ASSUME NEW g \in Guests, GuestStops(g) PROVE TypeOK'
  <2>1. ASSUME NEW o \in Ops PROVE [op[o] EXCEPT !.fell = op[o].fell \cup {g}] \in Job
    <3>1. op[o] \in Job
      BY DEF TypeOK
    <3> QED BY <3>1 DEF Job
  <2>2. op' \in [Ops -> Job]
    BY <1>2, <2>1 DEF TypeOK, GuestStops, Fell
  <2> QED
    BY <1>2, <2>2, LifecycleAssumption DEF TypeOK, GuestStops, Mishap, DomStates, provisioned
<1>3. CASE NetDown
  <2>1. netUp' \in BOOLEAN
    BY <1>3, Zenon DEF NetDown
  <2>2. stops' \in 0..MaxStops
    BY <1>3, LifecycleAssumption DEF TypeOK, NetDown, Mishap
  <2>3. UNCHANGED <<dom, image, meta, pages, rec, formed, qm, dr, svc, obs, op, jobs>>
    BY <1>3 DEF NetDown, provisioned
  <2> QED BY <2>1, <2>2, <2>3, Zenon DEF TypeOK
<1>4. CASE HostReboot
  BY <1>4, IdleType, LifecycleAssumption DEF TypeOK, HostReboot, Mishap, DomStates, provisioned
<1> QED
  BY <1>1, <1>2, <1>3, <1>4

LEMMA TypeInit == Init => TypeOK
<1> SUFFICES ASSUME Init PROVE TypeOK
  OBVIOUS
<1>1. PICK os \in [Legacy -> Oses], st \in [Legacy -> {"absent", "off", "running"}] :
        /\ dom = [g \in Guests |-> IF \E s \in Legacy : g \in Members(s)
                                    THEN st[CHOOSE s \in Legacy : g \in Members(s)] ELSE "absent"]
        /\ image = [g \in Guests |-> IF dom[g] = "absent" THEN NoOs
                                      ELSE os[CHOOSE s \in Legacy : g \in Members(s)]]
        /\ meta = [g \in Guests |-> IF \E s \in Legacy : g \in Members(s)
                                     THEN os[CHOOSE s \in Legacy : g \in Members(s)] ELSE NoOs]
  BY DEF Init
<1>2. ASSUME NEW g \in Guests, \E s \in Legacy : g \in Members(s)
      PROVE  (CHOOSE s \in Legacy : g \in Members(s)) \in Legacy
  BY <1>2
<1>3. dom \in [Guests -> DomStates]
  BY <1>1, <1>2 DEF DomStates
<1>4. meta \in [Guests -> Oses \cup {NoOs}]
  BY <1>1, <1>2
<1>5. ASSUME NEW g \in Guests PROVE image[g] \in Oses \cup {NoOs}
  <2>1. CASE \E s \in Legacy : g \in Members(s)
    BY <1>1, <1>2, <2>1
  <2>2. CASE ~\E s \in Legacy : g \in Members(s)
    BY <1>1, <2>2
  <2> QED BY <2>1, <2>2
<1>6. image \in [Guests -> Oses \cup {NoOs}]
  BY <1>1, <1>5
<1>7. pages \in Nat
  BY UsedType DEF Init
<1>8. op \in [Ops -> Job]
  BY IdleType DEF Init
<1>9. jobs \in 0..MaxJobs /\ stops \in 0..MaxStops
  BY LifecycleAssumption DEF Init
<1>10. rec \in [Stacks -> Oses \cup {NoOs}]
  BY DEF Init
<1>11. netUp \in BOOLEAN /\ formed \subseteq Stacks /\ qm \subseteq Stacks /\ dr \subseteq Stacks
       /\ svc \subseteq Stacks /\ obs \subseteq Stacks
  BY Zenon DEF Init
<1> QED
  BY <1>3, <1>4, <1>6, <1>7, <1>8, <1>9, <1>10, <1>11, Zenon DEF TypeOK

LEMMA TypeStep == TypeOK /\ [Next]_vars => TypeOK'
<1> SUFFICES ASSUME TypeOK, [Next]_vars PROVE TypeOK'
  OBVIOUS
<1>1. CASE UNCHANGED vars
  BY <1>1 DEF TypeOK, vars
<1>2. CASE Next
  BY <1>2, TypeBootstrap, TypeTeardown, TypeCommons, TypeHost DEF Next
<1> QED
  BY <1>1, <1>2

(***************************************************************************)
(* Every state of every behaviour is well typed, for any number of         *)
(* operators.                                                              *)
(***************************************************************************)
THEOREM LifecycleTypeCorrect == Spec => []TypeOK
<1> QED
  BY TypeInit, TypeStep, PTL DEF Spec
-----------------------------------------------------------------------------
(***************************************************************************)
(* RecordPinsOS for every lab in which one verb runs at a time, whatever   *)
(* the stacks, guests and operating systems, however often a verb is cut   *)
(* and whatever happens to the guests.  Its strengthening is PinInv.       *)
(***************************************************************************)
OneOperator == \A o, p \in Ops : o = p

(***************************************************************************)
(* A step that boots no guest and writes no record breaks neither the link *)
(* between disk and cached box nor the pin.                                *)
(***************************************************************************)
LEMMA QuietHost ==
  ASSUME BoxInv, RecordPinsOS,
         \A g \in Guests : /\ is_live(dom', g) => is_live(dom, g)
                           /\ dom'[g] # "absent" => dom[g] # "absent" /\ image'[g] = image[g]
                           /\ meta'[g] \in {meta[g], NoOs},
         \A s \in Stacks : rec'[s] \in {rec[s], NoOs}
  PROVE  BoxInv' /\ RecordPinsOS'
<1>1. BoxInv'
  BY DEF BoxInv
<1>2. ASSUME NEW s \in Stacks, NEW g \in Members(s), is_live(dom, g)', rec'[s] # NoOs
      PROVE  image'[g] = rec'[s]
  <2>1. g \in Guests
    BY GuestFacts
  <2>2. is_live(dom, g) /\ dom'[g] # "absent"
    BY <1>2, <2>1 DEF is_live
  <2> QED BY <1>2, <2>1, <2>2 DEF RecordPinsOS
<1>3. RecordPinsOS'
  BY <1>2 DEF RecordPinsOS
<1> QED BY <1>1, <1>3

(***************************************************************************)
(* A verb that is idle or over, or that only destroys, knows nothing.      *)
(***************************************************************************)
LEMMA QuietJob ==
  ASSUME NEW o \in Ops, OneOperator,
         \/ op'[o].pc \in {"idle", "done"} /\ op'[o].verb # "commons up"
         \/ op'[o].pc = "destroy" /\ op'[o].verb \in {"teardown", "commons down"}
         \/ op'[o].pc \in {"refcount", "release"} /\ op'[o].verb = "teardown"
  PROVE  VerbInv' /\ RecordInv'
<1>1. \A p \in Ops : p = o
  BY DEF OneOperator
<1>2. VerbInv'
  BY <1>1 DEF VerbInv, Bootstrapping
<1>3. RecordInv'
  BY <1>1 DEF RecordInv, Bootstrapping
<1> QED BY <1>2, <1>3

(***************************************************************************)
(* A step of a bootstrap past its pin that starts no boot and changes      *)
(* nothing but its own progress.                                           *)
(***************************************************************************)
LEMMA QuietPhase ==
  ASSUME NEW o \in Ops, OneOperator, VerbInv, RecordInv,
         op[o].verb = "bootstrap",
         op[o].pc \in {"probe", "reserve", "phase", "boot", "play"},
         op'[o].verb = "bootstrap", op'[o].stack = op[o].stack, op'[o].os = op[o].os,
         rec' = rec,
         \/ op'[o].pc = "done"
         \/ op'[o].pc \in {"reserve", "phase"} /\ op'[o].phase \in Phases
         \/ op'[o].pc = "play" /\ op'[o].phase = 3
  PROVE  VerbInv' /\ RecordInv'
<1>1. \A p \in Ops : p = o
  BY DEF OneOperator
<1>2. VerbInv'
  BY <1>1 DEF VerbInv, Bootstrapping
<1>3. rec[op[o].stack] = op[o].os
  BY DEF RecordInv, Bootstrapping
<1>4. RecordInv'
  BY <1>1, <1>3 DEF RecordInv, Bootstrapping
<1> QED BY <1>2, <1>4

(***************************************************************************)
(* Advance leaves the verb, its stack and its OS alone.                    *)
(***************************************************************************)
LEMMA AdvanceQuiet ==
  ASSUME NEW o \in Ops, OneOperator, TypeOK, VerbInv, RecordInv,
         op[o].verb = "bootstrap", op[o].pc \in {"phase", "boot", "play"},
         NEW p \in Phases, Advance(o, p), rec' = rec
  PROVE  VerbInv' /\ RecordInv'
<1>1. op \in [Ops -> Job] /\ op[o] \in Job
  BY DEF TypeOK
<1>2. PICK pc \in {"done", "phase"} :
        /\ pc = "phase" => p # 4
        /\ op'[o] = [op[o] EXCEPT !.pc = pc, !.phase = p + 1]
  <2> DEFINE pc == IF p = 4 \/ op[o].mode = "only" THEN "done" ELSE "phase"
  <2>1. op'[o] = [op[o] EXCEPT !.pc = pc, !.phase = p + 1]
    BY <1>1 DEF Advance, Update
  <2>2. pc \in {"done", "phase"} /\ (pc = "phase" => p # 4)
    OBVIOUS
  <2> HIDE DEF pc
  <2> QED BY <2>1, <2>2
<1>3. /\ op'[o].pc = pc /\ op'[o].phase = p + 1 /\ op'[o].verb = op[o].verb
      /\ op'[o].stack = op[o].stack /\ op'[o].os = op[o].os
  BY <1>1, <1>2 DEF Job
<1>4. pc = "phase" => p + 1 \in Phases
  BY <1>2 DEF Phases
<1> QED BY <1>2, <1>3, <1>4, QuietPhase

LEMMA PinBootstrap ==
  ASSUME OneOperator, PinInv, NEW o \in Ops, Bootstrap(o)
  PROVE  VerbInv' /\ BoxInv' /\ RecordInv' /\ RecordPinsOS'
<1>t. TypeOK /\ VerbInv /\ BoxInv /\ RecordInv /\ RecordPinsOS
  BY DEF PinInv
<1>j. op \in [Ops -> Job] /\ op[o] \in Job
  BY <1>t DEF TypeOK
<1>o. \A p \in Ops : p = o
  BY DEF OneOperator
<1>s. op[o].stack \in Stacks /\ op[o].no_dr \in BOOLEAN
  BY <1>j DEF Job
<1>q. ASSUME UNCHANGED <<dom, image, meta, rec>> PROVE BoxInv' /\ RecordPinsOS'
  BY <1>q, <1>t, QuietHost
<1>1. ASSUME NEW s \in Stacks, NEW config \in Oses \cup {NoOs}, NEW no_dr \in BOOLEAN,
             NEW mode \in {"auto", "from", "only"}, NEW p \in Phases,
             BootstrapStart(o, s, config, no_dr, mode, p)
      PROVE  VerbInv' /\ BoxInv' /\ RecordInv' /\ RecordPinsOS'
  <2>1. BoxInv' /\ RecordPinsOS' /\ UNCHANGED <<dom, rec>>
    BY <1>1, <1>q DEF BootstrapStart, host
  <2>2. /\ op'[o].pc = "pin" /\ op'[o].verb = "bootstrap" /\ op'[o].stack = s
        /\ op'[o].live = (rec[s] = NoOs /\ AnyLive(dom, Members(s)))
    BY <1>1, <1>j DEF BootstrapStart, NewJob, Update, Idle
  <2>3. VerbInv'
    BY <1>o, <2>2 DEF VerbInv, Bootstrapping
  <2>4. AnyLive(dom, Members(s)) => AnyLive(dom, Members(s))'
    BY <2>1 DEF AnyLive, is_live
  <2>5. RecordInv'
    BY <1>o, <2>1, <2>2 DEF RecordInv, Bootstrapping, AnyLive, is_live
  <2> QED BY <2>1, <2>3, <2>5
<1>2. CASE reconcile(o)
  <2> DEFINE s == op[o].stack
  <2>1. op[o].verb = "bootstrap" /\ op[o].pc = "pin" /\ UNCHANGED <<dom, image, meta>>
    BY <1>2, <1>t DEF reconcile, VerbInv, host
  <2>2. CASE rec' = rec
    <3>1. BoxInv' /\ RecordPinsOS'
      BY <1>q, <2>1, <2>2
    <3>2. CASE op'[o] = [op[o] EXCEPT !.pc = "probe"] /\ rec[s] = op[o].os
      <4>1. /\ op'[o].pc = "probe" /\ op'[o].verb = "bootstrap"
            /\ op'[o].stack = s /\ op'[o].os = op[o].os
        BY <1>j, <2>1, <3>2 DEF Job
      <4>2. VerbInv'
        BY <1>o, <4>1 DEF VerbInv, Bootstrapping
      <4>3. RecordInv'
        BY <1>o, <2>2, <3>2, <4>1 DEF RecordInv, Bootstrapping
      <4> QED BY <3>1, <4>2, <4>3
    <3>3. CASE op'[o] = Idle
      <4>1. op'[o].pc = "idle" /\ op'[o].verb = "bootstrap"
        BY <3>3 DEF Idle
      <4> QED BY <3>1, <4>1, QuietJob
    <3> QED
      BY <1>2, <1>j, <1>s, <1>t, <2>2, <3>2, <3>3 DEF reconcile, Update, Exit, TypeOK, Job
  <2>3. CASE rec' # rec
    <3>1. /\ rec[s] = NoOs /\ ~op[o].live
          /\ rec' = [rec EXCEPT ![s] = op[o].os]
          /\ op'[o] = [op[o] EXCEPT !.pc = "probe"]
      BY <1>2, <1>j, <2>3 DEF reconcile, Update
    <3>2. rec'[s] = op[o].os /\ \A r \in Stacks \ {s} : rec'[r] = rec[r]
      BY <3>1, <1>s, <1>t DEF TypeOK
    <3>3. ~AnyLive(dom, Members(s))
      BY <1>t, <2>1, <3>1 DEF RecordInv, Bootstrapping
    <3>4. RecordPinsOS'
      BY <1>t, <2>1, <3>2, <3>3 DEF RecordPinsOS, AnyLive, is_live
    <3>5. BoxInv'
      BY <1>t, <2>1 DEF BoxInv
    <3>6. /\ op'[o].pc = "probe" /\ op'[o].verb = "bootstrap"
          /\ op'[o].stack = s /\ op'[o].os = op[o].os
      BY <1>j, <2>1, <3>1 DEF Job
    <3>7. VerbInv'
      BY <1>o, <3>6 DEF VerbInv, Bootstrapping
    <3>8. RecordInv'
      BY <1>o, <3>2, <3>6 DEF RecordInv, Bootstrapping
    <3> QED BY <3>4, <3>5, <3>7, <3>8
  <2> QED BY <2>2, <2>3
<1>3. CASE probe_all(o)
  <2>1. /\ op[o].verb = "bootstrap" /\ op[o].pc = "probe"
        /\ UNCHANGED <<dom, image, meta, rec>>
    BY <1>3, <1>t DEF probe_all, VerbInv, host
  <2>2. PICK p, snap, pc :
          /\ p \in 1..5 /\ pc \in {"done", "reserve", "phase"}
          /\ p = 5 => pc = "done"
          /\ op'[o] = [op[o] EXCEPT !.phase = p, !.fell = {}, !.skips = p > 3, !.snap = snap, !.pc = pc]
    <3>1. PICK p, snap, pc :
            /\ p \in 1..5 /\ pc \in {"done", "reserve", "phase"}
            /\ p = 5 => pc = "done"
            /\ Update(o, [op[o] EXCEPT !.phase = p, !.fell = {}, !.skips = p > 3, !.snap = snap, !.pc = pc])
      BY <1>3 DEF probe_all
    <3>2. op'[o] = [op[o] EXCEPT !.phase = p, !.fell = {}, !.skips = p > 3, !.snap = snap, !.pc = pc]
      BY <1>j, <3>1 DEF Update
    <3> QED BY <3>1, <3>2
  <2>3. /\ op'[o].pc = pc /\ op'[o].phase = p /\ op'[o].verb = "bootstrap"
        /\ op'[o].stack = op[o].stack /\ op'[o].os = op[o].os
    BY <1>j, <2>1, <2>2 DEF Job
  <2>4. pc # "done" => p \in Phases
    BY <2>2 DEF Phases
  <2> QED BY <1>t, <1>q, <2>1, <2>2, <2>3, <2>4, QuietPhase
<1>4. CASE reserve_hugepages(o)
  <2>1. op[o].pc = "reserve" /\ UNCHANGED <<dom, image, meta, rec>>
    BY <1>4 DEF reserve_hugepages
  <2>2. op[o].verb \in {"bootstrap", "commons up"} /\ op[o].phase \in Phases
    BY <1>t, <2>1 DEF VerbInv
  <2>3. \/ op'[o] = Idle
        \/ op'[o] = [op[o] EXCEPT !.snap = Idle.snap,
                                  !.pc = IF op[o].verb = "bootstrap" THEN "phase" ELSE "boot"]
    BY <1>4, <1>j DEF reserve_hugepages, Update, Exit
  <2>4. CASE op'[o] = Idle
    <3>1. op'[o].pc = "idle" /\ op'[o].verb = "bootstrap"
      BY <2>4 DEF Idle
    <3> QED BY <1>q, <2>1, <3>1, QuietJob
  <2>5. CASE /\ op[o].verb = "bootstrap"
             /\ op'[o] = [op[o] EXCEPT !.snap = Idle.snap, !.pc = "phase"]
    <3>1. /\ op'[o].pc = "phase" /\ op'[o].phase = op[o].phase /\ op'[o].verb = "bootstrap"
          /\ op'[o].stack = op[o].stack /\ op'[o].os = op[o].os
      BY <1>j, <2>5 DEF Job
    <3> QED BY <1>t, <1>q, <2>1, <2>2, <2>5, <3>1, QuietPhase
  <2>6. CASE /\ op[o].verb = "commons up"
             /\ op'[o] = [op[o] EXCEPT !.snap = Idle.snap, !.pc = "boot"]
    <3>1. op'[o].pc = "boot" /\ op'[o].verb = "commons up" /\ op'[o].todo = op[o].todo
      BY <1>j, <2>6 DEF Job
    <3>2. op[o].todo \subseteq Commons
      BY <1>t, <2>6 DEF RecordInv
    <3>3. VerbInv'
      BY <1>o, <3>1 DEF VerbInv, Bootstrapping
    <3>4. RecordInv'
      BY <1>o, <3>1, <3>2 DEF RecordInv, Bootstrapping
    <3> QED BY <1>q, <2>1, <3>3, <3>4
  <2> QED BY <2>2, <2>3, <2>4, <2>5, <2>6
<1>5. CASE net_phase(o) \/ vms_done(o) \/ provision_done(o) \/ observe_phase(o)
  <2>1. UNCHANGED <<dom, image, meta, rec>>
    BY <1>5 DEF net_phase, vms_done, provision_done, observe_phase, host
  <2>2. op[o].verb = "bootstrap" /\ op[o].pc \in {"phase", "boot", "play"}
    BY <1>5, <1>t
    DEF net_phase, vms_done, provision_done, observe_phase, AtPhase, VerbInv
  <2>3. \E p \in Phases : Advance(o, p)
    BY <1>5 DEF net_phase, vms_done, provision_done, observe_phase, Phases
  <2> QED BY <1>t, <1>q, <2>1, <2>2, <2>3, AdvanceQuiet
<1>6. CASE vms_phase(o)
  <2>1. /\ op[o].pc = "phase" /\ op[o].phase = 2 /\ op[o].verb = "bootstrap"
        /\ UNCHANGED <<dom, image, rec>>
    BY <1>6, <1>t DEF vms_phase, AtPhase, VerbInv
  <2>2. \A g \in Guests : meta'[g] \in {meta[g], NoOs}
    BY <1>6 DEF vms_phase, reconcile_box_meta
  <2>3. BoxInv' /\ RecordPinsOS'
    BY <1>t, <2>1, <2>2, QuietHost
  <2>4. op'[o] = [op[o] EXCEPT !.pc = "boot", !.todo = all_vms(op[o].stack, op[o].no_dr)]
    BY <1>6, <1>j DEF vms_phase, Update
  <2>5. /\ op'[o].pc = "boot" /\ op'[o].phase = 2 /\ op'[o].verb = "bootstrap"
        /\ op'[o].stack = op[o].stack /\ op'[o].os = op[o].os
        /\ op'[o].todo = all_vms(op[o].stack, op[o].no_dr)
    BY <1>j, <2>1, <2>4 DEF Job
  <2>6. op'[o].todo \subseteq all_vms(op[o].stack, FALSE)
    BY <1>s, <2>5 DEF all_vms, Members
  <2>7. ASSUME NEW g \in Members(op[o].stack) PROVE meta'[g] \in {NoOs, op[o].os}
    <3>1. g \in Guests /\ g \notin Commons
      BY <1>s, GuestFacts, LifecycleAssumption
    <3>2. g \in all_vms(op[o].stack, FALSE)
      BY DEF all_vms
    <3>3. meta'[g] = IF meta[g] # op[o].os THEN NoOs ELSE meta[g]
      BY <1>6, <3>1, <3>2 DEF vms_phase, reconcile_box_meta, Box
    <3> QED BY <3>3
  <2>8. rec[op[o].stack] = op[o].os
    BY <1>t, <2>1 DEF RecordInv, Bootstrapping
  <2>9. VerbInv'
    BY <1>o, <2>5 DEF VerbInv, Bootstrapping
  <2>10. RecordInv'
    BY <1>o, <2>1, <2>5, <2>6, <2>7, <2>8 DEF RecordInv, Bootstrapping
  <2> QED BY <2>3, <2>9, <2>10
<1>7. ASSUME NEW g \in Guests, vagrant_up(o, g)
      PROVE  VerbInv' /\ BoxInv' /\ RecordInv' /\ RecordPinsOS'
  <2>1. /\ op[o].pc = "boot" /\ g \in op[o].todo /\ rec' = rec
        /\ dom' = [dom EXCEPT ![g] = "running"]
        /\ dom[g] # "absent" => meta[g] # NoOs
    BY <1>7 DEF vagrant_up
  <2>2. /\ dom'[g] = "running"
        /\ meta'[g] = IF meta[g] = NoOs THEN Box(o, g) ELSE meta[g]
        /\ image'[g] = IF dom[g] = "absent" THEN meta'[g] ELSE image[g]
        /\ \A h \in Guests \ {g} :
             dom'[h] = dom[h] /\ meta'[h] = meta[h] /\ image'[h] = image[h]
    BY <1>7, <1>t DEF vagrant_up, TypeOK
  <2>3. image'[g] = meta'[g]
    BY <1>t, <2>1, <2>2 DEF BoxInv
  <2>4. BoxInv'
    BY <1>t, <2>2, <2>3 DEF BoxInv
  <2>5. op'[o] = [op[o] EXCEPT !.todo = op[o].todo \ {g}]
    BY <1>7, <1>j DEF vagrant_up, Update
  <2>6. /\ op'[o].pc = "boot" /\ op'[o].verb = op[o].verb /\ op'[o].phase = op[o].phase
        /\ op'[o].stack = op[o].stack /\ op'[o].os = op[o].os
        /\ op'[o].todo \subseteq op[o].todo
    BY <1>j, <2>1, <2>5 DEF Job
  <2>7. VerbInv'
    BY <1>t, <1>o, <2>1, <2>6 DEF VerbInv, Bootstrapping
  <2>8. CASE op[o].verb = "bootstrap"
    <3>1. /\ rec[op[o].stack] = op[o].os
          /\ op[o].todo \subseteq all_vms(op[o].stack, FALSE)
          /\ \A h \in Members(op[o].stack) : meta[h] \in {NoOs, op[o].os}
      BY <1>t, <2>1, <2>8 DEF RecordInv, Bootstrapping
    <3>2. g \in Members(op[o].stack) \/ g \in Commons
      BY <2>1, <3>1 DEF all_vms
    <3>3. g \in Members(op[o].stack) => meta'[g] = op[o].os
      <4>1. g \in Members(op[o].stack) => g \notin Commons
        BY <1>s, LifecycleAssumption
      <4> QED BY <2>2, <3>1, <4>1 DEF Box
    <3>4. ASSUME NEW r \in Stacks, NEW h \in Members(r), is_live(dom, h)', rec'[r] # NoOs
          PROVE  image'[h] = rec'[r]
      <4>1. CASE h = g
        <5>1. r = op[o].stack
          BY <1>s, <3>2, <4>1, LifecycleAssumption
        <5> QED BY <2>1, <2>3, <3>1, <3>3, <4>1, <5>1
      <4>2. CASE h # g
        <5>1. h \in Guests
          BY GuestFacts
        <5>2. is_live(dom, h)
          BY <2>2, <3>4, <4>2, <5>1 DEF is_live
        <5> QED BY <1>t, <2>1, <2>2, <3>4, <4>2, <5>1, <5>2 DEF RecordPinsOS
      <4> QED BY <4>1, <4>2
    <3>5. RecordPinsOS'
      BY <3>4 DEF RecordPinsOS
    <3>6. ASSUME NEW h \in Members(op[o].stack) PROVE meta'[h] \in {NoOs, op[o].os}
      <4>1. h \in Guests
        BY <1>s, GuestFacts
      <4> QED BY <2>2, <3>1, <3>3, <4>1
    <3>7. RecordInv'
      BY <1>o, <2>1, <2>6, <2>8, <3>1, <3>6 DEF RecordInv, Bootstrapping
    <3> QED BY <2>4, <2>7, <3>5, <3>7
  <2>9. CASE op[o].verb = "commons up"
    <3>1. op[o].todo \subseteq Commons
      BY <1>t, <2>9 DEF RecordInv
    <3>2. RecordInv'
      BY <1>o, <2>6, <2>9, <3>1 DEF RecordInv, Bootstrapping
    <3>3. ASSUME NEW r \in Stacks, NEW h \in Members(r), is_live(dom, h)', rec'[r] # NoOs
          PROVE  image'[h] = rec'[r]
      <4>1. h # g /\ h \in Guests
        BY <2>1, <3>1, GuestFacts, LifecycleAssumption
      <4>2. is_live(dom, h)
        BY <2>2, <3>3, <4>1 DEF is_live
      <4> QED BY <1>t, <2>1, <2>2, <3>3, <4>1, <4>2 DEF RecordPinsOS
    <3>4. RecordPinsOS'
      BY <3>3 DEF RecordPinsOS
    <3> QED BY <2>4, <2>7, <3>2, <3>4
  <2> QED BY <1>t, <2>1, <2>8, <2>9 DEF VerbInv
<1>8. CASE provision_phase(o) \/ \E p \in Plays : play(o, p)
  <2>1. /\ op[o].verb = "bootstrap" /\ op[o].phase = 3 /\ op[o].pc \in {"phase", "play"}
        /\ UNCHANGED <<dom, image, meta, rec>>
    BY <1>8, <1>t DEF provision_phase, play, AtPhase, VerbInv, Bootstrapping, host
  <2>2. PICK plays : op'[o] = [op[o] EXCEPT !.pc = "play", !.plays = plays]
    <3>1. CASE provision_phase(o)
      BY <1>j, <3>1 DEF provision_phase, Update
    <3>2. CASE \E p \in Plays : play(o, p)
      <4>1. PICK p \in Plays : play(o, p)
        BY <3>2
      <4>2. op[o].pc = "play" /\ op'[o] = [op[o] EXCEPT !.plays = op[o].plays \ {p}]
        BY <1>j, <4>1 DEF play, Update
      <4>3. op'[o] = [op[o] EXCEPT !.pc = "play", !.plays = op[o].plays \ {p}]
        BY <1>j, <4>2 DEF Job
      <4> QED BY <4>3
    <3> QED BY <1>8, <3>1, <3>2
  <2>3. /\ op'[o].pc = "play" /\ op'[o].phase = 3 /\ op'[o].verb = "bootstrap"
        /\ op'[o].stack = op[o].stack /\ op'[o].os = op[o].os
    BY <1>j, <2>1, <2>2 DEF Job
  <2> QED BY <1>t, <1>q, <2>1, <2>3, QuietPhase
<1> QED
  BY <1>1, <1>2, <1>3, <1>4, <1>5, <1>6, <1>7, <1>8 DEF Bootstrap, Phases

LEMMA PinTeardown ==
  ASSUME OneOperator, PinInv, NEW o \in Ops, Teardown(o)
  PROVE  VerbInv' /\ BoxInv' /\ RecordInv' /\ RecordPinsOS'
<1>t. TypeOK /\ VerbInv /\ BoxInv /\ RecordInv /\ RecordPinsOS
  BY DEF PinInv
<1>j. op \in [Ops -> Job] /\ op[o] \in Job
  BY <1>t DEF TypeOK
<1>d. dom \in [Guests -> DomStates] /\ meta \in [Guests -> Oses \cup {NoOs}]
      /\ rec \in [Stacks -> Oses \cup {NoOs}] /\ image \in [Guests -> Oses \cup {NoOs}]
  BY <1>t DEF TypeOK
<1>1. BoxInv' /\ RecordPinsOS'
  <2>1. CASE \E s \in Stacks, commons \in BOOLEAN : TeardownStart(o, s, commons)
    BY <1>t, <2>1, QuietHost DEF TeardownStart, host
  <2>2. CASE refcount(o)
    BY <1>t, <2>2, QuietHost DEF refcount, host
  <2>3. ASSUME NEW g \in Guests, forceoff(o, g) PROVE BoxInv' /\ RecordPinsOS'
    <3>1. UNCHANGED <<image, meta, rec>> /\ is_live(dom, g) /\ dom' = [dom EXCEPT ![g] = "off"]
      BY <2>3 DEF forceoff
    <3>2. \A h \in Guests : /\ is_live(dom', h) => is_live(dom, h)
                            /\ dom'[h] # "absent" => dom[h] # "absent"
      BY <1>d, <3>1 DEF is_live
    <3> QED BY <1>t, <3>1, <3>2, QuietHost
  <2>4. ASSUME NEW g \in Guests, undefine(o, g) PROVE BoxInv' /\ RecordPinsOS'
    <3>1. /\ UNCHANGED <<meta, rec>> /\ dom' = [dom EXCEPT ![g] = "absent"]
          /\ image' = [image EXCEPT ![g] = NoOs]
      BY <2>4 DEF undefine
    <3>2. \A h \in Guests :
            /\ is_live(dom', h) => is_live(dom, h)
            /\ dom'[h] # "absent" => dom[h] # "absent" /\ image'[h] = image[h]
      BY <1>d, <3>1 DEF is_live
    <3> QED BY <1>t, <3>1, <3>2, QuietHost
  <2>5. ASSUME NEW g \in Guests, forget_machine(o, g) PROVE BoxInv' /\ RecordPinsOS'
    <3>1. UNCHANGED <<dom, image, rec>> /\ meta' = [meta EXCEPT ![g] = NoOs]
      BY <2>5 DEF forget_machine
    <3>2. \A h \in Guests : meta'[h] \in {meta[h], NoOs}
      BY <1>d, <3>1
    <3> QED BY <1>t, <3>1, <3>2, QuietHost
  <2>6. CASE delete_record(o)
    <3>1. UNCHANGED <<dom, image, meta>> /\ rec' = [rec EXCEPT ![op[o].stack] = NoOs]
      BY <2>6 DEF delete_record, host
    <3>2. \A s \in Stacks : rec'[s] \in {rec[s], NoOs}
      BY <1>d, <3>1
    <3> QED BY <1>t, <3>1, <3>2, QuietHost
  <2>7. CASE release_hugepages(o)
    BY <1>t, <2>7, QuietHost DEF release_hugepages
  <2> QED BY <2>1, <2>2, <2>3, <2>4, <2>5, <2>6, <2>7 DEF Teardown
<1>2. VerbInv' /\ RecordInv'
  <2>1. CASE \E s \in Stacks, commons \in BOOLEAN : TeardownStart(o, s, commons)
    <3>1. op'[o].pc = "refcount" /\ op'[o].verb = "teardown"
      BY <1>j, <2>1 DEF TeardownStart, NewJob, Update, Idle
    <3> QED BY <3>1, QuietJob
  <2>2. CASE refcount(o)
    <3>1. op[o].verb = "teardown"
      BY <1>t, <2>2 DEF refcount, VerbInv
    <3>2. PICK last, snap, plan :
            op'[o] = [op[o] EXCEPT !.pc = "destroy", !.last = last, !.snap = snap, !.plan = plan]
      BY <1>j, <2>2 DEF refcount, Update
    <3>3. op'[o].pc = "destroy" /\ op'[o].verb = "teardown"
      BY <1>j, <3>1, <3>2 DEF Job
    <3> QED BY <3>3, QuietJob
  <2>3. ASSUME NEW g \in Guests, NEW c \in Commands, MayRun(o, g, c)
        PROVE  VerbInv' /\ RecordInv'
    <3>1. op[o].pc = "destroy" /\ op[o].verb \in {"teardown", "commons down"}
      BY <1>t, <2>3 DEF MayRun, VerbInv
    <3>2. op'[o] = [op[o] EXCEPT !.plan = op[o].plan \ {<<g, c>>}]
      BY <1>j, <2>3 DEF MayRun, Update
    <3>3. op'[o].pc = "destroy" /\ op'[o].verb = op[o].verb
      BY <1>j, <3>1, <3>2 DEF Job
    <3> QED BY <3>1, <3>3, QuietJob
  <2>4. ASSUME NEW g \in Guests, forceoff(o, g) \/ undefine(o, g) \/ forget_machine(o, g)
        PROVE  VerbInv' /\ RecordInv'
    BY <2>3, <2>4 DEF forceoff, undefine, forget_machine, Commands
  <2>5. CASE delete_record(o)
    <3>1. op[o].verb = "teardown"
      BY <2>5 DEF delete_record
    <3>2. PICK pc \in {"release", "done"} : op'[o] = [op[o] EXCEPT !.pc = pc]
      <4> DEFINE pc == IF Lever /\ op[o].last THEN "release" ELSE "done"
      <4>1. op'[o] = [op[o] EXCEPT !.pc = pc]
        BY <1>j, <2>5 DEF delete_record, Update
      <4>2. pc \in {"release", "done"}
        OBVIOUS
      <4> HIDE DEF pc
      <4> QED BY <4>1, <4>2
    <3>3. op'[o].pc \in {"release", "done"} /\ op'[o].verb = "teardown"
      BY <1>j, <3>1, <3>2 DEF Job
    <3> QED BY <3>3, QuietJob
  <2>6. CASE release_hugepages(o)
    <3>1. op[o].verb = "teardown"
      BY <1>t, <2>6 DEF release_hugepages, VerbInv
    <3>2. op'[o] = Idle \/ op'[o] = [op[o] EXCEPT !.pc = "done"]
      BY <1>j, <2>6 DEF release_hugepages, Update, Exit
    <3>3. CASE op'[o] = Idle
      <4>1. op'[o].pc = "idle" /\ op'[o].verb = "bootstrap"
        BY <3>3 DEF Idle
      <4> QED BY <4>1, QuietJob
    <3>4. CASE op'[o] = [op[o] EXCEPT !.pc = "done"]
      <4>1. op'[o].pc = "done" /\ op'[o].verb = "teardown"
        BY <1>j, <3>1, <3>4 DEF Job
      <4> QED BY <4>1, QuietJob
    <3> QED BY <3>2, <3>3, <3>4
  <2> QED BY <2>1, <2>2, <2>4, <2>5, <2>6 DEF Teardown
<1> QED BY <1>1, <1>2

LEMMA PinCommons ==
  ASSUME OneOperator, PinInv, NEW o \in Ops, CommonsVerbs(o)
  PROVE  VerbInv' /\ BoxInv' /\ RecordInv' /\ RecordPinsOS'
<1>t. TypeOK /\ VerbInv /\ BoxInv /\ RecordInv /\ RecordPinsOS
  BY DEF PinInv
<1>j. op \in [Ops -> Job] /\ op[o] \in Job
  BY <1>t DEF TypeOK
<1>o. \A p \in Ops : p = o
  BY DEF OneOperator
<1>p. 1 \in Phases /\ 2 \in Phases /\ {} \subseteq Commons
  BY DEF Phases
<1>c. ASSUME op'[o].verb = "commons up", op'[o].todo \subseteq Commons,
             op'[o].pc \in {"reserve", "boot", "done"}, op'[o].phase \in Phases
      PROVE  VerbInv' /\ RecordInv'
  <2>1. VerbInv'
    BY <1>c, <1>o DEF VerbInv, Bootstrapping
  <2>2. RecordInv'
    BY <1>c, <1>o DEF RecordInv, Bootstrapping
  <2> QED BY <2>1, <2>2
<1>1. CASE CommonsUpStart(o)
  <2>1. UNCHANGED <<dom, image, rec>> /\ \A g \in Guests : meta'[g] \in {meta[g], NoOs}
    BY <1>1 DEF CommonsUpStart, reconcile_box_meta
  <2>2. BoxInv' /\ RecordPinsOS'
    BY <1>t, <2>1, QuietHost
  <2>3. /\ op'[o].verb = "commons up" /\ op'[o].todo = ObsBox
        /\ op'[o].pc \in {"reserve", "boot"} /\ op'[o].phase = 1
    BY <1>1, <1>j DEF CommonsUpStart, NewJob, Update, Idle
  <2>4. op'[o].todo \subseteq Commons /\ op'[o].phase \in Phases
    BY <2>3, GuestFacts, <1>p, Zenon
  <2>5. VerbInv' /\ RecordInv'
    BY <1>c, <2>3, <2>4
  <2> QED BY <2>2, <2>5
<1>2. CASE commons_provision(o)
  <2>1. op[o].verb = "commons up" /\ op[o].pc = "boot" /\ UNCHANGED <<dom, image, meta, rec>>
    BY <1>2 DEF commons_provision, host
  <2>2. op'[o] = [op[o] EXCEPT !.phase = 2, !.todo = SvcBox]
    BY <1>2, <1>j DEF commons_provision, Update
  <2>3. /\ op'[o].verb = "commons up" /\ op'[o].todo = SvcBox
        /\ op'[o].pc = "boot" /\ op'[o].phase = 2
    BY <1>j, <2>1, <2>2 DEF Job
  <2>4. op'[o].todo \subseteq Commons /\ op'[o].phase \in Phases
    BY <2>3, GuestFacts, <1>p, Zenon
  <2>5. VerbInv' /\ RecordInv'
    BY <1>c, <2>3, <2>4
  <2> QED BY <1>t, <2>1, <2>5, QuietHost
<1>3. CASE commons_done(o)
  <2>1. /\ op[o].verb = "commons up" /\ op[o].todo = {} /\ op[o].phase = 2
        /\ UNCHANGED <<dom, image, meta, rec>>
    BY <1>3 DEF commons_done, host
  <2>2. op'[o] = [op[o] EXCEPT !.pc = "done"]
    BY <1>3, <1>j DEF commons_done, Update
  <2>3. /\ op'[o].verb = "commons up" /\ op'[o].todo = {}
        /\ op'[o].pc = "done" /\ op'[o].phase = 2
    BY <1>j, <2>1, <2>2 DEF Job
  <2>4. op'[o].todo \subseteq Commons /\ op'[o].phase \in Phases
    BY <2>3, <1>p, Zenon
  <2>5. VerbInv' /\ RecordInv'
    BY <1>c, <2>3, <2>4
  <2> QED BY <1>t, <2>1, <2>5, QuietHost
<1>4. CASE CommonsDownStart(o)
  <2>1. op'[o].pc = "destroy" /\ op'[o].verb = "commons down"
    BY <1>4, <1>j DEF CommonsDownStart, NewJob, Update, Idle
  <2>2. UNCHANGED <<dom, image, meta, rec>>
    BY <1>4 DEF CommonsDownStart, host
  <2> QED BY <1>t, <2>1, <2>2, QuietHost, QuietJob
<1>5. CASE commons_down_done(o)
  <2>1. op[o].verb = "commons down" /\ UNCHANGED <<dom, image, meta, rec>>
    BY <1>5 DEF commons_down_done, host
  <2>2. op'[o] = [op[o] EXCEPT !.pc = "done"]
    BY <1>5, <1>j DEF commons_down_done, Update
  <2>3. op'[o].pc = "done" /\ op'[o].verb = "commons down"
    BY <1>j, <2>1, <2>2 DEF Job
  <2> QED BY <1>t, <2>1, <2>3, QuietHost, QuietJob
<1> QED BY <1>1, <1>2, <1>3, <1>4, <1>5 DEF CommonsVerbs

LEMMA PinHost ==
  ASSUME OneOperator, PinInv,
         \/ \E o \in Ops : Done(o) \/ Abort(o)
         \/ \E g \in Guests : GuestStops(g)
         \/ NetDown \/ HostReboot
  PROVE  VerbInv' /\ BoxInv' /\ RecordInv' /\ RecordPinsOS'
<1>t. TypeOK /\ VerbInv /\ BoxInv /\ RecordInv /\ RecordPinsOS
  BY DEF PinInv
<1>j. op \in [Ops -> Job] /\ dom \in [Guests -> DomStates]
  BY <1>t DEF TypeOK
<1>i. Idle.pc = "idle" /\ Idle.verb = "bootstrap"
  BY DEF Idle
<1>1. ASSUME NEW o \in Ops, Done(o) \/ Abort(o)
      PROVE  VerbInv' /\ BoxInv' /\ RecordInv' /\ RecordPinsOS'
  <2>1. op'[o] = Idle /\ UNCHANGED <<dom, image, meta, rec>>
    BY <1>1, <1>j DEF Done, Abort, Exit, Update, host
  <2> QED BY <1>t, <1>i, <2>1, QuietHost, QuietJob
<1>2. ASSUME NEW g \in Guests, GuestStops(g)
      PROVE  VerbInv' /\ BoxInv' /\ RecordInv' /\ RecordPinsOS'
  <2>1. UNCHANGED <<image, meta, rec>> /\ is_live(dom, g)
    BY <1>2 DEF GuestStops
  <2>2. \A h \in Guests : /\ is_live(dom', h) => is_live(dom, h)
                          /\ dom'[h] # "absent" => dom[h] # "absent"
    BY <1>2, <1>j DEF GuestStops, is_live
  <2>3. BoxInv' /\ RecordPinsOS'
    BY <1>t, <2>1, <2>2, QuietHost
  <2>4. ASSUME NEW o \in Ops
        PROVE  /\ op'[o].pc = op[o].pc /\ op'[o].verb = op[o].verb /\ op'[o].phase = op[o].phase
               /\ op'[o].stack = op[o].stack /\ op'[o].os = op[o].os
               /\ op'[o].live = op[o].live /\ op'[o].todo = op[o].todo
    <3>1. op[o] \in Job
      BY <1>j
    <3>2. op'[o] = op[o] \/ op'[o] = [op[o] EXCEPT !.fell = op[o].fell \cup {g}]
      BY <1>2 DEF GuestStops, Fell
    <3> QED BY <3>1, <3>2 DEF Job
  <2>5. VerbInv'
    BY <1>t, <2>4 DEF VerbInv, Bootstrapping
  <2>6. ASSUME NEW o \in Ops, ~AnyLive(dom, Members(op[o].stack))
        PROVE  ~AnyLive(dom, Members(op[o].stack))'
    <3>1. Members(op[o].stack) \subseteq Guests
      <4>1. op[o] \in Job
        BY <1>j
      <4>2. op[o].stack \in Stacks
        BY <4>1 DEF Job
      <4> QED BY <4>2, GuestFacts
    <3> QED BY <2>2, <2>4, <2>6, <3>1 DEF AnyLive
  <2>7. RecordInv'
    BY <1>t, <2>1, <2>4, <2>6 DEF RecordInv, Bootstrapping
  <2> QED BY <2>3, <2>5, <2>7
<1>3. CASE NetDown
  <2>1. UNCHANGED <<dom, image, meta, rec, op>>
    BY <1>3 DEF NetDown
  <2>2. VerbInv'
    BY <1>t, <2>1 DEF VerbInv, Bootstrapping
  <2>3. RecordInv'
    BY <1>t, <2>1 DEF RecordInv, Bootstrapping, AnyLive, is_live
  <2> QED BY <1>t, <2>1, <2>2, <2>3, QuietHost
<1>4. CASE HostReboot
  <2>1. UNCHANGED <<image, meta, rec>>
    BY <1>4 DEF HostReboot
  <2>2. \A h \in Guests : /\ is_live(dom', h) => is_live(dom, h)
                          /\ dom'[h] # "absent" => dom[h] # "absent"
    BY <1>4 DEF HostReboot, is_live
  <2>3. BoxInv' /\ RecordPinsOS'
    BY <1>t, <2>1, <2>2, QuietHost
  <2>4. \A o \in Ops : op'[o] = Idle
    BY <1>4 DEF HostReboot
  <2>5. VerbInv'
    BY <1>i, <2>4 DEF VerbInv, Bootstrapping
  <2>6. RecordInv'
    BY <1>i, <2>4 DEF RecordInv, Bootstrapping
  <2> QED BY <2>3, <2>5, <2>6
<1> QED BY <1>1, <1>2, <1>3, <1>4

LEMMA PinInit == Init => PinInv
<1> SUFFICES ASSUME Init PROVE PinInv
  OBVIOUS
<1>1. TypeOK
  BY TypeInit
<1>2. BoxInv
  BY DEF Init, BoxInv
<1>3. \A o \in Ops : op[o] = Idle
  BY DEF Init
<1>4. Idle.pc = "idle" /\ Idle.verb = "bootstrap"
  BY DEF Idle
<1>5. VerbInv
  BY <1>3, <1>4 DEF VerbInv, Bootstrapping
<1>6. RecordInv
  BY <1>3, <1>4 DEF RecordInv, Bootstrapping
<1>7. RecordPinsOS
  BY DEF Init, RecordPinsOS
<1> QED BY <1>1, <1>2, <1>5, <1>6, <1>7 DEF PinInv

LEMMA PinStep == OneOperator /\ PinInv /\ [Next]_vars => PinInv'
<1> SUFFICES ASSUME OneOperator, PinInv, [Next]_vars PROVE PinInv'
  OBVIOUS
<1>1. TypeOK'
  BY TypeStep DEF PinInv
<1>2. CASE UNCHANGED vars
  <2>1. VerbInv /\ BoxInv /\ RecordInv /\ RecordPinsOS
    BY DEF PinInv
  <2>2. UNCHANGED <<dom, image, meta, rec, op>>
    BY <1>2 DEF vars
  <2>3. VerbInv'
    BY <2>1, <2>2 DEF VerbInv, Bootstrapping
  <2>4. RecordInv'
    BY <2>1, <2>2 DEF RecordInv, Bootstrapping, AnyLive, is_live
  <2> QED BY <1>1, <2>1, <2>2, <2>3, <2>4, QuietHost DEF PinInv
<1>3. CASE Next
  BY <1>1, <1>3, PinBootstrap, PinTeardown, PinCommons, PinHost DEF Next, PinInv
<1> QED BY <1>2, <1>3

(***************************************************************************)
(* With one verb at a time the record pins the OS of a stack: no sequence  *)
(* of bootstraps, teardowns, cut verbs, stopped guests and host reboots    *)
(* leaves a live guest of a recorded stack on another OS.                  *)
(***************************************************************************)
THEOREM PinnedForLife == OneOperator => (Spec => []RecordPinsOS)
<1> SUFFICES ASSUME OneOperator PROVE Spec => []RecordPinsOS
  OBVIOUS
<1>1. PinInv /\ [Next]_vars => PinInv'
  BY PinStep
<1>2. PinInv => RecordPinsOS
  BY DEF PinInv
<1> QED BY PinInit, <1>1, <1>2, PTL DEF Spec

-----------------------------------------------------------------------------
(***************************************************************************)
(* The other safety properties of a lab in which one verb runs at a time:  *)
(* what a teardown leaves behind and when it may take the commons, what a  *)
(* bootstrap that exits 0 has reached, and that the reserved pages cover   *)
(* the guests to boot.  LifecycleInv is shown inductive, part by part.     *)
(***************************************************************************)

(***************************************************************************)
(* A step that ends no guest's absence and starts none.                    *)
(***************************************************************************)
Shrinks ==
  \A g \in Guests : /\ is_live(dom', g) => is_live(dom, g)
                    /\ dom'[g] # "absent" => dom[g] # "absent"
                    /\ meta'[g] # NoOs => meta[g] # NoOs

LEMMA PlanCovers ==
  ASSUME NEW G, NEW st
  PROVE  /\ \A g \in G : st[g] # "absent" => <<g, "undefine">> \in plan_destroy(G, st)
         /\ \A g \in G : meta[g] # NoOs => <<g, "forget">> \in plan_destroy(G, st)
         /\ \A g, c : <<g, c>> \in plan_destroy(G, st) => g \in G
BY DEF plan_destroy

-----------------------------------------------------------------------------
(***************************************************************************)
(* The plan of a destroying verb.                                          *)
(***************************************************************************)
LEMMA NotTearing ==
  ASSUME OneOperator, NEW o \in Ops, op'[o].verb # "teardown"
  PROVE  PlanInv' /\ TeardownClean'
<1>1. \A p \in Ops : p = o
  BY DEF OneOperator
<1> QED
  BY <1>1 DEF PlanInv, TeardownClean, TearingDown, MembersPlanned, CommonsAside,
              CommonsPlanned, CommonsGone, LastStack

(***************************************************************************)
(* A step that only takes guests down, and that takes a command off the    *)
(* plan only when its effect has happened, keeps what a teardown relies    *)
(* on.                                                                     *)
(***************************************************************************)
LEMMA PlanKept ==
  ASSUME TypeOK, PlanInv, TeardownClean, Shrinks, OneOperator, NEW o \in Ops,
         op'[o].verb = op[o].verb, op'[o].pc = op[o].pc, op'[o].stack = op[o].stack,
         op'[o].snap = op[o].snap, op'[o].last = op[o].last, op'[o].forced = op[o].forced,
         op'[o].plan \subseteq op[o].plan,
         \A g \in Guests :
           /\ <<g, "undefine">> \in op[o].plan /\ dom'[g] # "absent" =>
                <<g, "undefine">> \in op'[o].plan
           /\ <<g, "forget">> \in op[o].plan /\ meta'[g] # NoOs =>
                <<g, "forget">> \in op'[o].plan
  PROVE  PlanInv' /\ TeardownClean'
<1>o. \A p \in Ops : p = o
  BY DEF OneOperator
<1>s. op[o].stack \in Stacks
  <2>1. op[o] \in Job
    BY DEF TypeOK
  <2> QED BY <2>1 DEF Job
<1>1. Members(op[o].stack) \subseteq Guests /\ Commons \subseteq Guests
  BY <1>s, GuestFacts
<1>t. \A pcs : TearingDown(o, pcs)' <=> TearingDown(o, pcs)
  BY DEF TearingDown
<1>2. MembersPlanned(o)'
  <2>1. MembersPlanned(o)
    BY DEF PlanInv
  <2> QED BY <1>1, <1>t, <2>1 DEF MembersPlanned, Shrinks
<1>3. CommonsAside(o)'
  <2>1. CommonsAside(o)
    BY DEF PlanInv
  <2> QED BY <1>1, <1>t, <2>1 DEF CommonsAside, Shrinks
<1>4. CommonsPlanned(o)'
  <2>1. CommonsPlanned(o)
    BY DEF PlanInv
  <2> QED BY <1>1, <1>t, <2>1 DEF CommonsPlanned, Shrinks
<1>5. CommonsGone(o)'
  <2>1. CommonsGone(o)
    BY DEF PlanInv
  <2> QED BY <1>1, <1>t, <2>1 DEF CommonsGone, Shrinks
<1>6. LastStack(o)'
  <2>1. LastStack(o)
    BY DEF PlanInv
  <2>2. ASSUME ~other_stacks_up(op[o].stack) PROVE ~other_stacks_up(op[o].stack)'
    <3>1. \A t \in Stacks \ {op[o].stack} : \A g \in Members(t) : ~is_live(dom', g)
      BY <2>2, GuestFacts DEF Shrinks, other_stacks_up, AnyLive
    <3> QED BY <3>1 DEF other_stacks_up, AnyLive, is_live
  <2> QED BY <1>t, <2>1, <2>2 DEF LastStack
<1>7. TeardownClean'
  BY <1>o, <1>1 DEF TeardownClean, Shrinks
<1> QED BY <1>o, <1>2, <1>3, <1>4, <1>5, <1>6, <1>7 DEF PlanInv

(***************************************************************************)
(* A bootstrap or a commons verb stays one.                                *)
(***************************************************************************)
LEMMA BootstrapVerb ==
  ASSUME TypeOK, VerbInv, NEW o \in Ops, Bootstrap(o) \/ CommonsVerbs(o)
  PROVE  op'[o].verb # "teardown"
<1>j. op \in [Ops -> Job] /\ op[o] \in Job
  BY DEF TypeOK
<1>i. Idle.verb = "bootstrap"
  BY DEF Idle
<1>v. op[o].pc \in {"pin", "probe", "reserve", "phase", "boot", "play"} => op[o].verb # "teardown"
  BY DEF VerbInv
<1>1. ASSUME NEW p, Advance(o, p) PROVE op'[o].verb = op[o].verb
  <2> DEFINE pc == IF p = 4 \/ op[o].mode = "only" THEN "done" ELSE "phase"
             phase == p + 1
  <2>1. op'[o] = [op[o] EXCEPT !.pc = pc, !.phase = phase]
    BY <1>1, <1>j DEF Advance, Update
  <2> HIDE DEF pc, phase
  <2> QED BY <1>j, <2>1 DEF Job
<1>2. ASSUME NEW s, NEW config, NEW no_dr, NEW mode, NEW p,
             BootstrapStart(o, s, config, no_dr, mode, p)
      PROVE  op'[o].verb # "teardown"
  BY <1>2, <1>j DEF BootstrapStart, NewJob, Update, Idle
<1>3. CASE reconcile(o)
  <2>1. op'[o] = [op[o] EXCEPT !.pc = "probe"] \/ op'[o] = Idle
    BY <1>3, <1>j DEF reconcile, Update, Exit
  <2>2. op'[o].verb \in {op[o].verb, "bootstrap"}
    BY <1>i, <1>j, <2>1 DEF Job
  <2> QED BY <1>3, <1>v, <2>2 DEF reconcile
<1>4. CASE probe_all(o)
  <2>1. PICK p, snap, pc :
          Update(o, [op[o] EXCEPT !.phase = p, !.fell = {}, !.skips = p > 3, !.snap = snap, !.pc = pc])
    BY <1>4 DEF probe_all
  <2>2. op'[o] = [op[o] EXCEPT !.phase = p, !.fell = {}, !.skips = p > 3, !.snap = snap, !.pc = pc]
    BY <1>j, <2>1 DEF Update
  <2>3. op'[o].verb = op[o].verb
    BY <1>j, <2>2 DEF Job
  <2> QED BY <1>4, <1>v, <2>3 DEF probe_all
<1>5. CASE reserve_hugepages(o)
  <2> DEFINE pc == IF op[o].verb = "bootstrap" THEN "phase" ELSE "boot"
  <2>1. op'[o] = Idle \/ op'[o] = [op[o] EXCEPT !.snap = Idle.snap, !.pc = pc]
    BY <1>5, <1>j DEF reserve_hugepages, Update, Exit
  <2> HIDE DEF pc
  <2>2. op'[o].verb \in {op[o].verb, "bootstrap"}
    BY <1>i, <1>j, <2>1 DEF Job
  <2> QED BY <1>5, <1>v, <2>2 DEF reserve_hugepages
<1>6. CASE net_phase(o) \/ vms_done(o) \/ provision_done(o) \/ observe_phase(o)
  BY <1>1, <1>6, <1>v DEF net_phase, vms_done, provision_done, observe_phase, AtPhase
<1>7. CASE vms_phase(o)
  <2>1. PICK todo : op'[o] = [op[o] EXCEPT !.pc = "boot", !.todo = todo]
    BY <1>7, <1>j DEF vms_phase, Update
  <2>2. op'[o].verb = op[o].verb
    BY <1>j, <2>1 DEF Job
  <2> QED BY <1>7, <1>v, <2>2 DEF vms_phase, AtPhase
<1>8. ASSUME NEW g \in Guests, vagrant_up(o, g) PROVE op'[o].verb # "teardown"
  <2>1. op'[o] = [op[o] EXCEPT !.todo = op[o].todo \ {g}]
    BY <1>8, <1>j DEF vagrant_up, Update
  <2>2. op'[o].verb = op[o].verb
    BY <1>j, <2>1 DEF Job
  <2> QED BY <1>8, <1>v, <2>2 DEF vagrant_up
<1>9. CASE provision_phase(o)
  <2>1. PICK plays : op'[o] = [op[o] EXCEPT !.pc = "play", !.plays = plays]
    BY <1>9, <1>j DEF provision_phase, Update
  <2>2. op'[o].verb = op[o].verb
    BY <1>j, <2>1 DEF Job
  <2> QED BY <1>9, <1>v, <2>2 DEF provision_phase, AtPhase
<1>10. ASSUME NEW p \in Plays, play(o, p) PROVE op'[o].verb # "teardown"
  <2>1. op'[o] = [op[o] EXCEPT !.plays = op[o].plays \ {p}]
    BY <1>10, <1>j DEF play, Update
  <2>2. op'[o].verb = op[o].verb
    BY <1>j, <2>1 DEF Job
  <2> QED BY <1>10, <1>v, <2>2 DEF play
<1>11. CASE CommonsUpStart(o) \/ CommonsDownStart(o)
  <2>1. CASE CommonsUpStart(o)
    BY <2>1, <1>j DEF CommonsUpStart, NewJob, Update, Idle
  <2>2. CASE CommonsDownStart(o)
    BY <2>2, <1>j DEF CommonsDownStart, NewJob, Update, Idle
  <2> QED BY <1>11, <2>1, <2>2
<1>12. CASE commons_provision(o) \/ commons_done(o) \/ commons_down_done(o)
  <2>1. op[o].verb # "teardown"
    BY <1>12 DEF commons_provision, commons_done, commons_down_done
  <2>2. \/ op'[o] = [op[o] EXCEPT !.phase = 2, !.todo = SvcBox]
        \/ op'[o] = [op[o] EXCEPT !.pc = "done"]
    BY <1>12, <1>j DEF commons_provision, commons_done, commons_down_done, Update
  <2>3. op'[o].verb = op[o].verb
    BY <1>j, <2>2 DEF Job
  <2> QED BY <2>1, <2>3
<1> QED
  BY <1>2, <1>3, <1>4, <1>5, <1>6, <1>7, <1>8, <1>9, <1>10, <1>11, <1>12
  DEF Bootstrap, CommonsVerbs

LEMMA PlanTeardown ==
  ASSUME OneOperator, TypeOK, VerbInv, PlanInv, TeardownClean, NEW o \in Ops, Teardown(o)
  PROVE  PlanInv' /\ TeardownClean'
<1>j. op \in [Ops -> Job] /\ op[o] \in Job
  BY DEF TypeOK
<1>o. \A p \in Ops : p = o
  BY DEF OneOperator
<1>d. dom \in [Guests -> DomStates] /\ meta \in [Guests -> Oses \cup {NoOs}]
  BY DEF TypeOK
<1>s. op[o].stack \in Stacks
  BY <1>j DEF Job
<1>p. MembersPlanned(o) /\ CommonsAside(o) /\ CommonsPlanned(o) /\ CommonsGone(o) /\ LastStack(o)
  BY DEF PlanInv
<1>i. Idle.verb = "bootstrap"
  BY DEF Idle
<1>1. ASSUME NEW s \in Stacks, NEW commons \in BOOLEAN, TeardownStart(o, s, commons)
      PROVE  PlanInv' /\ TeardownClean'
  <2>1. /\ op'[o].verb = "teardown" /\ op'[o].pc = "refcount" /\ op'[o].stack = s
        /\ op'[o].snap = dom /\ op'[o].plan = plan_destroy(Members(s), dom)
        /\ UNCHANGED <<dom, meta>>
    BY <1>1, <1>j DEF TeardownStart, NewJob, Update, Idle, host
  <2>2. MembersPlanned(o)'
    <3>1. \A g \in Members(s) :
            /\ dom[g] # "absent" => <<g, "undefine">> \in plan_destroy(Members(s), dom)
            /\ meta[g] # NoOs => <<g, "forget">> \in plan_destroy(Members(s), dom)
      BY PlanCovers
    <3> QED BY <2>1, <3>1 DEF MembersPlanned
  <2>3. CommonsAside(o)'
    <3>1. \A g \in Commons : g \notin Members(s)
      BY LifecycleAssumption
    <3>2. \A g, c : <<g, c>> \in plan_destroy(Members(s), dom) => g \in Members(s)
      BY PlanCovers
    <3> QED BY <2>1, <3>1, <3>2 DEF CommonsAside
  <2>4. CommonsPlanned(o)' /\ CommonsGone(o)' /\ LastStack(o)'
    BY <2>1 DEF CommonsPlanned, CommonsGone, LastStack, TearingDown
  <2>5. TeardownClean'
    BY <1>o, <2>1 DEF TeardownClean
  <2> QED BY <1>o, <2>2, <2>3, <2>4, <2>5 DEF PlanInv
<1>2. CASE refcount(o)
  <2> DEFINE last == (Lever \/ ~op[o].forced) /\ ~other_stacks_up(op[o].stack)
             more == IF op[o].forced \/ last THEN plan_destroy(Commons, op[o].snap) ELSE {}
             plan == op[o].plan \cup more
  <2>1. /\ op[o].pc = "refcount" /\ op[o].verb = "teardown" /\ UNCHANGED <<dom, meta>>
        /\ op'[o] = [op[o] EXCEPT !.pc = "destroy", !.last = last, !.snap = Idle.snap,
                                  !.plan = plan]
    BY <1>2, <1>j DEF refcount, VerbInv, Update, host
  <2>2. last => ~other_stacks_up(op[o].stack)
    OBVIOUS
  <2>3. last \in BOOLEAN /\ (more # {} => op[o].forced \/ last)
    OBVIOUS
  <2>4. last => more = plan_destroy(Commons, op[o].snap)
    OBVIOUS
  <2>5. op[o].plan \subseteq plan /\ more \subseteq plan
        /\ \A x : x \in plan => x \in op[o].plan \/ more # {}
    OBVIOUS
  <2> HIDE DEF last, more, plan
  <2>6. /\ op'[o].verb = "teardown" /\ op'[o].pc = "destroy" /\ op'[o].stack = op[o].stack
        /\ op'[o].last = last /\ op'[o].plan = plan /\ op'[o].forced = op[o].forced
    BY <1>j, <2>1 DEF Job
  <2>7. MembersPlanned(o)'
    BY <1>p, <2>1, <2>5, <2>6 DEF MembersPlanned, TearingDown
  <2>8. CommonsPlanned(o)'
    <3>1. ASSUME last, NEW g \in Commons, dom'[g] # "absent" PROVE <<g, "undefine">> \in plan
      <4>1. op[o].snap[g] # "absent"
        BY <1>p, <2>1, <3>1 DEF CommonsAside, TearingDown
      <4> QED BY <2>4, <2>5, <3>1, <4>1, PlanCovers
    <3>2. (\E g \in Commons, c \in Commands : <<g, c>> \in plan) => op[o].forced \/ last
      BY <1>p, <2>1, <2>3, <2>5 DEF CommonsAside, TearingDown
    <3> QED BY <2>6, <3>1, <3>2 DEF CommonsPlanned
  <2>9. LastStack(o)'
    BY <2>1, <2>2, <2>6 DEF LastStack, other_stacks_up, AnyLive, is_live
  <2>10. CommonsAside(o)' /\ CommonsGone(o)'
    BY <2>6 DEF CommonsAside, CommonsGone, TearingDown
  <2>11. TeardownClean'
    BY <1>o, <2>6 DEF TeardownClean
  <2> QED BY <1>o, <2>7, <2>8, <2>9, <2>10, <2>11 DEF PlanInv
<1>3. ASSUME NEW g \in Guests, NEW c \in Commands, MayRun(o, g, c), Shrinks,
             c = "undefine" => dom'[g] = "absent", c = "forget" => meta'[g] = NoOs
      PROVE  PlanInv' /\ TeardownClean'
  <2>1. op'[o] = [op[o] EXCEPT !.plan = op[o].plan \ {<<g, c>>}]
    BY <1>3, <1>j DEF MayRun, Update
  <2>2. /\ op'[o].verb = op[o].verb /\ op'[o].pc = op[o].pc /\ op'[o].stack = op[o].stack
        /\ op'[o].snap = op[o].snap /\ op'[o].last = op[o].last
        /\ op'[o].forced = op[o].forced /\ op'[o].plan = op[o].plan \ {<<g, c>>}
    BY <1>j, <2>1 DEF Job
  <2>3. \A h \in Guests :
          /\ <<h, "undefine">> \in op[o].plan /\ dom'[h] # "absent" =>
               <<h, "undefine">> \in op'[o].plan
          /\ <<h, "forget">> \in op[o].plan /\ meta'[h] # NoOs =>
               <<h, "forget">> \in op'[o].plan
    BY <1>3, <2>2
  <2>4. op'[o].plan \subseteq op[o].plan
    BY <2>2
  <2> QED BY <1>3, <2>2, <2>3, <2>4, PlanKept
<1>4. ASSUME NEW g \in Guests, forceoff(o, g) PROVE PlanInv' /\ TeardownClean'
  <2>1. MayRun(o, g, "force") /\ is_live(dom, g) /\ dom' = [dom EXCEPT ![g] = "off"] /\ meta' = meta
    BY <1>4 DEF forceoff
  <2>2. Shrinks
    BY <1>d, <2>1 DEF Shrinks, is_live
  <2> QED BY <1>3, <2>1, <2>2 DEF Commands
<1>5. ASSUME NEW g \in Guests, undefine(o, g) PROVE PlanInv' /\ TeardownClean'
  <2>1. MayRun(o, g, "undefine") /\ dom' = [dom EXCEPT ![g] = "absent"] /\ meta' = meta
    BY <1>5 DEF undefine
  <2>2. Shrinks /\ dom'[g] = "absent"
    BY <1>d, <2>1 DEF Shrinks, is_live
  <2> QED BY <1>3, <2>1, <2>2 DEF Commands
<1>6. ASSUME NEW g \in Guests, forget_machine(o, g) PROVE PlanInv' /\ TeardownClean'
  <2>1. MayRun(o, g, "forget") /\ meta' = [meta EXCEPT ![g] = NoOs] /\ dom' = dom
    BY <1>6 DEF forget_machine
  <2>2. Shrinks /\ meta'[g] = NoOs
    BY <1>d, <2>1 DEF Shrinks, is_live
  <2> QED BY <1>3, <2>1, <2>2 DEF Commands
<1>7. CASE delete_record(o)
  <2> DEFINE pc == IF Lever /\ op[o].last THEN "release" ELSE "done"
  <2>1. /\ op[o].pc = "destroy" /\ op[o].verb = "teardown" /\ op[o].plan = {}
        /\ UNCHANGED <<dom, meta>> /\ op'[o] = [op[o] EXCEPT !.pc = pc]
    BY <1>7, <1>j DEF delete_record, Update, host
  <2>2. pc \in {"release", "done"} /\ (pc = "release" => op[o].last)
    OBVIOUS
  <2> HIDE DEF pc
  <2>3. /\ op'[o].verb = "teardown" /\ op'[o].pc = pc /\ op'[o].stack = op[o].stack
        /\ op'[o].last = op[o].last
    BY <1>j, <2>1 DEF Job
  <2>4. TeardownClean'
    BY <1>o, <1>p, <2>1, <2>3 DEF TeardownClean, MembersPlanned, TearingDown
  <2>5. CommonsGone(o)'
    BY <1>p, <2>1, <2>2, <2>3 DEF CommonsGone, CommonsPlanned, TearingDown
  <2>6. LastStack(o)'
    BY <1>p, <2>1, <2>3 DEF LastStack, TearingDown, other_stacks_up, AnyLive, is_live
  <2>7. MembersPlanned(o)' /\ CommonsAside(o)' /\ CommonsPlanned(o)'
    BY <2>2, <2>3 DEF MembersPlanned, CommonsAside, CommonsPlanned, TearingDown
  <2> QED BY <1>o, <2>4, <2>5, <2>6, <2>7 DEF PlanInv
<1>8. CASE release_hugepages(o)
  <2>1. /\ op[o].pc = "release" /\ op[o].verb = "teardown" /\ UNCHANGED <<dom, meta>>
        /\ op'[o] = Idle \/ op'[o] = [op[o] EXCEPT !.pc = "done"]
    BY <1>8, <1>j DEF release_hugepages, VerbInv, Update, Exit
  <2>2. CASE op'[o] = Idle
    BY <1>i, <2>2, NotTearing
  <2>3. CASE op'[o] = [op[o] EXCEPT !.pc = "done"]
    <3>1. op'[o].verb = "teardown" /\ op'[o].pc = "done" /\ op'[o].stack = op[o].stack
      BY <1>j, <2>1, <2>3 DEF Job
    <3>2. TeardownClean'
      BY <1>o, <2>1, <3>1 DEF TeardownClean
    <3>3. PlanInv'
      BY <1>o, <3>1 DEF PlanInv, MembersPlanned, CommonsAside, CommonsPlanned, CommonsGone,
                        LastStack, TearingDown
    <3> QED BY <3>2, <3>3
  <2> QED BY <2>1, <2>2, <2>3
<1> QED BY <1>1, <1>2, <1>4, <1>5, <1>6, <1>7, <1>8 DEF Teardown

(***************************************************************************)
(* What a guest that stops does to a verb under way: it is noted.          *)
(***************************************************************************)
LEMMA FellFacts ==
  ASSUME TypeOK, NEW o \in Ops, NEW g \in Guests, Fell(g)
  PROVE  /\ op'[o].verb = op[o].verb /\ op'[o].pc = op[o].pc /\ op'[o].stack = op[o].stack
         /\ op'[o].snap = op[o].snap /\ op'[o].last = op[o].last
         /\ op'[o].forced = op[o].forced /\ op'[o].plan = op[o].plan
         /\ op'[o].mode = op[o].mode /\ op'[o].no_dr = op[o].no_dr
         /\ op'[o].phase = op[o].phase /\ op'[o].todo = op[o].todo /\ op'[o].plays = op[o].plays
         /\ op'[o].skips = op[o].skips
         /\ op[o].pc # "idle" => op'[o].fell = op[o].fell \cup {g}
<1>1. op[o] \in Job
  BY DEF TypeOK
<1>2. op'[o] = IF op[o].pc = "idle" THEN op[o] ELSE [op[o] EXCEPT !.fell = op[o].fell \cup {g}]
  BY DEF Fell
<1>3. CASE op[o].pc = "idle"
  BY <1>2, <1>3
<1>4. CASE op[o].pc # "idle"
  <2>1. op'[o] = [op[o] EXCEPT !.fell = op[o].fell \cup {g}]
    BY <1>2, <1>4
  <2> QED BY <1>1, <2>1 DEF Job
<1> QED BY <1>3, <1>4

LEMMA PlanHost ==
  ASSUME OneOperator, TypeOK, PlanInv, TeardownClean,
         \/ \E o \in Ops : Done(o) \/ Abort(o)
         \/ \E g \in Guests : GuestStops(g)
         \/ NetDown \/ HostReboot
         \/ UNCHANGED vars
  PROVE  PlanInv' /\ TeardownClean'
<1>j. op \in [Ops -> Job] /\ dom \in [Guests -> DomStates]
  BY DEF TypeOK
<1>i. Idle.verb = "bootstrap"
  BY DEF Idle
<1>1. ASSUME NEW o \in Ops, Done(o) \/ Abort(o) PROVE PlanInv' /\ TeardownClean'
  <2>1. op'[o] = Idle
    BY <1>1, <1>j DEF Done, Abort, Exit, Update
  <2> QED BY <1>i, <2>1, NotTearing
<1>e. CASE Ops = {}
  BY <1>e DEF PlanInv, TeardownClean
<1>2. ASSUME NEW g \in Guests, GuestStops(g), Ops # {} PROVE PlanInv' /\ TeardownClean'
  <2>1. PICK o \in Ops : TRUE
    BY <1>2
  <2>2. Fell(g) /\ meta' = meta
    BY <1>2 DEF GuestStops
  <2>3. Shrinks
    BY <1>2, <1>j DEF Shrinks, GuestStops, is_live
  <2> QED BY <2>2, <2>3, FellFacts, PlanKept
<1>3. ASSUME NetDown \/ UNCHANGED vars, Ops # {} PROVE PlanInv' /\ TeardownClean'
  <2>1. PICK o \in Ops : TRUE
    BY <1>3
  <2>2. UNCHANGED <<dom, meta, op>>
    BY <1>3 DEF NetDown, vars
  <2>3. Shrinks
    BY <2>2 DEF Shrinks
  <2> QED BY <2>2, <2>3, PlanKept
<1>4. ASSUME HostReboot, Ops # {} PROVE PlanInv' /\ TeardownClean'
  <2>1. PICK o \in Ops : TRUE
    BY <1>4
  <2>2. op'[o] = Idle
    BY <1>4 DEF HostReboot
  <2> QED BY <1>i, <2>2, NotTearing
<1> QED BY <1>1, <1>2, <1>3, <1>4, <1>e

-----------------------------------------------------------------------------
(***************************************************************************)
(* What a bootstrap has behind it.                                         *)
(***************************************************************************)
LEMMA NotBootstrapping ==
  ASSUME OneOperator, NEW o \in Ops,
         \/ op'[o].verb # "bootstrap" \/ op'[o].mode # "auto"
         \/ op'[o].pc \in {"idle", "pin", "probe"}
  PROVE  ProgressInv' /\ BootstrapUp'
<1>1. \A p \in Ops : p = o
  BY DEF OneOperator
<1> QED
  BY <1>1 DEF ProgressInv, BootstrapUp, Finished, VmsReached, QmReached, Bootstrapping

(***************************************************************************)
(* A destroying verb stays one, or ends.                                   *)
(***************************************************************************)
LEMMA TeardownPc ==
  ASSUME TypeOK, VerbInv, NEW o \in Ops, Teardown(o)
  PROVE  /\ op'[o].pc \in {"refcount", "destroy", "release", "done", "idle"}
         /\ op'[o].verb # "bootstrap" \/ op'[o].pc = "idle"
<1>j. op \in [Ops -> Job] /\ op[o] \in Job
  BY DEF TypeOK
<1>1. ASSUME NEW s \in Stacks, NEW commons \in BOOLEAN, TeardownStart(o, s, commons)
      PROVE  op'[o].pc = "refcount" /\ op'[o].verb = "teardown"
  BY <1>1, <1>j DEF TeardownStart, NewJob, Update, Idle
<1>2. ASSUME refcount(o) PROVE op'[o].pc = "destroy" /\ op'[o].verb = "teardown"
  <2>1. op[o].verb = "teardown"
    BY <1>2 DEF refcount, VerbInv
  <2>2. PICK last, snap, plan :
          op'[o] = [op[o] EXCEPT !.pc = "destroy", !.last = last, !.snap = snap, !.plan = plan]
    BY <1>j, <1>2 DEF refcount, Update
  <2> QED BY <1>j, <2>1, <2>2 DEF Job
<1>3. ASSUME NEW g \in Guests, NEW c, MayRun(o, g, c)
      PROVE  op'[o].pc = "destroy" /\ op'[o].verb # "bootstrap"
  <2>1. op[o].pc = "destroy" /\ op[o].verb # "bootstrap"
    BY <1>3 DEF MayRun, VerbInv
  <2>2. op'[o] = [op[o] EXCEPT !.plan = op[o].plan \ {<<g, c>>}]
    BY <1>j, <1>3 DEF MayRun, Update
  <2> QED BY <1>j, <2>1, <2>2 DEF Job
<1>4. ASSUME delete_record(o) PROVE op'[o].pc \in {"release", "done"} /\ op'[o].verb = "teardown"
  <2> DEFINE pc == IF Lever /\ op[o].last THEN "release" ELSE "done"
  <2>1. op[o].verb = "teardown" /\ op'[o] = [op[o] EXCEPT !.pc = pc]
    BY <1>4, <1>j DEF delete_record, Update
  <2>2. pc \in {"release", "done"}
    OBVIOUS
  <2> HIDE DEF pc
  <2> QED BY <1>j, <2>1, <2>2 DEF Job
<1>5. ASSUME release_hugepages(o)
      PROVE  op'[o].pc = "idle" \/ (op'[o].pc = "done" /\ op'[o].verb = "teardown")
  <2>1. op[o].verb = "teardown" /\ (op'[o] = Idle \/ op'[o] = [op[o] EXCEPT !.pc = "done"])
    BY <1>5, <1>j DEF release_hugepages, VerbInv, Update, Exit
  <2>2. Idle.pc = "idle"
    BY DEF Idle
  <2> QED BY <1>j, <2>1, <2>2 DEF Job
<1> QED
  BY <1>1, <1>2, <1>3, <1>4, <1>5 DEF Teardown, forceoff, undefine, forget_machine

LEMMA CommonsVerb ==
  ASSUME TypeOK, NEW o \in Ops, CommonsVerbs(o)
  PROVE  op'[o].verb # "bootstrap"
<1>j. op \in [Ops -> Job] /\ op[o] \in Job
  BY DEF TypeOK
<1>1. CASE CommonsUpStart(o)
  BY <1>1, <1>j DEF CommonsUpStart, NewJob, Update, Idle
<1>2. CASE CommonsDownStart(o)
  BY <1>2, <1>j DEF CommonsDownStart, NewJob, Update, Idle
<1>3. CASE commons_provision(o) \/ commons_done(o) \/ commons_down_done(o)
  <2>1. op[o].verb # "bootstrap"
    BY <1>3 DEF commons_provision, commons_done, commons_down_done
  <2>2. \/ op'[o] = [op[o] EXCEPT !.phase = 2, !.todo = SvcBox]
        \/ op'[o] = [op[o] EXCEPT !.pc = "done"]
    BY <1>3, <1>j DEF commons_provision, commons_done, commons_down_done, Update
  <2>3. op'[o].verb = op[o].verb
    BY <1>j, <2>2 DEF Job
  <2> QED BY <2>1, <2>3
<1> QED BY <1>1, <1>2, <1>3 DEF CommonsVerbs

(***************************************************************************)
(* What the probe learns.  A bootstrap that chooses its phases itself      *)
(* skips a phase only on the probe's word.                                 *)
(***************************************************************************)
LEMMA ProbeFacts ==
  ASSUME TypeOK, VerbInv, NEW o \in Ops, probe_all(o)
  PROVE  /\ op'[o].verb = "bootstrap" /\ op'[o].stack = op[o].stack
         /\ op'[o].no_dr = op[o].no_dr /\ op'[o].mode = op[o].mode
         /\ op'[o].fell = {} /\ op'[o].phase \in 1..5
         /\ op'[o].pc \in {"reserve", "phase", "done"}
         /\ op'[o].pc = "reserve" => /\ op'[o].snap = dom
                                     /\ op[o].mode # "only" => op'[o].phase \leq 2
         /\ Lever /\ op'[o].pc = "phase" => ~VmsAhead(o)'
         /\ op'[o].pc = "done" => op'[o].phase = 5
         /\ op[o].mode = "auto" =>
              /\ op'[o].phase > 2 => \A g \in all_vms(op[o].stack, FALSE) : dom[g] = "running"
              /\ op'[o].phase > 3 => op[o].stack \in formed /\ op'[o].skips
              /\ op'[o].phase > 4 => op[o].stack \in obs
<1>j. op \in [Ops -> Job] /\ op[o] \in Job
  BY DEF TypeOK
<1> DEFINE s == op[o].stack
           st(qm_up, observe) ==
             [nets |-> netUp, domains |-> dom, qm_up |-> qm_up, observe |-> observe]
           vms(p) == IF op[o].mode = "only" THEN p = 2 ELSE p \leq 2
           snap(p) == IF vms(p) /\ Lever THEN dom ELSE op[o].snap
           pc(p) == IF p = 5 THEN "done" ELSE IF vms(p) /\ Lever THEN "reserve" ELSE "phase"
<1>1. PICK qm_up \in BOOLEAN, observe \in BOOLEAN, p \in 1..5 :
        /\ qm_up => s \in formed
        /\ observe => s \in obs
        /\ op[o].mode = "auto" => IsFirstUnsatisfied(p, s, st(qm_up, observe))
        /\ Update(o, [op[o] EXCEPT !.phase = p, !.fell = {}, !.skips = p > 3, !.snap = snap(p), !.pc = pc(p)])
  BY DEF probe_all
<1>2. op[o].verb = "bootstrap"
  BY DEF probe_all, VerbInv
<1>3. /\ pc(p) \in {"reserve", "phase", "done"}
      /\ pc(p) = "reserve" => snap(p) = dom /\ (op[o].mode # "only" => p \leq 2)
      /\ Lever /\ pc(p) = "phase" => ~(p = 2 \/ (p = 1 /\ op[o].mode # "only"))
      /\ pc(p) = "done" => p = 5
  BY <1>1, LifecycleAssumption
<1>4. op'[o] = [op[o] EXCEPT !.phase = p, !.fell = {}, !.skips = p > 3, !.snap = snap(p), !.pc = pc(p)]
  BY <1>1, <1>j DEF Update
<1>5. ASSUME op[o].mode = "auto"
      PROVE  /\ p > 2 => \A g \in all_vms(s, FALSE) : dom[g] = "running"
             /\ p > 3 => s \in formed
             /\ p > 4 => s \in obs
  <2>1. \A q \in Phases : q < p => satisfied(q, s, st(qm_up, observe))
    BY <1>1, <1>5 DEF IsFirstUnsatisfied
  <2>2. p > 2 => \A g \in all_vms(s, FALSE) : dom[g] = "running"
    <3>1. p > 2 => satisfied(2, s, st(qm_up, observe))
      BY <1>1, <2>1 DEF Phases
    <3>2. satisfied(2, s, st(qm_up, observe)) <=> vms_satisfied(s, st(qm_up, observe))
      BY DEF satisfied
    <3>3. st(qm_up, observe).domains = dom
      OBVIOUS
    <3> HIDE DEF st
    <3> QED BY <3>1, <3>2, <3>3 DEF vms_satisfied
  <2>3. p > 3 => s \in formed
    BY <1>1, <2>1 DEF Phases, satisfied, provision_satisfied
  <2>4. p > 4 => s \in obs
    BY <1>1, <2>1 DEF Phases, satisfied, observe_satisfied
  <2> QED BY <2>2, <2>3, <2>4
<1> HIDE DEF snap, pc, s, st, vms
<1>6. /\ op'[o].phase = p /\ op'[o].fell = {} /\ op'[o].snap = snap(p) /\ op'[o].pc = pc(p)
      /\ op'[o].verb = op[o].verb /\ op'[o].stack = op[o].stack
      /\ op'[o].no_dr = op[o].no_dr /\ op'[o].mode = op[o].mode /\ op'[o].skips = (p > 3)
  BY <1>4, <1>j DEF Job
<1> QED BY <1>1, <1>2, <1>3, <1>5, <1>6 DEF VmsAhead, s

(***************************************************************************)
(* What the end of a phase does.                                           *)
(***************************************************************************)
LEMMA AdvanceFacts ==
  ASSUME TypeOK, NEW o \in Ops, NEW p \in Phases, Advance(o, p)
  PROVE  /\ op'[o].verb = op[o].verb /\ op'[o].stack = op[o].stack
         /\ op'[o].no_dr = op[o].no_dr /\ op'[o].mode = op[o].mode
         /\ op'[o].fell = op[o].fell /\ op'[o].todo = op[o].todo /\ op'[o].skips = op[o].skips
         /\ op'[o].phase = p + 1
         /\ op'[o].pc = IF p = 4 \/ op[o].mode = "only" THEN "done" ELSE "phase"
<1>j. op \in [Ops -> Job] /\ op[o] \in Job
  BY DEF TypeOK
<1> DEFINE pc == IF p = 4 \/ op[o].mode = "only" THEN "done" ELSE "phase"
           phase == p + 1
<1>1. op'[o] = [op[o] EXCEPT !.pc = pc, !.phase = phase]
  BY <1>j DEF Advance, Update
<1> HIDE DEF pc, phase
<1>2. /\ op'[o].pc = pc /\ op'[o].phase = phase /\ op'[o].verb = op[o].verb
      /\ op'[o].stack = op[o].stack /\ op'[o].no_dr = op[o].no_dr /\ op'[o].mode = op[o].mode
      /\ op'[o].fell = op[o].fell /\ op'[o].todo = op[o].todo /\ op'[o].skips = op[o].skips
  BY <1>1, <1>j DEF Job
<1> QED BY <1>2 DEF pc, phase

LEMMA FootprintGrows ==
  ASSUME NEW s, NEW no_dr
  PROVE  all_vms(s, no_dr) \subseteq all_vms(s, FALSE)
BY DEF all_vms, Members

LEMMA ProgressBootstrap ==
  ASSUME OneOperator, TypeOK, VerbInv, ProgressInv, BootstrapUp, NEW o \in Ops, Bootstrap(o)
  PROVE  ProgressInv' /\ BootstrapUp'
<1>j. op \in [Ops -> Job] /\ op[o] \in Job /\ dom \in [Guests -> DomStates]
  BY DEF TypeOK
<1>o. \A p \in Ops : p = o
  BY DEF OneOperator
<1>i. Idle.pc = "idle" /\ Idle.verb = "bootstrap"
  BY DEF Idle
<1>f. op[o].phase \in 1..5 /\ op[o].stack \in Stacks
  BY <1>j DEF Job
<1> DEFINE footprint == all_vms(op[o].stack, op[o].no_dr)
<1>1. ASSUME NEW s \in Stacks, NEW config \in Oses \cup {NoOs}, NEW no_dr \in BOOLEAN,
             NEW mode \in {"auto", "from", "only"}, NEW p \in Phases,
             BootstrapStart(o, s, config, no_dr, mode, p)
      PROVE  ProgressInv' /\ BootstrapUp'
  <2>1. op'[o].pc = "pin"
    BY <1>1, <1>j DEF BootstrapStart, NewJob, Update, Idle
  <2> QED BY <2>1, NotBootstrapping
<1>2. CASE reconcile(o)
  <2>1. op'[o] = [op[o] EXCEPT !.pc = "probe"] \/ op'[o] = Idle
    BY <1>2, <1>j DEF reconcile, Update, Exit
  <2>2. op'[o].pc \in {"probe", "idle"}
    BY <1>i, <1>j, <2>1 DEF Job
  <2> QED BY <2>2, NotBootstrapping
<1>m. CASE op'[o].mode # "auto"
  BY <1>m, NotBootstrapping
<1>3. CASE probe_all(o) /\ op'[o].mode = "auto"
  <2>1. UNCHANGED <<dom, formed, qm, obs>> /\ op[o].mode = "auto"
    BY <1>3, ProbeFacts DEF probe_all, host, provisioned
  <2>2. op'[o].phase > 2 => \A g \in footprint : dom[g] = "running"
    BY <1>3, <2>1, ProbeFacts, FootprintGrows
  <2>3. VmsReached(o)'
    BY <1>3, <2>1, <2>2, ProbeFacts DEF VmsReached, Bootstrapping, Up
  <2>4. QmReached(o)'
    BY <1>3, <2>1, ProbeFacts DEF QmReached, Bootstrapping
  <2>5. Bootstrapping(o, {"reserve"})' => op'[o].phase \in {1, 2}
    <3>1. op'[o].phase \in 1..5 /\ (op'[o].pc = "reserve" => op'[o].phase \leq 2)
      BY <1>3, <2>1, ProbeFacts
    <3>2. op'[o].pc = "reserve" => op'[o].phase = 1 \/ op'[o].phase = 2
      BY <3>1
    <3> QED BY <3>2 DEF Bootstrapping
  <2>6. ProgressInv'
    BY <1>o, <2>3, <2>4, <2>5 DEF ProgressInv
  <2>7. BootstrapUp'
    <3>1. /\ op'[o].stack = op[o].stack /\ op'[o].no_dr = op[o].no_dr
          /\ op'[o].pc = "done" => op'[o].phase = 5
          /\ op'[o].phase > 3 => op[o].stack \in formed /\ op'[o].skips
          /\ op'[o].phase > 4 => op[o].stack \in obs
      BY <1>3, <2>1, ProbeFacts
    <3>2. op'[o].pc = "done" =>
            /\ \A g \in footprint : dom[g] = "running"
            /\ op[o].stack \in formed /\ op'[o].skips /\ op[o].stack \in obs
      BY <2>2, <3>1
    <3> QED BY <1>o, <2>1, <3>1, <3>2 DEF BootstrapUp, Finished
  <2> QED BY <2>6, <2>7
<1>4. CASE reserve_hugepages(o) /\ op'[o].mode = "auto"
  <2>1. op[o].pc = "reserve" /\ dom' = dom /\ op[o].verb \in {"bootstrap", "commons up"}
    BY <1>4 DEF reserve_hugepages, VerbInv
  <2>2. \/ op'[o] = Idle
        \/ op'[o] = [op[o] EXCEPT !.snap = Idle.snap,
                                  !.pc = IF op[o].verb = "bootstrap" THEN "phase" ELSE "boot"]
    BY <1>4, <1>j DEF reserve_hugepages, Update, Exit
  <2>3. CASE op'[o] = Idle
    BY <1>i, <2>3, NotBootstrapping
  <2>4. CASE /\ op[o].verb = "commons up"
             /\ op'[o] = [op[o] EXCEPT !.snap = Idle.snap, !.pc = "boot"]
    <3>1. op'[o].verb = "commons up"
      BY <1>j, <2>4 DEF Job
    <3> QED BY <3>1, NotBootstrapping
  <2>5. CASE /\ op[o].verb = "bootstrap"
             /\ op'[o] = [op[o] EXCEPT !.snap = Idle.snap, !.pc = "phase"]
    <3>1. /\ op'[o].verb = "bootstrap" /\ op'[o].pc = "phase" /\ op'[o].phase = op[o].phase
          /\ op'[o].mode = op[o].mode
      BY <1>j, <2>5 DEF Job
    <3>2. op[o].phase \in {1, 2}
      BY <1>4, <2>1, <2>5, <3>1 DEF ProgressInv, Bootstrapping
    <3>3. VmsReached(o)' /\ QmReached(o)'
      BY <3>1, <3>2 DEF VmsReached, QmReached, Bootstrapping
    <3> QED
      BY <1>o, <3>1, <3>3 DEF ProgressInv, BootstrapUp, Finished, Bootstrapping
  <2> QED BY <2>1, <2>2, <2>3, <2>4, <2>5
<1>5. CASE net_phase(o) /\ op'[o].mode = "auto"
  <2>1. Advance(o, 1) /\ 1 \in Phases
    BY <1>5 DEF net_phase, Phases
  <2>2. op'[o].pc = "phase" /\ op'[o].phase = 2
    BY <1>5, <2>1, AdvanceFacts
  <2>3. VmsReached(o)' /\ QmReached(o)'
    BY <2>2 DEF VmsReached, QmReached, Bootstrapping
  <2> QED BY <1>o, <2>2, <2>3 DEF ProgressInv, BootstrapUp, Finished, Bootstrapping
<1>6. CASE vms_phase(o) /\ op'[o].mode = "auto"
  <2>1. op'[o] = [op[o] EXCEPT !.pc = "boot", !.todo = footprint]
    BY <1>6, <1>j DEF vms_phase, Update
  <2>2. /\ op'[o].pc = "boot" /\ op'[o].todo = footprint /\ op'[o].stack = op[o].stack
        /\ op'[o].no_dr = op[o].no_dr
    BY <1>j, <2>1 DEF Job
  <2>3. VmsReached(o)' /\ QmReached(o)'
    BY <2>2 DEF VmsReached, QmReached, Bootstrapping
  <2> QED BY <1>o, <2>2, <2>3 DEF ProgressInv, BootstrapUp, Finished, Bootstrapping
<1>7. ASSUME NEW g \in Guests, vagrant_up(o, g), op'[o].mode = "auto"
      PROVE  ProgressInv' /\ BootstrapUp'
  <2>1. op[o].pc = "boot" /\ dom' = [dom EXCEPT ![g] = "running"]
        /\ op'[o] = [op[o] EXCEPT !.todo = op[o].todo \ {g}]
    BY <1>7, <1>j DEF vagrant_up, Update
  <2>2. /\ op'[o].pc = "boot" /\ op'[o].todo = op[o].todo \ {g} /\ op'[o].stack = op[o].stack
        /\ op'[o].no_dr = op[o].no_dr /\ op'[o].verb = op[o].verb /\ op'[o].mode = op[o].mode
        /\ op'[o].fell = op[o].fell
    BY <1>j, <2>1 DEF Job
  <2>3. Bootstrapping(o, {"boot"})' => \A h \in footprint : Up(o, h) \/ h \in op[o].todo
    BY <1>7, <2>1, <2>2 DEF ProgressInv, VmsReached, Bootstrapping
  <2>4. \A h \in footprint : Up(o, h) => Up(o, h)'
    BY <1>j, <2>1, <2>2 DEF Up
  <2>5. g \in footprint => Up(o, g)'
    BY <1>j, <2>1 DEF Up
  <2>6. VmsReached(o)'
    BY <2>2, <2>3, <2>4, <2>5 DEF VmsReached, Bootstrapping
  <2>7. QmReached(o)'
    BY <2>2 DEF QmReached, Bootstrapping
  <2> QED BY <1>o, <2>2, <2>6, <2>7 DEF ProgressInv, BootstrapUp, Finished, Bootstrapping
<1>8. CASE vms_done(o) /\ op'[o].mode = "auto"
  <2>1. /\ Advance(o, 2) /\ 2 \in Phases /\ op[o].pc = "boot" /\ op[o].verb = "bootstrap"
        /\ op[o].todo = {} /\ dom' = dom
    BY <1>8 DEF vms_done, Phases, host
  <2>2. /\ op'[o].pc = "phase" /\ op'[o].phase = 3 /\ op'[o].stack = op[o].stack
        /\ op'[o].no_dr = op[o].no_dr /\ op'[o].fell = op[o].fell /\ op[o].mode = "auto"
    BY <1>8, <2>1, AdvanceFacts
  <2>3. \A g \in footprint : Up(o, g)
    BY <2>1, <2>2 DEF ProgressInv, VmsReached, Bootstrapping
  <2>4. VmsReached(o)'
    BY <2>1, <2>2, <2>3 DEF VmsReached, Bootstrapping, Up
  <2>5. QmReached(o)'
    BY <2>2 DEF QmReached, Bootstrapping
  <2> QED BY <1>o, <2>2, <2>4, <2>5 DEF ProgressInv, BootstrapUp, Finished, Bootstrapping
<1>9. CASE provision_phase(o) /\ op'[o].mode = "auto"
  <2> DEFINE plays == IF op[o].no_dr THEN Plays \ {"dr"} ELSE Plays
  <2>1. /\ op[o].pc = "phase" /\ op[o].phase = 3 /\ op[o].verb = "bootstrap" /\ dom' = dom
        /\ op'[o] = [op[o] EXCEPT !.pc = "play", !.plays = plays]
    BY <1>9, <1>j DEF provision_phase, AtPhase, VerbInv, Update, host
  <2>2. "qm" \in plays /\ "cluster" \in plays
    BY DEF Plays
  <2> HIDE DEF plays
  <2>3. /\ op'[o].pc = "play" /\ op'[o].plays = plays /\ op'[o].stack = op[o].stack
        /\ op'[o].no_dr = op[o].no_dr /\ op'[o].mode = op[o].mode /\ op'[o].fell = op[o].fell
    BY <1>j, <2>1 DEF Job
  <2>4. \A g \in footprint : Up(o, g)
    BY <1>9, <2>1, <2>3 DEF ProgressInv, VmsReached, Bootstrapping
  <2>5. VmsReached(o)'
    BY <2>1, <2>3, <2>4 DEF VmsReached, Bootstrapping, Up
  <2>6. QmReached(o)'
    BY <2>2, <2>3 DEF QmReached, Bootstrapping
  <2> QED BY <1>o, <2>3, <2>5, <2>6 DEF ProgressInv, BootstrapUp, Finished, Bootstrapping
<1>10. ASSUME NEW p \in Plays, play(o, p), op'[o].mode = "auto"
       PROVE  ProgressInv' /\ BootstrapUp'
  <2>1. /\ op[o].pc = "play" /\ op[o].verb = "bootstrap" /\ op[o].phase = 3 /\ dom' = dom
        /\ op'[o] = [op[o] EXCEPT !.plays = op[o].plays \ {p}]
        /\ qm' = IF p = "qm" THEN qm \cup {op[o].stack} ELSE qm
        /\ formed' = IF p = "cluster" THEN formed \cup {op[o].stack} ELSE formed
    BY <1>10, <1>j DEF play, VerbInv, Bootstrapping, Update, host
  <2>2. /\ op'[o].pc = "play" /\ op'[o].plays = op[o].plays \ {p} /\ op'[o].stack = op[o].stack
        /\ op'[o].no_dr = op[o].no_dr /\ op'[o].mode = op[o].mode /\ op'[o].fell = op[o].fell
    BY <1>j, <2>1 DEF Job
  <2>3. /\ "qm" \in op[o].plays \/ op[o].stack \in qm
        /\ "cluster" \in op[o].plays \/ op[o].stack \in formed
    BY <1>10, <2>1, <2>2 DEF ProgressInv, QmReached, Bootstrapping
  <2>4. \A g \in footprint : Up(o, g)
    BY <1>10, <2>1, <2>2 DEF ProgressInv, VmsReached, Bootstrapping
  <2>5. VmsReached(o)'
    BY <2>1, <2>2, <2>4 DEF VmsReached, Bootstrapping, Up
  <2>6. QmReached(o)'
    BY <2>1, <2>2, <2>3 DEF QmReached, Bootstrapping
  <2> QED BY <1>o, <2>2, <2>5, <2>6 DEF ProgressInv, BootstrapUp, Finished, Bootstrapping
<1>11. CASE provision_done(o) /\ op'[o].mode = "auto"
  <2>1. /\ Advance(o, 3) /\ 3 \in Phases /\ op[o].pc = "play" /\ op[o].verb = "bootstrap"
        /\ op[o].phase = 3 /\ op[o].plays = {} /\ UNCHANGED <<dom, formed, qm>>
    <3>1. 3 \in Phases
      BY DEF Phases
    <3>2. op[o].pc = "play" /\ op[o].plays = {} /\ UNCHANGED <<dom, formed, qm>> /\ Advance(o, 3)
      BY <1>11 DEF provision_done, host, provisioned
    <3> QED BY <3>1, <3>2 DEF VerbInv, Bootstrapping
  <2>2. /\ op'[o].pc = "phase" /\ op'[o].phase = 4 /\ op'[o].stack = op[o].stack
        /\ op'[o].no_dr = op[o].no_dr /\ op'[o].fell = op[o].fell /\ op[o].mode = "auto"
    BY <1>11, <2>1, AdvanceFacts
  <2>3. op[o].stack \in formed /\ op[o].stack \in qm
    BY <2>1, <2>2 DEF ProgressInv, QmReached, Bootstrapping
  <2>4. \A g \in footprint : Up(o, g)
    BY <2>1, <2>2 DEF ProgressInv, VmsReached, Bootstrapping
  <2>5. VmsReached(o)'
    BY <2>1, <2>2, <2>4 DEF VmsReached, Bootstrapping, Up
  <2>6. QmReached(o)'
    BY <2>1, <2>2, <2>3 DEF QmReached, Bootstrapping
  <2> QED BY <1>o, <2>2, <2>5, <2>6 DEF ProgressInv, BootstrapUp, Finished, Bootstrapping
<1>12. CASE observe_phase(o) /\ op'[o].mode = "auto"
  <2>1. /\ Advance(o, 4) /\ 4 \in Phases /\ op[o].pc = "phase" /\ op[o].verb = "bootstrap"
        /\ op[o].phase = 4 /\ UNCHANGED <<dom, formed, qm>> /\ obs' = obs \cup {op[o].stack}
    BY <1>12 DEF observe_phase, AtPhase, Phases, VerbInv, host
  <2>2. /\ op'[o].pc = "done" /\ op'[o].stack = op[o].stack
        /\ op'[o].no_dr = op[o].no_dr /\ op'[o].fell = op[o].fell /\ op[o].mode = "auto"
        /\ op'[o].skips = op[o].skips
    BY <1>12, <2>1, AdvanceFacts
  <2>3. op[o].stack \in formed /\ (op[o].stack \in qm \/ op[o].skips)
    BY <2>1, <2>2 DEF ProgressInv, QmReached, Bootstrapping
  <2>4. \A g \in footprint : Up(o, g)
    BY <2>1, <2>2 DEF ProgressInv, VmsReached, Bootstrapping
  <2>5. VmsReached(o)' /\ QmReached(o)'
    BY <2>2 DEF VmsReached, QmReached, Bootstrapping
  <2>6. BootstrapUp'
    BY <1>o, <2>1, <2>2, <2>3, <2>4 DEF BootstrapUp, Finished, Up
  <2> QED BY <1>o, <2>2, <2>5, <2>6 DEF ProgressInv, Bootstrapping
<1> QED
  BY <1>1, <1>2, <1>m, <1>3, <1>4, <1>5, <1>6, <1>7, <1>8, <1>9, <1>10, <1>11, <1>12
  DEF Bootstrap, Phases

LEMMA ProgressHost ==
  ASSUME OneOperator, TypeOK, ProgressInv, BootstrapUp,
         \/ \E o \in Ops : Done(o) \/ Abort(o)
         \/ \E g \in Guests : GuestStops(g)
         \/ NetDown \/ HostReboot
         \/ UNCHANGED vars
  PROVE  ProgressInv' /\ BootstrapUp'
<1>j. op \in [Ops -> Job] /\ dom \in [Guests -> DomStates]
  BY DEF TypeOK
<1>i. Idle.pc = "idle"
  BY DEF Idle
<1>1. ASSUME NEW o \in Ops, Done(o) \/ Abort(o) PROVE ProgressInv' /\ BootstrapUp'
  <2>1. op'[o] = Idle
    BY <1>1, <1>j DEF Done, Abort, Exit, Update
  <2> QED BY <1>i, <2>1, NotBootstrapping
<1>2. ASSUME NEW g \in Guests, GuestStops(g) PROVE ProgressInv' /\ BootstrapUp'
  <2>1. /\ Fell(g) /\ UNCHANGED <<formed, qm, obs>>
        /\ \A h \in Guests \ {g} : dom'[h] = dom[h]
    BY <1>2, <1>j DEF GuestStops, provisioned
  <2>2. ASSUME NEW o \in Ops, op[o].pc # "idle", NEW h \in Guests, Up(o, h) PROVE Up(o, h)'
    BY <2>1, <2>2, FellFacts DEF Up
  <2>3. ASSUME NEW o \in Ops PROVE all_vms(op[o].stack, op[o].no_dr) \subseteq Guests
    <3>1. op[o] \in Job
      BY <1>j
    <3>2. op[o].stack \in Stacks /\ op[o].no_dr \in BOOLEAN
      BY <3>1 DEF Job
    <3> QED BY <3>2, GuestFacts
  <2>4. ASSUME NEW o \in Ops, op[o].mode = "auto" PROVE VmsReached(o)'
    <3>1. VmsReached(o)
      BY <2>4 DEF ProgressInv
    <3> QED BY <2>1, <2>2, <2>3, <3>1, FellFacts DEF VmsReached, Bootstrapping
  <2>5. ASSUME NEW o \in Ops, op[o].mode = "auto" PROVE QmReached(o)'
    <3>1. QmReached(o)
      BY <2>5 DEF ProgressInv
    <3> QED BY <2>1, <3>1, FellFacts DEF QmReached, Bootstrapping
  <2>6. ProgressInv'
    BY <2>1, <2>4, <2>5, FellFacts DEF ProgressInv, Bootstrapping
  <2>7. BootstrapUp'
    BY <2>1, <2>2, <2>3, FellFacts DEF BootstrapUp, Finished, Up
  <2> QED BY <2>6, <2>7
<1>3. CASE NetDown \/ UNCHANGED vars
  <2>1. UNCHANGED <<dom, op, formed, qm, obs>>
    BY <1>3 DEF NetDown, vars, provisioned
  <2>2. \A o \in Ops : VmsReached(o) => VmsReached(o)'
    BY <2>1 DEF VmsReached, Bootstrapping, Up
  <2>3. \A o \in Ops : QmReached(o) => QmReached(o)'
    BY <2>1 DEF QmReached, Bootstrapping
  <2> QED BY <2>1, <2>2, <2>3 DEF ProgressInv, BootstrapUp, Finished, Bootstrapping
<1>4. CASE HostReboot
  <2>1. \A o \in Ops : op'[o] = Idle
    BY <1>4 DEF HostReboot
  <2> QED
    BY <1>i, <2>1 DEF ProgressInv, BootstrapUp, Finished, VmsReached, QmReached, Bootstrapping
<1> QED BY <1>1, <1>2, <1>3, <1>4

-----------------------------------------------------------------------------
(***************************************************************************)
(* The reservation of huge pages.                                          *)
(***************************************************************************)
Down(S) == {g \in S : ~is_live(dom, g)}

Live == {g \in Guests : is_live(dom, g)}

LEMMA CountFacts ==
  ASSUME NEW S \in SUBSET Guests
  PROVE  IsFiniteSet(Down(S)) /\ IsFiniteSet(Live)
         /\ Cardinality(Down(S)) \in Nat /\ Cardinality(Live) \in Nat
<1>1. Down(S) \subseteq Guests /\ Live \subseteq Guests
  BY DEF Down, Live
<1> QED BY <1>1, LifecycleAssumption, FS_Subset, FS_CardinalityType

LEMMA CoveredCount ==
  ASSUME Lever, NEW S
  PROVE  Covered(S) <=> Cardinality(Down(S)) + Cardinality(Live) \leq pages
BY DEF Covered, Used, Down, Live

(***************************************************************************)
(* A guest that boots takes the page that was counted for it.              *)
(***************************************************************************)
LEMMA BootTakesItsPage ==
  ASSUME TypeOK, Lever, NEW S \in SUBSET Guests, NEW T \in SUBSET S, NEW g \in S,
         S \ {g} \subseteq T, Covered(S),
         dom' = [dom EXCEPT ![g] = "running"], pages' = pages
  PROVE  Covered(T)'
<1>1. /\ dom'[g] = "running"
      /\ \A h \in Guests \ {g} : dom'[h] = dom[h]
  BY DEF TypeOK
<1>2. is_live(dom, g)' /\ \A h \in Guests \ {g} : is_live(dom, h)' <=> is_live(dom, h)
  BY <1>1 DEF is_live
<1>3. Down(T)' = Down(S) \ {g}
  BY <1>2 DEF Down
<1>4. Live' = Live \cup {g}
  BY <1>2 DEF Live
<1>5. Cardinality(Down(S)) + Cardinality(Live) \leq pages /\ pages \in Nat
  BY CoveredCount DEF TypeOK
<1>6. Cardinality(Down(T)') + Cardinality(Live') = Cardinality(Down(S)) + Cardinality(Live)
  <2>1. CASE is_live(dom, g)
    <3>1. Down(S) \ {g} = Down(S) /\ Live \cup {g} = Live
      BY <2>1 DEF Down, Live
    <3> QED BY <1>3, <1>4, <3>1
  <2>2. CASE ~is_live(dom, g)
    <3>1. g \in Down(S) /\ g \notin Live
      BY <2>2 DEF Down, Live
    <3>2. Cardinality(Down(S) \ {g}) = Cardinality(Down(S)) - 1
      BY <3>1, CountFacts, FS_RemoveElement
    <3>3. Cardinality(Live \cup {g}) = Cardinality(Live) + 1
      BY <3>1, CountFacts, FS_AddElement
    <3> QED BY <1>3, <1>4, <3>2, <3>3, CountFacts
  <2> QED BY <2>1, <2>2
<1>7. Covered(T)' <=> Cardinality(Down(T)') + Cardinality(Live') \leq pages'
  BY DEF Covered, Used, Down, Live
<1> QED BY <1>5, <1>6, <1>7

LEMMA NeededGrows ==
  ASSUME NEW S \in SUBSET Guests, NEW T \in SUBSET S, NEW st
  PROVE  /\ needed_pages(T, st) \in Nat /\ needed_pages(S, st) \in Nat
         /\ needed_pages(T, st) \leq needed_pages(S, st)
<1> DEFINE A == {g \in T : ~is_live(st, g)}
           B == {g \in S : ~is_live(st, g)}
<1>1. A \subseteq B /\ B \subseteq Guests /\ A \subseteq Guests
  OBVIOUS
<1>2. needed_pages(T, st) = Cardinality(A) /\ needed_pages(S, st) = Cardinality(B)
  BY DEF needed_pages
<1> HIDE DEF A, B
<1>3. IsFiniteSet(B)
  BY <1>1, FS_Subset, LifecycleAssumption
<1>4. Cardinality(A) \leq Cardinality(B)
  BY <1>1, <1>3, FS_Subset
<1> QED BY <1>1, <1>2, <1>4, CardinalityType

LEMMA CoveredStays ==
  ASSUME UNCHANGED <<dom, pages>>, NEW S, Covered(S)
  PROVE  Covered(S)'
BY DEF Covered, Used, is_live

LEMMA NotReserving ==
  ASSUME OneOperator, NEW o \in Ops,
         \/ op'[o].pc \notin {"reserve", "phase", "boot"}
         \/ op'[o].pc = "phase" /\ op'[o].verb = "bootstrap" /\ ~VmsAhead(o)'
  PROVE  PagesInv' /\ PagesSuffice'
<1>1. \A p \in Ops : p = o
  BY DEF OneOperator
<1> QED
  BY <1>1 DEF PagesInv, PagesSuffice, BootstrapCovered, CommonsCovered, Bootstrapping

LEMMA PagesBootstrap ==
  ASSUME OneOperator, TypeOK, VerbInv, RecordInv, PagesInv, PagesSuffice, Lever,
         NEW o \in Ops, Bootstrap(o)
  PROVE  PagesInv' /\ PagesSuffice'
<1>j. op \in [Ops -> Job] /\ op[o] \in Job
  BY DEF TypeOK
<1>o. \A p \in Ops : p = o
  BY DEF OneOperator
<1>i. Idle.pc = "idle"
  BY DEF Idle
<1>f. /\ op[o].stack \in Stacks /\ op[o].no_dr \in BOOLEAN /\ op[o].todo \subseteq Guests
  BY <1>j DEF Job
<1>p. op[o].fell = {} => BootstrapCovered(o) /\ CommonsCovered(o)
  BY DEF PagesInv
<1> DEFINE footprint == all_vms(op[o].stack, op[o].no_dr)
<1>g. footprint \subseteq Guests
  BY <1>f, GuestFacts
<1>1. ASSUME NEW s \in Stacks, NEW config \in Oses \cup {NoOs}, NEW no_dr \in BOOLEAN,
             NEW mode \in {"auto", "from", "only"}, NEW p \in Phases,
             BootstrapStart(o, s, config, no_dr, mode, p)
      PROVE  PagesInv' /\ PagesSuffice'
  <2>1. op'[o].pc = "pin"
    BY <1>1, <1>j DEF BootstrapStart, NewJob, Update, Idle
  <2> QED BY <2>1, NotReserving
<1>2. CASE reconcile(o)
  <2>1. op'[o] = [op[o] EXCEPT !.pc = "probe"] \/ op'[o] = Idle
    BY <1>2, <1>j DEF reconcile, Update, Exit
  <2>2. op'[o].pc \in {"probe", "idle"}
    BY <1>i, <1>j, <2>1 DEF Job
  <2> QED BY <2>2, NotReserving
<1>3. CASE probe_all(o)
  <2>1. dom' = dom /\ op'[o].verb = "bootstrap" /\ op'[o].pc \in {"reserve", "phase", "done"}
        /\ (op'[o].pc = "reserve" => op'[o].snap = dom)
        /\ (op'[o].pc = "phase" => ~VmsAhead(o)')
    BY <1>3, ProbeFacts DEF probe_all, host
  <2>2. CASE op'[o].pc # "reserve"
    BY <2>1, <2>2, NotReserving
  <2>3. CASE op'[o].pc = "reserve"
    <3>1. BootstrapCovered(o)' /\ CommonsCovered(o)'
      BY <2>1, <2>3 DEF BootstrapCovered, CommonsCovered, Bootstrapping
    <3> QED BY <1>o, <2>3, <3>1 DEF PagesInv, PagesSuffice
  <2> QED BY <2>2, <2>3
<1>4. CASE reserve_hugepages(o)
  <2> DEFINE guests == IF op[o].verb = "bootstrap" THEN footprint ELSE Commons
             states == IF op[o].verb = "bootstrap" THEN op[o].snap ELSE dom
             needed == needed_pages(guests, states)
  <2>1. /\ op[o].pc = "reserve" /\ dom' = dom
        /\ \/ op'[o] = Idle
           \/ /\ pages' >= Used + needed
              /\ op'[o] = [op[o] EXCEPT !.snap = Idle.snap,
                             !.pc = IF op[o].verb = "bootstrap" THEN "phase" ELSE "boot"]
    BY <1>4, <1>j DEF reserve_hugepages, Update, Exit
  <2>2. op[o].verb \in {"bootstrap", "commons up"}
    BY <2>1 DEF VerbInv
  <2>3. CASE op'[o] = Idle
    BY <1>i, <2>3, NotReserving
  <2>4. ASSUME NEW S \in SUBSET Guests, pages' >= Used + needed_pages(S, dom)
        PROVE  Covered(S)'
    <3>1. Covered(S)' <=> needed_pages(S, dom) + Used \leq pages'
      BY <2>1 DEF Covered, Used, needed_pages, is_live
    <3>2. needed_pages(S, dom) \in Nat /\ Used \in Nat
      <4>1. {g \in S : ~is_live(dom, g)} \in SUBSET Guests
        OBVIOUS
      <4> QED BY <4>1, CardinalityType, UsedType DEF needed_pages
    <3>3. pages' \in Nat
      <4>1. TypeOK'
        BY TypeBootstrap
      <4> QED BY <4>1 DEF TypeOK
    <3> QED BY <2>4, <3>1, <3>2, <3>3
  <2>5. CASE /\ op[o].verb = "bootstrap" /\ pages' >= Used + needed
             /\ op'[o] = [op[o] EXCEPT !.snap = Idle.snap, !.pc = "phase"]
    <3>1. /\ op'[o].pc = "phase" /\ op'[o].verb = "bootstrap" /\ op'[o].fell = op[o].fell
          /\ op'[o].stack = op[o].stack /\ op'[o].no_dr = op[o].no_dr
      BY <1>j, <2>5 DEF Job
    <3>2. ASSUME op[o].fell = {} PROVE Covered(footprint)'
      <4>1. op[o].snap = dom
        BY <1>p, <2>1, <2>5, <3>2 DEF BootstrapCovered, Bootstrapping
      <4>2. pages' >= Used + needed_pages(footprint, dom)
        BY <2>5, <4>1
      <4>3. \A S \in SUBSET Guests : pages' >= Used + needed_pages(S, dom) => Covered(S)'
        BY <2>4
      <4> QED BY <1>g, <3>1, <4>2, <4>3
    <3>3. op[o].fell = {} => BootstrapCovered(o)' /\ CommonsCovered(o)'
      BY <3>1, <3>2 DEF BootstrapCovered, CommonsCovered, Bootstrapping
    <3> QED BY <1>o, <3>1, <3>3 DEF PagesInv, PagesSuffice
  <2>6. CASE /\ op[o].verb = "commons up" /\ pages' >= Used + needed
             /\ op'[o] = [op[o] EXCEPT !.snap = Idle.snap, !.pc = "boot"]
    <3>1. /\ op'[o].pc = "boot" /\ op'[o].verb = "commons up" /\ op'[o].fell = op[o].fell
          /\ op'[o].todo = op[o].todo /\ op'[o].phase = op[o].phase
      BY <1>j, <2>6 DEF Job
    <3>2. pages' >= Used + needed_pages(Commons, dom)
      BY <2>6
    <3>3. pages' >= Used + needed_pages(ObsBox, dom)
      <4>1. pages' \in Nat
        <5>1. TypeOK'
          BY TypeBootstrap
        <5> QED BY <5>1 DEF TypeOK
      <4>2. /\ needed_pages(ObsBox, dom) \in Nat /\ needed_pages(Commons, dom) \in Nat
            /\ needed_pages(ObsBox, dom) \leq needed_pages(Commons, dom)
        BY NeededGrows, GuestFacts
      <4> QED BY <3>2, <4>1, <4>2, UsedType
    <3>4. Covered(Commons)' /\ Covered(ObsBox)'
      <4>1. Commons \in SUBSET Guests /\ ObsBox \in SUBSET Guests
        BY GuestFacts
      <4> QED BY <2>4, <3>2, <3>3, <4>1
    <3>5. op[o].fell = {} => op[o].phase = 1 /\ op[o].todo = ObsBox
      BY <1>p, <2>1, <2>6 DEF CommonsCovered
    <3>6. op[o].fell = {} => BootstrapCovered(o)' /\ CommonsCovered(o)'
      BY <3>1, <3>4, <3>5 DEF BootstrapCovered, CommonsCovered, Bootstrapping, Commons
    <3> QED BY <1>o, <3>1, <3>4, <3>5, <3>6 DEF PagesInv, PagesSuffice
  <2> QED BY <2>1, <2>2, <2>3, <2>5, <2>6
<1>5. CASE net_phase(o)
  <2>1. /\ Advance(o, 1) /\ 1 \in Phases /\ op[o].pc = "phase" /\ op[o].phase = 1
        /\ op[o].verb = "bootstrap" /\ UNCHANGED <<dom, pages>>
    BY <1>5 DEF net_phase, AtPhase, VerbInv, Phases
  <2>2. /\ op'[o].verb = "bootstrap" /\ op'[o].stack = op[o].stack
        /\ op'[o].no_dr = op[o].no_dr /\ op'[o].fell = op[o].fell
        /\ op'[o].pc = IF op[o].mode = "only" THEN "done" ELSE "phase"
    BY <2>1, AdvanceFacts
  <2>3. CASE op[o].mode = "only"
    BY <2>2, <2>3, NotReserving
  <2>4. CASE op[o].mode # "only"
    <3>1. op[o].fell = {} => Covered(footprint)
      BY <1>p, <2>1, <2>4 DEF BootstrapCovered, Bootstrapping, VmsAhead
    <3>2. op[o].fell = {} => Covered(footprint)'
      BY <2>1, <2>2, <3>1 DEF Covered, Used, is_live
    <3>3. op[o].fell = {} => BootstrapCovered(o)' /\ CommonsCovered(o)'
      BY <2>2, <2>4, <3>2 DEF BootstrapCovered, CommonsCovered, Bootstrapping
    <3> QED BY <1>o, <2>2, <2>4, <3>3 DEF PagesInv, PagesSuffice
  <2> QED BY <2>3, <2>4
<1>6. CASE vms_phase(o)
  <2>1. /\ op[o].pc = "phase" /\ op[o].phase = 2 /\ op[o].verb = "bootstrap"
        /\ UNCHANGED <<dom, pages>>
        /\ op'[o] = [op[o] EXCEPT !.pc = "boot", !.todo = footprint]
    BY <1>6, <1>j DEF vms_phase, AtPhase, VerbInv, Update
  <2>2. /\ op'[o].pc = "boot" /\ op'[o].todo = footprint /\ op'[o].verb = op[o].verb
        /\ op'[o].fell = op[o].fell
    BY <1>j, <2>1 DEF Job
  <2>3. op[o].fell = {} => Covered(footprint)
    BY <1>p, <2>1 DEF BootstrapCovered, Bootstrapping, VmsAhead
  <2>4. op[o].fell = {} => Covered(op[o].todo)'
    BY <2>1, <2>2, <2>3 DEF Covered, Used, is_live
  <2>5. BootstrapCovered(o)' /\ CommonsCovered(o)'
    BY <2>1, <2>2 DEF BootstrapCovered, CommonsCovered, Bootstrapping
  <2> QED BY <1>o, <2>2, <2>4, <2>5 DEF PagesInv, PagesSuffice
<1>7. ASSUME NEW g \in Guests, vagrant_up(o, g) PROVE PagesInv' /\ PagesSuffice'
  <2>1. /\ op[o].pc = "boot" /\ g \in op[o].todo /\ dom' = [dom EXCEPT ![g] = "running"]
        /\ pages' = pages /\ op'[o] = [op[o] EXCEPT !.todo = op[o].todo \ {g}]
    BY <1>7, <1>j DEF vagrant_up, Update
  <2>2. /\ op'[o].pc = "boot" /\ op'[o].todo = op[o].todo \ {g} /\ op'[o].verb = op[o].verb
        /\ op'[o].phase = op[o].phase /\ op'[o].fell = op[o].fell
    BY <1>j, <2>1 DEF Job
  <2>3. \A S \in SUBSET Guests : \A T \in SUBSET S :
          g \in S /\ S \ {g} \subseteq T /\ Covered(S) => Covered(T)'
    BY <2>1, BootTakesItsPage
  <2>4. ASSUME op[o].fell = {} PROVE Covered(op[o].todo)'
    <3>1. Covered(op[o].todo)
      BY <2>1, <2>4 DEF PagesSuffice
    <3> QED BY <1>f, <2>1, <2>2, <2>3, <3>1
  <2>5. ASSUME op[o].fell = {}, op[o].verb = "commons up", op[o].phase = 1
        PROVE  Covered(op[o].todo \cup SvcBox)'
    <3>1. Covered(op[o].todo \cup SvcBox)
      BY <1>p, <2>1, <2>5 DEF CommonsCovered
    <3>2. op[o].todo \cup SvcBox \in SUBSET Guests
      BY <1>f, GuestFacts
    <3> QED BY <2>1, <2>2, <2>3, <3>1, <3>2
  <2>6. op[o].fell = {} => BootstrapCovered(o)' /\ CommonsCovered(o)'
    BY <2>2, <2>5 DEF BootstrapCovered, CommonsCovered, Bootstrapping
  <2> QED BY <1>o, <2>2, <2>4, <2>6 DEF PagesInv, PagesSuffice
<1>8. ASSUME NEW p \in {2, 3, 4}, Advance(o, p), op[o].pc \in {"phase", "boot", "play"},
             op[o].verb = "bootstrap"
      PROVE  PagesInv' /\ PagesSuffice'
  <2>1. p \in Phases
    BY <1>8 DEF Phases
  <2>2. /\ op'[o].verb = "bootstrap" /\ op'[o].pc \in {"done", "phase"}
        /\ op'[o].phase = p + 1
    BY <1>8, <2>1, AdvanceFacts
  <2>3. ~VmsAhead(o)'
    BY <2>2 DEF VmsAhead
  <2> QED BY <2>2, <2>3, NotReserving
<1>9. CASE vms_done(o) \/ provision_done(o) \/ observe_phase(o)
  <2>1. op[o].verb = "bootstrap" /\ op[o].pc \in {"phase", "boot", "play"}
    BY <1>9 DEF vms_done, provision_done, observe_phase, AtPhase, VerbInv
  <2> QED BY <1>8, <1>9, <2>1 DEF vms_done, provision_done, observe_phase
<1>10. CASE provision_phase(o)
  <2>1. PICK plays : op'[o] = [op[o] EXCEPT !.pc = "play", !.plays = plays]
    BY <1>10, <1>j DEF provision_phase, Update
  <2>2. op'[o].pc = "play"
    BY <1>j, <2>1 DEF Job
  <2> QED BY <2>2, NotReserving
<1>11. ASSUME NEW p \in Plays, play(o, p) PROVE PagesInv' /\ PagesSuffice'
  <2>1. op[o].pc = "play" /\ op'[o] = [op[o] EXCEPT !.plays = op[o].plays \ {p}]
    BY <1>11, <1>j DEF play, Update
  <2>2. op'[o].pc = "play"
    BY <1>j, <2>1 DEF Job
  <2> QED BY <2>2, NotReserving
<1> QED
  BY <1>1, <1>2, <1>3, <1>4, <1>5, <1>6, <1>7, <1>9, <1>10, <1>11 DEF Bootstrap, Phases

LEMMA PagesCommons ==
  ASSUME OneOperator, TypeOK, PagesInv, PagesSuffice, Lever, NEW o \in Ops, CommonsVerbs(o)
  PROVE  PagesInv' /\ PagesSuffice'
<1>j. op \in [Ops -> Job] /\ op[o] \in Job
  BY DEF TypeOK
<1>o. \A p \in Ops : p = o
  BY DEF OneOperator
<1>1. CASE CommonsUpStart(o)
  <2>1. /\ op'[o].verb = "commons up" /\ op'[o].pc = "reserve" /\ op'[o].todo = ObsBox
        /\ op'[o].phase = 1
    BY <1>1, <1>j DEF CommonsUpStart, NewJob, Update, Idle
  <2>2. BootstrapCovered(o)' /\ CommonsCovered(o)'
    BY <2>1 DEF BootstrapCovered, CommonsCovered, Bootstrapping
  <2> QED BY <1>o, <2>1, <2>2 DEF PagesInv, PagesSuffice
<1>2. CASE commons_provision(o)
  <2>1. /\ op[o].pc = "boot" /\ op[o].verb = "commons up" /\ op[o].phase = 1
        /\ op[o].todo = {} /\ UNCHANGED <<dom, pages>>
        /\ op'[o] = [op[o] EXCEPT !.phase = 2, !.todo = SvcBox]
    BY <1>2, <1>j DEF commons_provision, Update, host
  <2>2. /\ op'[o].pc = "boot" /\ op'[o].verb = "commons up" /\ op'[o].phase = 2
        /\ op'[o].todo = SvcBox /\ op'[o].fell = op[o].fell
    BY <1>j, <2>1 DEF Job
  <2>3. ASSUME op[o].fell = {} PROVE Covered(op[o].todo)'
    <3>1. Covered(op[o].todo \cup SvcBox)
      BY <2>1, <2>3 DEF PagesInv, CommonsCovered
    <3>2. op[o].todo \cup SvcBox = SvcBox
      BY <2>1
    <3>3. Covered(SvcBox)'
      BY <2>1, <3>1, <3>2, CoveredStays
    <3> QED BY <2>2, <3>3
  <2>4. BootstrapCovered(o)' /\ CommonsCovered(o)'
    <3>1. op'[o].pc # "reserve" /\ op'[o].verb # "bootstrap"
      BY <2>2
    <3>2. 2 # 1
      OBVIOUS
    <3>3. op'[o].phase # 1
      BY <2>2, <3>2, Zenon
    <3> QED BY <3>1, <3>3 DEF BootstrapCovered, CommonsCovered, Bootstrapping
  <2> QED BY <1>o, <2>2, <2>3, <2>4 DEF PagesInv, PagesSuffice
<1>3. CASE CommonsDownStart(o)
  <2>1. op'[o].pc = "destroy"
    BY <1>3, <1>j DEF CommonsDownStart, NewJob, Update, Idle
  <2> QED BY <2>1, NotReserving
<1>4. CASE commons_done(o) \/ commons_down_done(o)
  <2>1. op'[o] = [op[o] EXCEPT !.pc = "done"]
    BY <1>4, <1>j DEF commons_done, commons_down_done, Update
  <2>2. op'[o].pc = "done"
    BY <1>j, <2>1 DEF Job
  <2> QED BY <2>2, NotReserving
<1> QED BY <1>1, <1>2, <1>3, <1>4 DEF CommonsVerbs

LEMMA PagesHost ==
  ASSUME OneOperator, TypeOK, PagesInv, PagesSuffice,
         \/ \E o \in Ops : Done(o) \/ Abort(o)
         \/ \E g \in Guests : GuestStops(g)
         \/ NetDown \/ HostReboot
         \/ UNCHANGED vars
  PROVE  PagesInv' /\ PagesSuffice'
<1>j. op \in [Ops -> Job]
  BY DEF TypeOK
<1>i. Idle.pc = "idle"
  BY DEF Idle
<1>1. ASSUME NEW o \in Ops, Done(o) \/ Abort(o) PROVE PagesInv' /\ PagesSuffice'
  <2>1. op'[o] = Idle
    BY <1>1, <1>j DEF Done, Abort, Exit, Update
  <2> QED BY <1>i, <2>1, NotReserving
<1>2. ASSUME NEW g \in Guests, GuestStops(g) PROVE PagesInv' /\ PagesSuffice'
  <2>1. Fell(g)
    BY <1>2 DEF GuestStops
  <2>2. \A o \in Ops : op'[o].pc = "idle" \/ op'[o].fell # {}
    BY <2>1, FellFacts
  <2> QED
    BY <2>2 DEF PagesInv, PagesSuffice, BootstrapCovered, CommonsCovered, Bootstrapping
<1>3. CASE NetDown \/ UNCHANGED vars
  <2>1. UNCHANGED <<dom, op, pages>>
    BY <1>3 DEF NetDown, vars
  <2>2. \A S : Covered(S) => Covered(S)'
    BY <2>1, CoveredStays
  <2>3. ASSUME NEW o \in Ops, BootstrapCovered(o) PROVE BootstrapCovered(o)'
    BY <2>1, <2>2, <2>3 DEF BootstrapCovered, Bootstrapping, VmsAhead
  <2>4. ASSUME NEW o \in Ops, CommonsCovered(o) PROVE CommonsCovered(o)'
    BY <2>1, <2>2, <2>4 DEF CommonsCovered
  <2>5. PagesInv'
    BY <2>1, <2>3, <2>4 DEF PagesInv
  <2>6. PagesSuffice'
    BY <2>1, <2>2 DEF PagesSuffice
  <2> QED BY <2>5, <2>6
<1>4. CASE HostReboot
  <2>1. \A o \in Ops : op'[o].pc = "idle"
    BY <1>4, <1>i DEF HostReboot
  <2> QED
    BY <2>1 DEF PagesInv, PagesSuffice, BootstrapCovered, CommonsCovered, Bootstrapping
<1> QED BY <1>1, <1>2, <1>3, <1>4

-----------------------------------------------------------------------------
(***************************************************************************)
(* LifecycleInv is inductive.                                              *)
(***************************************************************************)
LEMMA SafetyInit == Init => LifecycleInv
<1> SUFFICES ASSUME Init PROVE LifecycleInv
  OBVIOUS
<1>1. \A o \in Ops : op[o].pc = "idle" /\ op[o].verb = "bootstrap"
  BY DEF Init, Idle
<1>2. PlanInv /\ TeardownClean
  BY <1>1 DEF PlanInv, TeardownClean, TearingDown, MembersPlanned, CommonsAside,
              CommonsPlanned, CommonsGone, LastStack
<1>3. ProgressInv /\ BootstrapUp
  BY <1>1 DEF ProgressInv, BootstrapUp, Finished, VmsReached, QmReached, Bootstrapping
<1>4. PagesInv /\ PagesSuffice
  BY <1>1 DEF PagesInv, PagesSuffice, BootstrapCovered, CommonsCovered, Bootstrapping
<1> QED BY <1>2, <1>3, <1>4, PinInit DEF LifecycleInv

LEMMA SafetyStep == OneOperator /\ LifecycleInv /\ [Next]_vars => LifecycleInv'
<1> SUFFICES ASSUME OneOperator, LifecycleInv, [Next]_vars PROVE LifecycleInv'
  OBVIOUS
<1>1. PinInv /\ PlanInv /\ ProgressInv /\ PagesInv /\ TeardownClean /\ PagesSuffice /\ BootstrapUp
  BY DEF LifecycleInv
<1>2. TypeOK /\ VerbInv /\ RecordInv
  BY <1>1 DEF PinInv
<1>3. PinInv'
  BY <1>1, PinStep
<1>4. \/ \E o \in Ops : Bootstrap(o) \/ Teardown(o) \/ CommonsVerbs(o)
      \/ \/ \E o \in Ops : Done(o) \/ Abort(o)
         \/ \E g \in Guests : GuestStops(g)
         \/ NetDown \/ HostReboot
         \/ UNCHANGED vars
  BY DEF Next
<1>5. PlanInv' /\ TeardownClean'
  <2>1. ASSUME NEW o \in Ops, Bootstrap(o) \/ CommonsVerbs(o) PROVE PlanInv' /\ TeardownClean'
    BY <1>2, <2>1, BootstrapVerb, NotTearing
  <2> QED BY <1>1, <1>2, <1>4, <2>1, PlanTeardown, PlanHost
<1>6. ProgressInv' /\ BootstrapUp'
  <2>1. ASSUME NEW o \in Ops, Teardown(o) \/ CommonsVerbs(o) PROVE ProgressInv' /\ BootstrapUp'
    BY <1>2, <2>1, TeardownPc, CommonsVerb, NotBootstrapping
  <2> QED BY <1>1, <1>2, <1>4, <2>1, ProgressBootstrap, ProgressHost
<1>7. PagesInv' /\ PagesSuffice'
  <2>1. ASSUME NEW o \in Ops, Teardown(o) PROVE PagesInv' /\ PagesSuffice'
    <3>1. op'[o].pc \notin {"reserve", "phase", "boot"}
      BY <1>2, <2>1, TeardownPc
    <3> QED BY <3>1, NotReserving
  <2>2. CASE Lever
    BY <1>1, <1>2, <1>4, <2>1, <2>2, PagesBootstrap, PagesCommons, PagesHost
  <2>3. CASE ~Lever
    BY <2>3 DEF PagesInv, PagesSuffice
  <2> QED BY <2>2, <2>3
<1> QED BY <1>3, <1>5, <1>6, <1>7 DEF LifecycleInv

(***************************************************************************)
(* The inductive invariant the lifecycle run checks holds of every lab     *)
(* with one verb at a time, whatever its stacks and guests.                *)
(***************************************************************************)
THEOREM LifecycleSafe == OneOperator => (Spec => []LifecycleInv)
<1> SUFFICES ASSUME OneOperator PROVE Spec => []LifecycleInv
  OBVIOUS
<1>1. LifecycleInv /\ [Next]_vars => LifecycleInv'
  BY SafetyStep
<1> QED BY SafetyInit, <1>1, PTL DEF Spec

(***************************************************************************)
(* A teardown that has forgotten the record of a stack has left no domain  *)
(* and no cached box of it, whatever stopped or paused meanwhile.          *)
(***************************************************************************)
THEOREM TeardownLeavesNothing == OneOperator => (Spec => []TeardownClean)
<1> SUFFICES ASSUME OneOperator PROVE Spec => []TeardownClean
  OBVIOUS
<1>1. LifecycleInv => TeardownClean
  BY DEF LifecycleInv
<1> QED BY <1>1, LifecycleSafe, PTL

(***************************************************************************)
(* A bootstrap that chose its phases itself and exits 0 has its guests     *)
(* running, except those that fell meanwhile, its cluster and its          *)
(* exporters: no probe skips net, vms or observe when it was needed.  Its  *)
(* queue manager is provisioned when this bootstrap ran the provision      *)
(* phase; when the probe skipped it, qm-status had exited 0, which shows   *)
(* no more than the cluster.                                               *)
(***************************************************************************)
THEOREM BootstrapReachesUp == OneOperator => (Spec => []BootstrapUp)
<1> SUFFICES ASSUME OneOperator PROVE Spec => []BootstrapUp
  OBVIOUS
<1>1. LifecycleInv => BootstrapUp
  BY DEF LifecycleInv
<1> QED BY <1>1, LifecycleSafe, PTL

(***************************************************************************)
(* The pages reserved before a boot, the snapshot they were sized from     *)
(* being an earlier one, cover every guest still to boot unless a guest    *)
(* fell since.                                                             *)
(***************************************************************************)
THEOREM ReservationSuffices == OneOperator => (Spec => []PagesSuffice)
<1> SUFFICES ASSUME OneOperator PROVE Spec => []PagesSuffice
  OBVIOUS
<1>1. LifecycleInv => PagesSuffice
  BY DEF LifecycleInv
<1> QED BY <1>1, LifecycleSafe, PTL

(***************************************************************************)
(* When a teardown releases the huge pages no guest of the lab is live:    *)
(* its own are gone, the commons are gone, and no other stack is up.       *)
(***************************************************************************)
THEOREM ReleasesNothingInUse == OneOperator => (Spec => []ReleaseSafe)
<1> SUFFICES ASSUME OneOperator PROVE Spec => []ReleaseSafe
  OBVIOUS
<1>1. LifecycleInv => ReleaseSafe
  <2> SUFFICES ASSUME LifecycleInv, NEW o \in Ops, op[o].pc = "release",
                      NEW g \in Guests
               PROVE  ~is_live(dom, g)
    BY DEF ReleaseSafe, AnyLive
  <2>1. op[o].verb = "teardown"
    BY DEF LifecycleInv, PinInv, VerbInv
  <2>2. /\ op[o].last /\ \A h \in Commons : dom[h] = "absent"
        /\ ~other_stacks_up(op[o].stack)
    BY <2>1 DEF LifecycleInv, PlanInv, CommonsGone, LastStack, TearingDown
  <2>3. \A h \in Members(op[o].stack) : dom[h] = "absent"
    BY <2>1 DEF LifecycleInv, TeardownClean
  <2>4. CASE g \in Commons
    BY <2>2, <2>4 DEF is_live
  <2>5. ASSUME NEW s \in Stacks, g \in Members(s) PROVE ~is_live(dom, g)
    <3>1. CASE s = op[o].stack
      BY <2>3, <2>5, <3>1 DEF is_live
    <3>2. CASE s # op[o].stack
      BY <2>2, <2>5, <3>2 DEF other_stacks_up, AnyLive
    <3> QED BY <3>1, <3>2
  <2> QED BY <2>4, <2>5 DEF Guests
<1> QED BY <1>1, LifecycleSafe, PTL

(***************************************************************************)
(* Only undefine makes a guest go.                                         *)
(***************************************************************************)
LEMMA OnlyUndefine ==
  ASSUME TypeOK, [Next]_vars, NEW g \in Guests, dom[g] # "absent", dom'[g] = "absent"
  PROVE  \E o \in Ops : undefine(o, g)
<1>d. dom \in [Guests -> DomStates]
  BY DEF TypeOK
<1>1. CASE UNCHANGED vars
  BY <1>1 DEF vars
<1>2. ASSUME NEW o \in Ops, Bootstrap(o) PROVE FALSE
  <2>1. CASE \E h \in Guests : vagrant_up(o, h)
    BY <1>d, <2>1 DEF vagrant_up
  <2>2. CASE dom' = dom
    BY <2>2
  <2> QED
    BY <1>2, <2>1, <2>2
    DEF Bootstrap, BootstrapStart, reconcile, probe_all, reserve_hugepages, net_phase, vms_phase,
        vms_done, provision_phase, play, provision_done, observe_phase, host
<1>3. ASSUME NEW o \in Ops, Teardown(o) PROVE undefine(o, g)
  <2>1. CASE dom' = dom
    BY <2>1
  <2>2. ASSUME NEW h \in Guests, forceoff(o, h) PROVE FALSE
    BY <1>d, <2>2 DEF forceoff
  <2>3. ASSUME NEW h \in Guests, undefine(o, h) PROVE undefine(o, g)
    <3>1. h = g
      BY <1>d, <2>3 DEF undefine
    <3> QED BY <2>3, <3>1
  <2> QED
    BY <1>3, <2>1, <2>2, <2>3
    DEF Teardown, TeardownStart, refcount, forget_machine, delete_record, release_hugepages, host
<1>4. ASSUME NEW o \in Ops, CommonsVerbs(o) \/ Done(o) \/ Abort(o) PROVE FALSE
  <2>1. dom' = dom
    BY <1>4
    DEF CommonsVerbs, CommonsUpStart, commons_provision, commons_done, CommonsDownStart,
        commons_down_done, Done, Abort, host
  <2> QED BY <2>1
<1>5. ASSUME NEW h \in Guests, GuestStops(h) PROVE FALSE
  BY <1>d, <1>5 DEF GuestStops
<1>6. CASE NetDown
  BY <1>6 DEF NetDown
<1>7. CASE HostReboot
  BY <1>7 DEF HostReboot
<1> QED BY <1>1, <1>2, <1>3, <1>4, <1>5, <1>6, <1>7 DEF Next

(***************************************************************************)
(* A shared guest is destroyed only by request or for the last live stack, *)
(* judged at the moment it goes: the reference count of a teardown, taken  *)
(* before its first destroy, is still right at its last one.               *)
(***************************************************************************)
THEOREM CommonsAreKept == OneOperator => (Spec => CommonsKept)
<1> SUFFICES ASSUME OneOperator PROVE Spec => CommonsKept
  OBVIOUS
<1>1. LifecycleInv /\ [Next]_vars =>
        [\A g \in Commons : dom[g] # "absent" /\ dom'[g] = "absent" =>
           \E o \in Ops : /\ op[o].pc = "destroy"
                           /\ \/ op[o].verb = "commons down"
                              \/ op[o].forced
                              \/ ~other_stacks_up(op[o].stack)]_vars
  <2> SUFFICES ASSUME LifecycleInv, [Next]_vars,
                      NEW g \in Commons, dom[g] # "absent", dom'[g] = "absent"
               PROVE  \E o \in Ops : /\ op[o].pc = "destroy"
                                      /\ \/ op[o].verb = "commons down"
                                         \/ op[o].forced
                                         \/ ~other_stacks_up(op[o].stack)
    OBVIOUS
  <2>1. TypeOK /\ VerbInv /\ PlanInv
    BY DEF LifecycleInv, PinInv
  <2>2. PICK o \in Ops : undefine(o, g)
    BY <2>1, GuestFacts, OnlyUndefine
  <2>3. op[o].pc = "destroy" /\ <<g, "undefine">> \in op[o].plan
    BY <2>2 DEF undefine, MayRun
  <2>4. op[o].verb \in {"teardown", "commons down"}
    BY <2>1, <2>3 DEF VerbInv
  <2>5. ASSUME op[o].verb = "teardown" PROVE op[o].forced \/ ~other_stacks_up(op[o].stack)
    <3>1. "undefine" \in Commands
      BY DEF Commands
    <3>2. op[o].forced \/ op[o].last
      BY <2>1, <2>3, <2>5, <3>1 DEF PlanInv, CommonsPlanned, TearingDown
    <3>3. op[o].last => ~other_stacks_up(op[o].stack)
      BY <2>1, <2>3, <2>5 DEF PlanInv, LastStack, TearingDown
    <3> QED BY <3>2, <3>3
  <2> QED BY <2>3, <2>4, <2>5
<1>2. Spec => []LifecycleInv
  BY LifecycleSafe
<1> QED BY <1>1, <1>2, PTL DEF Spec, CommonsKept
=============================================================================
