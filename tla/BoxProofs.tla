------------------------------ MODULE BoxProofs ------------------------------
(***************************************************************************)
(* The boxes: which one a stack is granted (module Versions), how they are *)
(* built and collected (BoxPool) and how guests are booted from them       *)
(* (RunSteps).                                                             *)
(*                                                                         *)
(* VersionsSound with one operator, for every catalog, set of stacks and   *)
(* host, and any number of edits and verbs.  VersionsInv is inductive; the *)
(* steps between a render and its boot are where it is needed.  The pool   *)
(* and the run loop are instances over their own variables (the edits are  *)
(* one variable only because no lemma is about two components); the        *)
(* lemmas on them say that PoolInv and StagingInv hold initially, are kept *)
(* by a step and imply what is promised, and SafePartsProofs draws the     *)
(* theorem.                                                                *)
(***************************************************************************)
EXTENDS Versions, Integers, Sequences, TLAPS

CONSTANTS
    PoolBase, PoolFat, PoolRetired, PoolGuests, PoolClock, PoolEdits,      \* BoxPool
    BootVms, BootInfra, BootBoxOf, BootBatch, BootAttempts, BootStepMode   \* RunSteps

VARIABLES
    manifest, clock, resolvable, assign, cache, reg, images, overlays, meta, bring, unlisted,
    boxing, built,
    pc, index, attempt, dom, tried, fault, staged, steps, batches, outcome, exit, report, ran

Boxes == INSTANCE BoxPool WITH
    Base <- PoolBase, Fat <- PoolFat, Retired <- PoolRetired, Guests <- PoolGuests,
    MaxClock <- PoolClock, MaxEdits <- PoolEdits,
    disk <- overlays, late <- unlisted, op <- boxing
Booting == INSTANCE RunSteps WITH
    AllVms <- BootVms, Infra <- BootInfra, BoxOf <- BootBoxOf, Attempts <- BootAttempts,
    StepMode <- BootStepMode

-----------------------------------------------------------------------------
(***************************************************************************)
(* The selection of versions (module Versions).                            *)
(***************************************************************************)
LEMMA Constants ==
  ASSUME VersionsAssumption
  PROVE  /\ NoGuest \in [os : Refs \cup {NoRef}, driver : {"none", "kvm", "qemu"}]
         /\ NoFile \in Files
         /\ Idle \in Jobs
         /\ Idle.pc = "idle" /\ Idle.verb = "bootstrap" /\ Idle.held = NoFile
<1>1. NoGuest \in [os : Refs \cup {NoRef}, driver : {"none", "kvm", "qemu"}]
  BY DEF NoGuest
<1>2. NoFile \in Files
  BY <1>1 DEF NoFile, Files
<1>3. (CHOOSE s \in Stacks : TRUE) \in Stacks
  BY DEF VersionsAssumption
<1>4. Idle \in Jobs
  BY <1>2, <1>3 DEF Idle, Jobs, Pcs, Verbs
<1> QED BY <1>1, <1>2, <1>4 DEF Idle

\* The selection of a node, and its provider, are of their types.
LEMMA SelectionType ==
  ASSUME VersionsAssumption, TypeOK
  PROVE  /\ \A n : shared_os(catalog, n) \in Refs
         /\ \A s \in Stacks : stack_ref(catalog, s) \in Refs
         /\ \A s \in Stacks : catalog.stacks[s].default \in Refs
         /\ \A n \in Nodes : node_boxes(catalog)[n] \in Refs
         /\ \A r \in Refs : provider(r, host) \in [os : Refs \cup {NoRef}, driver : {"none", "kvm", "qemu"}]
<1>0. catalog \in Catalogs /\ rec \in [Stacks -> Refs \cup {NoRef}]
  BY DEF TypeOK
<1>1. \A n : shared_os(catalog, n) \in Refs
  BY <1>0 DEF shared_os, Catalogs
<1>2. \A s \in Stacks : catalog.stacks[s].default \in Refs
  BY <1>0 DEF Catalogs
<1>3. \A s \in Stacks : stack_ref(catalog, s) \in Refs
  BY <1>0, <1>2 DEF stack_ref
<1>4. \A n \in Nodes : node_boxes(catalog)[n] \in Refs
  BY <1>1, <1>3 DEF node_boxes, Nodes
<1>5. \A r \in Refs : provider(r, host) \in [os : Refs \cup {NoRef}, driver : {"none", "kvm", "qemu"}]
  BY DEF provider
<1> QED BY <1>1, <1>2, <1>3, <1>4, <1>5

LEMMA ChangesType ==
  ASSUME NEW c \in Catalogs
  PROVE  Changes(c) \subseteq Catalogs
<1> SUFFICES ASSUME NEW d \in Changes(c) PROVE d \in Catalogs
  OBVIOUS
<1> USE DEF Catalogs
<1>1. CASE d \in {[c EXCEPT !.os[r] = e] : r \in Refs, e \in Entries}
  BY <1>1
<1>2. CASE d \in {[c EXCEPT !.infra = r] : r \in Refs} \cup {[c EXCEPT !.infra_mq = r] : r \in Refs}
  BY <1>2
<1>3. CASE d \in {[c EXCEPT !.stacks[s].default = r] : s \in Stacks, r \in Refs}
  BY <1>3
<1>4. CASE d \in {[c EXCEPT !.stacks[s].supported = S] : s \in Stacks, S \in SUBSET Refs}
  BY <1>4
<1>5. CASE d \in {[c EXCEPT !.wellformed = ~@], [c EXCEPT !.pins = ~@]}
  BY <1>5, Zenon
<1> QED BY <1>1, <1>2, <1>3, <1>4, <1>5 DEF Changes

LEMMA FleetType ==
  ASSUME VersionsAssumption, TypeOK
  PROVE  all_boxes(catalog, {host}) \subseteq Nodes \X Refs
BY SelectionType DEF all_boxes, Nodes

----------------------------------------------------------------------------
LEMMA InitInv == VersionsAssumption /\ Init => VersionsInv
<1> SUFFICES ASSUME VersionsAssumption, Init PROVE VersionsInv
  OBVIOUS
<1>0. guests \in [Nodes -> {NoGuest} \cup [os : Refs, driver : {"kvm"}]]
  BY DEF Init
<1>1. TypeOK
  <2>1. guests \in Files
    BY <1>0, Constants DEF Files
  <2>2. job \in [Terminals -> Jobs]
    BY Constants DEF Init
  <2>3. rec \in [Stacks -> Refs \cup {NoRef}] /\ resolved \in Files
    BY Constants DEF Init
  <2> QED BY <2>1, <2>2, <2>3 DEF Init, TypeOK, VersionsAssumption
<1>2. RecordInv /\ RunsWhatIsRecorded /\ PinnedForLife
  BY DEF Init, RecordInv, RunsWhatIsRecorded, PinnedForLife
<1>3. RenderInv
  BY Constants DEF Init, RenderInv
<1>4. HostCanRun
  <2>1. host.v3 = (host.arch = "x86_64" /\ host.kvm /\ ~host.missing)
    BY DEF Init, Hosts, from_raw
  <2> QED BY <2>1 DEF Init, HostCanRun, host_can_run, Nodes
<1>5. NeverEmulated
  <2> SUFFICES ASSUME NEW n \in Nodes PROVE guests[n].driver # "qemu"
    BY DEF NeverEmulated
  <2>1. guests[n] = NoGuest \/ guests[n] \in [os : Refs, driver : {"kvm"}]
    BY <1>0
  <2> QED BY <2>1 DEF NoGuest
<1> QED BY <1>1, <1>2, <1>3, <1>4, <1>5 DEF VersionsInv, VersionsSound

----------------------------------------------------------------------------
LEMMA TypeStep ==
  ASSUME VersionsAssumption, TypeOK, [Next]_vars
  PROVE  TypeOK'
<1> USE DEF TypeOK
<1>0. job \in [Terminals -> Jobs] /\ catalog \in Catalogs
  OBVIOUS
<1>1. CASE Edit
  BY <1>0, <1>1, ChangesType DEF Edit, VersionsAssumption
<1>2. ASSUME NEW t \in Terminals, NEW verb \in Verbs, NEW s \in Stacks, NEW r \in Refs \cup {NoRef},
             Import(t, verb, s, r)
      PROVE  TypeOK'
  <2>1. verbs' \in 0..MaxVerbs /\ UNCHANGED <<host, catalog, rec, resolved, registered, guests, edits>>
    BY <1>2 DEF Import, VersionsAssumption
  <2>2. crashed' \subseteq Verbs
    BY <1>2 DEF Import
  <2>3. job' \in [Terminals -> Jobs]
    <3> DEFINE j == [Idle EXCEPT !.pc = IF verb = "commons up" THEN "render" ELSE "start",
                                 !.verb = verb, !.stack = s, !.build = r,
                                 !.fleet = all_boxes(catalog, {host})]
    <3>1. j \in Jobs
      BY Constants, FleetType DEF Jobs, Pcs
    <3>2. job' = job \/ job' = [job EXCEPT ![t] = j]
      BY <1>2 DEF Import
    <3> QED BY <1>0, <3>1, <3>2
  <2> QED BY <2>1, <2>2, <2>3
<1>3. ASSUME NEW t \in Terminals, NEW next \in Pcs, Step(t, next)
      PROVE  job' \in [Terminals -> Jobs]
  BY <1>0, <1>3 DEF Step, Jobs
<1>4. ASSUME NEW t \in Terminals, Exit(t)
      PROVE  job' \in [Terminals -> Jobs]
  BY <1>0, <1>4, Constants DEF Exit
<1>5. ASSUME NEW t \in Terminals, Reconcile(t)
      PROVE  TypeOK'
  <2>1. job[t].stack \in Stacks /\ job[t].build \in Refs \cup {NoRef}
    BY <1>0 DEF Jobs
  <2>2. rec' \in [Stacks -> Refs \cup {NoRef}]
    BY <1>5, <2>1, SelectionType DEF Reconcile, requested
  <2> QED BY <1>3, <1>5, <2>2 DEF Reconcile, Pcs
<1>6. ASSUME NEW t \in Terminals, Resolve(t)
      PROVE  TypeOK'
  <2> DEFINE f == [n \in Nodes |-> provider(node_boxes(catalog)[n], host)]
  <2>1. f \in Files
    BY SelectionType DEF Files
  <2>2. job' = [job EXCEPT ![t].pc = "write", ![t].held = f]
    BY <1>6 DEF Resolve
  <2> HIDE DEF f
  <2>3. job' \in [Terminals -> Jobs]
    <3>1. [job[t] EXCEPT !.pc = "write", !.held = f] \in Jobs
      BY <1>0, <2>1 DEF Jobs, Pcs
    <3>2. job' = [job EXCEPT ![t] = [job[t] EXCEPT !.pc = "write", !.held = f]]
      BY <1>0, <2>2
    <3> QED BY <1>0, <3>1, <3>2
  <2> QED BY <1>6, <2>3 DEF Resolve
<1>7. ASSUME NEW t \in Terminals, WriteResolved(t)
      PROVE  TypeOK'
  <2>1. job' \in [Terminals -> Jobs] /\ resolved' \in Files
    BY <1>0, <1>7, Constants DEF WriteResolved, Jobs, Pcs
  <2> QED BY <1>7, <2>1 DEF WriteResolved
<1>8. ASSUME NEW t \in Terminals, EnsureBoxes(t)
      PROVE  TypeOK'
  <2>1. job[t].fleet \subseteq Nodes \X Refs
    BY <1>0 DEF Jobs
  <2> QED BY <1>3, <1>8, <2>1 DEF EnsureBoxes, Pcs
<1>9. ASSUME NEW t \in Terminals, VagrantUp(t) \/ Destroy(t)
      PROVE  TypeOK'
  <2>1. guests' \in Files
    BY <1>9, Constants DEF VagrantUp, Destroy, Files
  <2> QED BY <1>3, <1>4, <1>9, <2>1 DEF VagrantUp, Destroy, Pcs
<1>10. ASSUME NEW t \in Terminals, DeleteRecord(t) \/ CleanUnreferenced(t) \/ Abort(t)
       PROVE  TypeOK'
  BY <1>4, <1>10 DEF DeleteRecord, CleanUnreferenced, Abort
<1>11. CASE UNCHANGED vars
  BY <1>11 DEF vars
<1>12. \A t \in Terminals : /\ \A s \in Stacks, r \in Refs \cup {NoRef} : Import(t, "bootstrap", s, r) => TypeOK'
                            /\ Import(t, "commons up", Idle.stack, NoRef) => TypeOK'
                            /\ \A s \in Stacks : Import(t, "teardown", s, NoRef) => TypeOK'
                            /\ Import(t, "box gc", Idle.stack, NoRef) => TypeOK'
  <2>1. Idle.stack \in Stacks
    BY Constants DEF Jobs
  <2> HIDE DEF TypeOK
  <2> QED BY <1>2, <2>1 DEF Verbs
<1> HIDE DEF TypeOK
<1> QED
  BY <1>1, <1>5, <1>6, <1>7, <1>8, <1>9, <1>10, <1>11, <1>12 DEF Next

----------------------------------------------------------------------------
(* A step of the operator's leaves the records alone, and so the demands on a
   rendered file, unless it is Reconcile or DeleteRecord. *)
LEMMA RecordStep ==
  ASSUME VersionsAssumption, TypeOK, RecordInv, [Next]_vars
  PROVE  RecordInv'
<1> USE DEF RecordInv
<1>0. host' = host
  BY DEF Next, vars, Edit, Import, Reconcile, Resolve, WriteResolved, EnsureBoxes, VagrantUp,
         Destroy, DeleteRecord, CleanUnreferenced, Abort
<1>1. ASSUME NEW t \in Terminals, Reconcile(t)
      PROVE  RecordInv'
  <2> DEFINE s == job[t].stack
             build == IF job[t].build # NoRef THEN job[t].build ELSE rec[s]
             ref == requested(catalog, s, build)
  <2>1. rec' = [rec EXCEPT ![s] = ref] /\ stack_os(catalog, s, build, host)
    BY <1>1 DEF Reconcile
  <2>2. host_can_run(ref, host)
    BY <2>1 DEF stack_os, host_can_run
  <2> HIDE DEF ref
  <2> QED BY <1>0, <2>1, <2>2 DEF TypeOK
<1>2. ASSUME NEW t \in Terminals, DeleteRecord(t)
      PROVE  RecordInv'
  BY <1>0, <1>2 DEF DeleteRecord, TypeOK
<1>3. CASE rec' = rec
  BY <1>0, <1>3
<1> HIDE DEF RecordInv
<1> QED
  BY <1>1, <1>2, <1>3 DEF Next, vars, Edit, Import, Resolve, WriteResolved, EnsureBoxes,
                          VagrantUp, Destroy, CleanUnreferenced, Abort

\* What Resolve computes is a file that may be booted from.
LEMMA ResolvesRendered ==
  ASSUME VersionsAssumption, TypeOK, RecordInv, NEW t \in Terminals, Resolve(t)
  PROVE  Rendered([n \in Nodes |-> provider(node_boxes(catalog)[n], host)])
<1> DEFINE f == [n \in Nodes |-> provider(node_boxes(catalog)[n], host)]
<1>0. host.kvm /\ load_catalog(catalog)
  BY DEF Resolve, require_native_kvm
<1>1. ASSUME NEW s \in Stacks, rec[s] # NoRef
      PROVE  f[s].os = rec[s] /\ f[s].driver = "kvm"
  <2>1. s \in Nodes /\ s \notin Shared
    BY DEF Nodes, VersionsAssumption
  <2>2. node_boxes(catalog)[s] = rec[s]
    BY <1>1, <2>1 DEF node_boxes, stack_ref
  <2>3. rec[s] \in Refs /\ arch_ok(rec[s], host)
    BY <1>1 DEF RecordInv, host_can_run, TypeOK
  <2>4. box_build_arch(rec[s], host) = host.arch
    BY <2>3 DEF arch_ok, box_build_arch
  <2> QED BY <1>0, <2>1, <2>2, <2>4 DEF provider
<1>2. ASSUME NEW n \in Shared
      PROVE  f[n].driver = "kvm"
  <2>1. n \in Nodes /\ node_boxes(catalog)[n] = shared_os(catalog, n)
    BY DEF Nodes, node_boxes
  <2>2. Pin[shared_os(catalog, n)] = AnyArch
    BY <1>0, SelectionType DEF load_catalog, VersionsAssumption, UbuntuTracksHost
  <2> QED BY <1>0, <2>1, <2>2 DEF provider, box_build_arch
<1> QED BY <1>1, <1>2 DEF Rendered

LEMMA RenderStep ==
  ASSUME VersionsAssumption, OneOperator, TypeOK, RecordInv, RenderInv, [Next]_vars
  PROVE  RenderInv'
<1>0. job \in [Terminals -> Jobs] /\ rec \in [Stacks -> Refs \cup {NoRef}]
  BY DEF TypeOK
\* A job that ends, or stands where nothing is asked of it.
<1>1. ASSUME NEW t \in Terminals, job'[t].pc \in {"idle", "start", "forget"}
      PROVE  RenderInv'
  BY <1>1 DEF RenderInv, OneOperator
<1>2. ASSUME NEW t \in Terminals, Exit(t)
      PROVE  RenderInv'
  <2>1. job'[t].pc = "idle"
    BY <1>0, <1>2, Constants DEF Exit
  <2> QED BY <1>1, <2>1
<1>3. CASE Edit \/ UNCHANGED vars
  BY <1>3 DEF Edit, vars, RenderInv, Rendered
<1>4. ASSUME NEW t \in Terminals, NEW verb, NEW s, NEW r, Import(t, verb, s, r)
      PROVE  RenderInv'
  <2>1. CASE job' = job
    BY <1>4, <2>1 DEF Import, RenderInv, Rendered
  <2>2. CASE job' # job
    <3> DEFINE j == [Idle EXCEPT !.pc = IF verb = "commons up" THEN "render" ELSE "start",
                                 !.verb = verb, !.stack = s, !.build = r,
                                 !.fleet = all_boxes(catalog, {host})]
    <3>0. job' = [job EXCEPT ![t] = j]
      BY <1>4, <2>2 DEF Import
    <3>1. job'[t].verb = verb /\ job'[t].pc = IF verb = "commons up" THEN "render" ELSE "start"
      BY <1>0, <3>0, Constants DEF Jobs
    <3> QED BY <3>1 DEF RenderInv, OneOperator
  <2> QED BY <2>1, <2>2
<1>5. ASSUME NEW t \in Terminals, Reconcile(t)
      PROVE  RenderInv'
  <2>1. job[t].stack \in Stacks /\ job[t].build \in Refs \cup {NoRef}
    BY <1>0 DEF Jobs
  <2>2. rec'[job[t].stack] # NoRef
    BY <1>0, <1>5, <2>1, SelectionType DEF Reconcile, requested, VersionsAssumption
  <2>3. job'[t].pc = "render" /\ job'[t].stack = job[t].stack
    BY <1>0, <1>5 DEF Reconcile, Step, Jobs
  <2> QED BY <2>2, <2>3 DEF RenderInv, OneOperator
<1>6. ASSUME NEW t \in Terminals, Resolve(t)
      PROVE  RenderInv'
  <2> DEFINE f == [n \in Nodes |-> provider(node_boxes(catalog)[n], host)]
  <2>1. job' = [job EXCEPT ![t].pc = "write", ![t].held = f] /\ rec' = rec /\ job[t].pc = "render"
    BY <1>6 DEF Resolve
  <2>2. Rendered(f)
    BY <1>6, ResolvesRendered
  <2> HIDE DEF f
  <2>3. job'[t].pc = "write" /\ job'[t].held = f /\ job'[t].verb = job[t].verb
        /\ job'[t].stack = job[t].stack
    BY <1>0, <2>1 DEF Jobs
  <2>4. Rendered(job[t].held)'
    BY <2>1, <2>2, <2>3 DEF Rendered
  <2> QED BY <2>1, <2>3, <2>4 DEF RenderInv, OneOperator
<1>7. ASSUME NEW t \in Terminals, WriteResolved(t)
      PROVE  RenderInv'
  <2>1. job'[t].pc = "ensure" /\ job'[t].verb = job[t].verb /\ job'[t].stack = job[t].stack
    BY <1>0, <1>7 DEF WriteResolved, Jobs
  <2>2. Rendered(job[t].held)
    BY <1>7 DEF WriteResolved, RenderInv
  <2>3. Rendered(resolved)'
    BY <1>7, <2>2 DEF WriteResolved, Rendered
  <2> QED BY <1>7, <2>1, <2>3 DEF WriteResolved, RenderInv, OneOperator
<1>8. ASSUME NEW t \in Terminals, EnsureBoxes(t)
      PROVE  RenderInv'
  <2>1. job'[t].pc = "up" /\ job'[t].verb = job[t].verb /\ job'[t].stack = job[t].stack
    BY <1>0, <1>8 DEF EnsureBoxes, Step, Jobs
  <2> QED BY <1>8, <2>1 DEF EnsureBoxes, RenderInv, Rendered, OneOperator
<1>9. ASSUME NEW t \in Terminals, Destroy(t)
      PROVE  RenderInv'
  <2>1. job'[t].pc = "forget"
    BY <1>0, <1>9 DEF Destroy, Step, Jobs
  <2> QED BY <1>1, <2>1
<1>10. ASSUME NEW t \in Terminals,
              VagrantUp(t) \/ DeleteRecord(t) \/ CleanUnreferenced(t) \/ Abort(t)
       PROVE  RenderInv'
  BY <1>2, <1>10 DEF VagrantUp, DeleteRecord, CleanUnreferenced, Abort
<1> QED
  BY <1>3, <1>4, <1>5, <1>6, <1>7, <1>8, <1>9, <1>10 DEF Next

----------------------------------------------------------------------------
(* The guests: booted by VagrantUp from the rendered file, or taken away. *)
LEMMA SoundStep ==
  ASSUME VersionsAssumption, OneOperator, VersionsInv, [Next]_vars
  PROVE  VersionsSound'
<1> USE DEF VersionsInv
<1>0. /\ job \in [Terminals -> Jobs] /\ rec \in [Stacks -> Refs \cup {NoRef}]
      /\ guests \in Files /\ resolved \in Files /\ Stacks \subseteq Nodes
  BY DEF TypeOK, Nodes
<1>a. host' = host
  BY DEF Next, vars, Edit, Import, Reconcile, Resolve, WriteResolved, EnsureBoxes, VagrantUp,
         Destroy, DeleteRecord, CleanUnreferenced, Abort
\* A step that boots nothing, records nothing new and renders nothing.
<1>1. ASSUME \A n \in Nodes : guests'[n] \in {guests[n], NoGuest},
             \A s \in Stacks : rec'[s] \in {rec[s], NoRef}, resolved' = resolved
      PROVE  VersionsSound'
  BY <1>0, <1>a, <1>1
  DEF VersionsSound, RunsWhatIsRecorded, PinnedForLife, HostCanRun, NeverEmulated, arch_ok, NoGuest
<1>2. ASSUME NEW t \in Terminals, Reconcile(t)
      PROVE  VersionsSound'
  <2> DEFINE s == job[t].stack
             build == IF job[t].build # NoRef THEN job[t].build ELSE rec[s]
             ref == requested(catalog, s, build)
  <2>1. /\ rec' = [rec EXCEPT ![s] = ref] /\ (rec[s] = NoRef => guests[s] = NoGuest)
        /\ rec[s] \in {NoRef, ref} /\ UNCHANGED <<guests, resolved>>
    BY <1>2 DEF Reconcile
  <2> HIDE DEF s, build, ref
  <2>2. \A q \in Stacks : guests[q] # NoGuest => rec'[q] = rec[q]
    BY <1>0, <2>1
  <2> QED BY <1>0, <1>a, <2>1, <2>2
          DEF VersionsSound, RunsWhatIsRecorded, PinnedForLife, HostCanRun, NeverEmulated, arch_ok
<1>3. ASSUME NEW t \in Terminals, WriteResolved(t)
      PROVE  VersionsSound'
  <2>1. Rendered(job[t].held) /\ resolved' = job[t].held /\ UNCHANGED <<guests, rec>>
    BY <1>3 DEF WriteResolved, RenderInv
  <2>2. \A s \in Stacks : guests[s] # NoGuest /\ rec[s] # NoRef => resolved'[s].os = guests[s].os
    BY <2>1 DEF Rendered, VersionsSound, RunsWhatIsRecorded
  <2> QED BY <1>a, <2>1, <2>2
          DEF VersionsSound, RunsWhatIsRecorded, PinnedForLife, HostCanRun, NeverEmulated, arch_ok
<1>4. ASSUME NEW t \in Terminals, VagrantUp(t)
      PROVE  VersionsSound'
  <2> DEFINE boots == {n \in Footprint(t) : guests[n] = NoGuest}
  <2>1. /\ guests' = [n \in Nodes |-> IF n \in boots THEN resolved[n] ELSE guests[n]]
        /\ UNCHANGED <<rec, resolved>> /\ job[t].pc = "up"
    BY <1>4 DEF VagrantUp
  <2>2. Rendered(resolved)
    BY <2>1 DEF RenderInv
  <2>3. \A s \in Stacks : s \in boots => rec[s] # NoRef
    BY <2>1 DEF RenderInv, Footprint, VersionsAssumption
  <2> HIDE DEF boots
  <2>4. \A s \in Stacks : s \in boots => resolved[s].os = rec[s] /\ host_can_run(rec[s], host)
    BY <2>2, <2>3 DEF Rendered, RecordInv
  <2>5. \A n \in Nodes : n \in boots => resolved[n].driver = "kvm"
    BY <2>2, <2>3 DEF Rendered, Nodes
  <2>6. RunsWhatIsRecorded' /\ PinnedForLife'
    BY <1>0, <2>1, <2>4 DEF VersionsSound, RunsWhatIsRecorded, PinnedForLife
  <2>7. HostCanRun'
    <3>1. host.v3 = (host.arch = "x86_64" /\ host.kvm /\ ~host.missing)
      BY DEF TypeOK, Hosts, from_raw
    <3> QED BY <1>0, <1>a, <2>1, <2>4, <3>1 DEF VersionsSound, HostCanRun, host_can_run, arch_ok
  <2>8. NeverEmulated'
    BY <1>0, <2>1, <2>5 DEF VersionsSound, NeverEmulated
  <2> QED BY <2>6, <2>7, <2>8 DEF VersionsSound
<1>5. ASSUME NEW t \in Terminals, Destroy(t)
      PROVE  VersionsSound'
  BY <1>1, <1>5 DEF Destroy
<1>6. ASSUME NEW t \in Terminals, DeleteRecord(t)
      PROVE  VersionsSound'
  BY <1>0, <1>1, <1>6 DEF DeleteRecord
<1>7. CASE UNCHANGED <<guests, rec, resolved>>
  BY <1>1, <1>7
<1> HIDE DEF VersionsInv
<1> QED
  BY <1>2, <1>3, <1>4, <1>5, <1>6, <1>7
  DEF Next, vars, Edit, Import, Resolve, EnsureBoxes, CleanUnreferenced, Abort

LEMMA StepInv ==
  ASSUME VersionsAssumption, OneOperator, VersionsInv, [Next]_vars
  PROVE  VersionsInv'
BY TypeStep, RecordStep, RenderStep, SoundStep DEF VersionsInv

LEMMA InvImplies == VersionsInv => VersionsSound
BY DEF VersionsInv

\* With one operator, whatever is edited, refused or killed, and for every
\* catalog, host and set of stacks: the strengthening holds in every state.
THEOREM VersionsInvariant == VersionsAssumption /\ OneOperator => (Spec => []VersionsInv)
<1> SUFFICES ASSUME VersionsAssumption, OneOperator PROVE Spec => []VersionsInv
  OBVIOUS
<1>1. Init => VersionsInv
  BY InitInv
<1>2. VersionsInv /\ [Next]_vars => VersionsInv'
  BY StepInv
<1> QED BY <1>1, <1>2, PTL DEF Spec

\* An OS that IBM does not support is recorded only on request, by the record
\* that is there, or by the catalog's decision (_reconcile_instance), with any
\* number of operators.
THEOREM UnsupportedOnlyByChoice == VersionsAssumption => (Spec => UnsupportedByChoice)
<1> SUFFICES ASSUME VersionsAssumption PROVE Spec => UnsupportedByChoice
  OBVIOUS
<1>1. Init => TypeOK
  BY InitInv DEF VersionsInv
<1>2. TypeOK /\ [Next]_vars => TypeOK'
  BY TypeStep
<1>3. TypeOK /\ [Next]_vars => [UnsupportedByChoiceStep]_vars
  <2> SUFFICES ASSUME TypeOK, [Next]_vars, NEW t \in Terminals, rec' # rec,
                      job[t].pc = "start", job'[t].pc = "render", job[t].build = NoRef
               PROVE  LET e == catalog.os[rec'[job[t].stack]] IN e.unsupported => e.decision
    BY DEF UnsupportedByChoiceStep
  <2>0. job \in [Terminals -> Jobs] /\ rec \in [Stacks -> Refs \cup {NoRef}]
    BY DEF TypeOK
  <2>1. PICK u \in Terminals : Reconcile(u) \/ DeleteRecord(u)
    BY DEF Next, vars, Edit, Import, Resolve, WriteResolved, EnsureBoxes, VagrantUp, Destroy,
           CleanUnreferenced, Abort
  <2>2. u = t /\ Reconcile(t)
    <3>1. \A v \in Terminals : v # u => job'[v] = job[v]
      BY <2>0, <2>1 DEF Reconcile, DeleteRecord, Step, Exit
    <3>2. u = t
      BY <3>1
    <3>3. job[t].pc # "forget"
      OBVIOUS
    <3> QED BY <2>1, <3>2, <3>3 DEF DeleteRecord
  <2> DEFINE s == job[t].stack
  <2>3. /\ rec' = [rec EXCEPT ![s] = requested(catalog, s, rec[s])]
        /\ rec[s] \in {NoRef, requested(catalog, s, rec[s])}
        /\ load_catalog(catalog)
    BY <2>2 DEF Reconcile
  <2>4. s \in Stacks
    BY <2>0 DEF Jobs
  <2> HIDE DEF s
  <2>5. rec[s] = NoRef
    BY <2>0, <2>3, <2>4
  <2>6. rec'[s] = catalog.stacks[s].default
    BY <2>0, <2>3, <2>4, <2>5 DEF requested
  <2>7. gate_default(catalog, catalog.stacks[s].default)
    BY <2>3, <2>4 DEF load_catalog, stack_valid
  <2> QED BY <2>6, <2>7 DEF gate_default, s
<1> QED BY <1>1, <1>2, <1>3, PTL DEF Spec, UnsupportedByChoice

\* `box gc --unreferenced` keeps every box that a bootstrap on this host could
\* still be granted (box.py, all_boxes for any host), with any number of
\* operators.
THEOREM GcKeepsEveryGrantable == VersionsAssumption => (Spec => GcKeepsGrantable)
<1> SUFFICES ASSUME VersionsAssumption PROVE Spec => GcKeepsGrantable
  OBVIOUS
<1>1. Init => TypeOK
  BY InitInv DEF VersionsInv
<1>2. TypeOK /\ [Next]_vars => TypeOK'
  BY TypeStep
<1>3. TypeOK /\ [Next]_vars => [GcKeepsGrantableStep]_vars
  <2> SUFFICES ASSUME TypeOK, [Next]_vars, NEW b \in registered \ registered',
                      NEW r \in Refs \cup {NoRef}, b[1] \in Stacks,
                      stack_os(catalog, b[1], r, host), requested(catalog, b[1], r) = b[2]
               PROVE  FALSE
    BY DEF GcKeepsGrantableStep
  <2>1. PICK t \in Terminals : CleanUnreferenced(t)
    BY DEF Next, vars, Edit, Import, Reconcile, Resolve, WriteResolved, EnsureBoxes, VagrantUp,
           Destroy, DeleteRecord, Abort
  <2>2. b \in Stacks \X Refs
    BY DEF TypeOK
  <2>3. b \in all_boxes(catalog, {})
    BY <2>2 DEF stack_os, all_boxes
  <2> QED BY <2>1, <2>3 DEF CleanUnreferenced
<1> QED BY <1>1, <1>2, <1>3, PTL DEF Spec, GcKeepsGrantable

-----------------------------------------------------------------------------
(***************************************************************************)
(* The box pool (module BoxPool).                                          *)
(***************************************************************************)
LEMMA PoolInit == Boxes!BoxesAssumption /\ Boxes!Init => Boxes!PoolInv
<1> SUFFICES ASSUME Boxes!BoxesAssumption, Boxes!Init PROVE Boxes!PoolInv
  OBVIOUS
<1>1. /\ Boxes!NoCache \in Boxes!Artifacts
      /\ [hash |-> 0, mtime |-> 1, recipe |-> 1, cut |-> FALSE] \in Boxes!Artifacts
  BY DEF Boxes!NoCache, Boxes!Artifacts
<1>2. Boxes!PoolShape
  BY <1>1 DEF Boxes!Init, Boxes!PoolShape, Boxes!Idle, Boxes!NoReg, Boxes!Boxes, Boxes!Building
<1>3. Boxes!BakedInv
  BY DEF Boxes!Init, Boxes!BakedInv, Boxes!Idle, Boxes!NoReg, Boxes!NoCache, Boxes!KeepsResolvable
<1>c. Boxes!ContentInv
  BY DEF Boxes!Init, Boxes!ContentInv, Boxes!Idle, Boxes!NoCache, Boxes!Boxes, Boxes!BoxesAssumption
<1>4. Boxes!ReadInv
  BY DEF Boxes!Init, Boxes!ReadInv, Boxes!Idle, Boxes!DisksIntact, Boxes!StaleReclaimed, Boxes!NoImage
<1> QED BY <1>2, <1>3, <1>c, <1>4 DEF Boxes!PoolInv

\* An operation that goes on with its record, and one that ends.
LEMMA OpMoves ==
  ASSUME DOMAIN boxing = DOMAIN Boxes!Idle, NEW c, boxing' = [boxing EXCEPT !.pc = c]
  PROVE  /\ DOMAIN boxing' = DOMAIN Boxes!Idle /\ boxing'.pc = c /\ boxing'.box = boxing.box
         /\ boxing'.names = boxing.names /\ boxing'.in_use = boxing.in_use
         /\ boxing'.current = boxing.current /\ boxing'.dead = boxing.dead
BY DEF Boxes!Idle

LEMMA OpIdle ==
  ASSUME boxing' = Boxes!Idle
  PROVE  DOMAIN boxing' = DOMAIN Boxes!Idle /\ boxing'.pc = "idle"
BY DEF Boxes!Idle

\* The steps of a builder on box b: they make its artifact or its registration.
Bakes(b, next) == Boxes!Tar(b, next) \/ Boxes!TarEnds(b, next) \/ Boxes!WriteHash(b, next)
Makes(b, next) == Boxes!Reuse(b, next) \/ Bakes(b, next) \/ Boxes!BakeRegister(b, next)

LEMMA MakesTyped ==
  ASSUME Boxes!PoolShape, NEW b \in PoolFat \cup {PoolBase}, NEW next, Makes(b, next)
  PROVE  /\ clock' \in Nat \ {0} /\ cache' \in [Boxes!Boxes -> Boxes!Artifacts]
         /\ reg' \in [Boxes!Boxes -> [mtime : Nat, stamp : Boxes!Artifacts, from : Boxes!Artifacts]]
         /\ DOMAIN boxing' = DOMAIN Boxes!Idle
         /\ ((boxing'.pc = next /\ boxing'.box = boxing.box) \/ boxing'.pc \in {"idle", "nobase"})
<1>0. /\ clock \in Nat \ {0} /\ manifest \in Nat \ {0} /\ b \in Boxes!Boxes
      /\ cache \in [Boxes!Boxes -> Boxes!Artifacts]
      /\ reg \in [Boxes!Boxes -> [mtime : Nat, stamp : Boxes!Artifacts, from : Boxes!Artifacts]]
      /\ DOMAIN boxing = DOMAIN Boxes!Idle
  BY DEF Boxes!PoolShape, Boxes!Boxes
<1>1. CASE Boxes!Reuse(b, next)
  <2>1. cache' = cache /\ cache[b] \in Boxes!Artifacts
    BY <1>0, <1>1 DEF Boxes!Reuse
  <2>2. CASE boxing' = Boxes!Idle /\ UNCHANGED <<reg, clock>>
    BY <1>0, <2>1, <2>2, OpIdle
  <2>3. CASE reg' = [reg EXCEPT ![b].stamp = cache[b]] /\ clock' = clock /\ boxing' = [boxing EXCEPT !.pc = next]
    BY <1>0, <2>1, <2>3, OpMoves
  <2>4. CASE /\ clock' = clock + 1 /\ reg' = [reg EXCEPT ![b] = Boxes!Registration(cache[b])]
             /\ boxing' = [boxing EXCEPT !.pc = next]
    <3>1. Boxes!Registration(cache[b]) \in [mtime : Nat, stamp : Boxes!Artifacts, from : Boxes!Artifacts]
      BY <1>0, <2>1, <2>4 DEF Boxes!Registration
    <3> QED BY <1>0, <2>1, <2>4, <3>1, OpMoves
  <2> QED BY <1>1, <2>2, <2>3, <2>4 DEF Boxes!Reuse
<1>2. CASE Bakes(b, next)
  <2>1. reg' = reg /\ clock' \in Nat \ {0}
    <3>1. reg' = reg /\ (clock' = clock + 1 \/ clock' = clock)
      BY <1>2 DEF Bakes, Boxes!Tar, Boxes!TarEnds, Boxes!WriteHash
    <3> QED BY <1>0, <3>1
  <2>2. CASE boxing' = [Boxes!Idle EXCEPT !.pc = "nobase"] /\ cache' = cache
    <3>1. DOMAIN boxing' = DOMAIN Boxes!Idle /\ boxing'.pc = "nobase"
      BY <2>2 DEF Boxes!Idle
    <3> QED BY <1>0, <2>1, <2>2, <3>1
  <2>3. CASE boxing' = [boxing EXCEPT !.pc = next]
    <3>1. cache[b] \in Boxes!Artifacts
      BY <1>0
    <3>2. /\ [cache[b] EXCEPT !.mtime = clock', !.recipe = 0, !.cut = TRUE] \in Boxes!Artifacts
          /\ [cache[b] EXCEPT !.recipe = manifest, !.cut = b # PoolBase] \in Boxes!Artifacts
          /\ [cache[b] EXCEPT !.hash = manifest, !.cut = FALSE] \in Boxes!Artifacts
      BY <1>0, <2>1, <3>1 DEF Boxes!Artifacts
    <3>3. \/ cache' = cache
          \/ \E c \in Boxes!Artifacts : cache' = [cache EXCEPT ![b] = c]
      <4>1. CASE Boxes!Tar(b, next)
        <5>1. \/ cache' = cache
              \/ cache' = [cache EXCEPT ![b] = [cache[b] EXCEPT !.mtime = clock', !.recipe = 0, !.cut = TRUE]]
          BY <4>1 DEF Boxes!Tar
        <5> QED BY <3>2, <5>1
      <4>2. CASE Boxes!TarEnds(b, next)
        BY <3>2, <4>2 DEF Boxes!TarEnds
      <4>3. CASE Boxes!WriteHash(b, next)
        BY <3>2, <4>3 DEF Boxes!WriteHash
      <4> QED BY <1>2, <4>1, <4>2, <4>3 DEF Bakes
    <3> QED BY <1>0, <2>1, <2>3, <3>3, OpMoves
  <2> QED BY <1>2, <2>2, <2>3 DEF Bakes, Boxes!Tar, Boxes!TarEnds, Boxes!WriteHash
<1>3. CASE Boxes!BakeRegister(b, next)
  <2>1. clock' = clock + 1 /\ cache' = cache /\ cache[b] \in Boxes!Artifacts
    BY <1>0, <1>3 DEF Boxes!BakeRegister
  <2>2. Boxes!Registration(cache[b]) \in [mtime : Nat, stamp : Boxes!Artifacts, from : Boxes!Artifacts]
    BY <1>0, <2>1 DEF Boxes!Registration
  <2>3. [Boxes!Registration(cache[b]) EXCEPT !.stamp = Boxes!NoCache] \in [mtime : Nat, stamp : Boxes!Artifacts, from : Boxes!Artifacts]
    BY <2>2 DEF Boxes!NoCache, Boxes!Artifacts
  <2>4. CASE reg' = [reg EXCEPT ![b] = Boxes!Registration(cache[b])] /\ boxing' = [boxing EXCEPT !.pc = next]
    BY <1>0, <2>1, <2>2, <2>4, OpMoves
  <2>5. CASE reg' = [reg EXCEPT ![b] = [Boxes!Registration(cache[b]) EXCEPT !.stamp = Boxes!NoCache]] /\ boxing' = Boxes!Idle
    BY <1>0, <2>1, <2>3, <2>5, OpIdle
  <2> QED BY <1>3, <2>4, <2>5 DEF Boxes!BakeRegister
<1> QED BY <1>1, <1>2, <1>3 DEF Makes

\* What the steps of a builder leave of its box.
LEMMA ReuseDelivers ==
  ASSUME Boxes!PoolShape, Boxes!BakedInv, NEW b \in PoolFat \cup {PoolBase}, NEW next, Boxes!Reuse(b, next)
  PROVE  /\ cache' = cache /\ cache[b] # Boxes!NoCache /\ (b # PoolBase => cache[b].hash = manifest)
         /\ \/ boxing' = Boxes!Idle /\ UNCHANGED <<reg, built>>
            \/ /\ built' = built \cup {b} /\ boxing' = [boxing EXCEPT !.pc = next]
               /\ reg'[b].from = cache[b] /\ reg'[b].stamp = cache[b]
               /\ \A d \in Boxes!Boxes : d # b => reg'[d] = reg[d]
<1>0. /\ b \in Boxes!Boxes /\ clock \in Nat \ {0}
      /\ cache \in [Boxes!Boxes -> Boxes!Artifacts]
      /\ reg \in [Boxes!Boxes -> [mtime : Nat, stamp : Boxes!Artifacts, from : Boxes!Artifacts]]
  BY DEF Boxes!PoolShape, Boxes!Boxes
<1>1. cache' = cache /\ cache[b] # Boxes!NoCache /\ (b # PoolBase => cache[b].hash = manifest)
  BY DEF Boxes!Reuse, Boxes!Decides, Boxes!box_decision
<1>2. CASE /\ Boxes!registration_current(b) /\ reg' = [reg EXCEPT ![b].stamp = cache[b]]
           /\ built' = built \cup {b} /\ boxing' = [boxing EXCEPT !.pc = next]
  <2>1. reg[b].from = cache[b]
    BY <1>0, <1>1, <1>2 DEF Boxes!registration_current, Boxes!BakedInv
  <2>2. reg'[b] = [reg[b] EXCEPT !.stamp = cache[b]] /\ \A d \in Boxes!Boxes : d # b => reg'[d] = reg[d]
    BY <1>0, <1>2
  <2>3. reg[b] \in [mtime : Nat, stamp : Boxes!Artifacts, from : Boxes!Artifacts]
    BY <1>0
  <2> QED BY <1>1, <1>2, <2>1, <2>2, <2>3
<1>3. CASE /\ reg' = [reg EXCEPT ![b] = Boxes!Registration(cache[b])]
           /\ built' = built \cup {b} /\ boxing' = [boxing EXCEPT !.pc = next]
  BY <1>0, <1>1, <1>3 DEF Boxes!Registration
<1> QED BY <1>1, <1>2, <1>3 DEF Boxes!Reuse

LEMMA BakeDelivers ==
  ASSUME Boxes!PoolShape, NEW b \in PoolFat \cup {PoolBase}, NEW next, Bakes(b, next)
  PROVE  /\ reg' = reg /\ built' = built
         /\ \/ cache' = cache /\ boxing' = [Boxes!Idle EXCEPT !.pc = "nobase"] /\ Boxes!Tar(b, next)
            \/ /\ \A d \in Boxes!Boxes : d # b => cache'[d] = cache[d]
               /\ boxing' = [boxing EXCEPT !.pc = next]
               /\ Boxes!Tar(b, next) => cache'[b].mtime # 0 /\ cache'[b].cut = TRUE
               /\ Boxes!TarEnds(b, next) => /\ cache'[b].mtime = cache[b].mtime /\ cache'[b].hash = cache[b].hash
                                            /\ cache'[b].recipe = manifest /\ cache'[b].cut = (b # PoolBase)
               /\ Boxes!WriteHash(b, next) => /\ cache'[b].mtime = cache[b].mtime /\ cache'[b].hash = manifest
                                              /\ cache'[b].recipe = cache[b].recipe /\ cache'[b].cut = FALSE
<1>0. /\ b \in Boxes!Boxes /\ clock \in Nat \ {0} /\ cache \in [Boxes!Boxes -> Boxes!Artifacts]
      /\ cache[b] \in Boxes!Artifacts
  BY DEF Boxes!PoolShape, Boxes!Boxes
<1>1. reg' = reg /\ built' = built
  BY DEF Bakes, Boxes!Tar, Boxes!TarEnds, Boxes!WriteHash
<1>2. CASE cache' = cache /\ boxing' = [Boxes!Idle EXCEPT !.pc = "nobase"] /\ Boxes!Tar(b, next)
  BY <1>1, <1>2
<1>3. ASSUME boxing' = [boxing EXCEPT !.pc = next], NEW c \in Boxes!Artifacts, cache' = [cache EXCEPT ![b] = c]
      PROVE  cache'[b] = c /\ \A d \in Boxes!Boxes : d # b => cache'[d] = cache[d]
  BY <1>0, <1>3
<1>4. ASSUME Boxes!Tar(b, next), ~(cache' = cache /\ boxing' = [Boxes!Idle EXCEPT !.pc = "nobase"])
      PROVE  /\ \A d \in Boxes!Boxes : d # b => cache'[d] = cache[d]
             /\ boxing' = [boxing EXCEPT !.pc = next] /\ cache'[b].mtime # 0 /\ cache'[b].cut = TRUE
  <2>1. clock' = clock + 1 /\ cache' = [cache EXCEPT ![b] = [cache[b] EXCEPT !.mtime = clock', !.recipe = 0, !.cut = TRUE]]
        /\ boxing' = [boxing EXCEPT !.pc = next]
    BY <1>4 DEF Boxes!Tar
  <2> QED BY <1>0, <2>1 DEF Boxes!Artifacts
<1>5. ASSUME Boxes!TarEnds(b, next)
      PROVE  /\ \A d \in Boxes!Boxes : d # b => cache'[d] = cache[d]
             /\ boxing' = [boxing EXCEPT !.pc = next]
             /\ cache'[b].mtime = cache[b].mtime /\ cache'[b].hash = cache[b].hash
             /\ cache'[b].recipe = manifest /\ cache'[b].cut = (b # PoolBase)
  <2>1. /\ cache' = [cache EXCEPT ![b] = [cache[b] EXCEPT !.recipe = manifest, !.cut = b # PoolBase]]
        /\ boxing' = [boxing EXCEPT !.pc = next]
    BY <1>5 DEF Boxes!TarEnds
  <2> QED BY <1>0, <2>1 DEF Boxes!Artifacts
<1>6. ASSUME Boxes!WriteHash(b, next)
      PROVE  /\ \A d \in Boxes!Boxes : d # b => cache'[d] = cache[d]
             /\ boxing' = [boxing EXCEPT !.pc = next]
             /\ cache'[b].mtime = cache[b].mtime /\ cache'[b].hash = manifest
             /\ cache'[b].recipe = cache[b].recipe /\ cache'[b].cut = FALSE
  <2>1. /\ cache' = [cache EXCEPT ![b] = [cache[b] EXCEPT !.hash = manifest, !.cut = FALSE]]
        /\ boxing' = [boxing EXCEPT !.pc = next]
    BY <1>6 DEF Boxes!WriteHash
  <2> QED BY <1>0, <2>1 DEF Boxes!Artifacts
<1> QED BY <1>1, <1>2, <1>4, <1>5, <1>6 DEF Bakes

LEMMA RegisterDelivers ==
  ASSUME Boxes!PoolShape, NEW b \in PoolFat \cup {PoolBase}, NEW next, Boxes!BakeRegister(b, next)
  PROVE  /\ cache' = cache /\ \A d \in Boxes!Boxes : d # b => reg'[d] = reg[d]
         /\ reg'[b] # Boxes!NoReg /\ reg'[b].from = cache[b]
         /\ \/ /\ reg'[b].stamp = cache[b]
               /\ boxing' = [boxing EXCEPT !.pc = next] /\ built' = built \cup {b}
            \/ reg'[b].stamp = Boxes!NoCache /\ boxing' = Boxes!Idle /\ built' = built
<1>0. /\ b \in Boxes!Boxes /\ clock \in Nat \ {0} /\ clock' = clock + 1
      /\ reg \in [Boxes!Boxes -> [mtime : Nat, stamp : Boxes!Artifacts, from : Boxes!Artifacts]]
  BY DEF Boxes!PoolShape, Boxes!Boxes, Boxes!BakeRegister
<1>1. /\ Boxes!Registration(cache[b]).mtime = clock' /\ Boxes!Registration(cache[b]).from = cache[b]
      /\ Boxes!Registration(cache[b]).stamp = cache[b]
  BY DEF Boxes!Registration
<1>2. \A r : r.mtime = clock' => r # Boxes!NoReg
  BY <1>0 DEF Boxes!NoReg
<1>3. CASE /\ reg' = [reg EXCEPT ![b] = Boxes!Registration(cache[b])]
           /\ boxing' = [boxing EXCEPT !.pc = next] /\ built' = built \cup {b}
  <2>1. reg'[b] = Boxes!Registration(cache[b]) /\ \A d \in Boxes!Boxes : d # b => reg'[d] = reg[d]
    BY <1>0, <1>3
  <2> QED BY <1>1, <1>2, <1>3, <2>1 DEF Boxes!BakeRegister
<1>4. CASE /\ reg' = [reg EXCEPT ![b] = [Boxes!Registration(cache[b]) EXCEPT !.stamp = Boxes!NoCache]]
           /\ boxing' = Boxes!Idle /\ built' = built
  <2>1. /\ reg'[b].mtime = clock' /\ reg'[b].from = cache[b] /\ reg'[b].stamp = Boxes!NoCache
    BY <1>0, <1>4 DEF Boxes!Registration
  <2>2. \A d \in Boxes!Boxes : d # b => reg'[d] = reg[d]
    BY <1>0, <1>4
  <2> QED BY <1>2, <1>4, <2>1, <2>2 DEF Boxes!BakeRegister
<1> QED BY <1>3, <1>4 DEF Boxes!BakeRegister

\* The actions of a builder, as steps on one box.
LEMMA BuilderMakes ==
  ASSUME Boxes!Builder
  PROVE  \/ boxing.pc = "base" /\ (Boxes!Reuse(PoolBase, "builder") \/ Boxes!Tar(PoolBase, "base_tar"))
         \/ boxing.pc = "base_tar" /\ Boxes!TarEnds(PoolBase, "base_add")
         \/ boxing.pc = "base_add" /\ Boxes!BakeRegister(PoolBase, "builder")
         \/ /\ boxing.pc = "builder"
            /\ Boxes!Reuse(boxing.box, "built") \/ Boxes!Refuse(boxing.box) \/ Boxes!Tar(boxing.box, "tar")
         \/ boxing.pc = "tar" /\ boxing.box # PoolBase /\ Boxes!TarEnds(boxing.box, "hash")
         \/ boxing.pc = "tar" /\ boxing.box = PoolBase /\ Boxes!TarEnds(boxing.box, "add")
         \/ boxing.pc = "hash" /\ Boxes!WriteHash(boxing.box, "add")
         \/ boxing.pc = "add" /\ Boxes!BakeRegister(boxing.box, "built")
BY DEF Boxes!Builder

BuilderPcs == {"builder", "base_tar", "base_add", "tar", "hash", "add", "built"}

LEMMA PoolShapeStep ==
  ASSUME Boxes!BoxesAssumption, Boxes!PoolShape, [Boxes!Next]_(Boxes!vars)
  PROVE  Boxes!PoolShape'
<1> USE DEF Boxes!PoolShape, Boxes!Building
<1>1. CASE UNCHANGED Boxes!vars
  BY <1>1 DEF Boxes!vars
<1>2. CASE Boxes!Edit \/ Boxes!Repoint \/ Boxes!Repin
  BY <1>2 DEF Boxes!Edit, Boxes!Repoint, Boxes!Repin, Boxes!lab
<1>3. CASE \E g \in PoolGuests : Boxes!EnsureBoxes(g) \/ Boxes!Upload(g) \/ Boxes!CreateDomain(g) \/ Boxes!Destroy(g)
  BY <1>3 DEF Boxes!EnsureBoxes, Boxes!Upload, Boxes!CreateDomain, Boxes!Destroy
<1>4. CASE Boxes!StartBuild
  <2>1. PICK b \in (PoolFat \cup {PoolBase}) \cap resolvable, force \in BOOLEAN :
          boxing' = [Boxes!Idle EXCEPT !.pc = "plan", !.box = b, !.force = force]
    BY <1>4 DEF Boxes!StartBuild
  <2>2. DOMAIN boxing' = DOMAIN Boxes!Idle /\ boxing'.box = b
    BY <2>1 DEF Boxes!Idle
  <2> QED BY <1>4, <2>2 DEF Boxes!StartBuild, Boxes!lab
<1>5. CASE Boxes!BuildPlan
  <2>1. CASE boxing' = Boxes!Idle
    BY <1>5, <2>1, OpIdle DEF Boxes!BuildPlan, Boxes!lab
  <2>2. CASE \E stop \in {"base", "builder"} : boxing' = [boxing EXCEPT !.pc = stop]
    <3>1. DOMAIN boxing' = DOMAIN Boxes!Idle /\ boxing'.box = boxing.box
      BY <2>2, OpMoves
    <3> QED BY <1>5, <3>1 DEF Boxes!BuildPlan, Boxes!lab
  <2> QED BY <1>5, <2>1, <2>2 DEF Boxes!BuildPlan
<1>6. CASE Boxes!Builder
  <2>1. boxing.pc \in Boxes!Building /\ boxing.box \in PoolFat \cup {PoolBase}
    BY <1>6 DEF Boxes!Builder
  <2>r. CASE Boxes!Refuse(boxing.box)
    BY <2>r, OpIdle DEF Boxes!Refuse, Boxes!lab
  <2>2. CASE \E b \in {PoolBase, boxing.box}, next \in BuilderPcs : Makes(b, next)
    <3>1. PICK b \in {PoolBase, boxing.box}, next \in BuilderPcs : Makes(b, next)
      BY <2>2
    <3>2. /\ clock' \in Nat \ {0} /\ cache' \in [Boxes!Boxes -> Boxes!Artifacts]
          /\ reg' \in [Boxes!Boxes -> [mtime : Nat, stamp : Boxes!Artifacts, from : Boxes!Artifacts]]
          /\ DOMAIN boxing' = DOMAIN Boxes!Idle
          /\ ((boxing'.pc = next /\ boxing'.box = boxing.box) \/ boxing'.pc \in {"idle", "nobase"})
      BY <2>1, <3>1, MakesTyped
    <3>3. UNCHANGED <<manifest, resolvable, overlays>>
      BY <3>1 DEF Makes, Bakes, Boxes!Reuse, Boxes!Tar, Boxes!TarEnds, Boxes!WriteHash, Boxes!BakeRegister, Boxes!lab
    <3> QED BY <2>1, <3>2, <3>3
  <2> QED BY <1>6, <2>r, <2>2, BuilderMakes DEF Makes, Bakes, BuilderPcs
<1>7. CASE Boxes!AfterBuild
  <2>1. DOMAIN boxing' = DOMAIN Boxes!Idle /\ boxing'.pc = "gc"
    BY <1>7 DEF Boxes!AfterBuild, Boxes!Idle
  <2> QED BY <1>7, <2>1 DEF Boxes!AfterBuild, Boxes!lab
<1>8. CASE Boxes!Clean
  <2>1. Boxes!NoCache \in Boxes!Artifacts
    BY DEF Boxes!NoCache, Boxes!Artifacts
  <2>2. Boxes!NoReg \in [mtime : Nat, stamp : Boxes!Artifacts, from : Boxes!Artifacts]
    BY <2>1 DEF Boxes!NoReg
  <2>3. PICK b \in PoolFat \cup {PoolBase} : /\ cache' = [cache EXCEPT ![b] = Boxes!NoCache]
                                            /\ reg' = [reg EXCEPT ![b] = Boxes!NoReg]
    BY <1>8 DEF Boxes!Clean
  <2>4. /\ cache' \in [Boxes!Boxes -> Boxes!Artifacts]
        /\ reg' \in [Boxes!Boxes -> [mtime : Nat, stamp : Boxes!Artifacts, from : Boxes!Artifacts]]
    BY <2>1, <2>2, <2>3
  <2> QED BY <1>8, <2>4 DEF Boxes!Clean, Boxes!lab
<1>9. CASE Boxes!Gc
  <2>1. Boxes!NoCache \in Boxes!Artifacts
    BY DEF Boxes!NoCache, Boxes!Artifacts
  <2>2. Boxes!NoReg \in [mtime : Nat, stamp : Boxes!Artifacts, from : Boxes!Artifacts]
    BY <2>1 DEF Boxes!NoReg
  <2>3. PICK gone : /\ reg' = [b \in Boxes!Boxes |-> IF b \in PoolRetired \cup gone THEN Boxes!NoReg ELSE reg[b]]
                    /\ cache' = [b \in Boxes!Boxes |-> IF b \in PoolRetired \cup gone THEN Boxes!NoCache ELSE cache[b]]
                    /\ boxing' = [Boxes!Idle EXCEPT !.pc = "gc", !.dead = gone]
    BY <1>9 DEF Boxes!Gc
  <2>4. DOMAIN boxing' = DOMAIN Boxes!Idle /\ boxing'.pc = "gc"
    BY <2>3 DEF Boxes!Idle
  <2> QED BY <1>9, <2>1, <2>2, <2>3, <2>4 DEF Boxes!Gc, Boxes!lab
<1>10. CASE Boxes!GcCurrent \/ Boxes!GcList \/ Boxes!GcScan \/ Boxes!GcEnds
  <2>1. DOMAIN boxing' = DOMAIN Boxes!Idle /\ boxing'.pc \in {"list", "scan", "delete", "gc_done"}
    BY <1>10 DEF Boxes!GcCurrent, Boxes!GcList, Boxes!GcScan, Boxes!GcEnds, Boxes!Idle
  <2> QED BY <1>10, <2>1 DEF Boxes!GcCurrent, Boxes!GcList, Boxes!GcScan, Boxes!GcEnds, Boxes!lab
<1>11. CASE Boxes!GcDelete
  <2>1. DOMAIN boxing' = DOMAIN Boxes!Idle /\ boxing'.pc = "delete"
    BY <1>11 DEF Boxes!GcDelete, Boxes!Idle
  <2> QED BY <1>11, <2>1 DEF Boxes!GcDelete, Boxes!lab
<1>12. CASE Boxes!Return \/ Boxes!Killed
  BY <1>12, OpIdle DEF Boxes!Return, Boxes!Killed, Boxes!lab
<1> QED BY <1>1, <1>2, <1>3, <1>4, <1>5, <1>6, <1>7, <1>8, <1>9, <1>10, <1>11, <1>12 DEF Boxes!Next

LEMMA PoolReadStep ==
  ASSUME Boxes!PoolShape, Boxes!ReadInv, [Boxes!Next]_(Boxes!vars)
  PROVE  Boxes!ReadInv'
<1> USE DEF Boxes!ReadInv, Boxes!DisksIntact
<1>0. DOMAIN overlays = PoolGuests /\ DOMAIN boxing = DOMAIN Boxes!Idle
  BY DEF Boxes!PoolShape
<1>1. CASE UNCHANGED Boxes!vars
  BY <1>1 DEF Boxes!vars, Boxes!StaleReclaimed
<1>2. CASE Boxes!Edit \/ Boxes!Repoint \/ Boxes!Repin
  BY <1>2 DEF Boxes!Edit, Boxes!Repoint, Boxes!Repin, Boxes!lab, Boxes!StaleReclaimed
<1>3. CASE \E g \in PoolGuests : Boxes!EnsureBoxes(g) \/ Boxes!Upload(g)
  BY <1>3 DEF Boxes!EnsureBoxes, Boxes!Upload, Boxes!StaleReclaimed
<1>4. CASE \E g \in PoolGuests : Boxes!CreateDomain(g)
  BY <1>0, <1>4 DEF Boxes!CreateDomain, Boxes!StaleReclaimed
<1>5. CASE \E g \in PoolGuests : Boxes!Destroy(g)
  BY <1>0, <1>5 DEF Boxes!Destroy, Boxes!StaleReclaimed
<1>6. CASE Boxes!StartBuild \/ Boxes!BuildPlan \/ Boxes!Builder \/ Boxes!AfterBuild \/ Boxes!Gc \/ Boxes!Return \/ Boxes!Killed
  <2>1. boxing'.pc \notin {"scan", "delete", "gc_done"}
    <3>1. CASE Boxes!StartBuild
      BY <3>1 DEF Boxes!StartBuild, Boxes!Idle
    <3>2. CASE Boxes!BuildPlan
      BY <1>0, <3>2, OpIdle, OpMoves DEF Boxes!BuildPlan
    <3>3. CASE Boxes!Builder
      <4>1. \/ boxing' = [Boxes!Idle EXCEPT !.pc = "nobase"] \/ boxing' = Boxes!Idle
            \/ \E next \in BuilderPcs : boxing' = [boxing EXCEPT !.pc = next]
        BY <3>3, BuilderMakes DEF BuilderPcs, Boxes!Reuse, Boxes!Refuse, Boxes!Tar, Boxes!TarEnds, Boxes!WriteHash,
                                  Boxes!BakeRegister
      <4> QED BY <1>0, <4>1, OpMoves DEF Boxes!Idle, BuilderPcs
    <3>4. CASE Boxes!AfterBuild \/ Boxes!Return \/ Boxes!Killed
      BY <3>4 DEF Boxes!AfterBuild, Boxes!Return, Boxes!Killed, Boxes!Idle
    <3>5. CASE Boxes!Gc
      <4>1. PICK gone : boxing' = [Boxes!Idle EXCEPT !.pc = "gc", !.dead = gone]
        BY <3>5 DEF Boxes!Gc
      <4> QED BY <4>1 DEF Boxes!Idle
    <3> QED BY <1>6, <3>1, <3>2, <3>3, <3>4, <3>5
  <2>2. UNCHANGED <<overlays, unlisted, images>>
    BY <1>6 DEF Boxes!StartBuild, Boxes!BuildPlan, Boxes!Builder, Boxes!Reuse, Boxes!Refuse, Boxes!Tar,
                Boxes!TarEnds, Boxes!WriteHash, Boxes!BakeRegister,
                Boxes!AfterBuild, Boxes!Gc, Boxes!Return, Boxes!Killed, Boxes!lab
  <2> QED BY <2>1, <2>2 DEF Boxes!StaleReclaimed
<1>7. CASE Boxes!Clean
  BY <1>7 DEF Boxes!Clean, Boxes!lab, Boxes!StaleReclaimed
<1>8. CASE Boxes!GcCurrent
  <2>1. boxing'.pc = "list"
    BY <1>0, <1>8 DEF Boxes!GcCurrent, Boxes!Idle
  <2> QED BY <1>8, <2>1 DEF Boxes!GcCurrent, Boxes!lab, Boxes!StaleReclaimed
<1>9. CASE Boxes!GcList
  <2>1. boxing'.pc = "scan" /\ boxing'.in_use = {g \in PoolGuests : overlays[g] # Boxes!NoImage}
    BY <1>0, <1>9 DEF Boxes!GcList, Boxes!Idle
  <2> QED BY <1>9, <2>1 DEF Boxes!GcList, Boxes!lab, Boxes!StaleReclaimed
<1>10. CASE Boxes!GcScan
  <2>1. boxing'.pc = "delete" /\ boxing'.in_use = {overlays[g] : g \in boxing.in_use} \ {Boxes!NoImage}
    BY <1>0, <1>10 DEF Boxes!GcScan, Boxes!Idle
  <2> QED BY <1>10, <2>1 DEF Boxes!GcScan, Boxes!lab, Boxes!StaleReclaimed
<1>11. CASE Boxes!GcDelete
  <2>1. PICK v \in Boxes!Doomed : images' = images \ {v} /\ boxing' = [boxing EXCEPT !.names = @ \ {v}]
    BY <1>11 DEF Boxes!GcDelete
  <2>2. boxing'.pc = "delete" /\ boxing.pc = "delete" /\ boxing'.in_use = boxing.in_use /\ v \notin boxing.in_use
    BY <1>0, <1>11, <2>1 DEF Boxes!GcDelete, Boxes!Doomed, Boxes!Idle
  <2> QED BY <1>11, <2>1, <2>2 DEF Boxes!GcDelete, Boxes!lab, Boxes!StaleReclaimed
<1>12. CASE Boxes!GcEnds
  <2>1. /\ boxing'.pc = "gc_done" /\ boxing.pc = "delete" /\ boxing'.in_use = boxing.in_use /\ boxing'.names = boxing.names
        /\ boxing'.current = boxing.current /\ boxing'.dead = boxing.dead
    BY <1>0, <1>12, OpMoves DEF Boxes!GcEnds
  <2>2. ASSUME NEW v \in boxing.names, v \notin boxing.in_use
        PROVE  \/ v \in boxing.current
               \/ v[1] \notin PoolRetired \cup boxing.dead /\ \A w \in boxing.current : w[1] # v[1]
    <3>1. v \in Boxes!keep(v[1])
      BY <1>12, <2>2 DEF Boxes!GcEnds, Boxes!Doomed
    <3> QED BY <3>1 DEF Boxes!keep
  <2> QED BY <1>12, <2>1, <2>2 DEF Boxes!GcEnds, Boxes!lab, Boxes!StaleReclaimed
<1> QED BY <1>1, <1>2, <1>3, <1>4, <1>5, <1>6, <1>7, <1>8, <1>9, <1>10, <1>11, <1>12 DEF Boxes!Next
\* No stamp of another content, and a built box stays: what a step does to b's
\* artifact and registration, it does as the builder of b, by name, or to a box
\* that nothing resolves to.
LEMMA PoolBakedStep ==
  ASSUME Boxes!BoxesAssumption, Boxes!PoolShape, Boxes!BakedInv, [Boxes!Next]_(Boxes!vars)
  PROVE  Boxes!BakedInv'
<1>0. /\ DOMAIN boxing = DOMAIN Boxes!Idle /\ resolvable \subseteq PoolFat \cup {PoolBase}
      /\ PoolFat \cup {PoolBase} \subseteq Boxes!Boxes /\ PoolRetired \cap (PoolFat \cup {PoolBase}) = {}
      /\ cache \in [Boxes!Boxes -> Boxes!Artifacts]
      /\ reg \in [Boxes!Boxes -> [mtime : Nat, stamp : Boxes!Artifacts, from : Boxes!Artifacts]]
      /\ boxing.pc \in Boxes!Building => boxing.box \in PoolFat \cup {PoolBase}
  BY DEF Boxes!PoolShape, Boxes!Boxes, Boxes!BoxesAssumption
<1>z. \A b : cache[b].mtime # 0 => cache[b] # Boxes!NoCache
  BY DEF Boxes!NoCache
<1>a. /\ boxing.pc \in {"base_tar", "base_add"} => cache[PoolBase].mtime # 0
      /\ boxing.pc \in {"tar", "hash", "add"} => cache[boxing.box].mtime # 0
      /\ boxing.pc = "built" => cache[boxing.box] # Boxes!NoCache
      /\ boxing.pc \in {"add", "built"} /\ boxing.box # PoolBase => cache[boxing.box].hash = manifest
      /\ \A b \in Boxes!Boxes : reg[b].stamp # Boxes!NoCache => reg[b].from = reg[b].stamp
      /\ \A b \in built \cap resolvable : cache[b] # Boxes!NoCache /\ reg[b] # Boxes!NoReg
  BY DEF Boxes!BakedInv, Boxes!KeepsResolvable, Boxes!Registered
<1> DEFINE Good == /\ boxing'.pc \in {"base_tar", "base_add"} => cache'[PoolBase].mtime # 0
                   /\ boxing'.pc \in {"tar", "hash", "add"} => cache'[boxing'.box].mtime # 0
                   /\ boxing'.pc = "built" => cache'[boxing'.box] # Boxes!NoCache
                   /\ boxing'.pc \in {"add", "built"} /\ boxing'.box # PoolBase =>
                         cache'[boxing'.box].hash = manifest'
                   /\ \A b \in Boxes!Boxes : reg'[b].stamp # Boxes!NoCache => reg'[b].from = reg'[b].stamp
                   /\ \A b \in built' \cap resolvable' : cache'[b] # Boxes!NoCache /\ reg'[b] # Boxes!NoReg
                   /\ boxing'.pc = "built" =>
                         reg'[boxing'.box].from = cache'[boxing'.box] /\ reg'[boxing'.box].stamp = cache'[boxing'.box]
<1>b. SUFFICES Good
  BY DEF Boxes!BakedInv, Boxes!KeepsResolvable, Boxes!Registered
<1>c. boxing.pc = "built" => reg[boxing.box].from = cache[boxing.box] /\ reg[boxing.box].stamp = cache[boxing.box]
  BY DEF Boxes!BakedInv
<1>1. CASE UNCHANGED Boxes!vars
  BY <1>1, <1>a, <1>c DEF Boxes!vars
<1>2. CASE Boxes!Edit \/ Boxes!Repoint \/ Boxes!Repin
  <2>1. boxing.pc = "idle" /\ UNCHANGED <<boxing, cache, reg, built>> /\ resolvable' \subseteq resolvable
    BY <1>2 DEF Boxes!Edit, Boxes!Repoint, Boxes!Repin, Boxes!Quiet, Boxes!lab
  <2> QED BY <1>a, <2>1
<1>3. CASE \E g \in PoolGuests : Boxes!EnsureBoxes(g) \/ Boxes!Upload(g) \/ Boxes!CreateDomain(g) \/ Boxes!Destroy(g)
  BY <1>3, <1>a, <1>c DEF Boxes!EnsureBoxes, Boxes!Upload, Boxes!CreateDomain, Boxes!Destroy
<1>4. CASE Boxes!StartBuild \/ Boxes!BuildPlan \/ Boxes!AfterBuild \/ Boxes!GcCurrent \/ Boxes!GcList \/ Boxes!GcScan
           \/ Boxes!GcDelete \/ Boxes!GcEnds \/ Boxes!Return \/ Boxes!Killed
  <2>1. UNCHANGED <<manifest, cache, reg, built, resolvable>>
    BY <1>4 DEF Boxes!StartBuild, Boxes!BuildPlan, Boxes!AfterBuild, Boxes!GcCurrent, Boxes!GcList, Boxes!GcScan,
                Boxes!GcDelete, Boxes!GcEnds, Boxes!Return, Boxes!Killed
  <2>2. boxing'.pc \notin {"base_tar", "base_add", "tar", "hash", "add", "built"}
    <3>1. CASE Boxes!StartBuild \/ Boxes!AfterBuild \/ Boxes!Return \/ Boxes!Killed
      <4>1. CASE boxing' = Boxes!Idle \/ boxing' = [Boxes!Idle EXCEPT !.pc = "gc"]
        BY <4>1 DEF Boxes!Idle
      <4>2. ASSUME NEW b, NEW force, boxing' = [Boxes!Idle EXCEPT !.pc = "plan", !.box = b, !.force = force]
            PROVE  boxing'.pc = "plan"
        BY <4>2 DEF Boxes!Idle
      <4> QED BY <3>1, <4>1, <4>2 DEF Boxes!StartBuild, Boxes!AfterBuild, Boxes!Return, Boxes!Killed
    <3>2. CASE Boxes!BuildPlan
      BY <1>0, <3>2, OpIdle, OpMoves DEF Boxes!BuildPlan
    <3>3. CASE Boxes!GcCurrent \/ Boxes!GcList \/ Boxes!GcScan \/ Boxes!GcDelete \/ Boxes!GcEnds
      BY <1>0, <3>3 DEF Boxes!GcCurrent, Boxes!GcList, Boxes!GcScan, Boxes!GcDelete, Boxes!GcEnds, Boxes!Idle
    <3> QED BY <1>4, <3>1, <3>2, <3>3
  <2> QED BY <1>a, <2>1, <2>2
<1>5. CASE Boxes!Builder
  <2>0. manifest' = manifest /\ resolvable' = resolvable
    BY <1>5, BuilderMakes DEF Boxes!Reuse, Boxes!Refuse, Boxes!Tar, Boxes!TarEnds, Boxes!WriteHash, Boxes!BakeRegister
  <2>x. boxing.pc \in Boxes!Building => boxing.box \in Boxes!Boxes
    BY <1>0
  <2>1. ASSUME NEW b \in PoolFat \cup {PoolBase}, NEW next \in {"builder", "built"}, Boxes!Reuse(b, next),
               next = "built" => b = boxing.box
        PROVE  Good
    <3>1. /\ cache' = cache /\ cache[b] # Boxes!NoCache /\ (b # PoolBase => cache[b].hash = manifest)
          /\ \/ boxing' = Boxes!Idle /\ UNCHANGED <<reg, built>>
             \/ /\ built' = built \cup {b} /\ boxing' = [boxing EXCEPT !.pc = next]
                /\ reg'[b].from = cache[b] /\ reg'[b].stamp = cache[b]
                /\ \A d \in Boxes!Boxes : d # b => reg'[d] = reg[d]
      BY <2>1, ReuseDelivers
    <3>2. CASE boxing' = Boxes!Idle /\ UNCHANGED <<reg, built>>
      <4>1. boxing'.pc = "idle"
        BY <3>2, OpIdle
      <4> QED BY <1>a, <2>0, <3>1, <3>2, <4>1
    <3>3. CASE /\ built' = built \cup {b} /\ boxing' = [boxing EXCEPT !.pc = next]
               /\ reg'[b].from = cache[b] /\ reg'[b].stamp = cache[b]
               /\ \A d \in Boxes!Boxes : d # b => reg'[d] = reg[d]
      <4>1. boxing'.pc = next /\ boxing'.box = boxing.box
        BY <1>0, <3>3, OpMoves
      <4>2. reg'[b] # Boxes!NoReg
        BY <3>1, <3>3 DEF Boxes!NoReg
      <4> QED BY <1>0, <1>a, <2>0, <2>1, <3>1, <3>3, <4>1, <4>2
    <3> QED BY <3>1, <3>2, <3>3
  <2>r. CASE Boxes!Refuse(boxing.box)
    <3>1. boxing'.pc = "idle" /\ UNCHANGED <<cache, reg, built>>
      BY <2>r, OpIdle DEF Boxes!Refuse
    <3> QED BY <1>a, <2>0, <3>1
  <2>2. ASSUME NEW b \in PoolFat \cup {PoolBase}, NEW next \in {"base_tar", "base_add", "tar", "hash", "add"},
               Bakes(b, next),
               next \in {"tar", "hash", "add"} => b = boxing.box, next \in {"base_tar", "base_add"} => b = PoolBase,
               Boxes!Tar(b, next) \/ cache[b].mtime # 0,
               next = "add" /\ b # PoolBase => Boxes!WriteHash(b, next)
        PROVE  Good
    <3>1. /\ reg' = reg /\ built' = built
          /\ \/ cache' = cache /\ boxing' = [Boxes!Idle EXCEPT !.pc = "nobase"]
             \/ /\ \A d \in Boxes!Boxes : d # b => cache'[d] = cache[d]
                /\ boxing' = [boxing EXCEPT !.pc = next] /\ cache'[b].mtime # 0
                /\ next = "add" /\ b # PoolBase => cache'[b].hash = manifest
      BY <2>2, BakeDelivers DEF Bakes
    <3>2. CASE cache' = cache /\ boxing' = [Boxes!Idle EXCEPT !.pc = "nobase"]
      <4>1. boxing'.pc = "nobase"
        BY <3>2 DEF Boxes!Idle
      <4> QED BY <1>a, <2>0, <3>1, <3>2, <4>1
    <3>3. CASE /\ \A d \in Boxes!Boxes : d # b => cache'[d] = cache[d]
               /\ boxing' = [boxing EXCEPT !.pc = next] /\ cache'[b].mtime # 0
               /\ next = "add" /\ b # PoolBase => cache'[b].hash = manifest
      <4>1. boxing'.pc = next /\ boxing'.box = boxing.box
        BY <1>0, <3>3, OpMoves
      <4>2. cache'[b] # Boxes!NoCache
        BY <3>3 DEF Boxes!NoCache
      <4> QED BY <1>0, <1>a, <2>0, <2>2, <3>1, <3>3, <4>1, <4>2
    <3> QED BY <3>1, <3>2, <3>3
  <2>3. ASSUME NEW b \in PoolFat \cup {PoolBase}, NEW next \in {"builder", "built"}, Boxes!BakeRegister(b, next),
               cache[b] # Boxes!NoCache,
               next = "built" => b = boxing.box /\ (b # PoolBase => cache[b].hash = manifest)
        PROVE  Good
    <3>1. /\ cache' = cache /\ \A d \in Boxes!Boxes : d # b => reg'[d] = reg[d]
          /\ reg'[b] # Boxes!NoReg /\ reg'[b].from = cache[b]
          /\ \/ /\ reg'[b].stamp = cache[b]
                /\ boxing' = [boxing EXCEPT !.pc = next] /\ built' = built \cup {b}
             \/ reg'[b].stamp = Boxes!NoCache /\ boxing' = Boxes!Idle /\ built' = built
      BY <2>3, RegisterDelivers
    <3>2. CASE reg'[b].stamp = cache[b] /\ boxing' = [boxing EXCEPT !.pc = next] /\ built' = built \cup {b}
      <4>1. boxing'.pc = next /\ boxing'.box = boxing.box
        BY <1>0, <3>2, OpMoves
      <4> QED BY <1>0, <1>a, <2>0, <2>3, <3>1, <3>2, <4>1
    <3>3. CASE reg'[b].stamp = Boxes!NoCache /\ boxing' = Boxes!Idle /\ built' = built
      <4>1. boxing'.pc = "idle"
        BY <3>3, OpIdle
      <4> QED BY <1>0, <1>a, <2>0, <2>3, <3>1, <3>3, <4>1
    <3> QED BY <3>1, <3>2, <3>3
  <2>5. boxing.pc \in BuilderPcs \cup {"base"} => boxing.box \in PoolFat \cup {PoolBase}
    BY <1>0 DEF Boxes!Building, BuilderPcs
  <2> QED BY <1>5, <1>a, <1>z, <2>1, <2>r, <2>2, <2>3, <2>5, BuilderMakes DEF Bakes, BuilderPcs
<1>6. CASE Boxes!Clean
  <2>1. PICK b \in PoolFat \cup {PoolBase} : /\ cache' = [cache EXCEPT ![b] = Boxes!NoCache]
                                            /\ reg' = [reg EXCEPT ![b] = Boxes!NoReg]
                                            /\ built' = built \ {b}
    BY <1>6 DEF Boxes!Clean
  <2>2. \A d \in Boxes!Boxes : /\ d # b => cache'[d] = cache[d] /\ reg'[d] = reg[d]
                              /\ d = b => reg'[d] = Boxes!NoReg
    BY <1>0, <2>1
  <2>3. Boxes!NoReg.stamp = Boxes!NoCache
    BY DEF Boxes!NoReg
  <2>4. boxing.pc = "idle" /\ boxing' = boxing /\ resolvable' = resolvable
    BY <1>6 DEF Boxes!Clean
  <2> QED BY <1>0, <1>a, <2>1, <2>2, <2>3, <2>4
<1>7. CASE Boxes!Gc
  <2>1. PICK gone : /\ gone \cap resolvable = {}
                    /\ reg' = [b \in Boxes!Boxes |-> IF b \in PoolRetired \cup gone THEN Boxes!NoReg ELSE reg[b]]
                    /\ cache' = [b \in Boxes!Boxes |-> IF b \in PoolRetired \cup gone THEN Boxes!NoCache ELSE cache[b]]
                    /\ boxing' = [Boxes!Idle EXCEPT !.pc = "gc", !.dead = gone]
    BY <1>7 DEF Boxes!Gc, Boxes!unreferenced
  <2>2. boxing'.pc = "gc"
    BY <2>1 DEF Boxes!Idle
  <2>3. Boxes!NoReg.stamp = Boxes!NoCache
    BY DEF Boxes!NoReg
  <2>4. built' = built /\ resolvable' = resolvable
    BY <1>7 DEF Boxes!Gc
  <2>5. \A b \in resolvable : b \in Boxes!Boxes /\ b \notin PoolRetired \cup gone
    BY <1>0, <2>1
  <2>6. \A b \in resolvable : cache'[b] = cache[b] /\ reg'[b] = reg[b]
    BY <2>1, <2>5
  <2>7. \A b \in Boxes!Boxes : reg'[b] = Boxes!NoReg \/ reg'[b] = reg[b]
    BY <2>1
  <2> QED BY <1>a, <2>2, <2>3, <2>4, <2>6, <2>7
<1> QED BY <1>1, <1>2, <1>3, <1>4, <1>5, <1>6, <1>7 DEF Boxes!Next

\* A bake nobody killed wrote the hash of its content.
LEMMA PoolContentStep ==
  ASSUME Boxes!BoxesAssumption, Boxes!PoolShape, Boxes!ContentInv, [Boxes!Next]_(Boxes!vars)
  PROVE  Boxes!ContentInv'
<1>0. /\ DOMAIN boxing = DOMAIN Boxes!Idle /\ manifest \in Nat \ {0} /\ PoolBase \notin PoolFat
      /\ PoolFat \cup {PoolBase} \subseteq Boxes!Boxes /\ cache \in [Boxes!Boxes -> Boxes!Artifacts]
      /\ boxing.pc \in Boxes!Building => boxing.box \in PoolFat \cup {PoolBase}
  BY DEF Boxes!PoolShape, Boxes!Boxes, Boxes!BoxesAssumption
<1>k. ASSUME cache' = cache, boxing'.pc # "hash" PROVE Boxes!ContentInv'
  BY <1>k DEF Boxes!ContentInv
<1>1. CASE UNCHANGED Boxes!vars
  BY <1>1 DEF Boxes!vars, Boxes!ContentInv
<1>2. CASE Boxes!Edit \/ Boxes!Repoint \/ Boxes!Repin
  <2>1. boxing.pc = "idle" /\ UNCHANGED <<boxing, cache>>
    BY <1>2 DEF Boxes!Edit, Boxes!Repoint, Boxes!Repin, Boxes!Quiet
  <2> QED BY <1>k, <2>1
<1>3. CASE \E g \in PoolGuests : Boxes!EnsureBoxes(g) \/ Boxes!Upload(g) \/ Boxes!CreateDomain(g) \/ Boxes!Destroy(g)
  BY <1>3 DEF Boxes!EnsureBoxes, Boxes!Upload, Boxes!CreateDomain, Boxes!Destroy, Boxes!ContentInv
<1>4. CASE Boxes!StartBuild \/ Boxes!BuildPlan \/ Boxes!AfterBuild \/ Boxes!GcCurrent \/ Boxes!GcList \/ Boxes!GcScan
           \/ Boxes!GcDelete \/ Boxes!GcEnds \/ Boxes!Return \/ Boxes!Killed
  <2>1. cache' = cache
    BY <1>4 DEF Boxes!StartBuild, Boxes!BuildPlan, Boxes!AfterBuild, Boxes!GcCurrent, Boxes!GcList, Boxes!GcScan,
                Boxes!GcDelete, Boxes!GcEnds, Boxes!Return, Boxes!Killed
  <2>2. boxing'.pc # "hash"
    <3>1. CASE Boxes!StartBuild \/ Boxes!AfterBuild \/ Boxes!Return \/ Boxes!Killed
      <4>1. CASE boxing' = Boxes!Idle \/ boxing' = [Boxes!Idle EXCEPT !.pc = "gc"]
        BY <4>1 DEF Boxes!Idle
      <4>2. ASSUME NEW b, NEW force, boxing' = [Boxes!Idle EXCEPT !.pc = "plan", !.box = b, !.force = force]
            PROVE  boxing'.pc = "plan"
        BY <4>2 DEF Boxes!Idle
      <4> QED BY <3>1, <4>1, <4>2 DEF Boxes!StartBuild, Boxes!AfterBuild, Boxes!Return, Boxes!Killed
    <3>2. CASE Boxes!BuildPlan
      BY <1>0, <3>2, OpIdle, OpMoves DEF Boxes!BuildPlan
    <3>3. CASE Boxes!GcCurrent \/ Boxes!GcList \/ Boxes!GcScan \/ Boxes!GcDelete \/ Boxes!GcEnds
      BY <1>0, <3>3 DEF Boxes!GcCurrent, Boxes!GcList, Boxes!GcScan, Boxes!GcDelete, Boxes!GcEnds, Boxes!Idle
    <3> QED BY <1>4, <3>1, <3>2, <3>3
  <2> QED BY <1>k, <2>1, <2>2
<1>5. CASE Boxes!Builder
  <2>m. manifest' = manifest
    BY <1>5, BuilderMakes DEF Boxes!Reuse, Boxes!Refuse, Boxes!Tar, Boxes!TarEnds, Boxes!WriteHash, Boxes!BakeRegister
  <2>5. boxing.pc \in BuilderPcs \cup {"base"} => boxing.box \in PoolFat \cup {PoolBase}
    BY <1>0 DEF Boxes!Building, BuilderPcs
  <2>1. ASSUME NEW b, NEW next \in {"builder", "built"}, Boxes!Reuse(b, next) \/ Boxes!Refuse(b) \/ Boxes!BakeRegister(b, next)
        PROVE  Boxes!ContentInv'
    <3>1. cache' = cache /\ (boxing' = Boxes!Idle \/ boxing' = [boxing EXCEPT !.pc = next])
      BY <2>1 DEF Boxes!Reuse, Boxes!Refuse, Boxes!BakeRegister
    <3>2. boxing'.pc # "hash"
      BY <1>0, <2>1, <3>1, OpIdle, OpMoves
    <3> QED BY <1>k, <3>1, <3>2
  <2>2. ASSUME NEW b \in PoolFat \cup {PoolBase}, NEW next \in {"base_tar", "tar"}, Boxes!Tar(b, next)
        PROVE  Boxes!ContentInv'
    <3>1. \/ cache' = cache /\ boxing' = [Boxes!Idle EXCEPT !.pc = "nobase"]
          \/ /\ \A d \in Boxes!Boxes : d # b => cache'[d] = cache[d]
             /\ boxing' = [boxing EXCEPT !.pc = next] /\ cache'[b].cut = TRUE
      BY <2>2, BakeDelivers DEF Bakes
    <3>2. boxing'.pc # "hash"
      BY <1>0, <2>2, <3>1, OpMoves DEF Boxes!Idle
    <3> QED BY <1>0, <1>k, <3>1, <3>2 DEF Boxes!ContentInv
  <2>3. ASSUME NEW b \in PoolFat \cup {PoolBase}, NEW next \in {"base_add", "hash", "add"}, Boxes!TarEnds(b, next),
               next = "hash" => b = boxing.box /\ b # PoolBase
        PROVE  Boxes!ContentInv'
    <3>0. boxing' = [boxing EXCEPT !.pc = next]
      BY <2>3 DEF Boxes!TarEnds
    <3>1. boxing'.pc = next /\ boxing'.box = boxing.box
      BY <1>0, <3>0, OpMoves
    <3>2. /\ \A d \in Boxes!Boxes : d # b => cache'[d] = cache[d]
          /\ cache'[b].recipe = manifest /\ cache'[b].cut = (b # PoolBase)
      <4>1. boxing' # [Boxes!Idle EXCEPT !.pc = "nobase"]
        BY <2>3, <3>1 DEF Boxes!Idle
      <4> QED BY <2>3, <4>1, BakeDelivers DEF Bakes
    <3> QED BY <1>0, <2>m, <2>3, <3>1, <3>2 DEF Boxes!ContentInv
  <2>4. CASE boxing.pc = "hash" /\ Boxes!WriteHash(boxing.box, "add")
    <3>b. boxing.box \in PoolFat \cup {PoolBase} /\ boxing.box # PoolBase /\ cache[boxing.box].recipe = manifest
      BY <2>4, <2>5 DEF Boxes!ContentInv, BuilderPcs
    <3>0. boxing' = [boxing EXCEPT !.pc = "add"]
      BY <2>4 DEF Boxes!WriteHash
    <3>1. boxing'.pc = "add"
      BY <1>0, <3>0, OpMoves
    <3>2. /\ \A d \in Boxes!Boxes : d # boxing.box => cache'[d] = cache[d]
          /\ cache'[boxing.box].hash = manifest /\ cache'[boxing.box].recipe = cache[boxing.box].recipe
      <4>1. boxing' # [Boxes!Idle EXCEPT !.pc = "nobase"]
        BY <3>1 DEF Boxes!Idle
      <4> QED BY <2>4, <3>b, <4>1, BakeDelivers DEF Bakes
    <3> QED BY <1>0, <2>m, <3>b, <3>1, <3>2 DEF Boxes!ContentInv
  <2> QED BY <1>5, <2>1, <2>2, <2>3, <2>4, <2>5, BuilderMakes DEF BuilderPcs
<1>6. CASE Boxes!Clean
  <2>1. PICK b \in PoolFat \cup {PoolBase} : cache' = [cache EXCEPT ![b] = Boxes!NoCache]
    BY <1>6 DEF Boxes!Clean
  <2>2. boxing.pc = "idle" /\ boxing' = boxing
    BY <1>6 DEF Boxes!Clean
  <2>3. \A d \in Boxes!Boxes : cache'[d] = cache[d] \/ cache'[d] = Boxes!NoCache
    BY <1>0, <2>1
  <2>4. Boxes!NoCache.recipe = Boxes!NoCache.hash
    BY DEF Boxes!NoCache
  <2> QED BY <1>0, <2>2, <2>3, <2>4 DEF Boxes!ContentInv
<1>7. CASE Boxes!Gc
  <2>1. PICK gone : /\ cache' = [b \in Boxes!Boxes |-> IF b \in PoolRetired \cup gone THEN Boxes!NoCache ELSE cache[b]]
                    /\ boxing' = [Boxes!Idle EXCEPT !.pc = "gc", !.dead = gone]
    BY <1>7 DEF Boxes!Gc
  <2>2. boxing'.pc = "gc"
    BY <2>1 DEF Boxes!Idle
  <2>3. \A d \in Boxes!Boxes : cache'[d] = cache[d] \/ cache'[d] = Boxes!NoCache
    BY <1>0, <2>1
  <2>4. Boxes!NoCache.recipe = Boxes!NoCache.hash
    BY DEF Boxes!NoCache
  <2> QED BY <1>0, <2>2, <2>3, <2>4 DEF Boxes!ContentInv
<1> QED BY <1>1, <1>2, <1>3, <1>4, <1>5, <1>6, <1>7 DEF Boxes!Next

LEMMA PoolStep ==
  ASSUME Boxes!BoxesAssumption, Boxes!PoolInv, [Boxes!Next]_(Boxes!vars)
  PROVE  Boxes!PoolInv'
BY PoolShapeStep, PoolBakedStep, PoolContentStep, PoolReadStep DEF Boxes!PoolInv

LEMMA PoolImplies ==
  Boxes!PoolInv => Boxes!DisksIntact /\ Boxes!BuildDelivers /\ Boxes!KeepsResolvable /\ Boxes!StaleReclaimed
<1> SUFFICES ASSUME Boxes!PoolInv
             PROVE  Boxes!DisksIntact /\ Boxes!BuildDelivers /\ Boxes!KeepsResolvable /\ Boxes!StaleReclaimed
  OBVIOUS
<1>1. Boxes!DisksIntact /\ Boxes!KeepsResolvable /\ Boxes!StaleReclaimed
  BY DEF Boxes!PoolInv, Boxes!BakedInv, Boxes!ReadInv
<1>2. Boxes!BuildDelivers
  <2> SUFFICES ASSUME boxing.pc = "built" PROVE Boxes!BuildDelivers
    BY DEF Boxes!BuildDelivers
  <2>1. boxing.box \in PoolFat \cup {PoolBase} /\ manifest \in Nat \ {0}
    BY DEF Boxes!PoolInv, Boxes!PoolShape, Boxes!Building
  <2> QED BY <2>1 DEF Boxes!PoolInv, Boxes!BakedInv, Boxes!ContentInv, Boxes!BuildDelivers
<1> QED BY <1>1, <1>2

-----------------------------------------------------------------------------
(***************************************************************************)
(* The run loop and its boot batches (module RunSteps).                    *)
(***************************************************************************)
\* A batch in which two guests clone one box is booted one guest after the other.
LEMMA SerialBatch ==
  ASSUME NEW i, NEW g \in Booting!InBatch(i), NEW h \in Booting!InBatch(i), g # h, BootBoxOf[g] = BootBoxOf[h]
  PROVE  Booting!serial(i)
BY DEF Booting!InBatch, Booting!serial, Booting!batch_shares_box

\* Of two guests of a batch one is listed before the other.
LEMMA BatchListed ==
  ASSUME NEW i, NEW g \in Booting!InBatch(i), NEW h \in Booting!InBatch(i), g # h
  PROVE  Booting!Position(i, g) < Booting!Position(i, h) \/ Booting!Position(i, h) < Booting!Position(i, g)
<1> DEFINE b == Booting!Steps[i].batch
<1>1. Booting!Position(i, g) \in 1 .. Len(b) /\ b[Booting!Position(i, g)] = g
  BY DEF Booting!InBatch, Booting!Position
<1>2. Booting!Position(i, h) \in 1 .. Len(b) /\ b[Booting!Position(i, h)] = h
  BY DEF Booting!InBatch, Booting!Position
<1>3. \A k \in 1 .. Len(b) : k \in Int
  OBVIOUS
<1> QED BY <1>1, <1>2, <1>3

LEMMA RunInit == Booting!Init => Booting!StagingInv
BY DEF Booting!Init, Booting!StagingInv

LEMMA RunStep ==
  ASSUME Booting!StagingInv, [Booting!Next]_Booting!vars
  PROVE  Booting!StagingInv'
<1>0. USE DEF Booting!StagingInv
<1>1. CASE UNCHANGED Booting!vars
  BY <1>1 DEF Booting!vars
<1>2. CASE Booting!RunCommand
  BY <1>2 DEF Booting!RunCommand
<1>3. ASSUME NEW g \in Booting!Guests, Booting!StartBoot(g)
      PROVE  Booting!StagingInv'
  <2>1. /\ pc = "vagrant" /\ pc' = pc /\ index' = index /\ g \in Booting!InBatch(index)
        /\ dom[g] = "off" /\ dom' = [dom EXCEPT ![g] = "booting"]
        /\ Booting!serial(index) =>
             \A h \in Booting!InBatch(index) :
               Booting!Position(index, h) < Booting!Position(index, g) => dom[h] = "up"
    BY <1>3 DEF Booting!StartBoot
  <2>2. ASSUME NEW k \in Booting!Guests, dom'[k] = "booting"
        PROVE  /\ k \in Booting!InBatch(index)
               /\ Booting!serial(index) =>
                    \A h \in Booting!InBatch(index) :
                      Booting!Position(index, h) < Booting!Position(index, k) => dom[h] = "up"
    BY <2>1, <2>2
  <2>3. \A h \in Booting!InBatch(index) : dom[h] = "up" => dom'[h] = "up"
    BY <2>1 DEF Booting!InBatch
  <2> QED BY <2>1, <2>2, <2>3
<1>4. ASSUME NEW g \in Booting!Guests, Booting!BootDone(g) \/ Booting!BootFails(g)
      PROVE  Booting!StagingInv'
  <2>1. /\ pc = "vagrant" /\ pc' = pc /\ index' = index
        /\ \E s \in {"off", "up"} : dom' = [dom EXCEPT ![g] = s] /\ dom[g] = "booting"
    BY <1>4 DEF Booting!BootDone, Booting!BootFails
  <2>2. \A k \in Booting!Guests : dom'[k] = "booting" => dom[k] = "booting"
    BY <2>1
  <2>3. \A h \in Booting!InBatch(index) : dom[h] = "up" => dom'[h] = "up"
    BY <2>1 DEF Booting!InBatch
  <2> QED BY <2>1, <2>2, <2>3
<1>5. CASE Booting!StepOk
  <2>1. \A g \in Booting!Guests : dom[g] # "booting"
    BY <1>5 DEF Booting!StepOk, Booting!ExitZero
  <2> QED BY <1>5, <2>1 DEF Booting!StepOk, Booting!command
<1>6. CASE Booting!StepRetries \/ Booting!StepFails
  <2>1. \A g \in Booting!Guests : dom[g] # "booting"
    BY <1>6 DEF Booting!StepRetries, Booting!StepFails, Booting!ExitNonZero, Booting!Booting
  <2> QED BY <1>6, <2>1 DEF Booting!StepRetries, Booting!StepFails, Booting!ExitNonZero, Booting!command
<1>7. CASE Booting!RunAgain \/ Booting!wait \/ Booting!Completed \/ Booting!finish
  BY <1>7 DEF Booting!RunAgain, Booting!wait, Booting!Completed, Booting!finish, Booting!command
<1>8. CASE Booting!Interrupt \/ Booting!Killed
  BY <1>8 DEF Booting!Interrupt, Booting!Killed, Booting!Settle
<1> QED BY <1>1, <1>2, <1>3, <1>4, <1>5, <1>6, <1>7, <1>8 DEF Booting!Next, Booting!Run

LEMMA RunImplies == Booting!StagingInv => Booting!NoStagingRace
<1> SUFFICES ASSUME Booting!StagingInv, NEW g \in Booting!Guests,
                    NEW h \in Booting!Guests, g # h, dom[g] = "booting", dom[h] = "booting",
                    BootBoxOf[g] = BootBoxOf[h]
             PROVE  FALSE
  BY DEF Booting!NoStagingRace
<1>1. g \in Booting!InBatch(index) /\ h \in Booting!InBatch(index)
  BY DEF Booting!StagingInv
<1>2. Booting!serial(index)
  BY <1>1, SerialBatch
<1>3. \/ Booting!Position(index, g) < Booting!Position(index, h)
      \/ Booting!Position(index, h) < Booting!Position(index, g)
  BY <1>1, BatchListed
<1> QED BY <1>1, <1>2, <1>3 DEF Booting!StagingInv
==============================================================================
