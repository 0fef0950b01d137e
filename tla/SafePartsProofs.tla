--------------------------- MODULE SafePartsProofs ---------------------------
(***************************************************************************)
(* The proved components inside the composition of MCSafeParts: a step     *)
(* keeps the picked part and is a step of that part's component, so what   *)
(* the component promises for all values of its constants the composition  *)
(* promises too.                                                           *)
(***************************************************************************)
EXTENDS MCSafeParts, FiniteSetTheorems, TLAPS

\* The initial state picks the component for good.
LEMMA PartKept == [Next]_all => part' = part
BY DEF Next, all, Spare6, Spare9, Spare10, Spare11, Spare12, Spare13, Spare14, Spare15, Spare16, Spare18, Spare22

----------------------------------------------------------------------------
CutoverPart == part = "cutover" => Parts!Cutting!CutoverInv

\* Whatever fails and however often either cutover script is run again, for any
\* number of messages, link faults and runs (rdqm-dr-cutover.sh,
\* pcmk-dr-cutover.sh): one live site at most, nothing lost behind the gate, no
\* silent pass.
THEOREM CutoverAlwaysSound == Spec => []CutoverSound
<1>0. Parts!Cutting!CutoverAssumption
  BY InstancesFit
<1>1. Init => CutoverPart
  BY <1>0, Parts!CutoverInit DEF Init, CutoverPart
<1>2. CutoverPart /\ [Next]_all => CutoverPart'
  <2> SUFFICES ASSUME part = "cutover", Parts!Cutting!CutoverInv, [Next]_all PROVE Parts!Cutting!CutoverInv'
    BY PartKept DEF CutoverPart
  <2>1. [Parts!Cutting!Next]_(Parts!Cutting!vars)
    BY DEF Next, all, Parts!Cutting!vars, Parts!Cutting!data, Parts!Cutting!script, Parts!Cutting!sites
  <2> QED BY <1>0, <2>1, Parts!CutoverStep
<1>3. CutoverPart => CutoverSound
  BY Parts!CutoverImplies DEF CutoverPart, CutoverSound
<1> QED BY <1>1, <1>2, <1>3, PTL DEF Spec

----------------------------------------------------------------------------
BucketsPart == part = "buckets" => Parts!Buckets!BuildEnvInv

\* The build buckets of two checkouts, for any files and any mix of verbs,
\* cleans and migrations (buildenv.py): nothing but a clean, or a rename over a
\* file written meanwhile, loses a file, no worktree forks the lab and an old
\* dotfile is healed.
THEOREM BucketsAlwaysSound == Spec => []BucketsSound
<1>0. Parts!Buckets!BuildEnvAssumption
  BY InstancesFit
<1>1. Init => BucketsPart
  BY <1>0, Parts!BucketsInitInv DEF Init, BucketsPart
<1>2. BucketsPart /\ [Next]_all => BucketsPart'
  <2> SUFFICES ASSUME part = "buckets", Parts!Buckets!BuildEnvInv, [Next]_all PROVE Parts!Buckets!BuildEnvInv'
    BY PartKept DEF BucketsPart
  <2>1. [Parts!Buckets!Next]_(Parts!Buckets!vars)
    BY DEF Next, all, Parts!Buckets!vars, Parts!Buckets!history
  <2> QED BY <1>0, <2>1, Parts!BucketsStepInv
<1>3. BucketsPart => BucketsSound
  BY Parts!BucketsInvImplies DEF BucketsPart, BucketsSound
<1> QED BY <1>1, <1>2, <1>3, PTL DEF Spec

----------------------------------------------------------------------------
ComponentsPart == part = "components" => Components!ComponentInv

\* Builds, bakes and installs killed anywhere, for any trees, edits and number of
\* commands (component.py, runtime.py, the role component-install): whole
\* interpreter, tested wheel of its tree, a live release that is there and is
\* the recorded one.
THEOREM ComponentsAlwaysSound == Spec => []ComponentsSound
<1>0. Components!ComponentAssumption
  BY InstancesFit
<1>1. Init => ComponentsPart
  BY <1>0, Components!InitInv DEF Init, ComponentsPart
<1>2. ComponentsPart /\ [Next]_all => ComponentsPart'
  <2> SUFFICES ASSUME part = "components", Components!ComponentInv, [Next]_all
               PROVE  Components!ComponentInv'
    BY PartKept DEF ComponentsPart
  <2>1. [Components!Next]_(Components!vars)
    BY DEF Next, all, Components!vars
  <2> QED BY <1>0, <2>1, Components!StepInv
<1>3. ComponentsPart => ComponentsSound
  BY Components!InvImplies DEF ComponentsPart, ComponentsSound
<1> QED BY <1>1, <1>2, <1>3, PTL DEF Spec

----------------------------------------------------------------------------
ServicePart == part = "service" => Service!RequestReplyInv

\* The request-reply service, for any number of attempts, strays and faults
\* (app_requester.py, svc_responder.py): no request lost or answered twice, the
\* counters and the exit status true, one attempt at most for a broken connection.
THEOREM ServiceAlwaysExact == Spec => []ServiceExact
<1>0. Service!RequestReplyAssumption
  BY InstancesFit
<1>1. Init => ServicePart
  BY <1>0, Service!InitInv DEF Init, ServicePart
<1>2. ServicePart /\ [Next]_all => ServicePart'
  <2> SUFFICES ASSUME part = "service", Service!RequestReplyInv, [Next]_all
               PROVE  Service!RequestReplyInv'
    BY PartKept DEF ServicePart
  <2>1. [Service!Next]_(Service!vars)
    BY DEF Next, all, Service!vars
  <2> QED BY <1>0, <2>1, Service!StepInv
<1>3. ServicePart => ServiceExact
  BY <1>0, Service!InvImplies DEF ServicePart, ServiceExact
<1> QED BY <1>1, <1>2, <1>3, PTL DEF Spec

----------------------------------------------------------------------------
VersionsPart == part = "versions" => Catalog!VersionsInv

\* Version selection with one operator, for any catalog, stacks, host, edits and
\* verbs (versions.py, platforms.py, instances.py): a recorded stack runs what its
\* record names and stays rendered so, and nothing boots that the host cannot run
\* natively.
THEOREM VersionsAlwaysSound == Spec => []VersionsSound
<1>0. Catalog!VersionsAssumption /\ Catalog!OneOperator
  BY InstancesFit
<1>1. Init => VersionsPart
  BY <1>0, Catalog!InitInv DEF Init, VersionsPart
<1>2. VersionsPart /\ [Next]_all => VersionsPart'
  <2> SUFFICES ASSUME part = "versions", Catalog!VersionsInv, [Next]_all
               PROVE  Catalog!VersionsInv'
    BY PartKept DEF VersionsPart
  <2>1. [Catalog!Next]_(Catalog!vars)
    BY DEF Next, all, Catalog!vars
  <2> QED BY <1>0, <2>1, Catalog!StepInv
<1>3. VersionsPart => VersionsSound
  BY Catalog!InvImplies DEF VersionsPart, VersionsSound
<1> QED BY <1>1, <1>2, <1>3, PTL DEF Spec

----------------------------------------------------------------------------
MediaPart == part = "media" => Fetching!MediaInv

\* The media cache from one terminal, for any levels of MQ, any number of runs of
\* bootstrap and fetch-mq.sh and of kills, resets, decayed files and bumps of the
\* pin (artifact.py, mqexporter.py, cli.py): whole tarballs only, none missing,
\* the exporter of the box's own level, every collection there.
THEOREM MediaAlwaysSound == Spec => []MediaSound
<1>0. Fetching!MediaAssumption /\ Fetching!OneTerminal /\ "commons" \notin MediaVerbs
  BY InstancesFit
<1>1. Init => MediaPart
  BY <1>0, Fetching!InitInv DEF Init, MediaPart
<1>2. MediaPart /\ [Next]_all => MediaPart'
  <2> SUFFICES ASSUME part = "media", Fetching!MediaInv, [Next]_all
               PROVE  Fetching!MediaInv'
    BY PartKept DEF MediaPart
  <2>1. [Fetching!Next]_(Fetching!vars)
    BY DEF Next, all, Fetching!vars
  <2> QED BY <1>0, <2>1, Fetching!StepInv
<1>3. MediaPart => MediaSound
  BY <1>0, Fetching!InvImplies, Fetching!SafeIsSound DEF MediaPart, MediaSound
<1> QED BY <1>1, <1>2, <1>3, PTL DEF Spec

----------------------------------------------------------------------------
BoardsPart == (part = "rdqm" => Parts!Rdqm!RdqmInv) /\ (part = "nativeha" => Parts!NativeHa!NativeHaInv)

LEMMA BoardsKept == Spec => []BoardsPart
<1>0. Parts!Rdqm!RdqmStateAssumption /\ Parts!NativeHa!NativeHaStateAssumption
  BY InstancesFit
<1>1. Init => BoardsPart
  BY <1>0, Parts!RdqmInit, Parts!NativeHaInit DEF Init, BoardsPart
<1>2. BoardsPart /\ [Next]_all => BoardsPart'
  <2>1. ASSUME part = "rdqm", Parts!Rdqm!RdqmInv, [Next]_all PROVE Parts!Rdqm!RdqmInv'
    <3>1. [Parts!Rdqm!Next]_(Parts!Rdqm!vars)
      BY <2>1 DEF Next, all, Parts!Rdqm!vars, Parts!Rdqm!truth, Parts!Rdqm!reads
    <3> QED BY <1>0, <2>1, <3>1, Parts!RdqmStep
  <2>2. ASSUME part = "nativeha", Parts!NativeHa!NativeHaInv, [Next]_all PROVE Parts!NativeHa!NativeHaInv'
    <3>1. [Parts!NativeHa!Next]_(Parts!NativeHa!vars)
      BY <2>2 DEF Next, all, Parts!NativeHa!vars, Parts!NativeHa!group
    <3> QED BY <1>0, <2>2, <3>1, Parts!NativeHaStep
  <2> QED BY <2>1, <2>2, PartKept DEF BoardsPart
<1> QED BY <1>1, <1>2, PTL DEF Spec

\* The boards, for any number of nodes, changes and failed probes (rdqmstate.py,
\* nativehastate.py): no two owners, two quorate sides or two active instances
\* by files as old as the last change.
THEOREM BoardsAlwaysTrue == Spec => []BoardsTrue
<1>1. BoardsPart => BoardsTrue
  BY Parts!RdqmImplies, Parts!NativeHaImplies DEF BoardsPart, BoardsTrue
<1> QED BY <1>1, BoardsKept, PTL

\* One RDQM textfile does not contradict itself, for any number of nodes, changes
\* and failed or garbled probes (rdqmstate.py), but through a change in its tick.
THEOREM FilesAlwaysCoherent == Spec => []CoherentFile
<1>1. BoardsPart => CoherentFile
  BY Parts!RdqmImplies DEF BoardsPart, CoherentFile
<1> QED BY <1>1, BoardsKept, PTL

----------------------------------------------------------------------------
ForcedPart == part = "forced" => Parts!Forced!ForcedInv

\* The forced-DR report, for any number of messages and answers (dr_forced.py):
\* it hides a loss only at the edges of the drill, confirms and counts lost only
\* what is so, and a duplicate comes of the promotion alone.
THEOREM ForcedReportAlwaysTrue == Spec => []ForcedReportTrue
<1>0. Parts!Forced!DRForcedAssumption
  BY InstancesFit
<1>1. Init => ForcedPart
  BY <1>0, Parts!ForcedInit DEF Init, ForcedPart
<1>2. ForcedPart /\ [Next]_all => ForcedPart'
  <2> SUFFICES ASSUME part = "forced", Parts!Forced!ForcedInv, [Next]_all PROVE Parts!Forced!ForcedInv'
    BY PartKept DEF ForcedPart
  <2>1. [Parts!Forced!Next]_(Parts!Forced!vars)
    BY DEF Next, all, Parts!Forced!vars
  <2> QED BY <1>0, <2>1, Parts!ForcedStep
<1>3. ForcedPart => ForcedReportTrue
  BY Parts!ForcedImplies DEF ForcedPart, ForcedReportTrue
<1> QED BY <1>1, <1>2, <1>3, PTL DEF Spec
----------------------------------------------------------------------------
ProbesPart == part = "probes" => Service!Probing!ProbesInv /\ Service!Probing!DrillInv

LEMMA ProbesKept == Spec => []ProbesPart
<1>1. Init => ProbesPart
  BY Service!ProbesInit DEF Init, ProbesPart
<1>2. ProbesPart /\ [Next]_all => ProbesPart'
  <2> SUFFICES ASSUME part = "probes", Service!Probing!ProbesInv, Service!Probing!DrillInv, [Next]_all
               PROVE  Service!Probing!ProbesInv' /\ Service!Probing!DrillInv'
    BY PartKept DEF ProbesPart
  <2>1. [Service!Probing!Next]_(Service!Probing!vars)
    BY DEF Next, all, Service!Probing!vars
  <2>2. /\ Service!Probing!ShapeInv /\ Service!Probing!PuttingInv
        /\ Service!Probing!LettersInv /\ Service!Probing!OwnInv
    BY DEF Service!Probing!ProbesInv, Service!Probing!DrillInv
  <2>3. /\ Service!Probing!ShapeInv' /\ Service!Probing!PuttingInv'
        /\ Service!Probing!LettersInv' /\ Service!Probing!OwnInv'
    BY <2>1, <2>2, Service!ProbesShape, Service!ProbesPutting, Service!DrillLetters, Service!DrillOwn
  <2> QED BY <2>3 DEF Service!Probing!ProbesInv, Service!Probing!DrillInv
<1> QED BY <1>1, <1>2, PTL DEF Spec

----------------------------------------------------------------------------
ConsolePart == part = "console" => Service!Opening!ConsoleInv

LEMMA ConsoleKept == Spec => []ConsolePart
<1>0. Service!Opening!OneOpener
  BY InstancesFit
<1>1. Init => ConsolePart
  BY Service!ConsoleInit DEF Init, ConsolePart
<1>2. ConsolePart /\ [Next]_all => ConsolePart'
  <2> SUFFICES ASSUME part = "console", Service!Opening!ConsoleInv, [Next]_all
               PROVE  Service!Opening!ConsoleInv'
    BY PartKept DEF ConsolePart
  <2>1. [Service!Opening!Next]_(Service!Opening!vars)
    BY DEF Next, all, Service!Opening!vars
  <2> QED BY <1>0, <2>1, Service!ConsoleStep
<1> QED BY <1>1, <1>2, PTL DEF Spec

RelaysPart == part = "relays" => Service!Relays!HealInv

LEMMA RelaysKept == Spec => []RelaysPart
<1>1. Init => RelaysPart
  BY Service!HealInit DEF Init, RelaysPart
<1>2. RelaysPart /\ [Next]_all => RelaysPart'
  <2> SUFFICES ASSUME part = "relays", Service!Relays!HealInv, [Next]_all
               PROVE  Service!Relays!HealInv'
    BY PartKept DEF RelaysPart
  <2>1. [Service!Relays!Next]_(Service!Relays!vars)
    BY DEF Next, all, Service!Relays!vars
  <2> QED BY <2>1, Service!HealStep
<1> QED BY <1>1, <1>2, PTL DEF Spec

\* What the probes tell, for any number of probes, puts, changes of authority and
\* of the queue manager, letters of others and kills (authz_probe.py,
\* reconnect_probe.py, dlq_probe.py), and what console open announces
\* (mqweb_probe.py, console.py) from one terminal whose port nobody else takes.
THEOREM ProbesAlwaysTrue == Spec => []ProbesTrue
<1>1. ProbesPart => (part = "probes" => /\ Service!Probing!DenialTrue /\ Service!Probing!PermitTrue
                                        /\ Service!Probing!OkLanded /\ Service!Probing!InducedPasses
                                        /\ Service!Probing!DrillCleans)
  BY DEF ProbesPart, Service!Probing!ProbesInv, Service!Probing!DrillInv,
         Service!Probing!PuttingInv, Service!Probing!OwnInv
<1>2. ProbesPart /\ ConsolePart => ProbesTrue
  BY <1>1, Service!ConsoleImplies DEF ConsolePart, ProbesTrue
<1> QED BY <1>2, ProbesKept, ConsoleKept, PTL

\* The forwards to the browser, for any number of opens, takeovers, deaths and kills
\* of one terminal whose port nobody else takes (console.py, cli.py), and the relays
\* through any number of heals, bounces and curl attempts (relay_heal of cli.py).
THEOREM ForwardsAlwaysSound == Spec => []ForwardsSound
<1>1. ConsolePart /\ RelaysPart => ForwardsSound
  BY Service!ConsoleImplies, Service!HealImplies DEF ConsolePart, RelaysPart, ForwardsSound
<1> QED BY <1>1, ConsoleKept, RelaysKept, PTL

\* The banner, for any number of opens, takeovers, deaths and kills of one terminal
\* whose port nobody else takes: console open does not print it unless the forward
\* port is the forwarder's and leads to the instance it names (wait_listening of
\* console.py).
THEOREM BannerAlwaysTrue == Spec => BannerSound
<1>0. Service!Opening!OneOpener
  BY InstancesFit
<1>1. ConsolePart /\ [Next]_all => [part = "console" => Service!Opening!BannerTrueStep]_all
  <2> SUFFICES ASSUME part = "console", Service!Opening!ConsoleInv, Next
               PROVE  Service!Opening!BannerTrueStep
    BY DEF ConsolePart
  <2>1. Service!Opening!Next
    BY DEF Next
  <2> QED BY <1>0, <2>1, Service!ConsoleBanner
<1> QED BY <1>1, ConsoleKept, PTL DEF Spec, BannerSound

----------------------------------------------------------------------------
PoolPart ==
    /\ part = "boxes" => Catalog!Boxes!PoolInv
    /\ part = "steps" => Catalog!Booting!StagingInv

\* Boxes and boots, for any boxes, guests, recipes, batch size and number of attempts
\* (box.py, orchestrator.py, phases.py): two boots that clone one box are
\* not under way together before its volume is staged, no image goes from under an
\* overlay that the collection could know of, a build ends with today's recipe
\* registered, a box the catalog resolves is not collected, and what is stale is.
THEOREM BoxesAlwaysSound == Spec => []BoxesSound
<1>0. Catalog!Boxes!BoxesAssumption
  BY InstancesFit
<1>1. Init => PoolPart
  BY <1>0, Catalog!PoolInit, Catalog!RunInit DEF Init, PoolPart
<1>2. PoolPart /\ [Next]_all => PoolPart'
  <2> SUFFICES ASSUME PoolPart, [Next]_all PROVE PoolPart'
    OBVIOUS
  <2>1. part = "boxes" => Catalog!Boxes!PoolInv'
    <3> SUFFICES ASSUME part = "boxes" PROVE Catalog!Boxes!PoolInv'
      OBVIOUS
    <3>1. [Catalog!Boxes!Next]_(Catalog!Boxes!vars)
      BY DEF Next, all, Catalog!Boxes!vars
    <3> QED BY <1>0, <3>1, Catalog!PoolStep DEF PoolPart
  <2>2. part = "steps" => Catalog!Booting!StagingInv'
    <3> SUFFICES ASSUME part = "steps" PROVE Catalog!Booting!StagingInv'
      OBVIOUS
    <3>1. [Catalog!Booting!Next]_(Catalog!Booting!vars)
      BY DEF Next, all, Catalog!Booting!vars
    <3> QED BY <1>0, <3>1, Catalog!RunStep DEF PoolPart
  <2> QED BY <2>1, <2>2, PartKept DEF PoolPart
<1>3. PoolPart => BoxesSound
  BY <1>0, Catalog!PoolImplies, Catalog!RunImplies DEF PoolPart, BoxesSound
<1> QED BY <1>1, <1>2, <1>3, PTL DEF Spec
=============================================================================
