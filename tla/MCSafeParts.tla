----------------------------- MODULE MCSafeParts -----------------------------
(***************************************************************************)
(* The components whose steps must never do harm, side by side: they share *)
(* no state, the initial state picks one of them, and the states of a run  *)
(* are those of the components in Picked together.  x1, x2, ... stand for  *)
(* the variables of the picked component.                                  *)
(***************************************************************************)
EXTENDS Integers, Sequences, FiniteSets, TLC

CONSTANTS
    Picked,     \* the components of this run
    m1, m2, obs, probe, dns, g1, g2, timeout, t1, f1, f2

\* The constants of the components that are proved for all of their values.
CONSTANTS
    Trees, TreeEdits, Commands,     \* Component
    Refs, Plain, BuildOps,          \* BuildEnv
    CutMsgs, CutFaults, CutRuns,    \* Cutover
    Attempts, Strays, Unresolvable, SvcFaults,      \* RequestReply
    Operators, LabStacks, Oses, FamilyOf, Pin, NeedsV3, OsFamily, Catalog0, Legacy,
    CatalogEdits, CatalogVerbs,     \* Versions
    MediaVerbs, MqPins, MediaRuns, MediaFaults,     \* Media
    RdqmNodes, RdqmChanges, RdqmLosses,             \* RdqmState
    HaInstances, HaObservers, HaChanges, HaLosses,  \* NativeHaState
    ForcedSeqs, ForcedServes, ForcedFloor,          \* DRForced
    ProbeKinds, ProbeBounds,                        \* Probes
    OpenBounds, HealBounds,                         \* Console, for opens and for heals
    PoolBase, PoolFat, PoolRetired, PoolGuests, PoolClock, PoolEdits,      \* BoxPool
    BootVms, BootInfra, BootBoxOf, BootBatch, BootAttempts, BootStepMode   \* RunSteps

VARIABLES
    part,   \* the component under check, chosen by the initial state
    x1, x2, x3, x4, x5, x6, x7, x8, x9, x10, x11, x12, x13, x14, x15, x16, x17, x18, x19,
    x20, x21, x22   \* its variables, in the order of its module
all == <<part, x1, x2, x3, x4, x5, x6, x7, x8, x9, x10, x11, x12, x13, x14, x15, x16, x17, x18,
         x19, x20, x21, x22>>

\* Five guests in two batches: of the first three two share a box.
MCAllVms == <<m1, m2, obs, probe, dns>>
MCBoxOf == [g \in {m1, m2, obs, probe, dns} |->
              CASE g \in {m1, m2} -> "mq" [] g = dns -> "infra" [] g = obs -> "obs" [] OTHER -> "client"]

\* The floor of 6000 messages in 300 seconds, scaled to the messages of a run.
MCFloor == [rate |-> 1, seconds |-> 1, total |-> 2]

\* Two probes of any kind, with one change of the queue manager or its authorities,
\* one letter of somebody else's and one kill.
MCProbeBounds == [probes |-> 2, puts |-> 2, changes |-> 1, foreign |-> 1, kills |-> 1]

\* Two opens of one console through one takeover; and two
\* heals through one bounce of dnsmasq and foreign binders of the port.
MCOpenBounds ==
    [terminals |-> {t1}, attempts |-> 2, retries |-> 2, opens |-> 2, heals |-> 0, moves |-> 1,
     faults |-> 0, bounces |-> 0, foreigners |-> FALSE]
MCHealBounds ==
    [terminals |-> {}, attempts |-> 2, retries |-> 3, opens |-> 0, heals |-> 2, moves |-> 0,
     faults |-> 0, bounces |-> 1, foreigners |-> TRUE]

\* The catalog as committed: two Ubuntu majors and one of RHEL.  The second
\* Ubuntu is unsupported by IBM and the default by decision; RHEL 10 is pinned to
\* x86_64 and needs x86-64-v3.
MCStacks == {"nha", "rdqm"}
MCRefs == {"u24", "u26", "r10"}
MCFamilyOf == [r \in MCRefs |-> IF r = "r10" THEN "rhel" ELSE "ubuntu"]
MCPin == [r \in MCRefs |-> IF r = "r10" THEN "x86_64" ELSE "any"]
MCOsFamily == [s \in MCStacks |-> IF s = "rdqm" THEN "rhel" ELSE "ubuntu"]
MCCatalog0 ==
    [wellformed |-> TRUE, pins |-> TRUE,
     os |-> [r \in MCRefs |-> [listed |-> TRUE, unsupported |-> r = "u26", decision |-> r = "u26"]],
     infra |-> "u26", infra_mq |-> "u26",
     stacks |-> [s \in MCStacks |->
                   IF s = "rdqm" THEN [supported |-> {"r10"}, default |-> "r10"]
                                 ELSE [supported |-> {"u24", "u26"}, default |-> "u26"]]]

\* The fat boxes are alike.
PoolSymmetry == Permutations(PoolFat)

Sampling == INSTANCE Sampler WITH
    Guests <- {g1, g2}, Errors <- {timeout}, MaxTicks <- 2,
    spc <- x1, ticks <- x2, gpc <- x3, result <- x4, todo <- x5, key <- x6, fails <- x7,
    error <- x8, muxOk <- x9, queued <- x10, masters <- x11, mpc <- x12, stopping <- x13,
    abandoned <- x14, snapshot <- x15, closing <- x16, noted <- x17, muxNotes <- x18,
    leftNoted <- x19, run <- x20, alive <- x21, untracked <- x22
Benching == INSTANCE Bench WITH
    Count <- 4, MaxWarm <- 1, SampleEvery <- 1, Latencies <- {1, 2}, Depths <- {0, 1, 2},
    phase <- x1, i <- x2, conn <- x3, latencies <- x4, depths <- x5, reasons <- x6,
    stats <- x7, landed <- x8, record <- x9
Components == INSTANCE ComponentProofs WITH
    Trees <- Trees, MaxEdits <- TreeEdits, MaxRuns <- Commands,
    work <- x1, head <- x2, edits <- x3, runs <- x4, tarball <- x5, interp <- x6,
    stage <- x7, final <- x8, current <- x9, vars_file <- x10, proc <- x11, box <- x12,
    guest <- x13
Service == INSTANCE ClientProofs WITH
    Count <- Attempts, Strays <- Strays, Unresolvable <- Unresolvable, MaxFaults <- SvcFaults,
    req <- x1, resp <- x2, transit <- x3, requests <- x4, replies <- x5, answered <- x6,
    deadq <- x7, hasDLQ <- x8, faults <- x9, landed <- x10,
    auth <- x1, up <- x2, queue <- x3, dlq <- x4, retrying <- x5, inhibited <- x6, probe <- x7,
    held <- x8, told <- x9, taken <- x10, probes <- x11, changes <- x12, foreign <- x13,
    kills <- x14, setup <- x1, role <- x2, unit <- x3, port <- x4, relay <- x5, grafana <- x6,
    opening <- x7, healing <- x8, opens <- x10, moves <- x11, bounces <- x12
Parts == INSTANCE PartsProofs WITH
    now <- x2, disk <- x8, shipped <- x3, link <- x1, break_ts <- x5, kill_ts <- x6,
    seq <- x7, unlogged <- x9, taken <- x10, ledger <- x11, file <- x4, flushing <- x12,
    app <- x13, received <- x14, lost_tail <- x15, unshipped <- x16, late <- x17,
    flushed <- x18, arm <- x2, written <- x4, copy <- x5, role <- x6, qm <- x7, pc <- x3,
    drill <- x8, rpo0 <- x9, token <- x10, verified <- x11, runs <- x13, faults <- x12,
    gated <- x14, kind <- x1, shared <- x3, local <- x4, legacy <- x5, running <- x2,
    mig <- x6, ops <- x7, ever <- x8, dropped <- x9, raced <- x10, unconfirmed <- x11,
    site <- x1, live <- x8, primary <- x9, online <- x10, fails <- x11, cut <- x12,
    changes <- x5, losses <- x6, status <- x13, drbd <- x14, crm <- x15, torn <- x16,
    past <- x7, cutoff <- x1, active <- x2, backlog <- x9, hax <- x10, grp <- x11,
    log <- x12
Catalog == INSTANCE BoxProofs WITH
    Terminals <- Operators, Stacks <- LabStacks, Refs <- Oses, FamilyOf <- FamilyOf,
    Pin <- Pin, NeedsV3 <- NeedsV3, OsFamily <- OsFamily, Catalog0 <- Catalog0,
    Legacy <- Legacy, MaxEdits <- CatalogEdits, MaxVerbs <- CatalogVerbs,
    host <- x1, catalog <- x2, rec <- x3, resolved <- x4, registered <- x5, guests <- x6,
    job <- x7, crashed <- x8, edits <- x9, verbs <- x10,
    manifest <- x1, clock <- x2, resolvable <- x3, assign <- x4, cache <- x5, reg <- x6,
    images <- x7, overlays <- x8, meta <- x10, bring <- x11, unlisted <- x12, boxing <- x13,
    built <- x14, pc <- x1, index <- x2, attempt <- x3, dom <- x4, tried <- x5, fault <- x6,
    staged <- x7, steps <- x8, batches <- x9, outcome <- x10, exit <- x11, report <- x12,
    ran <- x13
Pulse == INSTANCE Heartbeat WITH
    Tokens <- {2999, 3000, 3001, 120000, 120001}, MaxRuns <- 2,
    file <- x1, lines <- x2, token <- x3, left <- x4, failed <- x5, runs <- x6
Fetching == INSTANCE MediaProofs WITH
    Terminals <- Operators, Verbs <- MediaVerbs, Pins <- MqPins, MaxRuns <- MediaRuns,
    MaxFaults <- MediaFaults,
    host <- x1, family <- x2, pin <- x3, part <- x4, dest <- x5, sidecar <- x6, bin <- x7,
    box <- x8, reqs <- x9, installed <- x10, t <- x11, out <- x12, runs <- x13,
    faults <- x14, short <- x15

-----------------------------------------------------------------------------
(* A component with k variables leaves the others alone. *)
Unused18 == x19 = 0 /\ x20 = 0 /\ x21 = 0 /\ x22 = 0
Unused16 == x17 = 0 /\ x18 = 0 /\ Unused18
Unused15 == x16 = 0 /\ Unused16
Unused14 == x15 = 0 /\ Unused15
Unused13 == x14 = 0 /\ Unused14
Unused12 == x13 = 0 /\ Unused13
Unused11 == x12 = 0 /\ Unused12
Unused10 == x11 = 0 /\ Unused11
Unused9 == x10 = 0 /\ Unused10
Unused6 == x7 = 0 /\ x8 = 0 /\ x9 = 0 /\ Unused9
Spare6 == <<part, x7, x8, x9, x10, x11, x12, x13, x14, x15, x16, x17, x18, x19, x20, x21, x22>>
Spare9 == <<part, x10, x11, x12, x13, x14, x15, x16, x17, x18, x19, x20, x21, x22>>
Spare10 == <<part, x11, x12, x13, x14, x15, x16, x17, x18, x19, x20, x21, x22>>
Spare11 == <<part, x12, x13, x14, x15, x16, x17, x18, x19, x20, x21, x22>>
Spare12 == <<part, x13, x14, x15, x16, x17, x18, x19, x20, x21, x22>>
Spare13 == <<part, x14, x15, x16, x17, x18, x19, x20, x21, x22>>
Spare14 == <<part, x15, x16, x17, x18, x19, x20, x21, x22>>
Spare15 == <<part, x16, x17, x18, x19, x20, x21, x22>>
Spare16 == <<part, x17, x18, x19, x20, x21, x22>>
Spare18 == <<part, x19, x20, x21, x22>>
Spare22 == <<part>>

Init ==
    /\ part \in Picked
    /\ \/ part = "steps" /\ Catalog!Booting!Init /\ Unused13
       \/ part = "sampler" /\ Sampling!Init
       \/ part = "bench" /\ Benching!Init /\ Unused9
       \/ part = "boxes" /\ Catalog!Boxes!Init /\ Unused14
       \/ part = "components" /\ Components!Init /\ Unused13
       \/ part = "buckets" /\ Parts!Buckets!Init /\ Unused11
       \/ part = "forced" /\ Parts!Forced!Init /\ Unused18
       \/ part = "service" /\ Service!Init /\ Unused10
       \/ part = "cutover" /\ Parts!Cutting!Init /\ Unused14
       \/ part = "rdqm" /\ Parts!Rdqm!Init /\ Unused16
       \/ part = "nativeha" /\ Parts!NativeHa!Init /\ Unused12
       \/ part = "versions" /\ Catalog!Init /\ Unused10
       \/ part = "heartbeat" /\ Pulse!Init /\ Unused6
       \/ part = "media" /\ Fetching!Init /\ Unused15
       \/ part = "probes" /\ Service!Probing!Init /\ Unused14
       \/ part = "console" /\ Service!Opening!Init /\ Unused12
       \/ part = "relays" /\ Service!Relays!Init /\ Unused12

Next ==
    \/ part = "steps" /\ Catalog!Booting!Next /\ UNCHANGED Spare13
    \/ part = "sampler" /\ Sampling!Next /\ UNCHANGED Spare22
    \/ part = "bench" /\ Benching!Next /\ UNCHANGED Spare9
    \/ part = "boxes" /\ Catalog!Boxes!Next /\ UNCHANGED Spare14
    \/ part = "components" /\ Components!Next /\ UNCHANGED Spare13
    \/ part = "buckets" /\ Parts!Buckets!Next /\ UNCHANGED Spare11
    \/ part = "forced" /\ Parts!Forced!Next /\ UNCHANGED Spare18
    \/ part = "service" /\ Service!Next /\ UNCHANGED Spare10
    \/ part = "cutover" /\ Parts!Cutting!Next /\ UNCHANGED Spare14
    \/ part = "rdqm" /\ Parts!Rdqm!Next /\ UNCHANGED Spare16
    \/ part = "nativeha" /\ Parts!NativeHa!Next /\ UNCHANGED Spare12
    \/ part = "versions" /\ Catalog!Next /\ UNCHANGED Spare10
    \/ part = "heartbeat" /\ Pulse!Next /\ UNCHANGED Spare6
    \/ part = "media" /\ Fetching!Next /\ UNCHANGED Spare15
    \/ part = "probes" /\ Service!Probing!Next /\ UNCHANGED Spare14
    \/ part = "console" /\ Service!Opening!Next /\ UNCHANGED Spare12
    \/ part = "relays" /\ Service!Relays!Next /\ UNCHANGED Spare12

Spec == Init /\ [][Next]_all

\* The instances satisfy what the modules assume of their constants.
ASSUME InstancesFit ==
    /\ Catalog!Booting!RunStepsAssumption /\ Sampling!SamplerAssumption /\ Benching!BenchAssumption
    /\ Catalog!Boxes!BoxesAssumption /\ Components!ComponentAssumption /\ Parts!Buckets!BuildEnvAssumption
    /\ Parts!Forced!DRForcedAssumption /\ Parts!Cutting!CutoverAssumption /\ Parts!Rdqm!RdqmStateAssumption
    /\ Parts!NativeHa!NativeHaStateAssumption /\ Catalog!VersionsAssumption /\ Catalog!OneOperator
    /\ Pulse!HeartbeatAssumption /\ Fetching!MediaAssumption /\ Fetching!OneTerminal
    /\ "commons" \notin MediaVerbs /\ Service!RequestReplyAssumption
    /\ Service!Probing!ProbesAssumption /\ Service!Opening!ConsoleAssumption /\ Service!Opening!OneOpener
    /\ Service!Relays!ConsoleAssumption

-----------------------------------------------------------------------------
(* Types: every variable of the picked component stays in its set. *)
TypeOK ==
    CASE part = "steps" -> Catalog!Booting!TypeOK [] part = "sampler" -> Sampling!TypeOK
      [] part = "bench" -> Benching!TypeOK [] part = "boxes" -> Catalog!Boxes!TypeOK
      [] part = "components" -> Components!TypeOK [] part = "buckets" -> Parts!Buckets!TypeOK
      [] part = "forced" -> Parts!Forced!TypeOK [] part = "cutover" -> Parts!Cutting!TypeOK
      [] part = "rdqm" -> Parts!Rdqm!TypeOK [] part = "nativeha" -> Parts!NativeHa!TypeOK
      [] part = "versions" -> Catalog!TypeOK [] part = "heartbeat" -> Pulse!TypeOK
      [] part = "media" -> Fetching!TypeOK [] part = "probes" -> Service!Probing!TypeOK
      [] part = "console" -> Service!Opening!TypeOK [] part = "relays" -> Service!Relays!TypeOK
      [] part = "service" -> Service!TypeOK

(* What a run leaves on record is what happened.  The steps of a boot and play are
   recorded in order, each as often as it was tried and only the last as a failure,
   and the report tells how the run ended and gives a boot time to exactly the
   guests whose batch succeeded.  The sampler's last note on a probe is "unavailable"
   just when the probe last failed, a stop in time closes every such note, the loss
   of multiplexing is noted once, and the ssh masters left are the noted ones and
   those of a probe that timed out.  Every latency the bench reports is a message
   that landed, its percentiles are exact, and one deep sample does not make the
   queue a growing one; it "says QM unreachable only when every failure was a
   connection failure". *)
RecordsTrue ==
    /\ part = "steps" => Catalog!Booting!RecordTrue /\ Catalog!Booting!ReportTrue
    /\ part = "sampler" => /\ Sampling!NeverSilent /\ Sampling!NotesClosed
                           /\ Sampling!MuxNotedOnce /\ Sampling!MastersClosed
    /\ part = "bench" => Benching!CommitsLanded /\ Benching!PercentilesExact
                         /\ Benching!DepthTrend /\ Benching!DiagnosisTrue

(* Boxes, through edits, killed bakes, bring-ups, teardowns and the steps of a
   collection.  Two boots never clone a box together before its volume is staged.
   No image is deleted under an overlay that existed when the pool was listed; a
   build ends with the registration of the cached box under today's hash, whose
   content is today's unless a bake was killed in its tar or before its hash; no
   collection takes away a box the catalog resolves, and a finished one leaves no
   stale image of a registered box behind. *)
BoxesSound ==
    /\ part = "steps" => Catalog!Booting!NoStagingRace
    /\ part = "boxes" => /\ Catalog!Boxes!DisksIntact /\ Catalog!Boxes!BuildDelivers
                         /\ Catalog!Boxes!KeepsResolvable /\ Catalog!Boxes!StaleReclaimed

(* Component builds and installs, killed anywhere.  No half-unpacked interpreter is
   run; an artifact that is taken is the tested wheel of the tree it is keyed by,
   unless its removal was cut, its source edited under the build or two builds
   overlapped; the guest runs a release that is there, with a rollback target that
   is there, and INSTALLED.json names it, unless a play was cut between the flip and
   the record. *)
ComponentsSound == part = "components" => Components!ComponentsSound

(* The build buckets, whatever mix of migrations, cut or refused, verbs and cleans.
   A file is lost only to a clean, or to a rename over a file written meanwhile; a
   worktree never forks the lab's state; the dotfile of a lab from before the
   buckets is not left behind while a verb of the main checkout runs without one. *)
BucketsSound == part = "buckets" => Parts!Buckets!BucketsSound

(* The forced-DR report.  A request it calls safe is on the promoted copy, except
   one still in DRBD's buffer at the break or logged only after the site's death;
   one it calls confirmed was so before the break, and one it calls lost is lost
   once B has answered what it holds; a request is served twice only when the
   promotion took back its first answer. *)
ForcedReportTrue ==
    part = "forced" => Parts!Forced!ForcedSound

(* The request-reply service, through kills, refused calls and commits in doubt:
   "A crash never loses a request or emits a duplicate reply", a request that
   landed is in exactly one place, and one of those is its single committed reply;
   each attempt is counted once and a success is a reply to that very request, so
   the counters and the exit status are the truth; and a dead handle is not used
   again, so that a broken connection costs at most one attempt. *)
ServiceExact == part = "service" => Service!ServiceExact

(* The cutover scripts, also failed and run again: the queue manager is never live
   at both sites, the RDQM one loses nothing that was committed unless the link
   broke after its gate had passed, and a drill that completes has its seeded
   message verified at the peer. *)
CutoverSound == part = "cutover" => Parts!Cutting!CutoverSound

(* By files as old as the last change, the boards never show an RDQM queue manager
   or its floating IP on two nodes, two quorate sides of a Native HA group, or two
   active instances. *)
BoardsTrue ==
    /\ part = "rdqm" => Parts!Rdqm!OneOwnerShown
    /\ part = "nativeha" => Parts!NativeHa!OneQuorumShown

(* One file never shows the queue manager running on a node it also shows unable
   to run it, unless the cluster changed between the two probes of that tick. *)
CoherentFile == part = "rdqm" => Parts!Rdqm!CoherentFile

(* Version selection, with one operator.  A recorded stack runs the OS its record
   names whatever the catalog became, a running one is never re-rendered on another
   OS by a verb of any stack, and nothing boots that this host cannot run natively. *)
VersionsSound ==
    part = "versions" => Catalog!VersionsSound

(* The media cache.  What is handed to a bake or a play is what its first acquire
   recorded, never the .part of a killed run nor a file that decayed, and the whole
   tarball unless it arrived short without an error; a whole one is refused only for
   a sidecar a kill left blank; every host on which a play installs MQ finds its
   tarball, unless the pin moved under the verb; the exporter is the pinned one; no
   provision starts without every collection that is required. *)
MediaSound ==
    part = "media" => Fetching!MediaSound

(* What a probe tells is so, whatever is granted, revoked, moved or restarted
   meanwhile.  An identity that held the one authority all along is not denied; a
   permitted put is on the queue and a refused one is not; "put i ok" means that
   message i is there; a dead-letter drill that takes the letter it induced passes,
   and leaves none of its own behind.  console open announces only an instance that
   was running, and misses none. *)
ProbesTrue ==
    /\ part = "probes" => /\ Service!Probing!DenialTrue /\ Service!Probing!PermitTrue
                          /\ Service!Probing!OkLanded /\ Service!Probing!InducedPasses
                          /\ Service!Probing!DrillCleans
    /\ part = "console" => Service!Opening!AnnouncedLive /\ Service!Opening!MissesNone

(* The forwards to the browser.  A console open that nobody disturbs never trips
   over the forwarder an earlier, perhaps killed, open left; one that finds no live
   instance, no login or no relay leaves the earlier forward as it was.  relay-heal
   does not "report success while the browser path is dead", and no relay keeps its
   stale downstream through a heal. *)
ForwardsSound ==
    /\ part = "console" => Service!Opening!NeverTrips /\ Service!Opening!FailureKeepsForward
    /\ part = "relays" => Service!Relays!HealTrue /\ Service!Relays!HealMends

(* What no step does.  A guest that resolves names never starts before
   the DNS guests that precede it are up, and a new guest boots the box its topology
   assigns, not the one Vagrant cached.  `box gc --unreferenced` takes away no box a
   bootstrap on this host could still be granted, and an OS that IBM does not support
   is recorded only on request or by the catalog's decision.  An edit of
   corosync.conf never runs out of passes, is whole or not made, leaves a file that
   IBM's procedure accepts and changes nothing in one that is already edited. *)
StepsSound ==
    [][/\ part = "steps" => Catalog!Booting!ResolverFirstStep
       /\ part = "boxes" => Catalog!Boxes!BootsAssignedStep
       /\ part = "versions" => Catalog!GcKeepsGrantableStep /\ Catalog!UnsupportedByChoiceStep
       /\ part = "heartbeat" => /\ Pulse!AlwaysConverges /\ Pulse!AllOrNothingStep
                                /\ Pulse!IbmProcedureStep /\ Pulse!IdempotentStep]_all

(* The banner of console open is not printed unless the forward port is the
   forwarder's and leads to the instance it names. *)
BannerSound == [][part = "console" => Service!Opening!BannerTrueStep]_all
=============================================================================
