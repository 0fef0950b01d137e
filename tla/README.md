# MQ resiliency lab: TLA+ models and proofs

The repository is a lab for IBM MQ high availability and disaster recovery on
Linux: an operator CLI (`src/mqlab`) that builds, provisions and destroys
stacks of virtual machines, shell scripts that inject faults and cut a site
over, and Python clients (`components/mq-resiliency-clients`) that drive
messages through a queue manager while it fails and then judge, from two
ledgers, what was lost. This directory holds the TLA+ models of the parts that
carry its logic, the TLC instances that check them and the TLAPS proofs.

The verdicts of the lab's drills ("RPO 0", "no loss", "SELF-CORRECT OK") are
only as good as the clients' bookkeeping across in-doubt commits, rebuilt
connections and killed processes, so that part is modelled first. The second
part is the life of the stacks themselves: what bootstrap, teardown and the
commons verbs do to a host on which earlier verbs were cut. The third part are
the components around these two: the cutover scripts and the forced-DR report,
the request-reply service, the builders and caches a bootstrap draws from, the
version catalog, the collectors behind the boards, the probes, the run loop with
its sampler, and the console.

## Inventory

| Component | State | Operations | Hard behaviour | What makes it correct |
|---|---|---|---|---|
| `mq-dr-flow` (`mqrc/dr_flow.py`) | seq counter, `pending`, STOP event, errors, app ledger and its file | put+commit, get+commit, record, flush, drain, join, exit | 2549 in doubt, 2161 quiescing, broken connections; two threads; a join that times out | SENT and CONFIRMED are never claimed of what did not happen; no seq lost or re-keyed; exit code 0 means no side failed |
| `mq-dr-responder` (`mqrc/dr_responder.py`, `deadletter.py`) | unit of work, Watcher ledger and its file | get, reply put, dead letter, commit, record, exit | MQDISC commits; failure between get and commit; no DEADQ | a request is consumed only with its reply; the Watcher counts every processing it is sure of |
| MQI contract (`mqrc/dr_mqi.py`) | connection | connect with retry, reason families | controlled end breaks connections, an abrupt one is reconnected | every call's outcome leads to a defined client state |
| Ledger analysis (`mqrc/dr/*`, `dr_baseline.py`, `dr_forced.py`) | two files | reconcile, classify, report | files of two processes, presence assumed or measured | a good verdict is never given over a loss |
| Forced-DR analyzer (`dr_forced.py`, `dr/exposure.py`, `dr/floor.py`) | two files, the break and kill times | reconcile, exposure, report | replication that lags, a kill inside a flush, stamps of two threads | what it calls safe, confirmed or lost is so |
| Request-reply service (`app_requester.py`, `svc_responder.py`) | one connection and unit of work each, statistics | put, correlated get with a wait limit, serve, dead letter | late replies, kills, commits in doubt, messages that cannot be answered | no request lost or answered twice, counters true, everything served that does not lie behind such a message |
| Bench (`bench_client.py`) | latencies, depth samples, statistics | warm-up, window, verdict | in-doubt commits, a failing depth inquiry | what it reports is what landed |
| Probes (`authz_probe.py`, `reconnect_probe.py`, `dlq_probe.py`) | one handle, what was told | connect, open, put, get, tell | authorities and the queue manager change between two calls; a shared dead-letter queue | the answer is true of the probed identity and message |
| Bootstrap and teardown (`cli.py`, `phases.py`, `lifecycle.py`) | libvirt domains, networks, inventory, huge pages | probe, select phases, run, resume; plan destroys, reclaim commons | decisions from one probe; two operators; a crash in the middle | resume reaches the full stack; commons and pages are never taken from under another stack |
| Instance records (`instances.py`) | one JSON file per stack | reconcile, require, delete | read-check-write without a lock | a running stack's OS is the recorded one |
| Run loop (`orchestrator.py`, `runner.py`, `pauser.py`, boots of `phases.py`) | step, attempts, batches, record, report | order and batch the boots, run, retry with backoff, pause, report | a batch part of which already runs; interrupts; boxes not yet staged | bounded retry, the first real failure halts, the report tells the outcome |
| Sampler (`perfsampler.py`, `perfrun.py`) | thread, queued notes, ssh masters | tick, probe, stop, close | a probe that hangs while the run ends | never blocks the run, every failure noted once |
| Boxes (`box.py`, `lab/boxes/*.sh`, box metadata in `cli.py`) | recipes, cached artifacts with their hash, registrations with their stamp, pool images, overlays | build, ensure, up, gc, gc `--unreferenced` | bakes killed in the tar, before the hash or the registration; listings older than a boot | no image is deleted under a guest, a build delivers today's recipe |
| Components (`component.py`, `runtime.py`, role `component-install`) | artifacts by source tree, install variables, releases on the guest | build, ensure, install, bake | edits under a build, two builds that share a stage, cuts inside a replacement or an install | an artifact is the tested wheel of its tree, the guest runs what is recorded |
| Build buckets (`buildenv.py`, `build` verbs) | links and buckets of two checkouts | ensure, migrate, clean | cut migrations, a second terminal, an unwired worktree | nothing but a clean loses a file, one state for all checkouts |
| Version catalog (`versions.py`, `platforms.py`, `hostfacts.py`) | catalog, records, resolved topology, registered boxes | load, select, render, collect | catalog edits while stacks run, two terminals | a stack runs the recorded OS on a host that can |
| Media, exporter and collections (`artifact.py`, `mqexporter.py`, prerequisites in `cli.py`) | cached tarballs with sidecars, exporter binary, collections | acquire, verify, build, check | kills, downloads that end short without an error, decay, a moved pin | what is handed over is what was first acquired, and the pinned one |
| Corosync heartbeat (`rdqm_corosync_heartbeat.py`) | `corosync.conf` | edit in passes, write | one pass too few, a cut write | converges, accepted by IBM's procedure, idempotent |
| DR cutover scripts (`pcmk-dr-*.sh`, `rdqm-dr-cutover.sh`) | DRBD roles, queue managers of two sites, link | gate, quiesce, demote, promote, start, verify | a lagging replica, ignored failures, a second run after a failed one | one live site, a gated cut loses nothing, no silent pass |
| State collectors (`mqro/*`, queries of `clusterboard.py`) | one published file per node and tick | probe, merge, forget, publish | probes of different instants, lost or garbled output, wedged collectors | the boards show no second owner and settle on the truth |
| Console and relays (`console.py`, `relay.py`, `mqweb_*.py`) | forwarder unit, port, relays | open, heal | failover between probe and forward, a forwarder that dies | the banner is true, failures leave the earlier forward, heal mends |
| Topology, stacks, inventory, boards, scrape files, log search | static data, generated files | render | none across calls | layout only |

The clients, the queue manager and the analyzer interact through queues and
files only. The CLI acts on libvirt, vagrant and ansible through subprocesses
and keeps its own state in the instance records. `PROJECT.json` lists every
component, also those left out, and the hazards at the lines where they bite.

## Modules

| Module | Models |
|---|---|
| `QueueManager` | IBM MQ as the clients use it (external): three connections each with one unit of work, request, reply and dead-letter queue, controlled and abrupt end, in-doubt commits, expiry, foreign messages; and the client-side reason families of `dr_mqi.py` |
| `DRFlow` | producer, consumer and `main` of `dr_flow.py`: one action per MQI call or ledger append |
| `DRResponder` | `_serve` and `_run` of `dr_responder.py`, with `dead_letter` |
| `DRSystem` | their composition, the safety and liveness properties, the inductive invariant and the refinement |
| `AtLeastOnce` | the abstract sender the producer implements |
| `DRReport` | reconciler, classifier and baseline as pure functions of the two files |
| `DRVerdict` | the drill as a whole: the verdict over the files against what happened |
| `MCDRVerdict` | the module of the DR runs; the instances differ in their `.cfg` |
| `Lifecycle` | `mqlab bootstrap`, `teardown`, `commons up` and `commons down`, with phase selection, instance records, Vagrant's cached boxes, reference-counted commons and huge pages |
| `MCLifecycle` | the instances of `Lifecycle` |
| `DRForced` | a forced drill, from the writes to the report: replication that lags, break, kill, promotion, what B serves, the ledger file with its truncate window, and the analyzer as functions of the files |
| `Cutover` | both cutover scripts over two sites, their copies and the link, with failures, reruns and the drill's seeded message |
| `RequestReply` | requester and service with kills, refused calls, late replies, strays and commits in doubt |
| `Bench` | warm-up and window of the bench, its percentiles, depth trend and diagnosis |
| `Probes` | authority, reconnect and dead-letter probe, and the dead-letter drill on the shared queue |
| `RunSteps` | boot order, batches, `run_steps` with retry, `--step`, record and report |
| `Sampler` | sampler thread, probe workers, multiplexing, stop and close |
| `BoxPool` | builds with their cache, tar, hash and registration, boots, teardowns and both collections over pool images and overlays |
| `Component` | two build processes with no lock between them, the interpreter, artifacts, bakes and the install on a guest |
| `BuildEnv` | the buckets of a main checkout and a worktree: wiring, migration, merge, clean |
| `Versions` | catalog load, selection with its host gates, records, rendering, protected boxes |
| `Media` | tarball cache, sidecars, exporter, collections and the verbs that need them |
| `Heartbeat` | the edits of `corosync.conf` and their passes |
| `RdqmState`, `PcmkState`, `NativeHaState` | a cluster that changes, one tick of each collector, the files and what the boards read from them |
| `Console` | `console open` and `relay-heal` |
| `MCLiveParts`, `MCSafeParts` | the instances of these seventeen, side by side; `Picked` says which of them a run has |
| `DRSafety`, `LifecycleProofs`, `ClientProofs`, `ComponentProofs`, `BoxProofs`, `MediaProofs`, `PartsProofs`, `SafePartsProofs` | theorems |

### The DR clients

State and code. `seq`, `pending`, `stop`, `errors`, `sent`, `confirmed` are the
variables and ledger of `dr_flow.py`, per-seq counts standing for the ledger's
entries; `received` counts RECEIVED, with which REPLIED is always appended;
`appfile` and `watchfile` are the JSONL files. `ppc`, `cpc`, `rpc`, `mpc` say
at which call each thread stands. A message is its business key; the uuid is
made with the seq and adds nothing, the FFH header and the payload are left
out. Key 0 is a message with no DRv1 body. `landed`, `processed`, `swallowed`,
`taken` and `expired` are history: what the queue manager did, which no client
sees.

Granularity. Two threads may interleave between any two MQI calls and between a
commit and the append that records it. Loop turns that change nothing (no
message, a connect attempt that fails, a get refused while quiescing) are
stuttering. Sleeps, rates and intervals become "any time"; deadlines become
one-way events.

Failures. The queue manager may begin a controlled end (`EndMqm`: put and get
return 2161, MQCMIT still completes) and may go down at any point (`QmDown`).
A commit in flight then lands or not, independently for each client; every
other unit of work is backed out. A connection becomes "interrupted" (the
library reconnects, the next call returns 2549 or 2003) or "dead" (a RECONNECT
reason). `BrokenMayLand` says whether a commit that returns a RECONNECT reason
may have landed: a comment in the producer says it did not, the proofs hold
either way. `Unexpected` lets any call raise a reason no handler knows.

Deployment. The clients share one queue manager, as in the HA drills. The
two-queue-manager deployment of `lab/scripts/dr-run.sh`, with channels and a
transmission queue between, is not modelled.

### The stack lifecycle

State and code. `dom`, `netUp` and `pages` are what virsh and the kernel show,
`meta` is the `box_meta` file Vagrant keeps per machine, `image` the OS on the
guest's disk, `rec` the instance records, and `qm`, `dr`, `svc`, `obs` what the
playbooks have set up. `op[o]` is the verb operator `o` runs: its options, where
it stands (`pc`, `phase`) and what it decided from its own probes (`os`, `live`,
`snap`, `todo`, `plays`, `plan`, `last`). `fell` is history: the guests that
stopped since the verb's probe.

Granularity. One action per subprocess with an effect, or per probe whose
result is kept. A step that fails and a verb that is killed are the same action,
`Abort`, possible before every step: the code halts on the first failure and
undoes nothing. So a retried step (`_BOOT_RETRY`) is a step that takes longer,
and boot order, batches and `--no-parallel` become "any order". `vagrant_up`
says what Vagrant does, as the comments of `_forget_machine_step` and
`_plan_reconcile_box_meta` describe it: the cached box wins over the
Vagrantfile's, and a domain it has no metadata of cannot be brought up. The
order of the plays differs between arms (Pacemaker and RDQM set DR up before
the queue manager, Native HA last); the model allows each, always with the SVC
queue manager after the application's. Before all of them a play forms the
cluster (`formed`); from then on `qm-status` may exit 0, with or without a queue
manager, because `pcs status resources` and `drbdadm status` do (`qm_up` in
`probe_all`), and it may fail although one is provisioned. `skips` is history: the
bootstrap took such an answer for the provision phase.

Simplifications. A guest needs one unit of pages, and the margin is below one.
The commons are built on the default OS. A host reboot ends the verbs,
stops the guests and drops the pages; the networks start by themselves. Image
garbage collection after a teardown is best effort and touches nothing modelled.

Operators. No lock keeps two shells apart. `Ops` is a parameter and the types
are proved for any number of operators, but the safety properties hold only for
one verb at a time: a bootstrap that starts between another stack's reference
count and its destroys loses its commons. The repository makes no promise about
concurrent verbs, so this is recorded as a hazard, the runs have one operator,
and the safety theorems have `OneOperator` as a hypothesis.

### The other components

A module has the state its component keeps or reads: files, registrations and
units as records, a program as a `pc` and what it read and has not used yet. One
action stands for one call that changes something another party can see, or
whose result is kept and used later. So every place where the code checks first
and acts afterwards is two steps, with room for a kill, a fault or another
terminal. Names follow the source (`find_artifact`, `boot_order`, `stack_ref`,
`int_or_none`); what is not the repository's (queue managers, DRBD, Vagrant,
socat, Grafana, Pacemaker) is modelled from what the code expects of it and is
marked external in `PROJECT.json`.

* `RunSteps`. A batch is one step; an attempt may leave any of its guests up.
  Interrupts and recorder failures come at any step. Seconds are left out.
* `Sampler`. Ticks and probes are steps; a probe answers, fails or times out, and
  the join gives up at any time after stop.
* `DRForced`. One clock orders commits, stamps, break and kill. Replication ships
  a prefix of what A committed; SENT is stamped by the producer's step after the
  commit, as in `dr_flow.py`. `reconcile` and `classify` are those of `DRReport`.
* `Cutover`. The data is a number of committed messages and the number the copy
  has; the link may lag, break and heal. A script that fails may be run again
  from its start.
* `RequestReply`. A message is its seq and its place: queue, unit of work,
  answered or dead-lettered; a reply that outlives its wait stays behind. Of the
  stray messages some carry no ReplyToQ and are dead-lettered, those in
  `Unresolvable` one that no open resolves: the reply fails each time, and the
  backout puts the message at the head of the queue.
* `BoxPool`, `Component`, `Media`. Recipes, trees and pins are numbers; a file is
  absent, part or whole and knows what it was made from; a process may be killed
  between any two steps. Images carry the time of their registration.
* `BoxPool`, a bake. The tar is written over the cached artifact (`Tar`, `TarEnds`),
  its hash beside it (`WriteHash`), then the box is added and stamped. `recipe` and
  `cut` of an artifact are history: what its content was made from, 0 while it is
  torn, and whether a bake of it was killed before its hash. A torn artifact either
  fails `vagrant box add` or is taken.
* `Component`, two builds. `crossed` is history: another build ran meanwhile. A
  build in company may find the shared `.partial` directories emptied or renamed away
  at every step.
* `Media`. A download may fail, or end short without an error (`EndsShort`, the
  end of a body to `copyfileobj`); a tarball placed by hand may be truncated. `short`
  is history: the tarballs of which that is so.
* `BuildEnv`. A bucket is a link, real or missing; a file has one of two
  contents, so that an overwrite shows. `Refs` are merged, `Plain` entries are moved whole.
* `Versions`. Hosts differ in architecture, KVM and x86-64-v3; a catalog edit moves
  a default, retires an OS, drops a decision or breaks the file.
* `Heartbeat`. A configuration is its totem keys and interfaces; token values lie
  at and beside the two limits of the code.
* Collectors. Each reads several tools in one tick; between two readings the
  cluster may change. A reading may be lost or garbled, a collector may stop.
  `past` keeps the states a file may stand for.
* `Probes`. The authority probe's put is outside syncpoint: the connection may break
  after it landed, and the answer is lost.
* `Probes`, `Console`. Authorities, queue managers, instances, relays and the
  holder of the port change between any two calls, as often as the bounds allow.

## Runs

For the DR clients bounds are the constants `MaxSeq` (messages), `MaxDowns` (outages) and
`MaxForeign` (messages without a DRv1 body). One seq and one outage already
reach every in-doubt combination of the three clients; a second seq is needed
for a retry to be able to skip or re-key a message. An in-doubt retry of an
in-doubt commit takes a second outage, which `double_landing` has. The proofs
remove the bounds.

| Run | Constants (seq, downs, foreign) | Shows |
|---|---|---|
| `failover` | 2, 1, 0, `BrokenMayLand` | `IInv` is an invariant; SENT is never over-claimed and never skipped; duplicates and unrecorded processings are bounded by the outages; the files never over-claim; the verdict is sound; the sender implements `AtLeastOnce` |
| `errors` | 1, 1, 1, no DEADQ, `Unexpected` | types; no phantom in any ledger; only a deadline's disconnect consumes a request without a reply; exit code and final file are honest |
| `live` | 1, 1, 1, `Expiry`, DEADQ | both clients end; a SENT request is processed or expires while a responder serves |
| `double_landing` | 1, 2, 0 | violated: a comment promises that a double landing is detectable; if one of the two processings is in doubt the Watcher has one entry |
| `failed_reply` | 1, 1, 0 | violated: a comment promises that a request whose reply failed is requeued; at the deadline it is consumed |
| `in_doubt_reply` | 1, 1, 0 | violated: a comment promises the bucket Ambiguous; the baseline's inputs make it Continued |

The bounds of `Lifecycle` are `MaxJobs` (verbs started), `MaxStops` (mishaps of
the host) and `MaxPages`. Two verbs, the first cut anywhere, are enough for every
property about a resume, and for a teardown and rebuild of the stack built before
records; the proofs remove the bound. A mishap may fall between any two steps. Stack `s1` has an HA and a DR guest, `s2` an HA guest;
the commons are one guest with the exporters and one with the SVC queue managers.

| Run | Instance | Shows |
|---|---|---|
| `lifecycle` | two stacks, `s2` perhaps built before records existed, huge pages for 5 of 5 guests, 2 verbs, 1 mishap | `LifecycleInv` is an invariant; the record pins the OS; a bootstrap that exits 0, also a resumed one, leaves guests and exporters up and the cluster formed, and the queue manager provisioned unless it skipped the phase on the answer of `qm-status`; a teardown leaves no domain and no cached box; the commons go only with the last stack or by request; pages suffice for the boots and are not released under a live guest |
| `resume` | one stack, 2 verbs | violated: phases.py promises that a re-run resumes from the first incomplete phase; a run cut after the cluster is formed, before or after the queue manager, is never completed by a plain re-run |
| `short_boot` | one stack, huge pages, 2 verbs, 1 mishap | violated: a comment promises that a short reservation fails up front; a guest that stops between probe and reservation is found out in the middle of the boots |

The seventeen modules of the third part share no state with each other, so three
runs check them side by side: the initial state picks one component (`part`, of
those in `Picked`), the variables `x1`, `x2`, ... stand for those of the picked one, and every property is
conditioned on it. The states are exactly those of the separate instances.

`live_parts` (378 thousand states) asks whether what is begun comes to its end:

| Part | Instance | Why it is enough |
|---|---|---|
| steps | five guests, four boxes, batches of three, 3 attempts, `--step` | two batches, two guests that share a box, a retry after a retry |
| sampler | one guest, refusal and timeout, 2 ticks | a probe hanging across stop, a second tick that recovers |
| service | 2 requests, 1 stray, 2 faults | a late reply met by the next request, a fault in the handling of a fault |
| poisoned | 1 request, 2 strays of which one is unresolvable, 1 fault | the request and the other stray before it and behind it |
| rdqm | two nodes, in one site or in two, 1 change, 1 loss | both roles, a change between two readings of a tick |
| pacemaker | two members, 2 changes, 1 loss | a fenced member and the survivor's view of it |
| nativeha | three instances, two of them observed, 1 change, 1 loss | a quorum without one instance |
| probes | authority and reconnect, 2 puts, 2 changes | a restart under put and under commit |
| console | one terminal, 2 opens, 1 fault, 2 waits | an open after a killed open |
| relays | 2 heals, 1 bounce, 3 tries | Grafana bouncing during the retries |

`safe_parts` (1.9 million states) asks what no step of the clients, the drills, the
collectors, the probes and the console may do:

| Part | Instance | Why it is enough |
|---|---|---|
| service | 2 requests, 2 strays of which one is unresolvable, 2 faults | as above, with a backout in front of each |
| forced | 2 messages, 1 answer of the service, floor scaled to 2 | one message before and one after the break, either in the buffer |
| cutover | 3 messages, 2 faults, 3 runs | a failed attempt, then two more over what it left |
| rdqm | two nodes, 2 changes, 1 loss | a failover and its return within one tick, a failed probe in it |
| nativeha | three instances, two of them observed, 2 changes, no loss | a partition and its healing within one tick |
| probes | 2 probes of any kind, 2 puts, 1 change, 1 foreign letter, 1 kill | a letter left by a killed drill met by the next one, a restart under a commit |
| console | one terminal, 2 opens, 1 failover, 2 waits | a failover between two candidates, a second open over the first one's forward |
| relays | as in `live_parts` | |

`safe_builds` (2.2 million states) asks it of the run loop and its records, and of
the builders and caches a bootstrap draws from:

| Part | Instance | Why it is enough |
|---|---|---|
| steps | as in `live_parts` | |
| sampler | two guests, timeouts, 2 ticks | two probes find the socket unusable in one tick |
| bench | 4 attempts, warm-up 1, latencies 1..2, depths 0..2 | both halves of the depth samples have two; ties in a percentile |
| boxes | base, two fat boxes (symmetric) and one retired box, one guest, 4 bakes and registrations, 1 edit | a rebake over a killed one, a fat box nothing is assigned to, a re-pin |
| components | two trees, 1 edit, 2 commands | a rebuild over an artifact, two builds at once, an edit under a build |
| buckets | two refs, one plain entry, 2 verbs | a merge with a file written meanwhile, a verb after a cut one |
| versions | the committed catalog cut to three OSes and two stacks, 1 edit, 2 verbs, one operator | a default that moves between two verbs |
| heartbeat | tokens at and beside both limits, 2 runs | converged and unconverged input |
| media | two pins, bootstrap and fetch, 2 verbs, 2 faults | any two of a kill, a short download, decay and a moved pin |

The types of the parts of `safe_parts` are in `live_parts` and in the inductive
invariants of the proofs.

Their properties conjoin, part by part, what the modules state by name:

| Property | Conjoins |
|---|---|
| `ServiceExact` | `RequestReply`: `NoLossNoDuplicate`, `CountersTrue`, `BreakCostsOneAttempt` |
| `CoherentFile` | `RdqmState`: one file never shows the queue manager running on a node it also shows unable to run it, unless the cluster changed inside that tick |
| `EverythingEnds` | what is pending (`Exited`, `Joining`, `Unserved`, `Over`, `Idle`, `HealBusy`) leads to its end |
| `FilesSettle` | `RdqmState!AllAgree`, `PcmkState!RowsAgree`, `NativeHaState!FilesAgree`, for ever from some time on |
| `RecordsTrue` | `RunSteps`: `RecordTrue`, `ReportTrue`; `Sampler`: `NeverSilent`, `NotesClosed`, `MuxNotedOnce`, `MastersClosed`; `Bench`: `CommitsLanded`, `PercentilesExact`, `DepthTrend`, `DiagnosisTrue` |
| `BoxesSound` | `RunSteps!NoStagingRace`; `BoxPool`: `DisksIntact`, `BuildDelivers`, `KeepsResolvable`, `StaleReclaimed` |
| `ComponentsSound` | `Component`: `InterpreterWhole`, `ArtifactWhole`, `GuestRuns`, `RecordMatchesLive` |
| `BucketsSound` | `BuildEnv`: `NothingLost`, `NeverForked`, `Healed` |
| `ForcedReportTrue` | `DRForced`: `HiddenOnlyAtTheEdges`, `ConfirmedBeforeBreak`, `LostIsLost`, `DuplicatesFromTheTail` |
| `CutoverSound` | `Cutover`: `OneLiveSite`, `GatedCutLosesNothing`, `NoSilentPass` |
| `BoardsTrue` | `RdqmState!OneOwnerShown`, `NativeHaState!OneQuorumShown` |
| `VersionsSound` | `Versions`: `RunsWhatIsRecorded`, `PinnedForLife`, `HostCanRun`, `NeverEmulated` |
| `MediaSound` | `Media`: `HandedWhole`, `WholeAccepted`, `MediaThere`, `ExporterMatches`, `CollectionsThere` |
| `ProbesTrue` | `Probes`: `DenialTrue`, `PermitTrue`, `OkLanded`, `InducedPasses`, `DrillCleans`; `Console`: `AnnouncedLive`, `MissesNone` |
| `ForwardsSound` | `Console`: `NeverTrips`, `FailureKeepsForward` of the opens, `HealTrue`, `HealMends` of the heals |
| `StepsSound` | the action properties `ResolverFirst`, `BootsAssigned`, `GcKeepsGrantable`, `UnsupportedByChoice`, `AlwaysConverges`, `AllOrNothing`, `IbmProcedure`, `Idempotent` |
| `BannerSound` | `Console!BannerTrue` |

The five violated properties are claims of the repository's comments, quoted
in `PROJECT.json` under `findings`. The three of the DR clients do not make the
verdict unsound: `VerdictSound` holds, because the baseline demands CONFIRMED of
every seq. Deadlock checking is off in every run, as the clients end and the
operator may stop starting verbs.

Fairness (`DRSystem!Fairness`). Weak fairness of each thread's own steps (the
operating system schedules it), of the producer's deadline (time passes), of
the completion of a controlled end, and of the restart on the survivor, which
is what the HA arms do. Outages, expiry, foreign messages and unexpected errors
are never forced; neither is the responder's deadline: `BothEnd` assumes it
comes, `SentServed` that it does not. Outages are finitely many
(`MaxDowns`), as in a drill; were the queue manager to fail for ever, no client
could be expected to get through.

Fairness (`MCLiveParts`). `Turn(k)` is weakly fair: the run loop's own steps
(subprocesses end or are given up, as their retries are bounded); the sampler's
main thread, not its probes, which may hang; requester, service and the channel
that brings replies; each collector's timer and Pacemaker's fencing; the probe
that runs; the console verb and the relay heal. Kills, lost readings, changes of
the cluster, failovers and foreign messages are never forced, and each is bounded
because the properties speak of what happens once they cease.

### Claims the models refute

Beside the five runs that expect a violation, the modules state claims of the
repository's comments and docs that TLC refutes under the constants given (the
others as in the tables above). They are definitions marked "Claimed, and not
kept by the code"; to see the behaviour, check one as an invariant or property of
its module. None contradicts what the passing runs show: where a weaker statement
holds it is the one in the table above.

| Module | Claim | Constants | What is said | What the code does |
|---|---|---|---|---|
| `Sampler` | `EveryMasterClosed` | one guest, timeouts, 2 ticks | "`close()` exits every master a probe may have opened" (`perfsampler.py:506`) | a probe still running after stop gave up, or one that timed out, has opened a master that `close` does not know |
| `Bench` | `EveryAttemptOnce` | `Count` 2 | total is "every attempt (success + failure)" (`app_requester.py:80`) | a depth inquiry that fails inside the try counts the attempt twice |
| `Bench` | `ExactlyCountCommits` | `Count` 2 | "exactly `count` commits when count>0" (`bench_client.py:335`) | failed attempts count too |
| `BoxPool` | `NeverDeleted` | `MaxClock` 7, no edits | an image "referenced as a <backingStore> by a live overlay volume is never deleted" (`box.py:882`) | a guest booted after the listing loses its base image |
| `BoxPool` | `DeliversToday` | 1 edit | "manifest (pins or bake recipe) changed -> the cache is void" (`build-fatbox.sh:251`) | a rebuild killed in its tar leaves a torn artifact beside a hash that still matches, and the next build reuses it |
| `RequestReply` | `NeverWedged` | 1 unresolvable stray, under the fairness of `MCLiveParts` | "A message it cannot answer -- a blank ReplyToQ, e.g. ... -- is not a crash" (`svc_responder.py:17`) | true of the blank one; a ReplyToQ that does not resolve raises on every delivery and is backed out to the head of the queue |
| `Component` | `KeyedBySource` | 1 edit, 1 run | "an edited-but-unbuilt component can never pass for a built one" (`component.py:17`) | an edit after the dirty check is built under the commit's hash |
| `Component` | `CompleteArtifact` | no edit, 2 runs | find_artifact returns "The complete artifact" (`component.py:170`) | a replacement killed inside rmtree leaves BUILD.json without the wheel; so do two builds that share the stage |
| `Component` | `InterpreterTrusted` | no edit, 2 runs | "so a crash never leaves a half-unpacked interpreter that a later call would trust" (`runtime.py:121`) | two builds unpack into one sibling, and what is left of both is renamed |
| `Component` | `BakedAsRecorded` | 1 edit, 2 runs | "What the cached box baked" (`box.py:518`) | the tree is fixed before the artifact is ensured, and the variables file is shared |
| `BuildEnv` | `StateNeedsConsent` | 1 verb | "refusing to drop state/ ..." (`cli.py:535`) | in the layout before the buckets a plain clean removes those entries as strays |
| `BuildEnv` | `NeverPoisoned` | 1 verb | the callback keeps a worktree from making a real bucket (`cli.py:489`) | `build clean --cache` in an unwired worktree makes one |
| `BuildEnv` | `LabFound` | 2 verbs | "so vagrant finds the running lab instead of orphaning it" (`buildenv.py:216`) | a verb in a worktree leaves the main checkout's dotfile where it is |
| `BuildEnv` | `NeverOverwrites` | 2 verbs | "A merge never overwrites" (`buildenv.py:294`) | a file written between plan and rename is replaced |
| `DRForced` | `ExactlyTheTail` | 2 messages, 2 answers | the promotion "loses exactly that tail" (`dr_forced.py:5`) | what was in the replication buffer at the break is lost and counted as present |
| `DRForced` | `EvidenceKept` | same | a killed client "still leaves its evidence behind" (`dr_flow.py:151`) | a kill between truncate and write leaves less than the flush before |
| `DRForced` | `NeverUnderReports` | same | "never under-reports the peak" (`dr/exposure.py:29`) | a CONFIRMED stamped before its SENT, or a second one, lowers the count |
| `DRForced` | `PeakReported` | same | "Peak exposure" (`dr/report.py:93`) | the analyzer passes the exposure at the end |
| `DRForced` | `RpoZeroClearsFloor` | same | RPO 0 "only if it clears this floor" (`dr/floor.py:3`) | no caller on the verdict path asks for the floor |
| `Cutover` | `NeverIncomplete` | as in `safe_parts` | "an incomplete recovery copy is never activated" (`rdqm-dr-cutover.sh:20`) | the gate is one reading; the link may break after it |
| `Cutover` | `CaughtUpBeforeFlip` | same | "quiesce -> confirm replication caught up -> flip DRBD" (`pcmk-dr-cutover.sh:7`) | the status is printed, not tested |
| `Cutover` | `CompleteIsLive` | same | "live site is now $TO_PCMK" (`pcmk-dr-cutover.sh:70`) | the queue manager need not have started |
| `RdqmState` | `StandAloneShown` | `N` 3 | the light "goes loud on ... StandAlone" (`clusterboard.py:1094`) | of several peers of a resource the last line read wins |
| `PcmkState` | `AuthoritativeWins` | 3 changes | a collector that cannot run "must read stale, never healthy" (cockpit design, 225) | the boards take the maximum over all files, also a wedged one's |
| `PcmkState` | `NeverGuessed` | 3 changes | no fresh sample on a timeout "rather than ... guessing" (cockpit design, 211) | a timed-out stonith history writes a fresh 0 |
| `NativeHaState` | `GarbledIsStale` | 2 changes, 1 loss | a garbled reading "degrades the cell to STALE" (`loglifecycle.py:54`) | only a failed probe sets stale |
| `Versions` | `RunsWhatIsRecorded` | two terminals | the record is written first "so Vagrant sees the selected boxes" (`instances.py:7`) | all verbs write one resolved topology; an older rendering may land last |
| `Versions` | `NeverMislabelled` | a stack without a record, 1 edit | "never falls back to the stack default for a running instance" (`instances.py:162`) | a verb of another stack renders it on the moved default |
| `Versions` | `RecordedProtected` | 1 edit, 3 verbs | every box a selection can resolve to is kept (`box.py:1205`) | the recorded OS may have left the supported list |
| `Versions` | `TeardownNeedsNoVersion` | 1 edit | teardown "needs no version" (`instances.py:12`) | the catalog is loaded when `box.py` is imported |
| `Media` | `ArrivesWhole` | 1 fault, or two terminals that fetch | fetched "atomically (via a .part)" (`artifact.py:43`) | a body that ends early is renamed and recorded; two terminals write the same .part |
| `Media` | `NeverFailsForAbsence` | bootstrap, 1 fault | "We never fail just because a tarball is absent" (`artifact.py:3`) | boxes are ensured before the media; the exporter build stops on a cold cache |
| `Media` | `BakedWhole` | 3 verbs, 2 faults | the binary "is in the durable cache" (`mqexporter.py:134`) | a half-linked file is a cache hit |
| `Media` | `CollectionsThere` | `Verbs` fetch and commons | "every collection declared ... must be present" (`cli.py:186`) | `commons up` does not call the check |
| `Probes` | `ProvesOwn` | drill, as in `safe_parts` | "prove that an induced-undeliverable message landed" (`dlq_probe.py:5`) | a letter left by a killed drill passes the next one |
| `Probes` | `OnlyOwnDrained` | same | "drain the test message ... so the shared arm is left clean" (`dlq_probe.py:8`) | the oldest letter may be another application's |
| `Console` | `BannerTrue` | `Foreigners` | the wait is there as "a bind failure would otherwise pass silently" (`console.py:116`) | the connect succeeds against whoever holds the port |

## Proofs

Every theorem holds for all values of the constants, under the assumption its
module names: `QMAssumption` and `FlowAssumption` (naturals and Booleans) for the
DR clients; `LifecycleAssumption` (finitely many guests, no guest in two stacks or
in a stack and the commons); `RequestReplyAssumption` (at least one attempt,
strays told apart from requests); `BuildEnvAssumption` (the kinds of files are
disjoint); `VersionsAssumption` (a well-formed catalog in which the Ubuntu entries
follow the host's architecture); `MediaAssumption` (MQ levels are positive);
`RdqmStateAssumption` and `NativeHaStateAssumption` (at least one node);
`BoxesAssumption` (base, fat and retired boxes are told apart);
`ComponentAssumption`, `CutoverAssumption`, `DRForcedAssumption`, `ProbesAssumption`
and `ConsoleAssumption` (sets and naturals). The theorems on version selection
assume one operator at a time, those on the media cache and on `console open` one
terminal (`OneOpener`), the latter also that no other process listens on the
forward port; what goes wrong otherwise is in the table above. All but the first
three are definitions and hypotheses of their theorems, and the composing modules
assert them of every instance (`InstancesFit`, which TLC evaluates).

| Module | Theorems |
|---|---|
| `DRSafety` | `TypeCorrect`; `Invariance`, `Spec => []IInv`; from it the eight safety properties of the runs and `VerdictSoundAlways`; `SendRefinesAlways`: every step is a step of `AtLeastOnce` or leaves its variables alone |
| `LifecycleProofs` | `LifecycleTypeCorrect`, for any number of operators; `PinnedForLife`: `RecordPinsOS`; `LifecycleSafe`: `LifecycleInv`; from it `TeardownLeavesNothing`, `BootstrapReachesUp`, `ReservationSuffices`, `ReleasesNothingInUse` and the action property `CommonsAreKept` |
| `ClientProofs` | of `RequestReply`: `RequestReplyInvariant`, `ServiceIsExact`. Of `Probes` and `Console`, which it instantiates: the lemmas on `ProbesInv`, `DrillInv`, `ConsoleInv` and `HealInv` |
| `ComponentProofs` | `ComponentInvariant`, `ComponentsAreSound` |
| `BoxProofs` | of `Versions`: `VersionsInvariant`, for one operator; the action properties `UnsupportedOnlyByChoice` and `GcKeepsEveryGrantable`, for any number of operators. Of `BoxPool` and `RunSteps`, which it instantiates: the lemmas on `PoolInv` and `StagingInv` |
| `MediaProofs` | `MediaIsSafe`, for one terminal |
| `PartsProofs` | lemmas only: `ForcedInv`, `CutoverInv`, `BuildEnvInv`, `RdqmInv` and `NativeHaInv` hold initially, are kept by every step and imply what the component promises |
| `SafePartsProofs` | invariants and action properties of the `safe_parts` and `safe_builds` runs as their composition states them: `CutoverAlwaysSound`, `BucketsAlwaysSound`, `BoardsAlwaysTrue`, `FilesAlwaysCoherent` and `ForcedReportAlwaysTrue` from `PartsProofs`; `ServiceAlwaysExact`, `ProbesAlwaysTrue`, `ForwardsAlwaysSound` and `BannerAlwaysTrue` from `ClientProofs`; `VersionsAlwaysSound` and `BoxesAlwaysSound` from `BoxProofs`; `ComponentsAlwaysSound` and `MediaAlwaysSound` from the proof modules of those components |

### The DR clients

The safety properties are not inductive. That SENT implies landed needs to know
that a producer about to record stands after a commit that landed; that needs
to know what its unit of work held; and that a resend lands at most once per
outage needs the count of landings of `pending` against `downs` at each program
counter. `IInv` collects this in parts: `UowInv` (what every open unit of work
holds, from where its owner stands, and that only a responder in its loop under
a quiescing queue manager may hold a request), `AccountInv` (every copy that
landed is on the queue, in a unit of work, processed, swallowed or expired;
likewise for replies), `SendInv`, `WatcherInv`, `ConfirmInv` (ledgers against
history), `MainInv` (what `main` waited for) and `FileInv` (a file is a past
state of its ledger). Each part is shown to be preserved by each action.
`VerdictSound` follows from the file invariants and one lemma about the
analyzer: a baseline that passes implies a CONFIRMED entry for every SENT one.
`SendRefines` needs `SendInv` to know that what lands is the pending message.

### The stack lifecycle

`RecordPinsOS` rests on `PinInv`: a domain Vagrant knows was built from the box
Vagrant cached (`BoxInv`); a bootstrap that may still write the record has found
no live guest, one past it runs on the recorded OS, and one that boots has only
its own OS or nothing in the caches of its members (`RecordInv`); each step
belongs to the verb it should (`VerbInv`). Most actions boot no guest and write
no record: one lemma (`QuietHost`) covers what they do to the host, two others
what they do to the verb's own knowledge; only `reconcile`, `vms_phase` and
`vagrant_up` need an argument of their own.

`LifecycleInv` adds three parts. `PlanInv`: what a teardown has not destroyed yet
is in its plan, the commons are in it only when they may go, and a teardown that
took itself for the last stack still is. `ProgressInv`: what a bootstrap that
chose its phases has behind it: its guests up, its cluster formed, and its queue
manager provisioned or the phase skipped on the answer of `qm-status`; without it
nothing is known of a phase that was skipped. `PagesInv`: the reservation, sized from one probe, covers all boots
ahead and not only those of the current phase. The invariant relates one verb's
decisions to the host, so a second verb would break it; that is what
`OneOperator` excludes. The pages are the one place where this proof counts: a boot
moves a guest from the set still to boot to the set that uses a page
(`BootTakesItsPage`), so the sum of the two cardinalities never grows.

### The forced-DR report

The report is computed from timestamps and a file, its truth is about two disks; `ForcedInv`
ties them together. `DiskInv`: a commit is made at most once on a disk, and the
service's RECEIVED count of a request is the answer that is on the disk plus the one the
promotion took back, so a third is impossible. `LineInv`, for every line of the
ledger: a CONFIRMED line was answered; no line bears the very instant of the break;
a request that was put after the break on what B will not have is logged SENT
after the break; and what is logged SENT after the site's death, of a request that is
doomed, is in `late`. `FileInv`: the file, also in the truncate window, holds lines
of the ledger only. Hence a request that is gone has all its SENT lines between
break and kill, unless it is one of the two exceptions the property names, and no
CONFIRMED line: the analyzer can only call it lost. `Promote` is the step that
needs the uniqueness of commits: each one is in the prefix B has or in the tail it
lost, never in both. `ForcedCommit` and `ForcedLogged` are the two lemmas for the
actions that add a commit and those that add a line.

### The other components

* `RequestReply`. `ResponderInv` says what the unit of work holds at each point of
  the loop, `PlacesInv` that a message is on the way, queued, held, answered or
  dead-lettered and nowhere else, `RequesterInv` ties the counters and the reply
  queue to the attempts made, and `FaultsInv` spends every fault once: on the break
  still held, on the attempt about to be counted, or on one that never landed. The
  last part is what bounds the failed attempts: those that are over are the
  matched, the late and the never landed, three disjoint sets. Three lemmas say
  what a put, a get and a backout do to the messages on a queue.
* `Cutover`. `SitesInv`: a promotion waits for the demotion, which nothing undoes,
  also in a rerun over what a failed one left. `CopyInv`: from the gate on the copy
  follows an unbroken link, and after the demotion nothing more is committed.
  `DrillInv`: a seeded message precedes the gate and is verified before the end.
* `BuildEnv`. `MigrationInv`: what a migration under way still has to rename would
  overwrite only a refs file written after its plan, and what it still has to drop is
  in the bucket, or a clean took it there. `DotfileInv`: a dotfile left at its old
  place has only a newer one in the bucket.
* `Component`. `CommandsInv`: a build without company is alone, on a verified
  tarball; of two at once both are `crossed`, from the moment the second begins.
  `JobInv(p)`: while nobody edits or builds beside it, what process `p` tests and stages is the tree the
  artifact is keyed by, and BUILD.json comes last. `ReleaseInv`: every release kept
  on the guest is whole, and until the record is written the rollback target is the
  release it names. A frame lemma keeps one process's part under the others' steps.
* `Versions`. `RecordInv`: what is recorded passed the host's gates. `RenderInv`:
  a bootstrap has its record before it renders, and from its render to its boot the
  file it holds, then the file Vagrant reads, names every record's OS and nothing
  emulated. That needs one operator: with two, an older rendering may land last
  (`RunsWhatIsRecorded` of the table above). `NeverEmulated` rests on an
  assumption of the catalog as committed, `UbuntuTracksHost`: its Ubuntu entries
  carry no architecture pin (`lab/versions.yaml:9,41,47`). `versions.py` does not
  enforce that, and with a pinned Ubuntu entry the shared guests would be emulated.
* `Media`. `CacheInv`: a cached tarball that is not whole arrived short, and its
  sidecar is of what arrived, or has decayed under a sidecar that tells. `Fetched`, `Gathered` and `Verified` say of the verb at each step what
  its download has filled, which tarballs it has dealt with (they are there, unless
  the pin moved), and that bootstrap provisions after its collections check. One
  terminal, because two share a `.part`; `commons up` does not call the
  check, so `CollectionsThere` is proved of the verbs that do.
* `RdqmState`. `RunsInv`: the queue manager runs only where it can. `ReadsInv`: the
  readings of a tick that no change has torn are what the tools would still print.
  `OwnersInv`: the owner in a file as old as the last change runs it. A failed or
  garbled probe only takes a reading away.
* `NativeHaState`. Those cut off are a minority, so a side that counts a majority
  is not cut off (`NativeHaQuorum`); `ReadsInv` and `ShownInv` carry that from the
  reading to the file.
* `Probes`. `PuttingInv`: what the identity held all along it still holds, and no
  message of the running probe is on the queue before its put, nor after a refused
  one; one that is there and was not told as permitted lost its connection. `LettersInv`: a letter
  carries the number of the drill that induced it, is not there while the
  application still waits or retries, and comes once. `OwnInv`: a drill that waits has
  taken nothing yet, and one that is over has no retries behind it; so what it takes
  first is its own letter, if no other was there, and that letter is not left.
* `Console`, its opens. `PortInv`: the port is the forwarder's or nobody's.
  `SearchInv`: a candidate that was running throughout is still ahead of the probe,
  and the one found did answer. `UnitInv`: until the stop the unit is the one the open
  found, and while the open waits for its forward, a unit that is loaded leads to the
  instance announced, unless somebody disturbed it. `EndInv` is what remains of these at each exit. The banner needs `UnitInv` of the
  step before it, hence the invariant and not only the property.
* `Console`, its heals. `HealInv`: nothing is stale after the restart, and what
  is no longer to be verified serves, while Grafana has not bounced; a restart that
  fails ends the heal as failed, with the relays as they were.
* `BoxPool`. `BakedInv`: while a build has a box to add, its artifact is there
  under today's hash (in the model a recipe is edited between builds), and a
  registration with a stamp was made from the artifact the stamp names, so a stamp
  that matches can be reused. `ContentInv`: an artifact no bake of which was killed
  in its tar or before its hash has the content its hash names. `ReadInv`: what the collection holds to be in use
  covers every overlay but those of guests that booted after its listing, first as
  guests still to be scanned, then as images; a deletion takes what is in neither.
* `RunSteps`. `StagingInv`: a boot under way is one of the current step, and in a
  batch with `--no-parallel` every guest listed before it is up. A second one would
  be listed before or behind the first; and a batch two of whose guests clone
  one box has the flag. Nothing is assumed of the boot order or the size of a batch.
* `MCSafeParts`. The constants of these thirteen components are constants of the
  composition, given values by its `.cfg`. A step keeps `part` and is a step of the
  picked component, so the component's initial, step and implication lemmas carry
  over. The lemmas of `RequestReply`, `Probes` and `Console` are in `ClientProofs`,
  those of `Versions`, `BoxPool` and `RunSteps` in `BoxProofs`, those of `DRForced`,
  `Cutover`, `BuildEnv`, `RdqmState` and `NativeHaState` in `PartsProofs`; `Component`
  and `Media` have a module of their own. The composition instantiates the five.

### What is only model-checked

* The liveness properties (`BothEnd`, `SentServed`, `EverythingEnds`,
  `FilesSettle`): fairness and ENABLED are out of the prover's reach.
* `RecordsTrue`: what `Bench` and `RunSteps` compute over sequences (percentiles, the
  depth trend, the order and batches of the boots) would need induction over data,
  which the prover does not offer; the sampler's part has no proof yet.
* `TypeOK` of the two compositions as a whole: no proof yet. Of `StepsSound` the two
  action properties of `Versions` are proved; that the DNS guests boot first and how
  `corosync.conf` is rewritten are again induction over data.

## Plan

1. `Sampler` (`MastersClosed`, `NotesClosed`): the threads' part of `RecordsTrue`.
2. `BootsAssignedStep` of `BoxPool`: the last part of `StepsSound` that needs no
   induction over data.

## Not modelled

* Message layout and headers, TLS and connection options, the wording of reports:
  data that no property tells apart.
* Boards, scrape files and log search: generators of JSON and YAML. Of the boards
  only the queries the collectors' files are read with are modelled.
* Topology, stacks, inventory, binding, DNS and fleet: static transformations
  without state; what they decide (membership, order, boxes) is a constant.
* `e2e`, `coldboot` and `doctor`, launcher, paths, terminal output: probes that
  print, and path arithmetic.
* What a bake does inside its build guest, the ansible roles but `component-install`,
  the copy of the media in `mq-install` and the heartbeat module, the `tc` and `virsh` commands of the fault drills: external
  tools; their effects are environment actions.
* `pcmk-dr-seed-peer.sh`, PKI, status tables, `perfdiff`: one-time or read-only.
* The two-queue-manager deployment of `dr-run.sh` with its channels.

`PROJECT.json` gives the reason for each component.
