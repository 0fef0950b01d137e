----------------------------- MODULE MCLiveParts -----------------------------
(***************************************************************************)
(* The components that must get somewhere: a boot and play that ends, a    *)
(* sampler that stops, requests that are served, collectors whose files    *)
(* come to agree with their cluster, probes and console commands that end. *)
(* They share no state, so one run checks them side by side: the initial   *)
(* state picks one of them, and the run's states are those of all of them  *)
(* together.  x1, x2, ... stand for the variables of the picked component. *)
(***************************************************************************)
EXTENDS Integers, Sequences, FiniteSets

CONSTANTS m1, m2, obs, probe, dns, g1, refused, timeout, t1

VARIABLES
    part,   \* the component under check, chosen by the initial state
    x1, x2, x3, x4, x5, x6, x7, x8, x9, x10, x11, x12, x13, x14, x15, x16, x17, x18, x19,
    x20, x21, x22   \* its variables, in the order of its module
all == <<part, x1, x2, x3, x4, x5, x6, x7, x8, x9, x10, x11, x12, x13, x14, x15, x16, x17, x18,
         x19, x20, x21, x22>>

\* Five guests in two batches: of the first three two share a box.
MCAllVms == <<m1, m2, obs, probe, dns>>
MCBoxOf == [g \in {m1, m2, obs, probe, dns} |->
              CASE g \in {m1, m2} -> "mq" [] g = dns -> "infra" [] g = obs -> "obs" [] OTHER -> "client"]

Steps == INSTANCE RunSteps WITH
    AllVms <- MCAllVms, Infra <- {dns}, BoxOf <- MCBoxOf, BootBatch <- 3, Attempts <- 3,
    StepMode <- TRUE,
    pc <- x1, index <- x2, attempt <- x3, dom <- x4, tried <- x5, fault <- x6,
    staged <- x7, steps <- x8, batches <- x9, outcome <- x10, exit <- x11, report <- x12,
    ran <- x13
Sampling == INSTANCE Sampler WITH
    Guests <- {g1}, Errors <- {refused, timeout}, MaxTicks <- 2,
    spc <- x1, ticks <- x2, gpc <- x3, result <- x4, todo <- x5, key <- x6, fails <- x7,
    error <- x8, muxOk <- x9, queued <- x10, masters <- x11, mpc <- x12, stopping <- x13,
    abandoned <- x14, snapshot <- x15, closing <- x16, noted <- x17, muxNotes <- x18,
    leftNoted <- x19, run <- x20, alive <- x21, untracked <- x22
Service == INSTANCE RequestReply WITH
    Count <- 2, Strays <- {9}, Unresolvable <- {}, MaxFaults <- 2,
    req <- x1, resp <- x2, transit <- x3, requests <- x4, replies <- x5, answered <- x6,
    deadq <- x7, hasDLQ <- x8, faults <- x9, landed <- x10
Poisoned == INSTANCE RequestReply WITH
    Count <- 1, Strays <- {8, 9}, Unresolvable <- {8}, MaxFaults <- 1,
    req <- x1, resp <- x2, transit <- x3, requests <- x4, replies <- x5, answered <- x6,
    deadq <- x7, hasDLQ <- x8, faults <- x9, landed <- x10
Rdqm == INSTANCE RdqmState WITH
    N <- 2, MaxChanges <- 1, MaxLosses <- 1,
    site <- x1, live <- x2, primary <- x3, running <- x4, online <- x5, fails <- x6,
    cut <- x7, changes <- x8, losses <- x9, pc <- x10, status <- x11, drbd <- x12,
    crm <- x13, file <- x14, torn <- x15, past <- x16
Pacemaker == INSTANCE PcmkState WITH
    Members <- {m1, m2}, MaxChanges <- 2, MaxLosses <- 1,
    off <- x1, cutoff <- x2, fenced <- x3, owner <- x4, daemon <- x5, wedged <- x6,
    changes <- x7, losses <- x8, pc <- x9, crm <- x10, stonith <- x11, up <- x12,
    file <- x13
NativeHa == INSTANCE NativeHaState WITH
    N <- 3, Observers <- {1, 2}, MaxChanges <- 1, MaxLosses <- 1,
    cutoff <- x1, active <- x2, backlog <- x3, disk <- x4, changes <- x5, losses <- x6,
    pc <- x7, hax <- x8, grp <- x9, file <- x10, log <- x11, past <- x12
Probing == INSTANCE Probes WITH
    Kinds <- {"authz", "reconnect"}, MaxProbes <- 1, PUTS <- 2, MaxChanges <- 2,
    MaxForeign <- 0, MaxKills <- 0,
    auth <- x1, up <- x2, queue <- x3, dlq <- x4, retrying <- x5, inhibited <- x6, p <- x7,
    held <- x8, told <- x9, taken <- x10, n <- x11, changes <- x12, foreign <- x13,
    kills <- x14
Opening == INSTANCE Console WITH
    Terminals <- {t1}, ATTEMPTS <- 2, RETRIES <- 2, MaxOpens <- 2, MaxHeals <- 0,
    MaxMoves <- 0, MaxFaults <- 1, MaxBounces <- 0, Foreigners <- FALSE,
    setup <- x1, role <- x2, unit <- x3, port <- x4, relay <- x5, grafana <- x6, op <- x7,
    heal <- x8, opens <- x9, moves <- x10, faults <- x11, bounces <- x12
Relays == INSTANCE Console WITH
    Terminals <- {}, ATTEMPTS <- 2, RETRIES <- 3, MaxOpens <- 0, MaxHeals <- 2,
    MaxMoves <- 0, MaxFaults <- 0, MaxBounces <- 1, Foreigners <- TRUE,
    setup <- x1, role <- x2, unit <- x3, port <- x4, relay <- x5, grafana <- x6, op <- x7,
    heal <- x8, opens <- x9, moves <- x10, faults <- x11, bounces <- x12

-----------------------------------------------------------------------------
(* A component with k variables leaves the others alone. *)
Unused16 == x17 = 0 /\ x18 = 0 /\ x19 = 0 /\ x20 = 0 /\ x21 = 0 /\ x22 = 0
Unused14 == x15 = 0 /\ x16 = 0 /\ Unused16
Unused13 == x14 = 0 /\ Unused14
Unused12 == x13 = 0 /\ Unused13
Unused10 == x11 = 0 /\ x12 = 0 /\ Unused12
Spare10 == <<part, x11, x12, x13, x14, x15, x16, x17, x18, x19, x20, x21, x22>>
Spare12 == <<part, x13, x14, x15, x16, x17, x18, x19, x20, x21, x22>>
Spare13 == <<part, x14, x15, x16, x17, x18, x19, x20, x21, x22>>
Spare14 == <<part, x15, x16, x17, x18, x19, x20, x21, x22>>
Spare16 == <<part, x17, x18, x19, x20, x21, x22>>
Spare22 == <<part>>

Init ==
    \/ part = "steps" /\ Steps!Init /\ Unused13
    \/ part = "sampler" /\ Sampling!Init
    \/ part = "service" /\ Service!Init /\ Unused10
    \/ part = "poisoned" /\ Poisoned!Init /\ Unused10
    \/ part = "rdqm" /\ Rdqm!Init /\ Unused16
    \/ part = "pacemaker" /\ Pacemaker!Init /\ Unused13
    \/ part = "nativeha" /\ NativeHa!Init /\ Unused12
    \/ part = "probes" /\ Probing!Init /\ Unused14
    \/ part = "console" /\ Opening!Init /\ Unused12
    \/ part = "relays" /\ Relays!Init /\ Unused12

Next ==
    \/ part = "steps" /\ Steps!Next /\ UNCHANGED Spare13
    \/ part = "sampler" /\ Sampling!Next /\ UNCHANGED Spare22
    \/ part = "service" /\ Service!Next /\ UNCHANGED Spare10
    \/ part = "poisoned" /\ Poisoned!Next /\ UNCHANGED Spare10
    \/ part = "rdqm" /\ Rdqm!Next /\ UNCHANGED Spare16
    \/ part = "pacemaker" /\ Pacemaker!Next /\ UNCHANGED Spare13
    \/ part = "nativeha" /\ NativeHa!Next /\ UNCHANGED Spare12
    \/ part = "probes" /\ Probing!Next /\ UNCHANGED Spare14
    \/ part = "console" /\ Opening!Next /\ UNCHANGED Spare12
    \/ part = "relays" /\ Relays!Next /\ UNCHANGED Spare12

(* The k-th schedule that a component is owed: each of its programs, timers
   or channels is one of its own. *)
Turn(k) ==
    \/ part = "steps" /\ k = 1 /\ Steps!Run /\ UNCHANGED Spare13
    \/ part = "sampler" /\ k = 1 /\ Sampling!Main /\ UNCHANGED Spare22
    \/ /\ part = "service" /\ UNCHANGED Spare10
       /\ \/ k = 1 /\ Service!Requester
          \/ k = 2 /\ Service!Responder
          \/ k = 3 /\ Service!Deliver
    \/ /\ part = "poisoned" /\ UNCHANGED Spare10
       /\ \/ k = 1 /\ Poisoned!Requester
          \/ k = 2 /\ Poisoned!Responder
          \/ k = 3 /\ Poisoned!Deliver
    \/ part = "rdqm" /\ k \in {1, 2} /\ Rdqm!Tick(k) /\ UNCHANGED Spare16
    \/ /\ part = "pacemaker" /\ UNCHANGED Spare13
       /\ \/ k = 1 /\ Pacemaker!Fence
          \/ k = 2 /\ Pacemaker!Tick(m1)
          \/ k = 3 /\ Pacemaker!Tick(m2)
    \/ part = "nativeha" /\ k \in {1, 2} /\ NativeHa!Tick(k) /\ UNCHANGED Spare12
    \/ part = "probes" /\ k = 1 /\ Probing!Running /\ UNCHANGED Spare14
    \/ part = "console" /\ k = 1 /\ Opening!Verb(t1) /\ UNCHANGED Spare12
    \/ part = "relays" /\ k = 1 /\ Relays!Healing /\ UNCHANGED Spare12

Spec == Init /\ [][Next]_all /\ \A k \in 1..3 : WF_all(Turn(k))

\* The instances satisfy what the modules assume of their constants.
ASSUME InstancesFit ==
    /\ Steps!RunStepsAssumption /\ Sampling!SamplerAssumption /\ Service!RequestReplyAssumption /\ Poisoned!RequestReplyAssumption
    /\ Rdqm!RdqmStateAssumption /\ Pacemaker!PcmkStateAssumption /\ NativeHa!NativeHaStateAssumption
    /\ Probing!ProbesAssumption /\ Opening!ConsoleAssumption /\ Relays!ConsoleAssumption

-----------------------------------------------------------------------------
(* Types: every variable of the picked component stays in its set. *)
TypeOK ==
    CASE part = "steps" -> Steps!TypeOK [] part = "sampler" -> Sampling!TypeOK
      [] part = "service" -> Service!TypeOK [] part = "poisoned" -> Poisoned!TypeOK
      [] part = "rdqm" -> Rdqm!TypeOK
      [] part = "pacemaker" -> Pacemaker!TypeOK [] part = "nativeha" -> NativeHa!TypeOK
      [] part = "probes" -> Probing!TypeOK [] part = "console" -> Opening!TypeOK
      [] part = "relays" -> Relays!TypeOK

(* What a component began and has not finished: a run that has not exited, a
   sampler that is being stopped, a request that landed and has no answer, a
   probe, a console open or a relay heal under way. *)
Pending ==
    CASE part = "steps" -> ~Steps!Exited
      [] part = "sampler" -> Sampling!Joining
      [] part = "service" -> Service!Unserved [] part = "poisoned" -> Poisoned!Unserved
      [] part = "probes" -> ~Probing!Over
      [] part = "console" -> ~Opening!Idle(t1)
      [] part = "relays" -> Relays!HealBusy
      [] OTHER -> FALSE

(* Whatever was begun comes to its end.  The retries of a run are bounded and no
   boot is waited for without end; stop() returns also when a probe hangs; with a
   dead-letter queue every request that landed is answered and every message with a
   blank ReplyToQ dead-lettered, unless one whose ReplyToQ resolves to nothing came
   to the queue before it, which wedges the service; no error of the queue manager keeps a
   probe from its last put; a console open ends whoever moves or dies meanwhile,
   and so does a heal, its retries being bounded. *)
EverythingEnds == Pending ~> ~Pending

(* Once a cluster and the probes rest, what the boards read is so.  The file of
   an RDQM node that is up shows which nodes could run the queue manager, who
   runs it and which site is live; with the collectors alive and some member
   online, the Pacemaker rows show who is online, who was fenced, whose daemons
   are down, and one row, the owner's, holds the queue manager; a Native HA group
   that degrades and stays so is shown as it is: an Unknown backlog never blanks
   the node's roles nor stops the log collector behind it. *)
FilesSettle ==
    <>[](CASE part = "rdqm" -> Rdqm!AllAgree
           [] part = "pacemaker" -> Pacemaker!RowsAgree
           [] part = "nativeha" -> NativeHa!FilesAgree
           [] OTHER -> TRUE)
=============================================================================
