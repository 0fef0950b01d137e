------------------------------ MODULE Lifecycle ------------------------------
(***************************************************************************)
(* The life of the lab's stacks: `mqlab bootstrap`, `teardown`, `commons   *)
(* up` and `commons down` (src/mqlab/cli.py, phases.py, instances.py,      *)
(* hugepages.py, lifecycle.py, orchestrator.py), run by one or more        *)
(* operators against one libvirt host on which guests may stop at any      *)
(* time and every step may fail.                                           *)
(*                                                                         *)
(* A verb is a sequence of steps, each a subprocess with an effect on the  *)
(* host.  A step that fails, and a verb that is killed, end the verb where *)
(* it stands: Abort.  What the verb decided earlier, from its own probes,  *)
(* it keeps in op[o].                                                      *)
(***************************************************************************)
EXTENDS Naturals, FiniteSets

CONSTANTS
  Ops,        \* operators (shells in which mqlab runs)
  Stacks,     \* the stacks of lab/topology.yaml
  Oses,       \* the operating systems the catalog supports
  DefaultOs,  \* the catalog's default, and the OS of the shared nodes
  NoOs,       \* no record, no image, no cached box
  HaGuests,   \* stack -> its guests outside dr_groups
  DrGuests,   \* stack -> its guests in dr_groups
  ObsBox,     \* commons: obs and mon-probe, where the exporters run
  SvcBox,     \* commons: svc, app and infra, where the per-stack SVC QM runs
  Legacy,     \* stacks built before instance records existed
  Lever,      \* memory_backing: hugepages
  MaxPages,   \* bound: pages the kernel can assemble, in units of a guest
  MaxJobs,    \* bound: verbs started
  MaxStops    \* bound: guests stopped or paused, networks down, host reboots

Members(s) == HaGuests[s] \cup DrGuests[s]

Commons == ObsBox \cup SvcBox

Guests == Commons \cup UNION {Members(s) : s \in Stacks}

ASSUME LifecycleAssumption ==
  /\ Stacks # {} /\ Legacy \subseteq Stacks
  /\ IsFiniteSet(Guests)
  /\ DefaultOs \in Oses /\ NoOs \notin Oses
  /\ \A s \in Stacks : Members(s) \cap Commons = {}
  /\ \A s, t \in Stacks : s # t => Members(s) \cap Members(t) = {}
  /\ \A s \in Stacks : HaGuests[s] \cap DrGuests[s] = {}
  /\ ObsBox \cap SvcBox = {}
  /\ Lever \in BOOLEAN
  /\ MaxPages \in Nat /\ MaxJobs \in Nat /\ MaxStops \in Nat

VARIABLES
  dom,     \* guest -> state of its libvirt domain
  image,   \* guest -> the OS its disk was built from
  meta,    \* guest -> the box Vagrant cached in its machine directory
  rec,     \* stack -> the OS in its instance record
  netUp,   \* every lab network is active
  formed,  \* stacks that qm-status has something to show of: a cluster, a defined queue manager
  qm,      \* stacks whose application queue manager is provisioned
  dr,      \* stacks whose DR replication is provisioned
  svc,     \* stacks whose SVC queue manager is provisioned on the commons
  obs,     \* stacks whose exporters are set up on the commons
  pages,   \* vm.nr_hugepages, in units of a guest
  op,      \* operator -> where its verb stands and what it has decided
  jobs,    \* verbs started so far
  stops    \* mishaps so far

host == <<dom, image, meta, netUp, pages>>
provisioned == <<formed, qm, dr, svc, obs>>
vars == <<dom, image, meta, rec, netUp, formed, qm, dr, svc, obs, pages, op, jobs, stops>>

(***************************************************************************)
(* What virsh shows.  A paused guest is not running but still holds its    *)
(* qemu process, and its memory.                                           *)
(***************************************************************************)
DomStates == {"absent", "off", "paused", "running"}

is_live(states, g) == states[g] \in {"paused", "running"}

AnyLive(states, guests) == \E g \in guests : is_live(states, g)

Running(guests) == \A g \in guests : dom[g] = "running"

all_vms(s, no_dr) == (IF no_dr THEN HaGuests[s] ELSE Members(s)) \cup Commons

(***************************************************************************)
(* The box the resolved topology gives a guest of the verb's own stack, or *)
(* a shared guest.                                                         *)
(***************************************************************************)
Box(o, g) == IF g \in Commons THEN DefaultOs ELSE op[o].os

(***************************************************************************)
(* The huge pages held by live guests.                                     *)
(***************************************************************************)
Used == IF Lever THEN Cardinality({g \in Guests : is_live(dom, g)}) ELSE 0

Commands == {"force", "undefine", "forget"}

Plays == {"cluster", "qm", "dr", "svc"}

Job == [pc     : {"idle", "pin", "probe", "reserve", "phase", "boot", "play",
                  "refcount", "destroy", "release", "done"},
        verb   : {"bootstrap", "teardown", "commons up", "commons down"},
        stack  : Stacks,
        os     : Oses,
        live   : BOOLEAN,
        no_dr  : BOOLEAN,
        mode   : {"auto", "from", "only"},
        forced : BOOLEAN,
        phase  : 1..5,
        snap   : [Guests -> DomStates],
        todo   : SUBSET Guests,
        plays  : SUBSET Plays,
        plan   : SUBSET (Guests \X Commands),
        last   : BOOLEAN,
        skips  : BOOLEAN,      \* the probe found the provision phase satisfied
        fell   : SUBSET Guests]

Idle == [pc |-> "idle", verb |-> "bootstrap", stack |-> CHOOSE s \in Stacks : TRUE,
         os |-> DefaultOs, live |-> FALSE, no_dr |-> FALSE, mode |-> "auto",
         forced |-> FALSE, phase |-> 1, snap |-> [g \in Guests |-> "absent"],
         todo |-> {}, plays |-> {}, plan |-> {}, last |-> FALSE, skips |-> FALSE, fell |-> {}]

Update(o, j) == op' = [op EXCEPT ![o] = j]

Exit(o) == Update(o, Idle)

NewJob(o, j) ==
  /\ op[o].pc = "idle"
  /\ jobs < MaxJobs
  /\ jobs' = jobs + 1
  /\ Update(o, j)

(***************************************************************************)
(* A lab with no stack, except that the guests of a Legacy stack may exist *)
(* on some OS with their Vagrant metadata, and have no record.             *)
(***************************************************************************)
Init ==
  /\ \E os \in [Legacy -> Oses], st \in [Legacy -> {"absent", "off", "running"}] :
       LET Of(g) == CHOOSE s \in Legacy : g \in Members(s)
           Old(g) == \E s \in Legacy : g \in Members(s)
       IN /\ dom = [g \in Guests |-> IF Old(g) THEN st[Of(g)] ELSE "absent"]
          /\ image = [g \in Guests |-> IF dom[g] = "absent" THEN NoOs ELSE os[Of(g)]]
          /\ meta = [g \in Guests |-> IF Old(g) THEN os[Of(g)] ELSE NoOs]
  /\ rec = [s \in Stacks |-> NoOs]
  /\ netUp = FALSE
  /\ formed = {} /\ qm = {} /\ dr = {} /\ svc = {} /\ obs = {}
  /\ pages = Used
  /\ op = [o \in Ops |-> Idle]
  /\ jobs = 0 /\ stops = 0

-----------------------------------------------------------------------------
(***************************************************************************)
(* bootstrap <stack> [--config] [--no-dr] [--from|--only PHASE]            *)
(***************************************************************************)
Phases == 1..4   \* net, vms, provision, observe

(***************************************************************************)
(* The satisfied-probes of the four phases over one gathered snapshot.     *)
(* The probe of the vms phase asks for the DR guests too, also of a        *)
(* bootstrap that skips them.                                              *)
(***************************************************************************)
net_satisfied(states) == states.nets

\* Mutant: a guest that is defined counts as up.
vms_defined(s, states) == \A g \in all_vms(s, FALSE) : states.domains[g] # "absent"

vms_satisfied(s, states) == \A g \in all_vms(s, FALSE) : states.domains[g] = "running"

provision_satisfied(states) == states.qm_up

observe_satisfied(states) == states.observe

satisfied(p, s, states) ==
  CASE p = 1 -> net_satisfied(states)
    [] p = 2 -> vms_satisfied(s, states)
    [] p = 3 -> provision_satisfied(states)
    [] p = 4 -> observe_satisfied(states)

IsFirstUnsatisfied(p, s, states) ==
  /\ \A q \in Phases : q < p => satisfied(q, s, states)
  /\ p \in Phases => ~satisfied(p, s, states)

(***************************************************************************)
(* _reconcile_instance up to the call of reconcile: the record read once,  *)
(* the request resolved, liveness probed only when there is no record.     *)
(***************************************************************************)
BootstrapStart(o, s, config, no_dr, mode, phase) ==
  /\ no_dr => DrGuests[s] # {}
  /\ NewJob(o, [Idle EXCEPT
       !.pc = "pin", !.stack = s, !.no_dr = no_dr, !.mode = mode, !.phase = phase,
       !.os = IF config # NoOs THEN config
              ELSE IF rec[s] # NoOs THEN rec[s] ELSE DefaultOs,
       !.live = rec[s] = NoOs /\ AnyLive(dom, Members(s))])
  /\ UNCHANGED <<host, rec, provisioned, stops>>

(***************************************************************************)
(* instances.reconcile: the record is read again, checked and written.     *)
(***************************************************************************)
reconcile(o) ==
  LET s == op[o].stack IN
  /\ op[o].pc = "pin"
  /\ \/ /\ rec[s] = NoOs /\ ~op[o].live
        /\ rec' = [rec EXCEPT ![s] = op[o].os]
        /\ Update(o, [op[o] EXCEPT !.pc = "probe"])
     \/ /\ rec[s] = op[o].os
        /\ Update(o, [op[o] EXCEPT !.pc = "probe"])
        /\ UNCHANGED rec
     \/ /\ IF rec[s] = NoOs THEN op[o].live ELSE rec[s] # op[o].os
        /\ Exit(o)
        /\ UNCHANGED rec
  /\ UNCHANGED <<host, provisioned, jobs, stops>>

(***************************************************************************)
(* _prepare_lab, _probe_all and _select_phases.  qm_up is the exit code of *)
(* the stack's qm-status on a running guest: 0 as soon as there is a       *)
(* cluster or a queue manager to show, provisioned or not, running or not; *)
(* a Prometheus target may be found down.  Huge pages are reserved only    *)
(* when the vms phase is among the selected.                               *)
(***************************************************************************)
probe_all(o) ==
  LET s == op[o].stack IN
  /\ op[o].pc = "probe"
  /\ \E qm_up, observe \in BOOLEAN, p \in 1..5 :
       LET states == [nets |-> netUp, domains |-> dom, qm_up |-> qm_up, observe |-> observe]
           vms == IF op[o].mode = "only" THEN p = 2 ELSE p \leq 2
       IN /\ qm_up => s \in formed /\ \E g \in HaGuests[s] : dom[g] = "running"
          /\ observe => s \in obs /\ Running(ObsBox)
          /\ IF op[o].mode = "auto" THEN IsFirstUnsatisfied(p, s, states)
                                    ELSE p = op[o].phase
          /\ Update(o, [op[o] EXCEPT !.phase = p,
                                     !.fell = {}, !.skips = p > 3,
                                     !.snap = IF vms /\ Lever THEN dom ELSE op[o].snap,
                                     !.pc = IF p = 5 THEN "done"
                                            ELSE IF vms /\ Lever THEN "reserve" ELSE "phase"])
  /\ UNCHANGED <<host, rec, provisioned, jobs, stops>>

(***************************************************************************)
(* The pages the guests still to boot need, in units of a guest.           *)
(***************************************************************************)
\* Mutant: forgets the guests that are shut off.
needed_pages_absent(guests, states) ==
  Cardinality({g \in guests : states[g] = "absent"})

needed_pages(guests, states) == Cardinality({g \in guests : ~is_live(states, g)})

(***************************************************************************)
(* _reserve_hugepages and the reserve block of host-hugepages.yml, for the *)
(* guests `to_boot` not live in the states consulted: bootstrap consults   *)
(* its own earlier snapshot, commons up a fresh one.  The pool only grows; *)
(* when the kernel falls short the verb ends.                              *)
(***************************************************************************)
reserve_hugepages(o) ==
  LET guests == IF op[o].verb = "bootstrap" THEN all_vms(op[o].stack, op[o].no_dr)
                                            ELSE Commons
      states == IF op[o].verb = "bootstrap" THEN op[o].snap ELSE dom
      needed == needed_pages(guests, states)
  IN /\ op[o].pc = "reserve"
     /\ \/ /\ pages >= Used + needed
           /\ UNCHANGED pages
        \/ /\ pages < Used + needed
           /\ pages' = IF Used + needed \leq MaxPages THEN Used + needed
                       ELSE IF pages < MaxPages THEN MaxPages ELSE pages
     /\ IF pages' >= Used + needed
          THEN Update(o, [op[o] EXCEPT !.snap = Idle.snap,
                                       !.pc = IF op[o].verb = "bootstrap" THEN "phase"
                                              ELSE "boot"])
          ELSE Exit(o)
     /\ UNCHANGED <<dom, image, meta, netUp, rec, provisioned, jobs, stops>>

(***************************************************************************)
(* The end of a phase: on to the next one, unless --only was given.        *)
(***************************************************************************)
Advance(o, p) ==
  Update(o, [op[o] EXCEPT !.pc = IF p = 4 \/ op[o].mode = "only" THEN "done" ELSE "phase",
                          !.phase = p + 1])

AtPhase(o, p) ==
  /\ op[o].pc = "phase"
  /\ op[o].phase = p

net_phase(o) ==
  /\ AtPhase(o, 1)
  /\ netUp' = TRUE
  /\ Advance(o, 1)
  /\ UNCHANGED <<dom, image, meta, pages, rec, provisioned, jobs, stops>>

(***************************************************************************)
(* _ensure_boxes: forget the cached box of every guest that the resolved   *)
(* topology now puts on another one.                                       *)
(***************************************************************************)
\* Mutant: the cached box is trusted (#858).
keep_box_meta(o, guests) == UNCHANGED meta

reconcile_box_meta(o, guests) ==
  meta' = [g \in Guests |-> IF g \in guests /\ meta[g] # Box(o, g) THEN NoOs ELSE meta[g]]

vms_phase(o) ==
  /\ AtPhase(o, 2)
  /\ reconcile_box_meta(o, all_vms(op[o].stack, FALSE))
  /\ Update(o, [op[o] EXCEPT !.pc = "boot",
                             !.todo = all_vms(op[o].stack, op[o].no_dr)])
  /\ UNCHANGED <<dom, image, netUp, pages, rec, provisioned, jobs, stops>>

(***************************************************************************)
(* `vagrant up` of one guest of a batch: start the domain it knows, or     *)
(* create one from the cached box, else from the Vagrantfile's.  It cannot *)
(* succeed on a domain it has no metadata of, without the networks, or     *)
(* without a free page.                                                    *)
(***************************************************************************)
vagrant_up(o, g) ==
  /\ op[o].pc = "boot"
  /\ g \in op[o].todo
  /\ netUp
  /\ dom[g] # "absent" => meta[g] # NoOs
  /\ is_live(dom, g) \/ ~Lever \/ Used < pages
  /\ dom' = [dom EXCEPT ![g] = "running"]
  /\ meta' = [meta EXCEPT ![g] = IF @ = NoOs THEN Box(o, g) ELSE @]
  /\ image' = [image EXCEPT ![g] = IF dom[g] = "absent" THEN meta'[g] ELSE @]
  /\ Update(o, [op[o] EXCEPT !.todo = op[o].todo \ {g}])
  /\ UNCHANGED <<netUp, pages, rec, provisioned, jobs, stops>>

vms_done(o) ==
  /\ op[o].pc = "boot"
  /\ op[o].verb = "bootstrap"
  /\ op[o].todo = {}
  /\ Advance(o, 2)
  /\ UNCHANGED <<host, rec, provisioned, jobs, stops>>

(***************************************************************************)
(* The provision phase: NICs and DNS on every guest of the footprint, then *)
(* the stack's playbook.  Its parts are the cluster with its disks, always *)
(* first, the application queue manager, the DR replication (not under     *)
(* --no-dr) and the stack's SVC queue manager on the commons, which always *)
(* comes after the application's; where DR comes depends on the arm.       *)
(***************************************************************************)
provision_phase(o) ==
  /\ AtPhase(o, 3)
  /\ Running(all_vms(op[o].stack, op[o].no_dr))
  /\ Update(o, [op[o] EXCEPT !.pc = "play",
                             !.plays = IF op[o].no_dr THEN Plays \ {"dr"} ELSE Plays])
  /\ UNCHANGED <<host, rec, provisioned, jobs, stops>>

play(o, p) ==
  LET s == op[o].stack IN
  /\ op[o].pc = "play"
  /\ p \in op[o].plays
  /\ p # "cluster" => "cluster" \notin op[o].plays
  /\ p = "svc" => "qm" \notin op[o].plays
  /\ CASE p \in {"cluster", "qm"} -> Running(HaGuests[s])
       [] p = "dr" -> Running(Members(s))
       [] p = "svc" -> Running(SvcBox)
  /\ formed' = IF p = "cluster" THEN formed \cup {s} ELSE formed
  /\ qm' = IF p = "qm" THEN qm \cup {s} ELSE qm
  /\ dr' = IF p = "dr" THEN dr \cup {s} ELSE dr
  /\ svc' = IF p = "svc" THEN svc \cup {s} ELSE svc
  /\ Update(o, [op[o] EXCEPT !.plays = op[o].plays \ {p}])
  /\ UNCHANGED <<host, rec, obs, jobs, stops>>

provision_done(o) ==
  /\ op[o].pc = "play"
  /\ op[o].plays = {}
  /\ Advance(o, 3)
  /\ UNCHANGED <<host, rec, provisioned, jobs, stops>>

(***************************************************************************)
(* The observe phase: the exporters of this stack on the commons, then the *)
(* collectors on every guest of the footprint.                             *)
(***************************************************************************)
observe_phase(o) ==
  /\ AtPhase(o, 4)
  /\ Running(all_vms(op[o].stack, op[o].no_dr))
  /\ obs' = obs \cup {op[o].stack}
  /\ Advance(o, 4)
  /\ UNCHANGED <<host, rec, formed, qm, dr, svc, jobs, stops>>

-----------------------------------------------------------------------------
(***************************************************************************)
(* commons up: boxes, pages for the commons not live now, the obs guests,  *)
(* site-obs.yml with the exporters of every stack, then the other commons. *)
(***************************************************************************)
CommonsUpStart(o) ==
  /\ reconcile_box_meta(o, Commons)
  /\ NewJob(o, [Idle EXCEPT !.verb = "commons up", !.todo = ObsBox,
                            !.pc = IF Lever THEN "reserve" ELSE "boot"])
  /\ UNCHANGED <<dom, image, netUp, pages, rec, provisioned, stops>>

commons_provision(o) ==
  /\ op[o].pc = "boot" /\ op[o].verb = "commons up" /\ op[o].phase = 1
  /\ op[o].todo = {}
  /\ Running(ObsBox)
  /\ obs' = Stacks
  /\ Update(o, [op[o] EXCEPT !.phase = 2, !.todo = SvcBox])
  /\ UNCHANGED <<host, rec, formed, qm, dr, svc, jobs, stops>>

commons_done(o) ==
  /\ op[o].pc = "boot" /\ op[o].verb = "commons up" /\ op[o].phase = 2
  /\ op[o].todo = {}
  /\ Update(o, [op[o] EXCEPT !.pc = "done"])
  /\ UNCHANGED <<host, rec, provisioned, jobs, stops>>

-----------------------------------------------------------------------------
(***************************************************************************)
(* teardown <stack> [--commons] and commons down.                          *)
(***************************************************************************)
\* Mutant: a gone domain is left alone (#636).
plan_destroy_defined(guests, states) ==
  {<<g, "force">> : g \in {h \in guests : is_live(states, h)}}
    \cup {<<g, "undefine">> : g \in {h \in guests : states[h] # "absent"}}
    \cup {<<g, "forget">> : g \in {h \in guests : states[h] # "absent" /\ meta[h] # NoOs}}

plan_destroy(guests, states) ==
  {<<g, "force">> : g \in {h \in guests : is_live(states, h)}}
    \cup {<<g, "undefine">> : g \in {h \in guests : states[h] # "absent"}}
    \cup {<<g, "forget">> : g \in {h \in guests : meta[h] # NoOs}}

TeardownStart(o, s, commons) ==
  /\ NewJob(o, [Idle EXCEPT !.verb = "teardown", !.pc = "refcount", !.stack = s,
                            !.forced = commons, !.snap = dom,
                            !.plan = plan_destroy(Members(s), dom)])
  /\ UNCHANGED <<host, rec, provisioned, stops>>

(***************************************************************************)
(* The reference count, from a second probe, and the commons' part of the  *)
(* plan, from the first one.                                               *)
(***************************************************************************)
\* Mutant: a paused guest does not count.
other_stacks_running(s) ==
  \E t \in Stacks \ {s} : \E g \in Members(t) : dom[g] = "running"

other_stacks_up(s) == \E t \in Stacks \ {s} : AnyLive(dom, Members(t))

\* Mutant: the commons go with any stack.
refcount_ignored(o) ==
  /\ op[o].pc = "refcount"
  /\ Update(o, [op[o] EXCEPT !.pc = "destroy", !.last = ~op[o].forced, !.snap = Idle.snap,
                             !.plan = op[o].plan \cup plan_destroy(Commons, op[o].snap)])
  /\ UNCHANGED <<host, rec, provisioned, jobs, stops>>

refcount(o) ==
  LET last == (Lever \/ ~op[o].forced) /\ ~other_stacks_up(op[o].stack)
      more == IF op[o].forced \/ last THEN plan_destroy(Commons, op[o].snap) ELSE {}
  IN /\ op[o].pc = "refcount"
     /\ Update(o, [op[o] EXCEPT !.pc = "destroy", !.last = last, !.snap = Idle.snap,
                                !.plan = op[o].plan \cup more])
     /\ UNCHANGED <<host, rec, provisioned, jobs, stops>>

CommonsDownStart(o) ==
  /\ NewJob(o, [Idle EXCEPT !.verb = "commons down", !.pc = "destroy",
                            !.plan = plan_destroy(Commons, dom)])
  /\ UNCHANGED <<host, rec, provisioned, stops>>

(***************************************************************************)
(* One command of the plan: per guest in the order of Commands, the        *)
(* stack's own guests before the commons.  virsh destroy fails on a guest  *)
(* that has stopped, undefine on one that runs or is gone.                 *)
(***************************************************************************)
MayRun(o, g, c) ==
  /\ op[o].pc = "destroy"
  /\ <<g, c>> \in op[o].plan
  /\ c = "undefine" => <<g, "force">> \notin op[o].plan
  /\ c = "forget" => \A b \in Commands \ {c} : <<g, b>> \notin op[o].plan
  /\ g \in Commons => \A m \in Guests \ Commons, b \in Commands : <<m, b>> \notin op[o].plan
  /\ Update(o, [op[o] EXCEPT !.plan = op[o].plan \ {<<g, c>>}])

forceoff(o, g) ==
  /\ MayRun(o, g, "force")
  /\ is_live(dom, g)
  /\ dom' = [dom EXCEPT ![g] = "off"]
  /\ UNCHANGED <<image, meta, netUp, pages, rec, provisioned, jobs, stops>>

(***************************************************************************)
(* undefine --remove-all-storage: what was provisioned on the guest goes   *)
(* with its disk.                                                          *)
(***************************************************************************)
undefine(o, g) ==
  /\ MayRun(o, g, "undefine")
  /\ dom[g] = "off"
  /\ dom' = [dom EXCEPT ![g] = "absent"]
  /\ image' = [image EXCEPT ![g] = NoOs]
  /\ formed' = {s \in formed : g \notin HaGuests[s]}
  /\ qm' = {s \in qm : g \notin HaGuests[s]}
  /\ dr' = {s \in dr : g \notin Members(s)}
  /\ svc' = IF g \in SvcBox THEN {} ELSE svc
  /\ obs' = IF g \in ObsBox THEN {} ELSE obs
  /\ UNCHANGED <<meta, netUp, pages, rec, jobs, stops>>

forget_machine(o, g) ==
  /\ MayRun(o, g, "forget")
  /\ meta' = [meta EXCEPT ![g] = NoOs]
  /\ UNCHANGED <<dom, image, netUp, pages, rec, provisioned, jobs, stops>>

\* Mutant: the record goes before the guests.
delete_record_early(o) ==
  /\ op[o].pc = "destroy" /\ op[o].verb = "teardown"
  /\ rec' = [rec EXCEPT ![op[o].stack] = NoOs]
  /\ Update(o, [op[o] EXCEPT !.pc = IF Lever /\ op[o].last THEN "release" ELSE "done"])
  /\ UNCHANGED <<host, provisioned, jobs, stops>>

delete_record(o) ==
  /\ op[o].pc = "destroy" /\ op[o].verb = "teardown"
  /\ op[o].plan = {}
  /\ rec' = [rec EXCEPT ![op[o].stack] = NoOs]
  /\ Update(o, [op[o] EXCEPT !.pc = IF Lever /\ op[o].last THEN "release" ELSE "done"])
  /\ UNCHANGED <<host, provisioned, jobs, stops>>

commons_down_done(o) ==
  /\ op[o].pc = "destroy" /\ op[o].verb = "commons down"
  /\ op[o].plan = {}
  /\ Update(o, [op[o] EXCEPT !.pc = "done"])
  /\ UNCHANGED <<host, rec, provisioned, jobs, stops>>

(***************************************************************************)
(* vm.nr_hugepages=0: the kernel keeps the pages that are mapped, and then *)
(* the play fails.                                                         *)
(***************************************************************************)
release_hugepages(o) ==
  /\ op[o].pc = "release"
  /\ pages' = Used
  /\ IF Used = 0 THEN Update(o, [op[o] EXCEPT !.pc = "done"]) ELSE Exit(o)
  /\ UNCHANGED <<dom, image, meta, netUp, rec, provisioned, jobs, stops>>

-----------------------------------------------------------------------------
(***************************************************************************)
(* A verb ends: with exit 0, or because a step failed or it was killed.    *)
(***************************************************************************)
Done(o) ==
  /\ op[o].pc = "done"
  /\ Exit(o)
  /\ UNCHANGED <<host, rec, provisioned, jobs, stops>>

Abort(o) ==
  /\ op[o].pc \notin {"idle", "done"}
  /\ Exit(o)
  /\ UNCHANGED <<host, rec, provisioned, jobs, stops>>

(***************************************************************************)
(* What happens to the host beside the verbs.                              *)
(***************************************************************************)
Mishap == stops < MaxStops /\ stops' = stops + 1

Fell(g) ==
  op' = [o \in Ops |-> IF op[o].pc = "idle" THEN op[o]
                       ELSE [op[o] EXCEPT !.fell = @ \cup {g}]]

GuestStops(g) ==
  /\ Mishap
  /\ is_live(dom, g)
  /\ \/ dom' = [dom EXCEPT ![g] = "off"]
     \/ dom[g] = "running" /\ dom' = [dom EXCEPT ![g] = "paused"]
  /\ Fell(g)
  /\ UNCHANGED <<image, meta, netUp, pages, rec, provisioned, jobs>>

NetDown ==
  /\ Mishap
  /\ netUp
  /\ netUp' = FALSE
  /\ UNCHANGED <<dom, image, meta, pages, rec, provisioned, op, jobs>>

(***************************************************************************)
(* The host reboots: the networks start again by themselves, the guests do *)
(* not, and the reservation of pages, which is not persistent, is lost.    *)
(***************************************************************************)
HostReboot ==
  /\ Mishap
  /\ dom' = [g \in Guests |-> IF dom[g] = "absent" THEN "absent" ELSE "off"]
  /\ pages' = 0
  /\ op' = [o \in Ops |-> Idle]
  /\ UNCHANGED <<image, meta, netUp, rec, provisioned, jobs>>

Bootstrap(o) ==
  \/ \E s \in Stacks, config \in Oses \cup {NoOs}, no_dr \in BOOLEAN :
       \/ BootstrapStart(o, s, config, no_dr, "auto", 1)
       \/ \E mode \in {"from", "only"}, p \in Phases : BootstrapStart(o, s, config, no_dr, mode, p)
  \/ reconcile(o)
  \/ probe_all(o)
  \/ reserve_hugepages(o)
  \/ net_phase(o)
  \/ vms_phase(o)
  \/ \E g \in Guests : vagrant_up(o, g)
  \/ vms_done(o)
  \/ provision_phase(o)
  \/ \E p \in Plays : play(o, p)
  \/ provision_done(o)
  \/ observe_phase(o)

Teardown(o) ==
  \/ \E s \in Stacks, commons \in BOOLEAN : TeardownStart(o, s, commons)
  \/ refcount(o)
  \/ \E g \in Guests : forceoff(o, g) \/ undefine(o, g) \/ forget_machine(o, g)
  \/ delete_record(o)
  \/ release_hugepages(o)

CommonsVerbs(o) ==
  \/ CommonsUpStart(o)
  \/ commons_provision(o)
  \/ commons_done(o)
  \/ CommonsDownStart(o)
  \/ commons_down_done(o)

Next ==
  \/ \E o \in Ops : Bootstrap(o) \/ Teardown(o) \/ CommonsVerbs(o) \/ Done(o) \/ Abort(o)
  \/ \E g \in Guests : GuestStops(g)
  \/ NetDown
  \/ HostReboot

Spec == Init /\ [][Next]_vars

-----------------------------------------------------------------------------
TypeOK ==
  /\ dom \in [Guests -> DomStates]
  /\ image \in [Guests -> Oses \cup {NoOs}]
  /\ meta \in [Guests -> Oses \cup {NoOs}]
  /\ rec \in [Stacks -> Oses \cup {NoOs}]
  /\ netUp \in BOOLEAN
  /\ formed \subseteq Stacks /\ qm \subseteq Stacks /\ dr \subseteq Stacks /\ svc \subseteq Stacks /\ obs \subseteq Stacks
  /\ pages \in Nat
  /\ op \in [Ops -> Job]
  /\ jobs \in 0..MaxJobs /\ stops \in 0..MaxStops

(***************************************************************************)
(* The record pins the OS of a stack for its whole life (instances.py): a  *)
(* live guest of a recorded stack runs the recorded OS, whatever was built *)
(* before, whatever box Vagrant had cached and wherever verbs were cut.    *)
(***************************************************************************)
RecordPinsOS ==
  \A s \in Stacks : \A g \in Members(s) :
    is_live(dom, g) /\ rec[s] # NoOs => image[g] = rec[s]

(***************************************************************************)
(* A teardown that forgets the record leaves nothing of the stack behind:  *)
(* no domain, and no cached box that would shadow the next one's.          *)
(***************************************************************************)
TeardownClean ==
  \A o \in Ops : op[o].verb = "teardown" /\ op[o].pc \in {"release", "done"} =>
    \A g \in Members(op[o].stack) : dom[g] = "absent" /\ meta[g] = NoOs

(***************************************************************************)
(* A commons guest is destroyed only by request, or by the teardown of the *)
(* last stack that has a live guest, judged when the guest goes and not    *)
(* when the plan was made.                                                 *)
(***************************************************************************)
CommonsKept ==
  [][\A g \in Commons : dom[g] # "absent" /\ dom'[g] = "absent" =>
       \E o \in Ops : /\ op[o].pc = "destroy"
                       /\ \/ op[o].verb = "commons down"
                          \/ op[o].forced
                          \/ ~other_stacks_up(op[o].stack)]_vars

(***************************************************************************)
(* When teardown releases the huge pages no guest is left to hold one      *)
(* (the comment in _teardown_run: every lab guest is gone now).            *)
(***************************************************************************)
ReleaseSafe ==
  \A o \in Ops : op[o].pc = "release" => ~AnyLive(dom, Guests)

(***************************************************************************)
(* While guests boot there is a free page for every guest still to boot,   *)
(* provided none fell since the probe the reservation was sized from.      *)
(***************************************************************************)
Covered(guests) == Cardinality({g \in guests : ~is_live(dom, g)}) + Used \leq pages

PagesSuffice ==
  \A o \in Ops : Lever /\ op[o].pc = "boot" /\ op[o].fell = {} => Covered(op[o].todo)

(***************************************************************************)
(* A bootstrap that chose its phases itself and exits 0 leaves a stack     *)
(* whose guests run, except those that fell meanwhile, whose cluster is    *)
(* formed and whose exporters are set up.  Its queue manager is            *)
(* provisioned, unless the probe took an answer of qm-status for it and    *)
(* the provision phase was skipped.                                        *)
(***************************************************************************)
Finished(o) == op[o].pc = "done" /\ op[o].verb = "bootstrap" /\ op[o].mode = "auto"

BootstrapUp ==
  \A o \in Ops : Finished(o) =>
    /\ \A g \in all_vms(op[o].stack, op[o].no_dr) : dom[g] = "running" \/ g \in op[o].fell
    /\ op[o].stack \in formed /\ op[o].stack \in obs
    /\ op[o].stack \in qm \/ op[o].skips

(***************************************************************************)
(* "A re-run resumes from the first incomplete phase" (phases.py): so a    *)
(* bootstrap that exits 0 leaves the provision phase complete, with the    *)
(* application queue manager, the stack's DR replication, unless --no-dr,  *)
(* and its SVC queue manager.                                              *)
(***************************************************************************)
BootstrapWhole ==
  \A o \in Ops : Finished(o) =>
    /\ op[o].stack \in qm
    /\ op[o].no_dr \/ op[o].stack \in dr
    /\ op[o].stack \in svc

(***************************************************************************)
(* A short reservation fails the bootstrap up front, it is never found out *)
(* by a guest boot that fails in the middle.                               *)
(***************************************************************************)
NoShortBoot == \A o \in Ops : Lever /\ op[o].pc = "boot" => Covered(op[o].todo)

-----------------------------------------------------------------------------
(***************************************************************************)
(* The inductive invariant of a lab with one operator at a time.           *)
(***************************************************************************)
Bootstrapping(o, pcs) == op[o].verb = "bootstrap" /\ op[o].pc \in pcs

TearingDown(o, pcs) == op[o].verb = "teardown" /\ op[o].pc \in pcs

(***************************************************************************)
(* Which verb a step belongs to.                                           *)
(***************************************************************************)
VerbInv ==
  \A o \in Ops :
    /\ op[o].pc \in {"pin", "probe", "phase", "play"} => op[o].verb = "bootstrap"
    /\ op[o].pc \in {"reserve", "boot"} => op[o].verb \in {"bootstrap", "commons up"}
    /\ op[o].pc = "destroy" => op[o].verb \in {"teardown", "commons down"}
    /\ op[o].pc \in {"refcount", "release"} => op[o].verb = "teardown"
    /\ Bootstrapping(o, {"boot"}) => op[o].phase = 2
    /\ Bootstrapping(o, {"play"}) => op[o].phase = 3
    /\ op[o].pc \in {"reserve", "phase"} => op[o].phase \in Phases

(***************************************************************************)
(* A domain that Vagrant knows was built from the box Vagrant cached.      *)
(***************************************************************************)
BoxInv == \A g \in Guests : dom[g] # "absent" /\ meta[g] # NoOs => image[g] = meta[g]

(***************************************************************************)
(* What a bootstrap under way knows of the record and of the cached boxes. *)
(***************************************************************************)
RecordInv ==
  \A o \in Ops :
    /\ Bootstrapping(o, {"pin"}) /\ rec[op[o].stack] = NoOs /\ ~op[o].live =>
         ~AnyLive(dom, Members(op[o].stack))
    /\ Bootstrapping(o, {"probe", "reserve", "phase", "boot", "play"}) =>
         rec[op[o].stack] = op[o].os
    /\ Bootstrapping(o, {"boot"}) =>
         /\ op[o].todo \subseteq all_vms(op[o].stack, FALSE)
         /\ \A g \in Members(op[o].stack) : meta[g] \in {NoOs, op[o].os}
    /\ op[o].verb = "commons up" => op[o].todo \subseteq Commons

PinInv == TypeOK /\ VerbInv /\ BoxInv /\ RecordInv /\ RecordPinsOS

(***************************************************************************)
(* What the plan of a destroying verb still covers.                        *)
(***************************************************************************)
MembersPlanned(o) ==
  TearingDown(o, {"refcount", "destroy"}) =>
    \A g \in Members(op[o].stack) : /\ dom[g] # "absent" => <<g, "undefine">> \in op[o].plan
                                    /\ meta[g] # NoOs => <<g, "forget">> \in op[o].plan

CommonsAside(o) ==
  TearingDown(o, {"refcount"}) =>
    /\ \A g \in Commons : dom[g] # "absent" => op[o].snap[g] # "absent"
    /\ \A g \in Commons, c \in Commands : <<g, c>> \notin op[o].plan

CommonsPlanned(o) ==
  TearingDown(o, {"destroy"}) =>
    /\ (\E g \in Commons, c \in Commands : <<g, c>> \in op[o].plan) => op[o].forced \/ op[o].last
    /\ op[o].last => \A g \in Commons : dom[g] # "absent" => <<g, "undefine">> \in op[o].plan

CommonsGone(o) ==
  TearingDown(o, {"release"}) => op[o].last /\ \A g \in Commons : dom[g] = "absent"

LastStack(o) ==
  TearingDown(o, {"destroy", "release"}) /\ op[o].last => ~other_stacks_up(op[o].stack)

PlanInv ==
  \A o \in Ops :
    MembersPlanned(o) /\ CommonsAside(o) /\ CommonsPlanned(o) /\ CommonsGone(o) /\ LastStack(o)

(***************************************************************************)
(* What a bootstrap that chose its own phases has behind it.               *)
(***************************************************************************)
Up(o, g) == dom[g] = "running" \/ g \in op[o].fell

VmsReached(o) ==
  /\ Bootstrapping(o, {"boot"}) =>
       \A g \in all_vms(op[o].stack, op[o].no_dr) : Up(o, g) \/ g \in op[o].todo
  /\ Bootstrapping(o, {"phase", "play"}) /\ op[o].phase > 2 =>
       \A g \in all_vms(op[o].stack, op[o].no_dr) : Up(o, g)

QmReached(o) ==
  /\ Bootstrapping(o, {"play"}) =>
       /\ "cluster" \in op[o].plays \/ op[o].stack \in formed
       /\ "qm" \in op[o].plays \/ op[o].stack \in qm
  /\ Bootstrapping(o, {"phase"}) /\ op[o].phase > 3 =>
       op[o].stack \in formed /\ (op[o].stack \in qm \/ op[o].skips)

ProgressInv ==
  \A o \in Ops : op[o].mode = "auto" =>
    /\ VmsReached(o) /\ QmReached(o)
    /\ Bootstrapping(o, {"reserve"}) => op[o].phase \in {1, 2}

(***************************************************************************)
(* What the reservation of a verb covers, as long as no guest fell since   *)
(* the probe it was sized from: every guest of the boots to come.          *)
(***************************************************************************)
VmsAhead(o) == op[o].phase = 2 \/ (op[o].phase = 1 /\ op[o].mode # "only")

BootstrapCovered(o) ==
  /\ Bootstrapping(o, {"reserve"}) => op[o].snap = dom
  /\ Bootstrapping(o, {"phase"}) /\ VmsAhead(o) => Covered(all_vms(op[o].stack, op[o].no_dr))

CommonsCovered(o) ==
  op[o].verb = "commons up" =>
    /\ op[o].pc = "reserve" => op[o].phase = 1 /\ op[o].todo = ObsBox
    /\ op[o].pc = "boot" /\ op[o].phase = 1 => Covered(op[o].todo \cup SvcBox)

PagesInv ==
  \A o \in Ops : Lever /\ op[o].fell = {} => BootstrapCovered(o) /\ CommonsCovered(o)

LifecycleInv ==
  /\ PinInv /\ PlanInv /\ ProgressInv /\ PagesInv
  /\ TeardownClean /\ PagesSuffice /\ BootstrapUp
=============================================================================
