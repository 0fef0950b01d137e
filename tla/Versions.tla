------------------------------ MODULE Versions ------------------------------
(***************************************************************************)
(* The version layer: the catalog lab/versions.yaml that people edit, the  *)
(* OS a bootstrap resolves and pins in the stack's instance record, the    *)
(* resolved topology every verb renders for all nodes at once, the boxes   *)
(* it registers and the guests Vagrant boots from the rendered file        *)
(* (versions.py, platforms.py, hostfacts.py, with their callers in cli.py  *)
(* and box.py).                                                            *)
(*                                                                         *)
(* Verbs run in terminals, step by step, beside the edits; a verb that is  *)
(* refused, fails or is killed ends where it stands: Abort.  A stack       *)
(* stands for its nodes; the shared nodes are one that runs no MQ and one  *)
(* that does.                                                              *)
(***************************************************************************)
EXTENDS Naturals

CONSTANTS
    Terminals,
    Stacks,
    Refs,         \* the OS references in use, <family>:<major>
    FamilyOf,     \* reference -> its family
    Pin,          \* reference -> the arch its entry pins, or AnyArch
    NeedsV3,      \* references whose entry requires x86-64-v3
    OsFamily,     \* stack -> the os_family the topology declares
    Catalog0,     \* the catalog as committed
    Legacy,       \* stacks that run since before records existed
    MaxEdits, MaxVerbs

AnyArch == "any"
NoRef == "none"
Infra == "infra"
InfraMq == "infra_mq"
Shared == {Infra, InfraMq}
Nodes == Stacks \cup Shared
Archs == {"aarch64", "x86_64"}

\* The committed catalog pins an arch on RHEL entries only; an Ubuntu entry
\* tracks the host, on which the shared nodes rely.
UbuntuTracksHost == \A r \in Refs : FamilyOf[r] = "ubuntu" => Pin[r] = AnyArch

OneOperator == \A t, u \in Terminals : t = u

VARIABLES
    host,        \* HostFacts
    catalog,     \* what lab/versions.yaml says
    rec,         \* stack -> the OS in its instance record
    resolved,    \* the rendered topology: node -> its OS and driver
    registered,  \* boxes registered with Vagrant: <<node, OS>>
    guests,      \* node -> the OS and driver it was booted with
    job,         \* terminal -> the verb running in it
    crashed,     \* verbs that died before they began
    edits, verbs
vars == <<host, catalog, rec, resolved, registered, guests, job, crashed, edits, verbs>>

NoGuest == [os |-> NoRef, driver |-> "none"]
NoFile == [n \in Nodes |-> NoGuest]
Verbs == {"bootstrap", "commons up", "teardown", "box gc"}
Idle == [pc |-> "idle", verb |-> "bootstrap", stack |-> CHOOSE s \in Stacks : TRUE,
         build |-> NoRef, fleet |-> {}, held |-> NoFile]
Pcs == {"idle", "start", "render", "write", "ensure", "up", "forget"}

-----------------------------------------------------------------------------
(***************************************************************************)
(* The host (from_raw): x86-64-v3 counts only with usable KVM, since the   *)
(* emulated CPU was never measured.                                        *)
(***************************************************************************)
from_raw(arch, kvm, missing) ==
    [arch |-> arch, kvm |-> kvm, missing |-> missing,
     v3 |-> arch = "x86_64" /\ kvm /\ ~missing]

Hosts == {from_raw("aarch64", k, FALSE) : k \in BOOLEAN} \cup
         {from_raw("x86_64", k, x) : k \in BOOLEAN, x \in BOOLEAN}

arch_ok(r, facts) == Pin[r] \in {AnyArch, facts.arch}

host_can_run(r, facts) == arch_ok(r, facts) /\ (r \in NeedsV3 => facts.v3)

(***************************************************************************)
(* load_catalog: the file is read and checked as a whole, or refused.      *)
(***************************************************************************)
Entries == {e \in [listed : BOOLEAN, unsupported : BOOLEAN, decision : BOOLEAN] :
               e.unsupported \/ e.decision => e.listed}
Catalogs == [wellformed : BOOLEAN, pins : BOOLEAN, os : [Refs -> Entries], infra : Refs, infra_mq : Refs,
             stacks : [Stacks -> [supported : SUBSET Refs, default : Refs]]]

VersionsAssumption ==
    /\ FamilyOf \in [Refs -> {"ubuntu", "rhel"}]
    /\ Pin \in [Refs -> Archs \cup {AnyArch}] /\ UbuntuTracksHost
    /\ NeedsV3 \subseteq Refs /\ Legacy \subseteq Stacks
    /\ NoRef \notin Refs /\ Stacks \cap Shared = {} /\ Stacks # {}
    /\ Catalog0 \in Catalogs
    /\ MaxEdits \in Nat /\ MaxVerbs \in Nat

\* The roles with their bakes and components, and the pinned runtime, are in order.
pins_ok(c) == c.pins

known(c, r) == c.os[r].listed

\* A decision belongs only on an entry IBM does not support.
os_entry(c, r) == c.os[r].decision => c.os[r].unsupported

gate_default(c, r) == c.os[r].unsupported => c.os[r].decision

stack_valid(c, s) ==
    LET spec == c.stacks[s] IN
    /\ spec.supported # {}
    /\ \A r \in spec.supported : known(c, r)
    /\ \A r, q \in spec.supported : FamilyOf[r] = FamilyOf[q]
    /\ spec.default \in spec.supported
    /\ gate_default(c, spec.default)

\* The shared roles are baked on Ubuntu only.
shared_os(c, n) == IF n = InfraMq THEN c.infra_mq ELSE c.infra

load_catalog(c) ==
    /\ c.wellformed
    /\ pins_ok(c)
    /\ \A r \in Refs : os_entry(c, r)
    /\ \A n \in Shared : known(c, shared_os(c, n)) /\ FamilyOf[shared_os(c, n)] = "ubuntu"
    /\ gate_default(c, c.infra_mq)
    /\ \A s \in Stacks : stack_valid(c, s)

(***************************************************************************)
(* The OS a request resolves to (Catalog.stack_os): the build file's, else *)
(* the default; the family, the supported list, then what the host can do. *)
(***************************************************************************)
requested(c, s, build) == IF build # NoRef THEN build ELSE c.stacks[s].default

stack_os(c, s, build, facts) ==
    LET ref == requested(c, s, build) IN
    /\ FamilyOf[ref] = FamilyOf[c.stacks[s].default]
    /\ ref \in c.stacks[s].supported
    /\ arch_ok(ref, facts)
    /\ ref \in NeedsV3 => facts.v3

\* Every box the catalog resolves on the hosts given, {} for any host at all.
all_boxes(c, facts) ==
    {<<n, shared_os(c, n)>> : n \in Shared} \cup
    {b \in Stacks \X Refs : /\ b[2] \in c.stacks[b[1]].supported
                            /\ facts = {} \/ \E f \in facts : host_can_run(b[2], f)}

(***************************************************************************)
(* The selection of every node (node_boxes) and its provider (resolve).    *)
(***************************************************************************)
\* Mutant: the default, whatever is recorded.
stack_default(c, s) == c.stacks[s].default

stack_ref(c, s) == IF rec[s] # NoRef THEN rec[s] ELSE c.stacks[s].default

node_boxes(c) == [n \in Nodes |-> IF n \in Shared THEN shared_os(c, n) ELSE stack_ref(c, n)]

node_boxes_ok(c) ==
    \A s \in Stacks : known(c, stack_ref(c, s)) /\ FamilyOf[stack_ref(c, s)] = OsFamily[s]

box_build_arch(r, facts) == IF Pin[r] = AnyArch THEN facts.arch ELSE Pin[r]

provider(r, facts) ==
    [os |-> r,
     driver |-> IF box_build_arch(r, facts) = facts.arch /\ facts.kvm THEN "kvm" ELSE "qemu"]

\* ARM is never emulated on x86.
provider_ok(r, facts) == ~(box_build_arch(r, facts) = "aarch64" /\ facts.arch = "x86_64")

require_native_kvm(facts) == facts.kvm

-----------------------------------------------------------------------------
(***************************************************************************)
(* The records are empty; a Legacy stack may run, on an OS its host can.   *)
(***************************************************************************)
Init ==
    /\ host \in Hosts
    /\ catalog = Catalog0
    /\ rec = [s \in Stacks |-> NoRef]
    /\ resolved = NoFile
    /\ guests \in {g \in [Nodes -> {NoGuest} \cup [os : Refs, driver : {"kvm"}]] :
                      \A n \in Nodes : g[n] # NoGuest =>
                         /\ n \in Legacy /\ host.kvm
                         /\ FamilyOf[g[n].os] = OsFamily[n] /\ host_can_run(g[n].os, host)}
    /\ registered = {b \in Nodes \X Refs : guests[b[1]].os = b[2]}
    /\ job = [t \in Terminals |-> Idle]
    /\ crashed = {} /\ edits = 0 /\ verbs = 0

\* Someone saves one change to lab/versions.yaml.
Changes(c) ==
    {[c EXCEPT !.os[r] = e] : r \in Refs, e \in Entries} \cup
    {[c EXCEPT !.infra = r] : r \in Refs} \cup {[c EXCEPT !.infra_mq = r] : r \in Refs} \cup
    {[c EXCEPT !.stacks[s].default = r] : s \in Stacks, r \in Refs} \cup
    {[c EXCEPT !.stacks[s].supported = S] : s \in Stacks, S \in SUBSET Refs} \cup
    {[c EXCEPT !.wellformed = ~@], [c EXCEPT !.pins = ~@]}

Edit ==
    /\ edits < MaxEdits
    /\ edits' = edits + 1
    /\ catalog' \in Changes(catalog) \ {catalog}
    /\ UNCHANGED <<host, rec, resolved, registered, guests, job, crashed, verbs>>

Step(t, pc) == job' = [job EXCEPT ![t].pc = pc]
Exit(t) == job' = [job EXCEPT ![t] = Idle]

(***************************************************************************)
(* The start of a process: importing mqlab.box derives the fleet from the  *)
(* catalog, and dies with it.                                              *)
(***************************************************************************)
Import(t, verb, s, build) ==
    /\ job[t].pc = "idle"
    /\ verbs < MaxVerbs /\ verbs' = verbs + 1
    /\ IF load_catalog(catalog)
         THEN /\ job' = [job EXCEPT ![t] =
                    [Idle EXCEPT !.pc = IF verb = "commons up" THEN "render" ELSE "start",
                                 !.verb = verb, !.stack = s, !.build = build,
                                 !.fleet = all_boxes(catalog, {host})]]
              /\ UNCHANGED crashed
         ELSE crashed' = crashed \cup {verb} /\ UNCHANGED job
    /\ UNCHANGED <<host, catalog, rec, resolved, registered, guests, edits>>

(***************************************************************************)
(* _gate_stack_host_arch and _reconcile_instance: the request is resolved  *)
(* and pinned before anything is rendered.                                 *)
(***************************************************************************)
Reconcile(t) ==
    LET s == job[t].stack
        build == IF job[t].build # NoRef THEN job[t].build ELSE rec[s]
    IN /\ job[t].pc = "start" /\ job[t].verb = "bootstrap"
       /\ ~(OsFamily[s] = "rhel" /\ host.arch = "aarch64")
       /\ load_catalog(catalog)
       /\ stack_os(catalog, s, build, host)
       /\ rec[s] = NoRef => guests[s] = NoGuest
       /\ rec[s] \in {NoRef, requested(catalog, s, build)}
       /\ rec' = [rec EXCEPT ![s] = requested(catalog, s, build)]
       /\ Step(t, "render")
       /\ UNCHANGED <<host, catalog, resolved, registered, guests, crashed, edits, verbs>>

\* ensure_resolved computes the whole rendering, from the catalog and every record, ...
Resolve(t) ==
    /\ job[t].pc = "render"
    /\ require_native_kvm(host)
    /\ load_catalog(catalog)
    /\ node_boxes_ok(catalog)
    /\ \A n \in Nodes : provider_ok(node_boxes(catalog)[n], host)
    /\ job' = [job EXCEPT ![t].pc = "write",
                          ![t].held = [n \in Nodes |-> provider(node_boxes(catalog)[n], host)]]
    /\ UNCHANGED <<host, catalog, rec, resolved, registered, guests, crashed, edits, verbs>>

\* ... and then writes the file all terminals share.
WriteResolved(t) ==
    /\ job[t].pc = "write"
    /\ resolved' = job[t].held
    /\ job' = [job EXCEPT ![t].pc = "ensure", ![t].held = NoFile]
    /\ UNCHANGED <<host, catalog, rec, registered, guests, crashed, edits, verbs>>

Footprint(t) == Shared \cup (IF job[t].verb = "bootstrap" THEN {job[t].stack} ELSE {})

\* _ensure_local_boxes: those of the process's fleet that the rendered file names.
EnsureBoxes(t) ==
    /\ job[t].pc = "ensure"
    /\ registered' = registered \cup
          (job[t].fleet \cap {<<n, resolved[n].os>> : n \in Footprint(t)})
    /\ Step(t, "up")
    /\ UNCHANGED <<host, catalog, rec, resolved, guests, crashed, edits, verbs>>

\* `vagrant up` reads the rendered file; a guest that exists keeps its disk.
VagrantUp(t) ==
    LET boots == {n \in Footprint(t) : guests[n] = NoGuest} IN
    /\ job[t].pc = "up"
    /\ \A n \in boots : <<n, resolved[n].os>> \in registered
    /\ guests' = [n \in Nodes |-> IF n \in boots THEN resolved[n] ELSE guests[n]]
    /\ Exit(t)
    /\ UNCHANGED <<host, catalog, rec, resolved, registered, crashed, edits, verbs>>

\* teardown: the domains by name, the commons with the last stack; then the record.
Destroy(t) ==
    LET s == job[t].stack
        last == \A q \in Stacks \ {s} : guests[q] = NoGuest
    IN /\ job[t].pc = "start" /\ job[t].verb = "teardown"
       /\ guests' = [n \in Nodes |-> IF n = s \/ (n \in Shared /\ last) THEN NoGuest ELSE guests[n]]
       /\ Step(t, "forget")
       /\ UNCHANGED <<host, catalog, rec, resolved, registered, crashed, edits, verbs>>

DeleteRecord(t) ==
    /\ job[t].pc = "forget"
    /\ rec' = [rec EXCEPT ![job[t].stack] = NoRef]
    /\ Exit(t)
    /\ UNCHANGED <<host, catalog, resolved, registered, guests, crashed, edits, verbs>>

\* `box gc --unreferenced`: what the catalog does not resolve and no disk backs onto.
CleanUnreferenced(t) ==
    /\ job[t].pc = "start" /\ job[t].verb = "box gc"
    /\ load_catalog(catalog)
    /\ registered' = {b \in registered : \/ b \in all_boxes(catalog, {}) \cup job[t].fleet
                                         \/ guests[b[1]].os = b[2]}
    /\ Exit(t)
    /\ UNCHANGED <<host, catalog, rec, resolved, guests, crashed, edits, verbs>>

Abort(t) ==
    /\ job[t].pc # "idle"
    /\ Exit(t)
    /\ UNCHANGED <<host, catalog, rec, resolved, registered, guests, crashed, edits, verbs>>

Next ==
    \/ Edit
    \/ \E t \in Terminals, s \in Stacks, r \in Refs \cup {NoRef} : Import(t, "bootstrap", s, r)
    \/ \E t \in Terminals : Import(t, "commons up", Idle.stack, NoRef)
    \/ \E t \in Terminals, s \in Stacks : Import(t, "teardown", s, NoRef)
    \/ \E t \in Terminals : Import(t, "box gc", Idle.stack, NoRef)
    \/ \E t \in Terminals : Reconcile(t)
    \/ \E t \in Terminals : Resolve(t)
    \/ \E t \in Terminals : WriteResolved(t)
    \/ \E t \in Terminals : EnsureBoxes(t)
    \/ \E t \in Terminals : VagrantUp(t)
    \/ \E t \in Terminals : Destroy(t)
    \/ \E t \in Terminals : DeleteRecord(t)
    \/ \E t \in Terminals : CleanUnreferenced(t)
    \/ \E t \in Terminals : Abort(t)

Spec == Init /\ [][Next]_vars

-----------------------------------------------------------------------------
Files == [Nodes -> [os : Refs \cup {NoRef}, driver : {"none", "kvm", "qemu"}]]
Jobs == [pc : Pcs, verb : Verbs, stack : Stacks, build : Refs \cup {NoRef},
         fleet : SUBSET (Nodes \X Refs), held : Files]

TypeOK ==
    /\ host \in Hosts
    /\ catalog \in Catalogs
    /\ rec \in [Stacks -> Refs \cup {NoRef}]
    /\ resolved \in Files /\ guests \in Files
    /\ registered \subseteq Nodes \X Refs
    /\ job \in [Terminals -> Jobs]
    /\ crashed \subseteq Verbs /\ edits \in 0..MaxEdits /\ verbs \in 0..MaxVerbs

(* instances.py: the record is written before the render, so Vagrant sees
   the selected boxes from the first `vagrant up`: a recorded stack runs the
   OS its record names, whatever the catalog became in between. *)
RunsWhatIsRecorded ==
    \A s \in Stacks : guests[s] # NoGuest /\ rec[s] # NoRef => guests[s].os = rec[s]

(* A running stack's nodes are rendered from its record, not from a default
   that moved under it: no verb, of any stack, re-renders them on another OS. *)
PinnedForLife ==
    \A s \in Stacks : guests[s] # NoGuest /\ rec[s] # NoRef /\ resolved # NoFile
                         => resolved[s].os = guests[s].os

(* Nothing boots that the host cannot run: the arch pin and x86-64-v3 are
   gated when the stack is brought up although the render has no host gate. *)
HostCanRun ==
    \A s \in Stacks : guests[s] # NoGuest =>
        /\ arch_ok(guests[s].os, host)
        /\ guests[s].os \in NeedsV3 => host.arch = "x86_64" /\ ~host.missing

(* mqlab never runs a guest under TCG: foreign stacks are refused and a host
   without KVM renders nothing. *)
NeverEmulated == \A n \in Nodes : guests[n].driver # "qemu"

VersionsSound == RunsWhatIsRecorded /\ PinnedForLife /\ HostCanRun /\ NeverEmulated

(***************************************************************************)
(* With one operator, the strengthening that is inductive: what is recorded*)
(* passed the host's gates; a bootstrap has its record before it renders;  *)
(* and from its render to its boot, the file it holds and then the file    *)
(* that is read name every record's OS and nothing that is emulated.       *)
(***************************************************************************)
RecordInv == \A s \in Stacks : rec[s] # NoRef => host_can_run(rec[s], host)

Rendered(f) ==
    /\ \A s \in Stacks : rec[s] # NoRef => f[s].os = rec[s] /\ f[s].driver = "kvm"
    /\ \A n \in Shared : f[n].driver = "kvm"

RenderInv ==
    \A t \in Terminals :
        /\ job[t].verb = "bootstrap" /\ job[t].pc \in {"render", "write", "ensure", "up"}
             => rec[job[t].stack] # NoRef
        /\ job[t].pc = "write" => Rendered(job[t].held)
        /\ job[t].pc \in {"ensure", "up"} => Rendered(resolved)

VersionsInv == TypeOK /\ RecordInv /\ RenderInv /\ VersionsSound

(* An OS IBM does not support is pinned only when a build file or the record
   asks for it, or when the catalog records the decision (#1285). *)
UnsupportedByChoiceStep ==
  \A t \in Terminals :
      rec' # rec /\ job[t].pc = "start" /\ job'[t].pc = "render" /\ job[t].build = NoRef
        => LET e == catalog.os[rec'[job[t].stack]] IN e.unsupported => e.decision
UnsupportedByChoice == [][UnsupportedByChoiceStep]_vars

(* `box gc --unreferenced` keeps every box a bootstrap on this host could
   still be granted, on its default or through a build file. *)
GcKeepsGrantableStep ==
  \A b \in registered \ registered' : \A r \in Refs \cup {NoRef} :
      b[1] \in Stacks /\ stack_os(catalog, b[1], r, host) => requested(catalog, b[1], r) # b[2]
GcKeepsGrantable == [][GcKeepsGrantableStep]_vars

(* Claimed, and not kept by the code.  instances.py:162-163: "the lab never
   falls back to the stack default for a running instance (after a default
   flip that would mislabel it)". *)
NeverMislabelled ==
    \A s \in Stacks : guests[s] # NoGuest /\ resolved # NoFile => resolved[s].os = guests[s].os

(* Claimed, and not kept by the code.  box.py:1204-1205: what the collection
   protects is every box name a current selection can resolve to, so the box
   of a recorded stack. *)
RecordedProtected ==
    [][\A s \in Stacks : rec[s] # NoRef /\ rec'[s] = rec[s] /\ <<s, rec[s]>> \in registered
                            => <<s, rec[s]>> \in registered']_vars

(* Claimed, and not kept by the code.  instances.py:12-13: teardown "destroys
   domains by name, needs no version": no state of the catalog can keep it
   from starting. *)
TeardownNeedsNoVersion == "teardown" \notin crashed
=============================================================================
