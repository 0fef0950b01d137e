------------------------------ MODULE BoxPool ------------------------------
(***************************************************************************)
(* The baked boxes of a host: the durable cache of box artifacts, their    *)
(* registrations with Vagrant, the base images vagrant-libvirt uploads     *)
(* into the pool, and the guests whose disks are overlays on them.         *)
(*                                                                         *)
(* One operator runs the box verbs (build, rebuild, clean, gc), each a     *)
(* sequence of steps that may be killed, a bake while it writes the cached *)
(* artifact too; guests are brought up and torn                            *)
(* down from other terminals meanwhile.  An image is a box with the        *)
(* modification time of the registered file it was uploaded from.          *)
(***************************************************************************)
EXTENDS Naturals, FiniteSets

CONSTANTS
    Base,        \* the locally built base box
    Fat,         \* generated fat boxes, baked on Base
    Retired,     \* retired box names
    Guests,
    MaxClock,    \* bound on bakes and registrations
    MaxEdits     \* bound on recipe changes and re-pins

BoxesAssumption ==
    /\ Base \notin Fat /\ Base \notin Retired /\ Fat \cap Retired = {}
    /\ MaxClock \in Nat /\ MaxEdits \in Nat

VARIABLES
    manifest,    \* the manifest hash the recipes give now
    edits, clock,
    resolvable,  \* boxes a catalog selection resolves to
    assign,      \* the box the resolved topology gives each guest
    cache,       \* box -> its cached artifact: hash file, mtime (0 if none) and content
    reg,         \* box -> its registration: mtime of box.img (0 none), stamp, content
    images,      \* base images in the pool
    disk,        \* guest -> the image its live overlay backs onto
    meta,        \* guest -> the box name in Vagrant's box_meta
    bring,       \* guest -> its bring-up: none, past its box ensure, or the image it resolved
    late,        \* guests whose disk was created after the running collection listed the pool
    op,          \* the running box verb
    built        \* boxes built since they were last cleaned
vars == <<manifest, edits, clock, resolvable, assign, cache, reg, images, disk, meta, bring, late, op, built>>
lab == <<disk, meta, bring, late, assign>>

Boxes == {Base} \cup Fat \cup Retired
NoBox == "none"
NoImage == <<NoBox, 0>>
Ensured == <<"ensured", 0>>
(* recipe: the manifest its content was baked from, 0 while it is torn; cut: no
   bake of it got past its tar and its hash since.  The code sees neither. *)
NoCache == [hash |-> 0, mtime |-> 0, recipe |-> 0, cut |-> FALSE]
NoReg == [mtime |-> 0, stamp |-> NoCache, from |-> NoCache]
Idle == [pc |-> "idle", box |-> NoBox, force |-> FALSE, dead |-> {}, current |-> {},
         names |-> {}, in_use |-> {}]

(* A lab built before the box rename: the base box cached and registered, the
   retired box registered, its image in the pool and a guest running on it; or
   a fresh host. *)
Init ==
    /\ manifest = 1 /\ edits = 0 /\ clock = 1
    /\ resolvable = Fat \cup {Base}
    /\ assign \in [Guests -> Fat]
    /\ \E old \in BOOLEAN, g \in Guests, r \in Retired :
          LET was == [hash |-> 0, mtime |-> 1, recipe |-> 1, cut |-> FALSE] IN
          /\ cache = [b \in Boxes |-> IF old /\ b = Base THEN was ELSE NoCache]
          /\ reg = [b \in Boxes |-> IF old /\ b \in {Base, r} THEN [mtime |-> 1, stamp |-> was, from |-> was] ELSE NoReg]
          /\ images = IF old THEN {<<r, 1>>} ELSE {}
          /\ disk = [h \in Guests |-> IF old /\ h = g THEN <<r, 1>> ELSE NoImage]
          /\ meta = [h \in Guests |-> IF old /\ h = g THEN r ELSE NoBox]
    /\ bring = [g \in Guests |-> NoImage]
    /\ late = {} /\ op = Idle /\ built = {}

----------------------------------------------------------------------------
(* The environment *)

(* A committed recipe or pin change, also back to an earlier one, and a topology
   or catalog re-pin, are made between runs. *)
Quiet == op.pc = "idle" /\ \A g \in Guests : bring[g] = NoImage
Edit ==
    /\ Quiet /\ edits < MaxEdits
    /\ manifest' \in (1..MaxEdits + 1) \ {manifest} /\ edits' = edits + 1
    /\ UNCHANGED <<clock, resolvable, cache, reg, images, op, built, lab>>
Repoint ==
    /\ Quiet /\ edits < MaxEdits /\ edits' = edits + 1
    /\ \E g \in Guests, b \in Fat \cap resolvable : b # assign[g] /\ assign' = [assign EXCEPT ![g] = b]
    /\ UNCHANGED <<manifest, clock, resolvable, cache, reg, images, disk, meta, bring, late, op, built>>
Repin ==
    /\ Quiet /\ edits < MaxEdits /\ edits' = edits + 1
    /\ \E b \in Fat \cap resolvable :
          (\A g \in Guests : assign[g] # b) /\ resolvable' = resolvable \ {b}
    /\ UNCHANGED <<manifest, clock, cache, reg, images, op, built, lab>>

(* box_meta after _reconcile_box_meta: forgotten when it names a retired box
   or another box than the resolved topology. *)
Forget(g) ==
    IF meta[g] \in Retired \/ (meta[g] # NoBox /\ meta[g] # assign[g])
    THEN [meta EXCEPT ![g] = NoBox] ELSE meta

(* A bring-up's box ensure, seen from the guest: stale metadata is forgotten
   and its box is registered (_ensure_boxes, then vagrant up). *)
EnsureBoxes(g) ==
    /\ bring[g] = NoImage /\ disk[g] = NoImage /\ reg[assign[g]] # NoReg
    /\ bring' = [bring EXCEPT ![g] = Ensured]
    /\ meta' = Forget(g)
    /\ UNCHANGED <<manifest, edits, clock, resolvable, assign, cache, reg, images, disk, late, op, built>>

(* vagrant up of a guest without a domain: Vagrant honours box_meta over the
   Vagrantfile and uploads the image its registration names if the pool lacks
   it.  A box that is gone fails the boot. *)
Upload(g) ==
    LET b == IF meta[g] # NoBox THEN meta[g] ELSE assign[g] IN
    /\ bring[g] = Ensured
    /\ IF reg[b] = NoReg THEN bring' = [bring EXCEPT ![g] = NoImage] /\ UNCHANGED <<images, meta>>
       ELSE /\ images' = images \cup {<<b, reg[b].mtime>>}
            /\ bring' = [bring EXCEPT ![g] = <<b, reg[b].mtime>>]
            /\ meta' = [meta EXCEPT ![g] = b]
    /\ UNCHANGED <<manifest, edits, clock, resolvable, assign, cache, reg, disk, late, op, built>>

(* ...then creates the overlay on it, which fails if the image is gone. *)
CreateDomain(g) ==
    /\ bring[g] \notin {NoImage, Ensured}
    /\ bring' = [bring EXCEPT ![g] = NoImage]
    /\ disk' = IF bring[g] \in images THEN [disk EXCEPT ![g] = bring[g]] ELSE disk
    /\ late' = IF op.pc \in {"scan", "delete"} THEN late \cup {g} ELSE late
    /\ UNCHANGED <<manifest, edits, clock, resolvable, assign, cache, reg, images, meta, op, built>>

(* A teardown's destroy: the overlay goes and the machine is forgotten; a
   destroy by hand (virsh) leaves the metadata. *)
Destroy(g) ==
    /\ disk[g] # NoImage
    /\ disk' = [disk EXCEPT ![g] = NoImage] /\ late' = late \ {g}
    /\ meta' \in {meta, [meta EXCEPT ![g] = NoBox]}
    /\ UNCHANGED <<manifest, edits, clock, resolvable, assign, cache, reg, images, bring, op, built>>

----------------------------------------------------------------------------
(* box build and box rebuild *)

(* The builder's decision; a base box carries no manifest hash, and any file
   will do.  An old one (REFUSE_DAYS) is not reused, whatever its hash. *)
box_decision(b, force, old) ==
    IF force THEN "FORCE-BUILD"
    ELSE IF cache[b] = NoCache \/ (b # Base /\ cache[b].hash # manifest) THEN "BUILD"
    ELSE IF old /\ b # Base THEN "STALE"
    ELSE "REUSE"

StartBuild ==
    /\ op.pc = "idle"
    /\ \E b \in (Fat \cup {Base}) \cap resolvable, force \in BOOLEAN :
          op' = [Idle EXCEPT !.pc = "plan", !.box = b, !.force = force]
    /\ UNCHANGED <<manifest, edits, clock, resolvable, cache, reg, images, built, lab>>

(* _build_plan: the base box first, and only when the fat box will bake.  A
   base build needs the DVD, whose absence ends the run before a builder. *)
needs_base(b, force, old) == b # Base /\ box_decision(b, force, old) # "REUSE"
BuildPlan ==
    /\ op.pc = "plan"
    /\ \/ \E old \in BOOLEAN :
             op' = [op EXCEPT !.pc = IF needs_base(op.box, op.force, old) THEN "base" ELSE "builder"]
       \/ op' = Idle
    /\ UNCHANGED <<manifest, edits, clock, resolvable, cache, reg, images, built, lab>>

Registration(c) == [mtime |-> clock', stamp |-> c, from |-> c]

(* The registration is this cache's: by its stamp, or an unstamped copy with
   the same content, which is adopted. *)
Registered(b) == reg[b] # NoReg
registration_current(b) ==
    /\ Registered(b)
    /\ reg[b].stamp = cache[b] \/ (reg[b].stamp = NoCache /\ reg[b].from = cache[b])

(* A builder on a valid cache: keep or adopt the registration, or add it.
   Vagrant refuses a torn artifact, or takes it where it happens to unpack. *)
Decides(b, old) == box_decision(b, op.force /\ b = op.box, old)
Reuse(b, next) ==
    /\ Decides(b, FALSE) = "REUSE"
    /\ \/ /\ IF registration_current(b)
             THEN reg' = [reg EXCEPT ![b].stamp = cache[b]] /\ UNCHANGED clock
             ELSE clock < MaxClock /\ clock' = clock + 1 /\ reg' = [reg EXCEPT ![b] = Registration(cache[b])]
          /\ op' = [op EXCEPT !.pc = next]
          /\ built' = built \cup {b}
       \/ cache[b].recipe = 0 /\ op' = Idle /\ UNCHANGED <<reg, clock, built>>
    /\ UNCHANGED <<manifest, edits, resolvable, cache, images, lab>>
(* An artifact too old to be reused ends the run. *)
Refuse(b) ==
    /\ Decides(b, TRUE) = "STALE" /\ op' = Idle
    /\ UNCHANGED <<manifest, edits, clock, resolvable, cache, reg, images, built, lab>>

(* A bake: the base must be registered; tar writes over the cached artifact in
   place... *)
Tar(b, next) ==
    /\ Decides(b, FALSE) \in {"BUILD", "FORCE-BUILD"} /\ clock < MaxClock
    /\ clock' = clock + 1
    /\ IF b # Base /\ ~Registered(Base) THEN op' = [Idle EXCEPT !.pc = "nobase"] /\ UNCHANGED cache
       ELSE /\ cache' = [cache EXCEPT ![b].mtime = clock', ![b].recipe = 0, ![b].cut = TRUE]
            /\ op' = [op EXCEPT !.pc = next]
    /\ UNCHANGED <<manifest, edits, resolvable, reg, images, built, lab>>
(* ...and is done; a base box is ready to register... *)
TarEnds(b, next) ==
    /\ cache' = [cache EXCEPT ![b].recipe = manifest, ![b].cut = b # Base]
    /\ op' = [op EXCEPT !.pc = next]
    /\ UNCHANGED <<manifest, edits, clock, resolvable, reg, images, built, lab>>
(* ...the manifest hash of any other is written beside it.  The registration is
   the next step, and a kill may come before each. *)
WriteHash(b, next) ==
    /\ cache' = [cache EXCEPT ![b].hash = manifest, ![b].cut = FALSE]
    /\ op' = [op EXCEPT !.pc = next]
    /\ UNCHANGED <<manifest, edits, clock, resolvable, reg, images, built, lab>>

(* box_register: vagrant box add gives box.img a new time, then the stamp is
   written; a kill in between leaves an unstamped registration. *)
BakeRegister(b, next) ==
    /\ clock < MaxClock /\ clock' = clock + 1
    /\ \/ /\ reg' = [reg EXCEPT ![b] = Registration(cache[b])]
          /\ op' = [op EXCEPT !.pc = next] /\ built' = built \cup {b}
       \/ /\ reg' = [reg EXCEPT ![b] = [Registration(cache[b]) EXCEPT !.stamp = NoCache]]
          /\ op' = Idle /\ UNCHANGED built
    /\ UNCHANGED <<manifest, edits, resolvable, cache, images, lab>>

Builder ==
    \/ op.pc = "base" /\ (Reuse(Base, "builder") \/ Tar(Base, "base_tar"))
    \/ op.pc = "base_tar" /\ TarEnds(Base, "base_add")
    \/ op.pc = "base_add" /\ BakeRegister(Base, "builder")
    \/ op.pc = "builder" /\ (Reuse(op.box, "built") \/ Refuse(op.box) \/ Tar(op.box, "tar"))
    \/ op.pc = "tar" /\ TarEnds(op.box, IF op.box = Base THEN "add" ELSE "hash")
    \/ op.pc = "hash" /\ WriteHash(op.box, "add")
    \/ op.pc = "add" /\ BakeRegister(op.box, "built")

(* build_boxes ends with a best-effort GC. *)
AfterBuild ==
    /\ op.pc = "built"
    /\ op' = [Idle EXCEPT !.pc = "gc"]
    /\ UNCHANGED <<manifest, edits, clock, resolvable, cache, reg, images, built, lab>>

(* clean_boxes: the cache and its records, then the registration. *)
Clean ==
    /\ op.pc = "idle"
    /\ \E b \in Fat \cup {Base} :
          /\ cache[b] # NoCache \/ Registered(b)
          /\ cache' = [cache EXCEPT ![b] = NoCache]
          /\ reg' = [reg EXCEPT ![b] = NoReg]
          /\ built' = built \ {b}
    /\ UNCHANGED <<manifest, edits, clock, resolvable, images, op, lab>>

----------------------------------------------------------------------------
(* box gc *)

(* The boxes a live overlay backs onto. *)
in_use_stems == {disk[g][1] : g \in Guests} \ {NoBox}

(* Candidates of the unreferenced pass: names with the generated shape that
   are registered, cached or in the pool, that nothing resolves to and no
   live disk uses. *)
Found(b) == Registered(b) \/ cache[b] # NoCache \/ \E t \in 1..MaxClock : <<b, t>> \in images
unreferenced == {b \in Fat : Found(b) /\ b \notin resolvable /\ b \notin in_use_stems}

(* clean_retired and clean_retired_cache, then, asked for, clean_unreferenced;
   the images of both are left to the pass below. *)
Gc ==
    /\ op.pc = "idle"
    /\ \E asked \in BOOLEAN :
          LET gone == IF asked THEN unreferenced ELSE {} IN
          /\ reg' = [b \in Boxes |-> IF b \in Retired \cup gone THEN NoReg ELSE reg[b]]
          /\ cache' = [b \in Boxes |-> IF b \in Retired \cup gone THEN NoCache ELSE cache[b]]
          /\ op' = [Idle EXCEPT !.pc = "gc", !.dead = gone]
    /\ UNCHANGED <<manifest, edits, clock, resolvable, images, built, lab>>

(* gc_orphaned_images: which volume each registered box resolves to... *)
GcCurrent ==
    /\ op.pc = "gc"
    /\ op' = [op EXCEPT !.pc = "list", !.current = {<<b, reg[b].mtime>> : b \in {x \in Boxes : Registered(x)}}]
    /\ UNCHANGED <<manifest, edits, clock, resolvable, cache, reg, images, built, lab>>
(* ...vol-list (a pool that is not there yet is an empty one)... *)
GcList ==
    /\ op.pc = "list"
    /\ op' = [op EXCEPT !.pc = "scan", !.names = images, !.in_use = {g \in Guests : disk[g] # NoImage}]
    /\ UNCHANGED <<manifest, edits, clock, resolvable, cache, reg, images, built, lab>>
(* ...and the backing store of each listed volume; one that vanished in
   between is skipped. *)
GcScan ==
    /\ op.pc = "scan"
    /\ op' = [op EXCEPT !.pc = "delete", !.in_use = {disk[g] : g \in op.in_use} \ {NoImage}]
    /\ UNCHANGED <<manifest, edits, clock, resolvable, cache, reg, images, built, lab>>

Newest(b) == {v \in op.names : v[1] = b /\ \A w \in op.names : w[1] = b => w[2] <= v[2]}
(* What the pass keeps of a box: nothing of a dead one, what the registration
   resolves to, or the newest image of an unregistered one. *)
keep(b) ==
    IF b \in Retired \cup op.dead THEN {}
    ELSE IF \E v \in op.current : v[1] = b THEN {v \in op.names : v[1] = b /\ v \in op.current}
    ELSE Newest(b)

DoomedInUse == {v \in op.names : v \notin keep(v[1])}
Doomed == {v \in op.names : v \notin keep(v[1]) /\ v \notin op.in_use}

(* vol-delete of one image; one already gone is as good. *)
GcDelete ==
    /\ op.pc = "delete"
    /\ \E v \in Doomed : images' = images \ {v} /\ op' = [op EXCEPT !.names = @ \ {v}]
    /\ UNCHANGED <<manifest, edits, clock, resolvable, cache, reg, built, lab>>
GcEnds ==
    /\ op.pc = "delete" /\ Doomed = {}
    /\ op' = [op EXCEPT !.pc = "gc_done"]
    /\ UNCHANGED <<manifest, edits, clock, resolvable, cache, reg, images, built, lab>>

Return ==
    /\ op.pc \in {"gc_done", "nobase"}
    /\ op' = Idle
    /\ UNCHANGED <<manifest, edits, clock, resolvable, cache, reg, images, built, lab>>

(* The verb is killed, or one of its commands fails. *)
Killed ==
    /\ op.pc \notin {"idle", "gc_done", "nobase"}
    /\ op' = Idle
    /\ UNCHANGED <<manifest, edits, clock, resolvable, cache, reg, images, built, lab>>

Next ==
    \/ Edit \/ Repoint \/ Repin
    \/ \E g \in Guests : EnsureBoxes(g) \/ Upload(g) \/ CreateDomain(g) \/ Destroy(g)
    \/ StartBuild \/ BuildPlan \/ Builder \/ AfterBuild \/ Clean
    \/ Gc \/ GcCurrent \/ GcList \/ GcScan \/ GcDelete \/ GcEnds \/ Return \/ Killed
Spec == Init /\ [][Next]_vars

----------------------------------------------------------------------------
(* A bake never finds its base box missing: the plan built it first. *)
TypeOK ==
    /\ op.pc \in {"idle", "plan", "base", "base_tar", "base_add", "builder", "tar", "hash", "add", "built",
                  "gc", "list", "scan", "delete", "gc_done"}
    /\ \A b \in Boxes : cache[b].mtime <= clock /\ reg[b].mtime <= clock
    /\ \A v \in images : v[1] \in Boxes /\ v[2] \in 1..clock
    /\ \A g \in Guests : meta[g] \in Boxes \cup {NoBox} /\ assign[g] \in Fat

(* No image is deleted under a live overlay that existed when the pool was
   listed, however bring-ups, teardowns, rebuilds and the steps of a
   collection interleave. *)
DisksIntact == \A g \in Guests \ late : disk[g] # NoImage => disk[g] \in images

(* Claimed, and not kept by the code.  box.py's comment on the collection: an
   image a live overlay backs onto is never deleted, with no exception for an
   overlay created meanwhile. *)
NeverDeleted == \A g \in Guests : disk[g] # NoImage => disk[g] \in images

(* A new guest boots the box its topology assigns, never the one Vagrant
   cached for it before a repoint or a rename. *)
BootsAssignedStep ==
  \A g \in Guests : (disk[g] = NoImage /\ disk'[g] # NoImage) => disk'[g][1] = assign[g]
BootsAssigned == [][BootsAssignedStep]_vars

(* After a build the registration is the cache's, and the cache carries today's
   hash.  Its content is a whole bake of today's recipe, unless a bake was killed
   in its tar or before its hash; whatever other kill, kept registration, aged
   artifact or edit back and forth came before. *)
BuildDelivers ==
    op.pc = "built" =>
        LET c == cache[op.box] IN
        /\ reg[op.box].from = c /\ reg[op.box].stamp = c
        /\ op.box # Base => c.hash = manifest
        /\ ~c.cut => c.recipe # 0 /\ (op.box # Base => c.recipe = manifest)

(* Claimed, and not kept by the code.  "a fat box REUSEd from cache" is today's:
   build-fatbox.sh on its hash, "manifest (pins or bake recipe) changed -> the
   cache is void". *)
DeliversToday == op.pc = "built" /\ op.box # Base => cache[op.box].recipe = manifest

(* No collection takes away a box the catalog resolves: once built it stays
   cached and registered until it is cleaned by name. *)
KeepsResolvable == \A b \in built \cap resolvable : cache[b] # NoCache /\ Registered(b)

(* A finished collection leaves no stale image of a registered box behind,
   unless a disk used it when the pool was read or it came later. *)
StaleReclaimed ==
    op.pc = "gc_done" =>
        \A v \in op.names : v \in op.in_use \/ v \in op.current
            \/ (v[1] \notin Retired \cup op.dead /\ \A w \in op.current : w[1] # v[1])
----------------------------------------------------------------------------
(* The inductive invariant behind these properties: types; what a build has
   of its box, and a registration of its stamp; that a bake nobody killed wrote
   the hash of its content; what the collection that runs knows of the live
   overlays. *)
Artifacts == [hash : Nat, mtime : Nat, recipe : Nat, cut : BOOLEAN]
Building == {"plan", "base", "base_tar", "base_add", "builder", "tar", "hash", "add", "built"}
PoolShape ==
    /\ manifest \in Nat \ {0} /\ clock \in Nat \ {0} /\ resolvable \subseteq Fat \cup {Base}
    /\ cache \in [Boxes -> Artifacts] /\ reg \in [Boxes -> [mtime : Nat, stamp : Artifacts, from : Artifacts]]
    /\ DOMAIN disk = Guests /\ DOMAIN op = DOMAIN Idle
    /\ op.pc \in Building => op.box \in Fat \cup {Base}
BakedInv ==
    /\ op.pc \in {"base_tar", "base_add"} => cache[Base].mtime # 0
    /\ op.pc \in {"tar", "hash", "add"} => cache[op.box].mtime # 0
    /\ op.pc = "built" => cache[op.box] # NoCache
    /\ op.pc \in {"add", "built"} /\ op.box # Base => cache[op.box].hash = manifest
    /\ op.pc = "built" => reg[op.box].from = cache[op.box] /\ reg[op.box].stamp = cache[op.box]
    /\ \A b \in Boxes : reg[b].stamp # NoCache => reg[b].from = reg[b].stamp
    /\ KeepsResolvable
ContentInv ==
    /\ op.pc = "hash" => cache[op.box].recipe = manifest /\ op.box # Base
    /\ \A b \in Fat : ~cache[b].cut => cache[b].recipe = cache[b].hash
    /\ cache[Base] # NoCache /\ ~cache[Base].cut => cache[Base].recipe # 0
ReadInv ==
    /\ op.pc = "scan" => \A g \in Guests \ late : disk[g] # NoImage => g \in op.in_use
    /\ op.pc = "delete" => \A g \in Guests \ late : disk[g] # NoImage => disk[g] \in op.in_use
    /\ DisksIntact /\ StaleReclaimed
PoolInv == PoolShape /\ BakedInv /\ ContentInv /\ ReadInv
=============================================================================
