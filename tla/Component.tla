----------------------------- MODULE Component -----------------------------
(***************************************************************************)
(* Guest components: built on the pinned runtime and staged               *)
(* (component.py, runtime.py), then baked into a box (box.py) or installed *)
(* on a running guest by the component-install role.                       *)
(*                                                                         *)
(* A content of components/<name> is a number, and its git tree hash is    *)
(* that number.  Two commands may run at once, a bake ("bake") and         *)
(* `mqlab component build` or `install` ("cli"), beside a developer who    *)
(* edits and commits.  No lock keeps their builds apart: both use the same *)
(* runtime cache, test venv and .partial directory.  Any command may be    *)
(* killed between two of its steps.                                        *)
(***************************************************************************)
EXTENDS Naturals, FiniteSets

CONSTANTS
    Trees,      \* contents of the component's directory
    MaxEdits,   \* bound on edits of the working tree
    MaxRuns     \* bound on commands started

ComponentAssumption ==
    Trees \subseteq Nat \ {0} /\ Trees # {} /\ MaxEdits \in Nat /\ MaxRuns \in Nat

VARIABLES
    work, head,  \* content of the working tree, and of HEAD
    edits, runs,
    tarball,     \* the cached runtime tarball: "none", "good" or "bad"
    interp,      \* the unpacked interpreter: "none", "half", "good", or "mixed" by two unpacks
    stage,       \* tree -> its .partial directory
    final,       \* tree -> its artifact directory
    current,     \* CURRENT, 0 if there is none
    vars_file,   \* install-vars.json: the directory it names, and whether a tarball
    proc,        \* the two commands
    box,         \* the cached box: the tree recorded for it, the content baked
    guest        \* the running guest
vars == <<work, head, edits, runs, tarball, interp, stage, final, current, vars_file, proc, box, guest>>

Procs == {"bake", "cli"}
None == 0
(* cut: its removal has begun; touched: the source was edited while it was
   built; crossed: another build ran meanwhile.  None is visible to the code. *)
NoDir == [there |-> FALSE, wheel |-> None, tested |-> None, deps |-> FALSE, json |-> FALSE,
          cut |-> FALSE, touched |-> FALSE, crossed |-> FALSE]
NoVars == [dir |-> "none", tree |-> None, tarball |-> FALSE]
Idle == [pc |-> "idle", verb |-> "none", argv |-> None, tree |-> None, tested |-> None,
         touched |-> FALSE, crossed |-> FALSE, src |-> NoVars, release |-> None]

Init ==
    /\ work \in Trees /\ head = work /\ edits = 0 /\ runs = 0
    /\ tarball \in {"none", "good", "bad"} /\ interp = "none"
    /\ stage = [t \in Trees |-> NoDir] /\ final = [t \in Trees |-> NoDir]
    /\ current = None /\ vars_file = NoVars
    /\ proc = [p \in Procs |-> Idle]
    /\ box = [recorded |-> None, content |-> None, touched |-> FALSE]
    /\ guest = [releases |-> {}, live |-> None, previous |-> None, record |-> None,
                content |-> [r \in 1..MaxRuns |-> None], cut |-> FALSE]

At(p, pc) == proc[p].pc = pc
Goto(p, pc) == proc' = [proc EXCEPT ![p].pc = pc]
Fails(p) == proc' = [proc EXCEPT ![p] = Idle]
source == <<work, head, edits>>
runtime == <<tarball, interp>>
dirs == <<stage, final, current>>

----------------------------------------------------------------------------
(* The developer *)

BuildSteps == {"tarball", "unpack", "test", "stage", "mkdir", "wheel", "deps", "json"}
Edit ==
    /\ edits < MaxEdits /\ edits' = edits + 1
    /\ \E t \in Trees : t # work /\ work' = t
    /\ proc' = [p \in Procs |-> [proc[p] EXCEPT !.touched = @ \/ proc[p].pc \in BuildSteps]]
    /\ UNCHANGED <<head, runs, runtime, dirs, vars_file, box, guest>>
Commit ==
    /\ work # head /\ head' = work
    /\ UNCHANGED <<work, edits, runs, runtime, dirs, vars_file, proc, box, guest>>

----------------------------------------------------------------------------
(* The start of a command *)

Start(p, verb, pc) ==
    /\ At(p, "idle") /\ runs < MaxRuns /\ runs' = runs + 1
    /\ proc' = [proc EXCEPT ![p] = [Idle EXCEPT !.verb = verb, !.pc = pc, !.argv = head]]
    /\ UNCHANGED <<source, runtime, dirs, vars_file, box, guest>>
(* box build of a box that will bake: the builder's argv names the component
   at HEAD's tree before the artifacts are ensured. *)
StartBake == Start("bake", "bake", "clean")
StartBuild == Start("cli", "build", "clean")
StartInstall == Start("cli", "install", "clean")

find_artifact(t) == final[t].json

(* The artifact for HEAD is chosen: install an explicit one, or go on. *)
Resolved(p, dir, t) ==
    proc' = [proc EXCEPT ![p].pc = "vars", ![p].src = [dir |-> dir, tree |-> t, tarball |-> p = "bake"]]

(* install --version: any directory with a BUILD.json, a killed build's
   .partial one included. *)
resolve_artifact ==
    /\ At("cli", "clean") /\ proc["cli"].verb = "install"
    /\ \E t \in Trees : \/ final[t].json /\ Resolved("cli", "final", t)
                        \/ stage[t].json /\ Resolved("cli", "stage", t)
    /\ UNCHANGED <<source, runs, runtime, dirs, vars_file, box, guest>>

Building(p) == proc[p].pc \in BuildSteps \cup {"remove", "replace", "current"}

refuse_dirty(t) == work # head

(* A build begins; one that is under way has company from now on. *)
BeginBuild(p) ==
    proc' = [q \in Procs |->
        IF q = p THEN [proc[p] EXCEPT !.pc = "tarball", !.tree = head,
                                      !.crossed = \E r \in Procs \ {p} : Building(r)]
        ELSE [proc[q] EXCEPT !.crossed = @ \/ Building(q)]]

(* ensure_built, or build: refuse a dirty tree; reuse HEAD's artifact, except
   for `component build`. *)
ensure_built(p) ==
    /\ At(p, "clean")
    /\ UNCHANGED <<source, runs, runtime, stage, final, vars_file, box, guest>>
    /\ IF refuse_dirty(head) THEN Fails(p) /\ UNCHANGED current
       ELSE IF proc[p].verb # "build" /\ find_artifact(head)
            THEN current' = head /\ Resolved(p, "final", head)
            ELSE BeginBuild(p) /\ UNCHANGED current

----------------------------------------------------------------------------
(* build *)

(* ensure_tarball: fetched beside and renamed, always verified; a mismatch
   removes the file and fails.  Another build may rename its own fetch over it. *)
ensure_tarball(p) ==
    /\ At(p, "tarball")
    /\ \E got \in IF tarball = "none" \/ proc[p].crossed THEN {"good", "bad"} ELSE {tarball} :
          IF got = "bad" THEN tarball' = "none" /\ Fails(p)
          ELSE tarball' = "good" /\ Goto(p, IF interp # "none" THEN "test" ELSE "unpack")
    /\ UNCHANGED <<source, runs, interp, dirs, vars_file, box, guest>>

unpack_in_place(p) ==
    /\ At(p, "unpack")
    /\ \/ interp' = tarball /\ Goto(p, "test")
       \/ interp' = "half" /\ Fails(p)
    /\ UNCHANGED <<source, runs, tarball, dirs, vars_file, box, guest>>
(* ensure_interpreter: unpacked into a sibling, renamed once it is complete.
   An interpreter that is there is used as it is.  The sibling is shared: a
   build in company may find it emptied, and rename what is left of two. *)
unpack(p) ==
    /\ At(p, "unpack")
    /\ \/ /\ interp' \in IF proc[p].crossed THEN {"good", "mixed"} ELSE {tarball}
          /\ Goto(p, "test")
       \/ proc[p].crossed /\ Fails(p) /\ UNCHANGED interp
    /\ UNCHANGED <<source, runs, tarball, dirs, vars_file, box, guest>>

(* The lock check, the venv and its two assertions, and the tests. *)
test(p) ==
    /\ At(p, "test")
    /\ \/ proc' = [proc EXCEPT ![p].pc = "stage", ![p].tested = work]
       \/ Fails(p)
    /\ UNCHANGED <<source, runs, runtime, dirs, vars_file, box, guest>>

InStage(p, dir, pc) ==
    /\ stage' = [stage EXCEPT ![proc[p].tree] = dir]
    /\ Goto(p, pc)
    /\ UNCHANGED <<source, runs, runtime, final, current, vars_file, box, guest>>

(* What a removal of a directory leaves on the way: either half. *)
Removing(dir) == IF dir.there THEN {[dir EXCEPT !.json = FALSE, !.cut = TRUE], [dir EXCEPT !.wheel = None, !.cut = TRUE]}
                 ELSE {dir}

(* rmtree(stage), also of another's, and mkdir. *)
RemoveStage(p) == At(p, "stage") /\ \E dir \in Removing(stage[proc[p].tree]) : InStage(p, dir, "mkdir")
StageDir(p) == At(p, "mkdir") /\ InStage(p, [NoDir EXCEPT !.there = TRUE], "wheel")
(* A stage that another build renamed away is made again, but for BUILD.json. *)
wheel(p) ==
    /\ At(p, "wheel")
    /\ InStage(p, [stage[proc[p].tree] EXCEPT !.there = TRUE, !.wheel = work, !.tested = proc[p].tested], "deps")
(* The exports, and the dependencies fetched from uv.lock, each against its
   hash; a mismatch fails, and so may a fetch. *)
stage_deps(p) ==
    /\ At(p, "deps")
    /\ \/ InStage(p, [stage[proc[p].tree] EXCEPT !.there = TRUE, !.deps = TRUE], "json")
       \/ Fails(p) /\ UNCHANGED <<source, runs, runtime, dirs, vars_file, box, guest>>
BuildJson(p) ==
    /\ At(p, "json")
    /\ IF stage[proc[p].tree].there
       THEN InStage(p, [stage[proc[p].tree] EXCEPT !.json = TRUE, !.touched = proc[p].touched,
                                                   !.crossed = proc[p].crossed], "remove")
       ELSE Fails(p) /\ UNCHANGED <<source, runs, runtime, dirs, vars_file, box, guest>>

(* rmtree(final), then the rename, which fails when another build did it. *)
RemoveFinal(p) ==
    LET t == proc[p].tree IN
    /\ At(p, "remove")
    /\ \E dir \in Removing(final[t]) : final' = [final EXCEPT ![t] = dir]
    /\ Goto(p, "replace")
    /\ UNCHANGED <<source, runs, runtime, stage, current, vars_file, box, guest>>
Replace(p) ==
    LET t == proc[p].tree IN
    /\ At(p, "replace")
    /\ IF stage[t].there
       THEN /\ final' = [final EXCEPT ![t] = stage[t]] /\ stage' = [stage EXCEPT ![t] = NoDir]
            /\ Goto(p, "current")
       ELSE final' = [final EXCEPT ![t] = NoDir] /\ Fails(p) /\ UNCHANGED stage
    /\ UNCHANGED <<source, runs, runtime, current, vars_file, box, guest>>
set_current(p) ==
    /\ At(p, "current") /\ current' = proc[p].tree
    /\ IF proc[p].verb = "build" THEN Fails(p) ELSE Resolved(p, "final", proc[p].tree)
    /\ UNCHANGED <<source, runs, runtime, stage, final, vars_file, box, guest>>

Build(p) ==
    \/ ensure_tarball(p) \/ unpack(p) \/ test(p) \/ RemoveStage(p) \/ StageDir(p) \/ wheel(p)
    \/ stage_deps(p) \/ BuildJson(p) \/ RemoveFinal(p) \/ Replace(p) \/ set_current(p)

----------------------------------------------------------------------------
(* bake and install *)

(* install_vars: one file for both commands; a bake names a tarball too. *)
install_vars(p) ==
    /\ At(p, "vars") /\ vars_file' = proc[p].src
    /\ Goto(p, "play")
    /\ UNCHANGED <<source, runs, runtime, dirs, box, guest>>

DirOf(v) == IF v.dir = "final" THEN final[v.tree] ELSE stage[v.tree]

(* The bake reads the variables when its play starts; runtime-install needs
   the tarball, component-install the wheel and its dependencies.  The record
   is the builder's argument. *)
Bake ==
    /\ At("bake", "play") /\ Fails("bake")
    /\ LET a == DirOf(vars_file) IN
       IF vars_file.tarball /\ a.json /\ a.wheel # None /\ a.deps
       THEN box' = [recorded |-> proc["bake"].argv, content |-> a.wheel, touched |-> a.touched]
       ELSE UNCHANGED box
    /\ UNCHANGED <<source, runs, runtime, dirs, vars_file, guest>>

(* component-install on a guest: a new release is built from the copied
   artifact and checks itself in place; one that fails is removed. *)
BuildRelease ==
    LET a == DirOf(vars_file) IN
    /\ At("cli", "play")
    /\ \/ /\ a.json /\ a.wheel # None /\ a.deps
          /\ guest' = [guest EXCEPT !.releases = @ \cup {runs}, !.content[runs] = a.wheel]
          /\ proc' = [proc EXCEPT !["cli"].pc = "flip", !["cli"].release = runs, !["cli"].src = vars_file]
       \/ Fails("cli") /\ UNCHANGED guest
    /\ UNCHANGED <<source, runs, runtime, dirs, vars_file, box>>
(* The venv link flips to it, remembering the previous one. *)
Flip ==
    /\ At("cli", "flip") /\ Goto("cli", "live")
    /\ guest' = [guest EXCEPT !.live = proc["cli"].release,
                              !.previous = IF guest.live # None THEN guest.live ELSE @]
    /\ UNCHANGED <<source, runs, runtime, dirs, vars_file, box>>
(* The check through the live path failed: back to the previous release, or
   to none. *)
flip_back == guest' = [guest EXCEPT !.live = guest.previous]
LiveCheck ==
    /\ At("cli", "live")
    /\ \/ Goto("cli", "prune") /\ UNCHANGED guest
       \/ Fails("cli") /\ flip_back
    /\ UNCHANGED <<source, runs, runtime, dirs, vars_file, box>>
prune_keeps == {guest.live, guest.previous}
Prune ==
    /\ At("cli", "prune") /\ Goto("cli", "record")
    /\ guest' = [guest EXCEPT !.releases = @ \cap prune_keeps]
    /\ UNCHANGED <<source, runs, runtime, dirs, vars_file, box>>
(* INSTALLED.json *)
Record ==
    /\ At("cli", "record") /\ Fails("cli")
    /\ guest' = [guest EXCEPT !.record = proc["cli"].release, !.cut = FALSE]
    /\ UNCHANGED <<source, runs, runtime, dirs, vars_file, box>>

Install == BuildRelease \/ Flip \/ LiveCheck \/ Prune \/ Record

Flipped == {"live", "prune", "record"}
(* A command is killed; the play of an install ends where it is. *)
Killed(p) ==
    /\ ~At(p, "idle") /\ Fails(p)
    /\ guest' = [guest EXCEPT !.cut = @ \/ proc[p].pc \in Flipped]
    /\ UNCHANGED <<source, runs, runtime, dirs, vars_file, box>>

Next ==
    \/ Edit \/ Commit \/ StartBake \/ StartBuild \/ StartInstall \/ resolve_artifact
    \/ \E p \in Procs : ensure_built(p) \/ Build(p) \/ Killed(p)
    \/ \E p \in {q \in Procs : At(q, "vars")} : install_vars(p)
    \/ Bake \/ Install
Spec == Init /\ [][Next]_vars

----------------------------------------------------------------------------
Pcs == BuildSteps \cup Flipped \cup {"idle", "clean", "remove", "replace", "current", "vars", "play", "flip"}
MaybeTree == Trees \cup {None}
Dirs == [there : BOOLEAN, wheel : MaybeTree, tested : MaybeTree, deps : BOOLEAN, json : BOOLEAN,
         cut : BOOLEAN, touched : BOOLEAN, crossed : BOOLEAN]
VarsFiles == [dir : {"none", "final", "stage"}, tree : MaybeTree, tarball : BOOLEAN]
Jobs == [pc : Pcs, verb : {"none", "bake", "build", "install"}, argv : MaybeTree, tree : MaybeTree,
         tested : MaybeTree, touched : BOOLEAN, crossed : BOOLEAN, src : VarsFiles, release : 0..MaxRuns]
Hosts == [releases : SUBSET (1..MaxRuns), live : 0..MaxRuns, previous : 0..MaxRuns, record : 0..MaxRuns,
          content : [1..MaxRuns -> MaybeTree], cut : BOOLEAN]
TypeOK ==
    /\ work \in Trees /\ head \in Trees /\ current \in MaybeTree
    /\ edits \in 0..MaxEdits /\ runs \in 0..MaxRuns
    /\ interp \in {"none", "half", "good", "mixed"} /\ tarball \in {"none", "good", "bad"}
    /\ stage \in [Trees -> Dirs] /\ final \in [Trees -> Dirs] /\ vars_file \in VarsFiles
    /\ proc \in [Procs -> Jobs] /\ guest \in Hosts
    /\ box \in [recorded : MaybeTree, content : MaybeTree, touched : BOOLEAN]

(* No kill leaves a half-unpacked interpreter that a later build would run
   its tests on (ensure_interpreter); two builds at once may leave a mixed one. *)
InterpreterWhole == interp # "half"

(* An artifact a bake or an install would take, unless its removal was cut, its
   source edited under the build or another build ran at the same time, is the
   wheel of the tree it is keyed by, with its dependencies, and that source
   passed its tests; whatever builds before and after it. *)
ArtifactWhole ==
    \A t \in Trees : \A d \in {final[t], stage[t]} :
        d.json /\ ~d.cut /\ ~d.touched /\ ~d.crossed => d.wheel = t /\ d.tested = t /\ d.deps

(* The guest runs a release that is there, and the rollback target is there:
   no failed release, prune or cut play takes either away. *)
GuestRuns ==
    /\ guest.live # None => guest.live \in guest.releases /\ guest.content[guest.live] # None
    /\ guest.previous # None => guest.previous \in guest.releases

(* INSTALLED.json names the live release, unless a play was cut between the
   flip and the record and no install has succeeded since. *)
RecordMatchesLive == guest.cut \/ proc["cli"].pc \in Flipped \/ guest.record = guest.live

(* Component builds and installs, killed anywhere. *)
ComponentsSound == InterpreterWhole /\ ArtifactWhole /\ GuestRuns /\ RecordMatchesLive

(* Why they hold.  The commands: a build without company is alone, on a verified
   tarball; an artifact was chosen before a play starts. *)
CommandsInv ==
    /\ \A p, q \in Procs : Building(p) /\ Building(q) => p = q \/ proc[p].crossed
    /\ \A p \in Procs :
          /\ Building(p) => proc[p].tree \in Trees
          /\ At(p, "vars") => proc[p].src.tree \in Trees
          /\ At(p, "play") => vars_file.tree \in Trees
          /\ At(p, "unpack") /\ ~proc[p].crossed => tarball = "good"
          /\ ~At(p, "idle") => runs > 0
(* The build: while nobody edits or builds, what is tested and staged is the tree
   it is keyed by, and BUILD.json is written last. *)
JobInv(p) ==
    LET job == proc[p]
        dir == stage[job.tree]
        quiet == ~job.touched /\ ~job.crossed IN
    /\ job.pc = "clean" => ~job.touched
    /\ job.pc \in BuildSteps /\ ~job.touched => work = job.tree
    /\ job.pc \in {"stage", "mkdir", "wheel"} /\ ~job.touched => job.tested = job.tree
    /\ job.pc \in {"wheel", "deps", "json"} => ~dir.json \/ dir.crossed
    /\ job.pc \in {"deps", "json"} /\ quiet => dir.wheel = job.tree /\ dir.tested = job.tree
    /\ job.pc = "json" /\ quiet => dir.deps
BuildInv == \A p \in Procs : JobInv(p)
(* The guest: every release kept is whole; until the record is written, the
   rollback target is the release it names. *)
ReleaseInv ==
    LET job == proc["cli"] IN
    /\ \A r \in guest.releases : guest.content[r] # None
    /\ {guest.live, guest.previous} \subseteq guest.releases \cup {None}
    /\ guest.live = None => guest.previous = None
    /\ job.pc = "flip" => job.release \in guest.releases
    /\ job.pc \in Flipped => job.release = guest.live
    /\ job.pc = "live" => guest.cut \/ guest.record = guest.previous
ComponentInv == TypeOK /\ ComponentsSound /\ CommandsInv /\ BuildInv /\ ReleaseInv

(* Claimed, and not kept by the code.  component.py on its key: "an artifact
   is keyed by SOURCE, so an edited-but-unbuilt component can never pass for a
   built one". *)
KeyedBySource == \A t \in Trees : final[t].json /\ ~final[t].cut /\ ~final[t].crossed => final[t].wheel = t

(* Claimed, and not kept by the code.  find_artifact's promise: the artifact
   it returns is complete, once no build is replacing it. *)
CompleteArtifact ==
    (\A p \in Procs : ~At(p, "replace")) =>
        \A t \in Trees : find_artifact(t) => final[t].wheel # None /\ final[t].deps

(* Claimed, and not kept by the code.  "so a crash never leaves a half-unpacked
   interpreter that a later call would trust": two builds share the sibling. *)
InterpreterTrusted == interp \in {"none", "good"}

(* Claimed, and not kept by the code.  baked_components' promise: the record
   is what the cached box baked; an artifact edited under its build is
   KeyedBySource's matter. *)
BakedAsRecorded ==
    box.recorded # None /\ ~box.touched => box.content = box.recorded
=============================================================================
