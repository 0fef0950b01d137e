--------------------------- MODULE ComponentProofs ---------------------------
(***************************************************************************)
(* ComponentsSound for any component trees, edits and number of commands,  *)
(* each killed anywhere.  ComponentInv is inductive.                       *)
(***************************************************************************)
EXTENDS Component, TLAPS

LEMMA Constants ==
  ASSUME ComponentAssumption
  PROVE  /\ Trees \subseteq Nat \ {0} /\ None \notin Trees /\ None = 0
         /\ MaxEdits \in Nat /\ MaxRuns \in Nat
BY DEF ComponentAssumption, None

LEMMA NoneTypes ==
  ASSUME ComponentAssumption
  PROVE  NoDir \in Dirs /\ NoVars \in VarsFiles /\ Idle \in Jobs
<1>1. NoDir \in Dirs
  BY DEF NoDir, Dirs, MaybeTree
<1>2. NoVars \in VarsFiles
  BY DEF NoVars, VarsFiles, MaybeTree
<1>3. 0 \in 0..MaxRuns
  BY Constants
<1>4. "idle" \in Pcs
  BY DEF Pcs
<1> QED BY <1>1, <1>2, <1>3, <1>4 DEF Idle, Jobs, MaybeTree, None

-----------------------------------------------------------------------------
(***************************************************************************)
(* How a command's state moves.                                            *)
(***************************************************************************)
Same(q) ==
    /\ proc'[q].pc = proc[q].pc /\ proc'[q].tree = proc[q].tree /\ proc'[q].tested = proc[q].tested
    /\ proc'[q].touched = proc[q].touched /\ proc'[q].src = proc[q].src /\ proc'[q].release = proc[q].release
    /\ proc[q].crossed => proc'[q].crossed
\* The other command stays where it is; at most it gets company.
Others(p) == \A q \in Procs \ {p} : Same(q)

LEMMA GotoFacts ==
  ASSUME TypeOK, NEW p \in Procs, NEW pc \in Pcs, Goto(p, pc)
  PROVE  /\ proc' \in [Procs -> Jobs] /\ Others(p) /\ proc'[p].pc = pc
         /\ proc'[p].verb = proc[p].verb /\ proc'[p].argv = proc[p].argv /\ proc'[p].tree = proc[p].tree
         /\ proc'[p].tested = proc[p].tested /\ proc'[p].touched = proc[p].touched
         /\ proc'[p].src = proc[p].src /\ proc'[p].release = proc[p].release
         /\ proc'[p].crossed = proc[p].crossed
<1>1. proc[p] \in Jobs /\ proc' = [proc EXCEPT ![p] = [proc[p] EXCEPT !.pc = pc]]
  BY DEF TypeOK, Goto
<1>2. [proc[p] EXCEPT !.pc = pc] \in Jobs
  BY <1>1 DEF Jobs
<1> QED BY <1>1, <1>2 DEF TypeOK, Others, Same, Jobs

LEMMA FailsFacts ==
  ASSUME ComponentAssumption, TypeOK, NEW p \in Procs, Fails(p)
  PROVE  proc' \in [Procs -> Jobs] /\ Others(p) /\ proc'[p] = Idle
BY NoneTypes DEF TypeOK, Fails, Others, Same

LEMMA ResolvedFacts ==
  ASSUME TypeOK, NEW p \in Procs, NEW d \in {"final", "stage"}, NEW t \in Trees, Resolved(p, d, t)
  PROVE  /\ proc' \in [Procs -> Jobs] /\ Others(p) /\ proc'[p].pc = "vars"
         /\ proc'[p].src.tree = t
<1> DEFINE v == [dir |-> d, tree |-> t, tarball |-> p = "bake"]
<1>1. v \in VarsFiles /\ v.tree = t
  BY DEF VarsFiles, MaybeTree
<1>2. "vars" \in Pcs
  BY DEF Pcs
<1>3. proc[p] \in Jobs /\ proc' = [proc EXCEPT ![p] = [proc[p] EXCEPT !.pc = "vars", !.src = v]]
  BY DEF TypeOK, Resolved
<1> HIDE DEF v
<1>4. [proc[p] EXCEPT !.pc = "vars", !.src = v] \in Jobs
  BY <1>1, <1>2, <1>3 DEF Jobs
<1> QED BY <1>1, <1>3, <1>4 DEF TypeOK, Others, Same, Jobs

-----------------------------------------------------------------------------
(***************************************************************************)
(* Types.                                                                  *)
(***************************************************************************)
LEMMA TypeInit == ComponentAssumption /\ Init => TypeOK
<1> SUFFICES ASSUME ComponentAssumption, Init PROVE TypeOK
  OBVIOUS
<1>1. 0 \in 0..MaxRuns /\ 0 \in 0..MaxEdits
  BY Constants
<1>2. guest \in Hosts
  BY <1>1 DEF Init, Hosts, MaybeTree, None
<1>3. box \in [recorded : MaybeTree, content : MaybeTree, touched : BOOLEAN]
  BY DEF Init, MaybeTree
<1>4. stage \in [Trees -> Dirs] /\ final \in [Trees -> Dirs] /\ vars_file \in VarsFiles
  BY NoneTypes DEF Init
<1>5. proc \in [Procs -> Jobs]
  BY NoneTypes DEF Init
<1> QED BY <1>1, <1>2, <1>3, <1>4, <1>5 DEF Init, TypeOK, MaybeTree

LEMMA PcTypes ==
  /\ BuildSteps \subseteq Pcs /\ Flipped \subseteq Pcs
  /\ {"idle", "clean", "remove", "replace", "current", "vars", "play", "flip"} \subseteq Pcs
BY DEF Pcs

\* A step that writes the staging directory.
LEMMA InStageFacts ==
  ASSUME TypeOK, CommandsInv, NEW p \in Procs, Building(p), NEW dir \in Dirs, NEW pc \in Pcs, InStage(p, dir, pc)
  PROVE  /\ TypeOK' /\ stage'[proc[p].tree] = dir
         /\ \A t \in Trees \ {proc[p].tree} : stage'[t] = stage[t]
<1>1. proc[p].tree \in Trees
  BY DEF CommandsInv
<1>2. proc' \in [Procs -> Jobs]
  BY GotoFacts DEF InStage
<1>3. stage' \in [Trees -> Dirs] /\ stage'[proc[p].tree] = dir
  BY <1>1 DEF InStage, TypeOK
<1>4. \A t \in Trees \ {proc[p].tree} : stage'[t] = stage[t]
  BY <1>1 DEF InStage, TypeOK
<1> QED BY <1>2, <1>3, <1>4 DEF InStage, TypeOK, source, runtime

\* What a removal leaves.
LEMMA RemovingFacts ==
  ASSUME NEW dir \in Dirs, NEW e \in Removing(dir)
  PROVE  /\ e \in Dirs /\ (e = dir \/ e.json = FALSE \/ e.cut = TRUE)
         /\ e.crossed = dir.crossed /\ (e.json => dir.json)
<1>1. CASE e = [dir EXCEPT !.json = FALSE, !.cut = TRUE]
  BY <1>1 DEF Dirs
<1>2. CASE e = [dir EXCEPT !.wheel = None, !.cut = TRUE]
  BY <1>2 DEF Dirs, MaybeTree
<1> QED BY <1>1, <1>2 DEF Removing

LEMMA BuildType ==
  ASSUME ComponentAssumption, TypeOK, CommandsInv, NEW p \in Procs, Build(p)
  PROVE  TypeOK'
<1>0. proc[p] \in Jobs
  BY DEF TypeOK
<1>1. CASE ensure_tarball(p)
  <2>1. proc' \in [Procs -> Jobs]
    BY <1>1, FailsFacts, GotoFacts, PcTypes DEF ensure_tarball, BuildSteps
  <2>2. tarball' \in {"none", "good", "bad"}
    BY <1>1 DEF ensure_tarball
  <2> QED BY <1>1, <2>1, <2>2 DEF ensure_tarball, TypeOK, source, dirs
<1>2. CASE unpack(p)
  <2>1. proc' \in [Procs -> Jobs]
    BY <1>2, FailsFacts, GotoFacts, PcTypes DEF unpack, BuildSteps
  <2>2. interp' \in {interp, "good", "mixed"}
    BY <1>2 DEF unpack, CommandsInv
  <2> QED BY <1>2, <2>1, <2>2 DEF unpack, TypeOK, source, dirs
<1>3. CASE test(p)
  <2>1. ASSUME proc' = [proc EXCEPT ![p].pc = "stage", ![p].tested = work]
        PROVE  proc' \in [Procs -> Jobs]
    <3>1. [proc[p] EXCEPT !.pc = "stage", !.tested = work] \in Jobs
      BY <1>0, PcTypes DEF TypeOK, Jobs, BuildSteps, MaybeTree
    <3> QED BY <2>1, <3>1 DEF TypeOK
  <2>2. proc' \in [Procs -> Jobs]
    BY <1>3, <2>1, FailsFacts DEF test
  <2> QED BY <1>3, <2>2 DEF test, TypeOK, source, runtime, dirs
<1>4. CASE StageDir(p)
  <2>1. [NoDir EXCEPT !.there = TRUE] \in Dirs
    BY NoneTypes DEF Dirs
  <2>2. Building(p) /\ "wheel" \in Pcs
    BY <1>4, PcTypes DEF StageDir, At, Building, BuildSteps
  <2> QED BY <1>4, <2>1, <2>2, InStageFacts DEF StageDir
<1>d. Building(p) => stage[proc[p].tree] \in Dirs
  BY DEF CommandsInv, TypeOK
<1>r. CASE RemoveStage(p)
  <2>1. PICK e \in Removing(stage[proc[p].tree]) : InStage(p, e, "mkdir")
    BY <1>r DEF RemoveStage
  <2>2. Building(p) /\ "mkdir" \in Pcs
    BY <1>r, PcTypes DEF RemoveStage, At, Building, BuildSteps
  <2>3. e \in Dirs
    BY <1>d, <2>2, RemovingFacts
  <2> QED BY <2>1, <2>2, <2>3, InStageFacts
<1>5. CASE wheel(p)
  <2>1. Building(p) /\ "deps" \in Pcs
    BY <1>5, PcTypes DEF wheel, At, Building, BuildSteps
  <2>2. [stage[proc[p].tree] EXCEPT !.there = TRUE, !.wheel = work, !.tested = proc[p].tested] \in Dirs
    BY <1>0, <1>d, <2>1 DEF Dirs, TypeOK, MaybeTree, Jobs
  <2> QED BY <1>5, <2>1, <2>2, InStageFacts DEF wheel
<1>6. CASE stage_deps(p)
  <2>1. Building(p) /\ "json" \in Pcs
    BY <1>6, PcTypes DEF stage_deps, At, Building, BuildSteps
  <2>2. [stage[proc[p].tree] EXCEPT !.there = TRUE, !.deps = TRUE] \in Dirs
    BY <1>d, <2>1 DEF Dirs
  <2>3. CASE Fails(p)
    BY <1>6, <2>3, <2>1, <2>2, FailsFacts, InStageFacts DEF stage_deps, TypeOK, source, runtime, dirs
  <2> QED BY <1>6, <2>1, <2>2, <2>3, InStageFacts DEF stage_deps
<1>7. CASE BuildJson(p)
  <2>1. Building(p) /\ "remove" \in Pcs
    BY <1>7, PcTypes DEF BuildJson, At, Building, BuildSteps
  <2>2. [stage[proc[p].tree] EXCEPT !.json = TRUE, !.touched = proc[p].touched,
                                    !.crossed = proc[p].crossed] \in Dirs
    BY <1>0, <1>d, <2>1 DEF Dirs, Jobs
  <2>3. CASE Fails(p) /\ UNCHANGED <<source, runs, runtime, dirs, vars_file, box, guest>>
    BY <2>3, FailsFacts DEF TypeOK, source, runtime, dirs
  <2> QED BY <1>7, <2>1, <2>2, <2>3, InStageFacts DEF BuildJson
<1>8. CASE RemoveFinal(p)
  <2>1. proc[p].tree \in Trees
    BY <1>8 DEF RemoveFinal, At, Building, CommandsInv
  <2>2. final[proc[p].tree] \in Dirs
    BY <2>1 DEF TypeOK
  <2>3. PICK e \in Removing(final[proc[p].tree]) : final' = [final EXCEPT ![proc[p].tree] = e]
    BY <1>8 DEF RemoveFinal
  <2>4. e \in Dirs
    BY <2>2, RemovingFacts
  <2>5. final' \in [Trees -> Dirs]
    BY <2>1, <2>3, <2>4 DEF TypeOK
  <2>6. proc' \in [Procs -> Jobs]
    BY <1>8, GotoFacts, PcTypes DEF RemoveFinal
  <2> QED BY <1>8, <2>5, <2>6 DEF RemoveFinal, TypeOK, source, runtime
<1>9. CASE Replace(p)
  <2>1. proc[p].tree \in Trees
    BY <1>9 DEF Replace, At, Building, CommandsInv
  <2>2. final' \in [Trees -> Dirs] /\ stage' \in [Trees -> Dirs]
    BY <1>9, <2>1, NoneTypes DEF Replace, TypeOK
  <2>3. proc' \in [Procs -> Jobs]
    BY <1>9, FailsFacts, GotoFacts, PcTypes DEF Replace
  <2> QED BY <1>9, <2>2, <2>3 DEF Replace, TypeOK, source, runtime
<1>10. CASE set_current(p)
  <2>1. proc[p].tree \in Trees
    BY <1>10 DEF set_current, At, Building, CommandsInv
  <2>2. proc' \in [Procs -> Jobs]
    BY <1>10, <2>1, FailsFacts, ResolvedFacts DEF set_current
  <2> QED BY <1>10, <2>1, <2>2 DEF set_current, TypeOK, source, runtime, MaybeTree
<1> QED
  BY <1>1, <1>2, <1>3, <1>4, <1>r, <1>5, <1>6, <1>7, <1>8, <1>9, <1>10 DEF Build

\* The fields of the guest that a step of the install writes.
LEMMA InstallType ==
  ASSUME ComponentAssumption, TypeOK, CommandsInv, Install
  PROVE  TypeOK'
<1>0. guest \in Hosts /\ proc["cli"] \in Jobs /\ "cli" \in Procs
  BY DEF TypeOK, Procs
<1>1. CASE BuildRelease
  <2> DEFINE a == DirOf(vars_file)
  <2>1. CASE Fails("cli") /\ UNCHANGED guest
    BY <1>1, <2>1, <1>0, FailsFacts DEF BuildRelease, TypeOK, source, runtime, dirs
  <2>2. CASE ~(Fails("cli") /\ UNCHANGED guest)
    <3>1. a \in Dirs
      BY <1>0, <1>1 DEF BuildRelease, DirOf, CommandsInv, TypeOK
    <3>2. a.wheel \in MaybeTree
      BY <3>1 DEF Dirs
    <3>3. runs \in 1..MaxRuns
      BY <1>0, <1>1, Constants DEF BuildRelease, CommandsInv, TypeOK, At
    <3> HIDE DEF a
    <3>4. /\ guest' = [guest EXCEPT !.releases = @ \cup {runs}, !.content[runs] = a.wheel]
          /\ proc' = [proc EXCEPT !["cli"].pc = "flip", !["cli"].release = runs, !["cli"].src = vars_file]
          /\ UNCHANGED <<source, runs, runtime, dirs, vars_file, box>>
      BY <1>1, <2>2 DEF BuildRelease, a
    <3>5. guest' \in Hosts
      BY <1>0, <3>2, <3>3, <3>4 DEF Hosts
    <3>6. [proc["cli"] EXCEPT !.pc = "flip", !.release = runs, !.src = vars_file] \in Jobs
      <4>1. vars_file \in VarsFiles /\ runs \in 0..MaxRuns /\ "flip" \in Pcs
        BY PcTypes DEF TypeOK
      <4> QED BY <1>0, <4>1 DEF Jobs
    <3>7. proc' \in [Procs -> Jobs]
      BY <1>0, <3>4, <3>6 DEF TypeOK
    <3> QED BY <3>4, <3>5, <3>7 DEF TypeOK, source, runtime, dirs
  <2> QED BY <2>1, <2>2
<1>2. CASE Flip
  <2>1. guest' \in Hosts
    BY <1>0, <1>2 DEF Flip, Hosts, Jobs
  <2>2. proc' \in [Procs -> Jobs]
    BY <1>0, <1>2, GotoFacts, PcTypes DEF Flip, Flipped
  <2> QED BY <1>2, <2>1, <2>2 DEF Flip, TypeOK, source, runtime, dirs
<1>3. CASE LiveCheck
  <2>1. guest' \in Hosts
    BY <1>0, <1>3 DEF LiveCheck, flip_back, Hosts
  <2>2. proc' \in [Procs -> Jobs]
    BY <1>0, <1>3, GotoFacts, FailsFacts, PcTypes DEF LiveCheck, Flipped
  <2> QED BY <1>3, <2>1, <2>2 DEF LiveCheck, TypeOK, source, runtime, dirs
<1>4. CASE Prune
  <2>1. guest' \in Hosts
    BY <1>0, <1>4 DEF Prune, Hosts
  <2>2. proc' \in [Procs -> Jobs]
    BY <1>0, <1>4, GotoFacts, PcTypes DEF Prune, Flipped
  <2> QED BY <1>4, <2>1, <2>2 DEF Prune, TypeOK, source, runtime, dirs
<1>5. CASE Record
  <2>1. guest' \in Hosts
    BY <1>0, <1>5 DEF Record, Hosts, Jobs
  <2>2. proc' \in [Procs -> Jobs]
    BY <1>0, <1>5, FailsFacts DEF Record
  <2> QED BY <1>5, <2>1, <2>2 DEF Record, TypeOK, source, runtime, dirs
<1> QED BY <1>1, <1>2, <1>3, <1>4, <1>5 DEF Install

\* What the start of a command does to it.
LEMMA StartFacts ==
  ASSUME ComponentAssumption, TypeOK, NEW p \in Procs, NEW verb \in {"bake", "build", "install"},
         Start(p, verb, "clean")
  PROVE  /\ proc' \in [Procs -> Jobs] /\ Others(p) /\ proc'[p].pc = "clean" /\ proc'[p].touched = FALSE
         /\ runs' \in 0..MaxRuns /\ runs' > 0 /\ proc[p].pc = "idle"
<1>1. [Idle EXCEPT !.verb = verb, !.pc = "clean", !.argv = head] \in Jobs
  BY NoneTypes, PcTypes DEF TypeOK, MaybeTree, Jobs
<1>2. proc' \in [Procs -> Jobs] /\ Others(p)
  BY <1>1 DEF Start, TypeOK, Others, Same
<1>3. proc'[p].pc = "clean" /\ proc'[p].touched = FALSE
  BY DEF Start, TypeOK, Idle
<1>4. runs' \in 0..MaxRuns /\ runs' > 0
  BY Constants DEF Start, TypeOK
<1> QED BY <1>2, <1>3, <1>4 DEF Start, At

\* An edit marks the builds it falls into and moves no command.
LEMMA EditFacts ==
  ASSUME TypeOK, Edit
  PROVE  /\ proc' \in [Procs -> Jobs] /\ work' \in Trees /\ edits' \in Nat
         /\ \A p \in Procs : /\ proc'[p].pc = proc[p].pc /\ proc'[p].tree = proc[p].tree
                             /\ proc'[p].src = proc[p].src /\ proc'[p].release = proc[p].release
                             /\ proc'[p].tested = proc[p].tested /\ proc'[p].crossed = proc[p].crossed
                             /\ proc[p].pc \in BuildSteps => proc'[p].touched = TRUE
                             /\ proc[p].pc \notin BuildSteps => proc'[p].touched = proc[p].touched
<1>1. proc' = [p \in Procs |-> [proc[p] EXCEPT !.touched = @ \/ proc[p].pc \in BuildSteps]]
  BY DEF Edit
<1>2. ASSUME NEW p \in Procs
      PROVE  /\ proc'[p] \in Jobs /\ proc'[p].pc = proc[p].pc /\ proc'[p].tree = proc[p].tree
             /\ proc'[p].src = proc[p].src /\ proc'[p].release = proc[p].release
             /\ proc'[p].tested = proc[p].tested /\ proc'[p].crossed = proc[p].crossed
             /\ proc'[p].touched = (proc[p].touched \/ proc[p].pc \in BuildSteps)
  <2>1. proc[p] \in Jobs
    BY DEF TypeOK
  <2>2. proc'[p] = [proc[p] EXCEPT !.touched = proc[p].touched \/ proc[p].pc \in BuildSteps]
    BY <1>1
  <2> QED BY <2>1, <2>2 DEF Jobs
<1>3. proc' \in [Procs -> Jobs]
  BY <1>1, <1>2
<1>4. \A p \in Procs : proc[p].touched \in BOOLEAN
  BY DEF TypeOK, Jobs
<1>5. work' \in Trees /\ edits' \in Nat
  BY DEF Edit, TypeOK
<1> QED BY <1>2, <1>3, <1>4, <1>5

\* ensure_built takes the command to its play, its build or its end.
LEMMA EnsureFacts ==
  ASSUME ComponentAssumption, TypeOK, NEW p \in Procs, ensure_built(p)
  PROVE  /\ proc' \in [Procs -> Jobs] /\ Others(p) /\ current' \in MaybeTree
         /\ proc[p].pc = "clean"
         /\ \/ proc'[p] = Idle
            \/ proc'[p].pc = "vars" /\ proc'[p].src.tree \in Trees
            \/ /\ proc'[p].pc = "tarball" /\ proc'[p].tree = work /\ proc'[p].touched = proc[p].touched
               /\ proc'[p].tree \in Trees
               /\ \A q \in Procs \ {p} : Building(q) => proc'[p].crossed /\ proc'[q].crossed
<1>0. proc[p] \in Jobs /\ head \in Trees
  BY DEF TypeOK
<1>1. CASE Fails(p) /\ UNCHANGED current
  BY <1>1, FailsFacts DEF ensure_built, At, TypeOK
<1>2. CASE current' = head /\ Resolved(p, "final", head)
  BY <1>0, <1>2, ResolvedFacts DEF ensure_built, At, MaybeTree
<1>3. CASE head = work /\ BeginBuild(p) /\ UNCHANGED current
  <2> DEFINE company == \E r \in Procs \ {p} : Building(r)
  <2>c. company \in BOOLEAN /\ \A q \in Procs : Building(q) \in BOOLEAN
    BY DEF Building
  <2> HIDE DEF company
  <2>p. proc'[p] = [proc[p] EXCEPT !.pc = "tarball", !.tree = head, !.crossed = company]
    BY <1>3 DEF BeginBuild, company
  <2>q. \A q \in Procs \ {p} : proc'[q] = [proc[q] EXCEPT !.crossed = proc[q].crossed \/ Building(q)]
    BY <1>3 DEF BeginBuild
  <2>1. proc'[p] \in Jobs
    BY <1>0, <2>c, <2>p, PcTypes DEF Jobs, BuildSteps, MaybeTree
  <2>2. ASSUME NEW q \in Procs \ {p}
        PROVE  proc'[q] \in Jobs /\ Same(q) /\ (Building(q) => proc'[q].crossed)
    <3>1. proc[q] \in Jobs
      BY DEF TypeOK
    <3>2. proc[q].crossed \in BOOLEAN
      BY <3>1 DEF Jobs
    <3>3. PICK b \in BOOLEAN : b = (proc[q].crossed \/ Building(q))
      BY <2>c, <3>2
    <3>4. proc'[q] = [proc[q] EXCEPT !.crossed = b]
      BY <2>q, <3>3
    <3>5. proc'[q] \in Jobs /\ Same(q) /\ proc'[q].crossed = b
      BY <3>1, <3>3, <3>4 DEF Jobs, Same
    <3> QED BY <3>3, <3>5
  <2>3. proc' \in [Procs -> Jobs] /\ Others(p)
    BY <1>3, <2>1, <2>2 DEF BeginBuild, Others
  <2>4. /\ proc'[p].pc = "tarball" /\ proc'[p].tree = head /\ proc'[p].touched = proc[p].touched
        /\ proc'[p].crossed = company
    BY <1>0, <2>p DEF Jobs
  <2>5. \A q \in Procs \ {p} : Building(q) => proc'[p].crossed /\ proc'[q].crossed
    BY <2>2, <2>4 DEF company
  <2> QED BY <1>0, <1>3, <2>3, <2>4, <2>5 DEF ensure_built, At, TypeOK
<1> QED BY <1>1, <1>2, <1>3 DEF ensure_built, refuse_dirty

LEMMA ArtifactChosen ==
  ASSUME TypeOK, resolve_artifact
  PROVE  /\ proc' \in [Procs -> Jobs] /\ Others("cli") /\ proc'["cli"].pc = "vars"
         /\ proc'["cli"].src.tree \in Trees
<1>1. PICK t \in Trees, d \in {"final", "stage"} : Resolved("cli", d, t)
  BY DEF resolve_artifact
<1> QED BY <1>1, ResolvedFacts DEF Procs

LEMMA TypeStep ==
  ASSUME ComponentAssumption, TypeOK, CommandsInv, [Next]_vars
  PROVE  TypeOK'
<1>1. CASE Edit
  <2>1. edits' \in 0..MaxEdits
    BY <1>1, Constants DEF Edit, TypeOK
  <2> QED BY <1>1, <2>1, EditFacts DEF Edit, TypeOK, runtime, dirs
<1>2. CASE Commit
  BY <1>2 DEF Commit, TypeOK, runtime, dirs
<1>3. CASE StartBake \/ StartBuild \/ StartInstall
  <2>1. PICK p \in Procs, verb \in {"bake", "build", "install"} : Start(p, verb, "clean")
    BY <1>3 DEF StartBake, StartBuild, StartInstall, Procs
  <2>2. proc' \in [Procs -> Jobs] /\ runs' \in 0..MaxRuns
    BY <2>1, StartFacts
  <2> QED BY <2>1, <2>2 DEF Start, TypeOK, source, runtime, dirs
<1>4. CASE resolve_artifact
  BY <1>4, ArtifactChosen DEF resolve_artifact, TypeOK, source, runtime, dirs
<1>5. ASSUME NEW p \in Procs, ensure_built(p) PROVE TypeOK'
  BY <1>5, EnsureFacts DEF ensure_built, TypeOK, source, runtime
<1>6. ASSUME NEW p \in Procs, Build(p) PROVE TypeOK'
  BY <1>6, BuildType
<1>7. ASSUME NEW p \in Procs, Killed(p) PROVE TypeOK'
  <2>1. guest \in Hosts
    BY DEF TypeOK
  <2>2. guest' \in Hosts
    BY <1>7, <2>1 DEF Killed, Hosts
  <2> QED BY <1>7, <2>2, FailsFacts DEF Killed, TypeOK, source, runtime, dirs
<1>8. ASSUME NEW p \in Procs, install_vars(p) PROVE TypeOK'
  <2>1. proc' \in [Procs -> Jobs]
    BY <1>8, GotoFacts, PcTypes DEF install_vars
  <2>2. vars_file' \in VarsFiles
    BY <1>8 DEF install_vars, TypeOK, Jobs
  <2> QED BY <1>8, <2>1, <2>2 DEF install_vars, TypeOK, source, runtime, dirs
<1>9. CASE Bake
  <2> DEFINE a == DirOf(vars_file)
  <2>1. "bake" \in Procs /\ proc["bake"] \in Jobs
    BY DEF TypeOK, Procs
  <2>2. a \in Dirs
    BY <1>9, <2>1 DEF Bake, DirOf, CommandsInv, TypeOK
  <2> HIDE DEF a
  <2>3. proc' \in [Procs -> Jobs]
    BY <1>9, <2>1, FailsFacts DEF Bake
  <2>4. \/ box' = [recorded |-> proc["bake"].argv, content |-> a.wheel, touched |-> a.touched]
        \/ box' = box
    BY <1>9 DEF Bake, a
  <2>5. box' \in [recorded : MaybeTree, content : MaybeTree, touched : BOOLEAN]
    BY <2>1, <2>2, <2>4 DEF TypeOK, Dirs, Jobs
  <2> QED BY <1>9, <2>3, <2>5 DEF Bake, TypeOK, source, runtime, dirs
<1>10. CASE Install
  BY <1>10, InstallType
<1>11. CASE UNCHANGED vars
  BY <1>11 DEF vars, TypeOK
<1> QED
  BY <1>1, <1>2, <1>3, <1>4, <1>5, <1>6, <1>7, <1>8, <1>9, <1>10, <1>11 DEF Next

-----------------------------------------------------------------------------
(***************************************************************************)
(* The commands.                                                           *)
(***************************************************************************)

\* What a step of one command must respect.
LEMMA CommandsFrame ==
  ASSUME TypeOK, CommandsInv, NEW p \in Procs, Others(p),
         Building(p)' => /\ proc'[p].tree \in Trees
                         /\ Building(p) /\ proc[p].crossed => proc'[p].crossed
                         /\ \/ Building(p)
                            \/ \A q \in Procs \ {p} : Building(q) => proc'[p].crossed /\ proc'[q].crossed,
         proc'[p].pc = "vars" => proc'[p].src.tree \in Trees,
         proc'[p].pc = "play" => vars_file'.tree \in Trees,
         proc'[p].pc = "unpack" => proc'[p].crossed \/ tarball' = "good",
         proc'[p].pc # "idle" => runs' > 0,
         vars_file' = vars_file \/ vars_file'.tree \in Trees,
         tarball' = tarball \/ Building(p),
         runs > 0 => runs' > 0
  PROVE  CommandsInv'
<1>1. ASSUME NEW q \in Procs, q # p
      PROVE  Same(q) /\ (Building(q)' <=> Building(q)) /\ (At(q, "unpack") => Building(q))
  BY <1>1 DEF Others, Same, Building, At, BuildSteps
<1>2. \A q, r \in Procs : Building(q)' /\ Building(r)' => q = r \/ proc'[q].crossed
  <2> SUFFICES ASSUME NEW q \in Procs, NEW r \in Procs, Building(q)', Building(r)', q # r
               PROVE  proc'[q].crossed
    OBVIOUS
  <2>1. CASE q = p
    <3>1. Building(r)
      BY <1>1, <2>1
    <3>2. Building(p) => proc[p].crossed
      BY <2>1, <3>1 DEF CommandsInv
    <3> QED BY <2>1, <3>1, <3>2
  <2>2. CASE r = p
    <3>1. Building(q) /\ Same(q)
      BY <1>1, <2>2
    <3>2. Building(p) => proc[q].crossed
      BY <2>2, <3>1 DEF CommandsInv
    <3> QED BY <2>2, <3>1, <3>2 DEF Same
  <2>3. CASE q # p /\ r # p
    <3>1. Building(q) /\ Building(r) /\ Same(q)
      BY <1>1, <2>3
    <3> QED BY <3>1 DEF CommandsInv, Same
  <2> QED BY <2>1, <2>2, <2>3
<1>3. ASSUME NEW q \in Procs, q # p
      PROVE  /\ Building(q)' => proc'[q].tree \in Trees
             /\ At(q, "vars")' => proc'[q].src.tree \in Trees
             /\ At(q, "play")' => vars_file'.tree \in Trees
             /\ At(q, "unpack")' /\ ~proc'[q].crossed => tarball' = "good"
             /\ ~At(q, "idle")' => runs' > 0
  <2>1. tarball' = tarball \/ ~At(q, "unpack") \/ proc[q].crossed
    BY <1>1, <1>3 DEF CommandsInv
  <2> QED BY <1>1, <1>3, <2>1 DEF CommandsInv, At, Same
<1> QED BY <1>2, <1>3 DEF CommandsInv, At

\* A command that ends disturbs nothing.
LEMMA EndsCommand ==
  ASSUME ComponentAssumption, TypeOK, CommandsInv, NEW p \in Procs, Fails(p), UNCHANGED <<vars_file, runs>>,
         tarball' = tarball \/ Building(p)
  PROVE  CommandsInv'
<1>1. Others(p) /\ proc'[p].pc = "idle" /\ ~Building(p)'
  BY FailsFacts DEF Idle, Building, BuildSteps
<1> QED BY <1>1, CommandsFrame

\* A build that goes on.
LEMMA BuildsOn ==
  ASSUME TypeOK, CommandsInv, NEW p \in Procs, Building(p), Others(p),
         proc'[p].tree = proc[p].tree, proc'[p].crossed = proc[p].crossed, proc'[p].pc \notin {"vars", "play"},
         proc'[p].pc = "unpack" => tarball' = "good", UNCHANGED <<vars_file, runs>>
  PROVE  CommandsInv'
<1>1. runs > 0 /\ proc[p].tree \in Trees
  BY DEF CommandsInv, Building, At, BuildSteps
<1> QED BY <1>1, CommandsFrame

LEMMA CommandsStep ==
  ASSUME ComponentAssumption, TypeOK, CommandsInv, [Next]_vars
  PROVE  CommandsInv'
<1>n. runs \in Nat /\ \A p \in Procs : proc[p] \in Jobs
  BY Constants DEF TypeOK
<1>c. "cli" \in Procs /\ "bake" \in Procs
  BY DEF Procs
<1>1. CASE Edit
  <2>1. \A p \in Procs : /\ proc'[p].pc = proc[p].pc /\ proc'[p].tree = proc[p].tree
                          /\ proc'[p].src = proc[p].src /\ proc'[p].crossed = proc[p].crossed
    BY <1>1, EditFacts
  <2>2. UNCHANGED <<vars_file, tarball, runs>>
    BY <1>1 DEF Edit, runtime
  <2>3. \A p \in Procs : Building(p)' <=> Building(p)
    BY <2>1 DEF Building
  <2> QED BY <2>1, <2>2, <2>3 DEF CommandsInv, At
<1>2. CASE StartBake \/ StartBuild \/ StartInstall
  <2>1. PICK p \in Procs, verb \in {"bake", "build", "install"} : Start(p, verb, "clean")
    BY <1>2 DEF StartBake, StartBuild, StartInstall, Procs
  <2>2. Others(p) /\ proc'[p].pc = "clean" /\ runs' > 0 /\ ~Building(p)'
    BY <2>1, StartFacts DEF Building, BuildSteps
  <2>3. UNCHANGED <<vars_file, tarball>>
    BY <2>1 DEF Start, runtime
  <2> QED BY <2>2, <2>3, CommandsFrame
<1>3. CASE resolve_artifact
  <2>1. Others("cli") /\ proc'["cli"].pc = "vars" /\ proc'["cli"].src.tree \in Trees /\ ~Building("cli")'
    BY <1>3, ArtifactChosen DEF Building, BuildSteps
  <2>2. UNCHANGED <<vars_file, tarball, runs>> /\ runs > 0
    BY <1>3, <1>c DEF resolve_artifact, runtime, CommandsInv, At
  <2> QED BY <1>c, <2>1, <2>2, CommandsFrame
<1>4. ASSUME NEW p \in Procs, ensure_built(p) PROVE CommandsInv'
  <2>1. UNCHANGED <<vars_file, tarball, runs>> /\ runs > 0 /\ Others(p)
    BY <1>4, EnsureFacts DEF ensure_built, runtime, CommandsInv, At
  <2>2. proc'[p].pc \in {"idle", "vars", "tarball"} /\ (Building(p)' => proc'[p].tree \in Trees)
        /\ (proc'[p].pc = "vars" => proc'[p].src.tree \in Trees)
    BY <1>4, EnsureFacts DEF Idle, Building, BuildSteps
  <2>3. /\ ~Building(p)
        /\ Building(p)' => \A q \in Procs \ {p} : Building(q) => proc'[p].crossed /\ proc'[q].crossed
    BY <1>4, EnsureFacts DEF Idle, Building, BuildSteps
  <2> QED BY <2>1, <2>2, <2>3, CommandsFrame
<1>5. ASSUME NEW p \in Procs, Build(p) PROVE CommandsInv'
  <2>b. Building(p) /\ runs > 0 /\ proc[p].tree \in Trees /\ UNCHANGED <<vars_file, runs>>
    <3>1. Building(p) /\ UNCHANGED <<vars_file, runs>>
      BY <1>5 DEF Build, ensure_tarball, unpack, test, RemoveStage, StageDir, wheel, stage_deps, BuildJson, RemoveFinal,
                  Replace, set_current, InStage, Building, BuildSteps, At
    <3> QED BY <3>1 DEF CommandsInv, Building, BuildSteps, At
  <2>1. CASE Fails(p)
    BY <2>1, <2>b, EndsCommand
  <2>2. ASSUME NEW pc \in (BuildSteps \ {"unpack"}) \cup {"remove", "replace", "current"}, Goto(p, pc)
        PROVE  CommandsInv'
    <3>1. pc \in Pcs /\ pc \notin {"vars", "play", "unpack"}
      BY PcTypes DEF BuildSteps
    <3> QED BY <2>2, <2>b, <3>1, GotoFacts, BuildsOn
  <2>3. CASE tarball' = "good" /\ Goto(p, "unpack")
    <3>1. "unpack" \in Pcs
      BY PcTypes DEF BuildSteps
    <3> QED BY <2>3, <2>b, <3>1, GotoFacts, BuildsOn
  <2>4. CASE test(p)
    <3>1. CASE proc' = [proc EXCEPT ![p].pc = "stage", ![p].tested = work]
      <4>1. /\ Others(p) /\ proc'[p].tree = proc[p].tree /\ proc'[p].pc = "stage"
            /\ proc'[p].crossed = proc[p].crossed
        BY <1>n, <3>1 DEF TypeOK, Others, Same, Jobs
      <4> QED BY <2>b, <4>1, BuildsOn
    <3> QED BY <2>1, <2>4, <3>1 DEF test
  <2>5. CASE set_current(p)
    <3>1. CASE Resolved(p, "final", proc[p].tree)
      <4>1. Others(p) /\ proc'[p].pc = "vars" /\ proc'[p].src.tree \in Trees /\ ~Building(p)'
        BY <2>b, <3>1, ResolvedFacts DEF Building, BuildSteps
      <4> QED BY <2>b, <4>1, CommandsFrame
    <3> QED BY <2>1, <2>5, <3>1 DEF set_current
  <2> QED
    BY <1>5, <2>1, <2>2, <2>3, <2>4, <2>5
    DEF Build, ensure_tarball, unpack, RemoveStage, StageDir, wheel, stage_deps, BuildJson, RemoveFinal, Replace, InStage,
        BuildSteps
<1>6. ASSUME NEW p \in Procs, Killed(p) PROVE CommandsInv'
  BY <1>6, EndsCommand DEF Killed, runtime
<1>7. ASSUME NEW p \in Procs, install_vars(p) PROVE CommandsInv'
  <2>1. Goto(p, "play") /\ "play" \in Pcs
    BY <1>7, PcTypes DEF install_vars
  <2>2. Others(p) /\ proc'[p].pc = "play" /\ ~Building(p)'
    BY <2>1, GotoFacts DEF Building, BuildSteps
  <2>3. vars_file'.tree \in Trees /\ UNCHANGED <<tarball, runs>> /\ runs > 0
    BY <1>7 DEF install_vars, CommandsInv, At, runtime
  <2> QED BY <2>2, <2>3, CommandsFrame
<1>8. CASE Bake
  BY <1>8, <1>c, EndsCommand DEF Bake, runtime
<1>9. CASE Install
  <2>0. UNCHANGED <<vars_file, runs, tarball>> /\ runs > 0
    BY <1>9, <1>c DEF Install, BuildRelease, Flip, LiveCheck, Prune, Record, runtime, CommandsInv, At
  <2>1. CASE Fails("cli")
    BY <1>c, <2>0, <2>1, EndsCommand
  <2>2. ASSUME NEW pc \in Flipped, Goto("cli", pc) PROVE CommandsInv'
    <3>1. pc \in Pcs /\ pc \notin {"vars", "play", "unpack"}
      BY PcTypes DEF Flipped
    <3>2. Others("cli") /\ proc'["cli"].pc = pc
      BY <1>c, <2>2, <3>1, GotoFacts
    <3>3. ~Building("cli")'
      BY <3>2 DEF Building, BuildSteps, Flipped
    <3> QED BY <1>c, <2>0, <3>1, <3>2, <3>3, CommandsFrame
  <2>3. CASE BuildRelease /\ ~Fails("cli")
    <3>1. proc' = [proc EXCEPT !["cli"].pc = "flip", !["cli"].release = runs, !["cli"].src = vars_file]
      BY <2>3 DEF BuildRelease
    <3>2. Others("cli") /\ proc'["cli"].pc = "flip"
      BY <1>n, <1>c, <3>1 DEF TypeOK, Others, Same, Jobs
    <3>3. ~Building("cli")'
      BY <3>2 DEF Building, BuildSteps
    <3> QED BY <1>c, <2>0, <3>2, <3>3, CommandsFrame
  <2> QED BY <1>9, <2>1, <2>2, <2>3 DEF Install, Flip, LiveCheck, Prune, Record, Flipped
<1>10. CASE Commit \/ UNCHANGED vars
  BY <1>10 DEF Commit, vars, CommandsInv, Building, At, runtime
<1> QED
  BY <1>1, <1>2, <1>3, <1>4, <1>5, <1>6, <1>7, <1>8, <1>9, <1>10 DEF Next

-----------------------------------------------------------------------------
(***************************************************************************)
(* The build and its artifact.                                             *)
(***************************************************************************)

\* A command that builds nothing has nothing to keep.
LEMMA RestingJob ==
  ASSUME NEW p \in Procs, proc'[p].pc \notin BuildSteps, proc'[p].pc # "clean"
  PROVE  JobInv(p)'
BY DEF JobInv, BuildSteps

\* The other command keeps its part: its directory is written by another build
\* only in company, and then BUILD.json is not there or tells of it.
Marked(dir) == ~dir.json \/ dir.crossed

LEMMA JobFrame ==
  ASSUME TypeOK, CommandsInv, BuildInv, NEW p \in Procs, Others(p), work' = work,
         \/ stage' = stage
         \/ Building(p) /\ (proc[p].crossed => \A t \in Trees : Marked(stage[t]) => Marked(stage'[t])),
         JobInv(p)'
  PROVE  BuildInv'
<1>1. ASSUME NEW q \in Procs, q # p PROVE JobInv(q)'
  <2>1. Same(q) /\ JobInv(q)
    BY <1>1 DEF Others, BuildInv
  <2>2. CASE stage' = stage
    BY <2>1, <2>2 DEF JobInv, Same
  <2>3. CASE Building(p) /\ (proc[p].crossed => \A t \in Trees : Marked(stage[t]) => Marked(stage'[t]))
    <3>1. CASE ~Building(q)
      <4>1. proc[q].pc \notin BuildSteps
        BY <3>1 DEF Building
      <4> QED BY <2>1, <4>1 DEF JobInv, Same, BuildSteps
    <3>2. CASE Building(q)
      <4>1. proc[q].crossed /\ proc[p].crossed /\ proc[q].tree \in Trees
        BY <1>1, <2>3, <3>2 DEF CommandsInv
      <4>2. proc'[q].crossed
        BY <2>1, <4>1 DEF Same
      <4>3. Marked(stage[proc[q].tree]) => Marked(stage'[proc[q].tree])
        BY <2>3, <4>1
      <4> QED BY <2>1, <4>2, <4>3 DEF JobInv, Same, Marked
    <3> QED BY <3>1, <3>2
  <2> QED BY <2>2, <2>3
<1> QED BY <1>1 DEF BuildInv

\* The wheel step and the ones after it, on the staging directory.
LEMMA BuildKeeps ==
  ASSUME ComponentAssumption, TypeOK, CommandsInv, BuildInv, ArtifactWhole, NEW p \in Procs, Build(p)
  PROVE  BuildInv' /\ ArtifactWhole'
<1> DEFINE t == proc[p].tree
           d == stage[t]
           quiet == ~proc[p].touched /\ ~proc[p].crossed
<1>b. Building(p) /\ proc[p] \in Jobs /\ t \in Trees /\ work' = work /\ JobInv(p)
  <2>1. Building(p) /\ work' = work
    BY DEF Build, ensure_tarball, unpack, test, RemoveStage, StageDir, wheel, stage_deps, BuildJson, RemoveFinal,
           Replace, set_current, InStage, Building, BuildSteps, At, source
  <2> QED BY <2>1 DEF CommandsInv, TypeOK, BuildInv
<1>d. d \in Dirs /\ final[t] \in Dirs
  BY <1>b DEF TypeOK
<1>w. proc[p].touched \in BOOLEAN /\ proc[p].crossed \in BOOLEAN
  BY <1>b DEF Jobs
<1>1. ASSUME Fails(p), stage' = stage PROVE BuildInv'
  <2>1. Others(p) /\ proc'[p].pc = "idle"
    BY <1>1, FailsFacts DEF Idle
  <2>2. JobInv(p)'
    BY <2>1, RestingJob DEF BuildSteps
  <2> QED BY <1>b, <1>1, <2>1, <2>2, JobFrame
<1>a. ASSUME UNCHANGED <<stage, final>> PROVE ArtifactWhole'
  BY <1>a DEF ArtifactWhole
<1>2. ASSUME NEW pc \in {"unpack", "test"}, Goto(p, pc), UNCHANGED <<stage, final>>,
             proc[p].pc \in {"tarball", "unpack"}
      PROVE  BuildInv' /\ ArtifactWhole'
  <2>1. pc \in Pcs
    BY PcTypes DEF BuildSteps
  <2>2. Others(p) /\ proc'[p].pc = pc /\ proc'[p].tree = t /\ proc'[p].touched = proc[p].touched
    BY <1>2, <2>1, GotoFacts
  <2>3. JobInv(p)'
    BY <1>b, <1>2, <2>2 DEF JobInv, BuildSteps
  <2> QED BY <1>a, <1>b, <1>2, <2>2, <2>3, JobFrame
<1>3. CASE test(p)
  <2>0. UNCHANGED <<stage, final>>
    BY <1>3 DEF test, dirs
  <2>1. CASE proc' = [proc EXCEPT ![p].pc = "stage", ![p].tested = work]
    <3>1. /\ Others(p) /\ proc'[p].pc = "stage" /\ proc'[p].tree = t /\ proc'[p].touched = proc[p].touched
          /\ proc'[p].tested = work
      BY <1>b, <2>1 DEF TypeOK, Others, Same, Jobs
    <3>2. JobInv(p)'
      BY <1>b, <1>3, <3>1 DEF JobInv, BuildSteps, test, At
    <3> QED BY <1>a, <1>b, <2>0, <3>1, <3>2, JobFrame
  <2> QED BY <1>1, <1>a, <1>3, <2>0, <2>1 DEF test
<1>4. ASSUME NEW e \in Dirs, NEW pc \in {"mkdir", "wheel", "deps", "json", "remove"}, InStage(p, e, pc),
             pc # "remove" => proc[p].pc \in BuildSteps,
             pc \in {"mkdir", "wheel"} /\ ~proc[p].touched => proc[p].tested = t,
             pc \in {"wheel", "deps", "json"} => Marked(e),
             pc \in {"deps", "json"} /\ quiet => e.wheel = t /\ e.tested = t,
             pc = "json" /\ quiet => e.deps,
             e.json /\ ~e.cut /\ ~e.touched /\ ~e.crossed => e.wheel = t /\ e.tested = t /\ e.deps,
             proc[p].crossed /\ Marked(d) => Marked(e)
      PROVE  BuildInv' /\ ArtifactWhole'
  <2>1. pc \in Pcs
    BY PcTypes DEF BuildSteps
  <2>2. stage'[t] = e /\ \A s \in Trees \ {t} : stage'[s] = stage[s]
    BY <1>b, <1>4, <2>1, InStageFacts
  <2>3. final' = final /\ Goto(p, pc)
    BY <1>4 DEF InStage
  <2>4. /\ Others(p) /\ proc'[p].pc = pc /\ proc'[p].tree = t /\ proc'[p].touched = proc[p].touched
        /\ proc'[p].tested = proc[p].tested /\ proc'[p].crossed = proc[p].crossed
    BY <2>1, <2>3, GotoFacts
  <2>5. JobInv(p)'
    <3> HIDE DEF t
    <3>1. proc[p].pc \in BuildSteps /\ ~proc[p].touched => work = t
      BY <1>b DEF JobInv, t
    <3> QED BY <1>b, <1>4, <2>2, <2>4, <3>1 DEF JobInv, BuildSteps, Marked
  <2>6. proc[p].crossed => \A s \in Trees : Marked(stage[s]) => Marked(stage'[s])
    <3> HIDE DEF t
    <3> QED BY <1>4, <2>2
  <2>7. BuildInv'
    BY <1>b, <2>4, <2>5, <2>6, JobFrame
  <2>8. ArtifactWhole'
    BY <1>4, <2>2, <2>3 DEF ArtifactWhole
  <2> QED BY <2>7, <2>8
<1>r. CASE RemoveStage(p)
  <2>1. PICK e \in Removing(d) : InStage(p, e, "mkdir")
    BY <1>r DEF RemoveStage
  <2>2. /\ e \in Dirs /\ (e = d \/ e.json = FALSE \/ e.cut = TRUE)
        /\ e.crossed = d.crossed /\ (e.json => d.json)
    BY <1>d, RemovingFacts
  <2>3. proc[p].pc = "stage" /\ (~proc[p].touched => proc[p].tested = t)
    BY <1>b, <1>r DEF RemoveStage, At, JobInv
  <2>4. d.json /\ ~d.cut /\ ~d.touched /\ ~d.crossed => d.wheel = t /\ d.tested = t /\ d.deps
    BY <1>b DEF ArtifactWhole
  <2> HIDE DEF d
  <2> QED BY <1>4, <2>1, <2>2, <2>3, <2>4 DEF BuildSteps, Marked
<1>5. CASE StageDir(p)
  <2> DEFINE e == [NoDir EXCEPT !.there = TRUE]
  <2>1. e \in Dirs /\ ~e.json
    BY NoneTypes DEF Dirs, NoDir
  <2>2. proc[p].pc = "mkdir" /\ InStage(p, e, "wheel")
    BY <1>5 DEF StageDir, At
  <2>3. ~proc[p].touched => proc[p].tested = t
    BY <1>b, <2>2 DEF JobInv
  <2> HIDE DEF e
  <2> QED BY <1>4, <2>1, <2>2, <2>3 DEF BuildSteps, Marked
<1>6. CASE wheel(p)
  <2> DEFINE e == [d EXCEPT !.there = TRUE, !.wheel = work, !.tested = proc[p].tested]
  <2>1. proc[p].pc = "wheel" /\ InStage(p, e, "deps")
    BY <1>6 DEF wheel, At
  <2>2. Marked(d) /\ (~proc[p].touched => work = t /\ proc[p].tested = t)
    BY <1>b, <2>1 DEF JobInv, BuildSteps, Marked
  <2>3. work \in MaybeTree /\ proc[p].tested \in MaybeTree
    BY <1>b DEF TypeOK, Jobs, MaybeTree
  <2> HIDE DEF d
  <2>4. e \in Dirs /\ e.json = d.json /\ e.wheel = work /\ e.tested = proc[p].tested /\ e.crossed = d.crossed
    BY <1>d, <2>3 DEF Dirs
  <2> HIDE DEF e
  <2> QED BY <1>4, <2>1, <2>2, <2>4 DEF BuildSteps, Marked
<1>7. CASE stage_deps(p)
  <2> DEFINE e == [d EXCEPT !.there = TRUE, !.deps = TRUE]
  <2>1. proc[p].pc = "deps"
    BY <1>7 DEF stage_deps, At
  <2>2. Marked(d) /\ (quiet => d.wheel = t /\ d.tested = t)
    BY <1>b, <2>1 DEF JobInv, BuildSteps, Marked
  <2>3. InStage(p, e, "json") \/ (Fails(p) /\ UNCHANGED <<stage, final>>)
    BY <1>7 DEF stage_deps, dirs
  <2> HIDE DEF d
  <2>4. /\ e \in Dirs /\ e.json = d.json /\ e.wheel = d.wheel /\ e.tested = d.tested /\ e.deps = TRUE
        /\ e.crossed = d.crossed
    BY <1>d DEF Dirs
  <2> HIDE DEF e
  <2> QED BY <1>1, <1>a, <1>4, <2>1, <2>2, <2>3, <2>4 DEF BuildSteps, Marked
<1>8. CASE BuildJson(p)
  <2> DEFINE e == [d EXCEPT !.json = TRUE, !.touched = proc[p].touched, !.crossed = proc[p].crossed]
  <2>1. proc[p].pc = "json" /\ (InStage(p, e, "remove") \/ (Fails(p) /\ UNCHANGED <<stage, final>>))
    BY <1>8 DEF BuildJson, At, dirs
  <2>2. quiet => d.wheel = t /\ d.tested = t /\ d.deps
    BY <1>b, <2>1 DEF JobInv, BuildSteps
  <2> HIDE DEF d
  <2>3. /\ e \in Dirs /\ e.touched = proc[p].touched /\ e.wheel = d.wheel /\ e.tested = d.tested /\ e.deps = d.deps
        /\ e.crossed = proc[p].crossed
    BY <1>d, <1>w DEF Dirs
  <2> HIDE DEF e
  <2> QED BY <1>1, <1>a, <1>4, <2>1, <2>2, <2>3 DEF Marked
<1>9. ASSUME NEW pc \in {"replace", "current"}, Goto(p, pc), \A s \in Trees : Marked(stage[s]) => Marked(stage'[s])
      PROVE  BuildInv'
  <2>1. pc \in Pcs /\ pc \notin BuildSteps
    BY PcTypes DEF BuildSteps
  <2>2. Others(p) /\ proc'[p].pc = pc
    BY <1>9, <2>1, GotoFacts
  <2>3. JobInv(p)'
    BY <1>9, <2>1, <2>2, RestingJob
  <2> QED BY <1>b, <1>9, <2>2, <2>3, JobFrame
<1>10. CASE RemoveFinal(p)
  <2>1. PICK e \in Removing(final[t]) : final' = [final EXCEPT ![t] = e]
    BY <1>10 DEF RemoveFinal
  <2>2. e = final[t] \/ e.json = FALSE \/ e.cut = TRUE
    BY <1>d, RemovingFacts
  <2>3. stage' = stage /\ Goto(p, "replace")
    BY <1>10 DEF RemoveFinal
  <2>4. BuildInv'
    BY <1>9, <2>3
  <2>5. final'[t] = e /\ \A s \in Trees \ {t} : final'[s] = final[s]
    BY <1>b, <2>1 DEF TypeOK
  <2> QED BY <2>2, <2>3, <2>4, <2>5 DEF ArtifactWhole
<1>11. CASE Replace(p)
  <2>n. ~NoDir.json
    BY DEF NoDir
  <2>1. CASE stage[t].there
    <3>1. /\ final'[t] = stage[t] /\ stage'[t] = NoDir /\ Goto(p, "current")
          /\ \A s \in Trees \ {t} : final'[s] = final[s] /\ stage'[s] = stage[s]
      BY <1>11, <1>b, <2>1 DEF Replace, TypeOK
    <3>2. BuildInv'
      BY <1>9, <2>n, <3>1 DEF Marked
    <3> QED BY <1>b, <2>n, <3>1, <3>2 DEF ArtifactWhole
  <2>2. CASE ~stage[t].there
    <3>1. /\ final'[t] = NoDir /\ stage' = stage /\ Fails(p)
          /\ \A s \in Trees \ {t} : final'[s] = final[s]
      BY <1>11, <1>b, <2>2 DEF Replace, TypeOK
    <3> QED BY <1>1, <2>n, <3>1 DEF ArtifactWhole
  <2> QED BY <2>1, <2>2
<1>12. CASE set_current(p)
  <2>0. UNCHANGED <<stage, final>>
    BY <1>12 DEF set_current
  <2>1. CASE Resolved(p, "final", t)
    <3>1. Others(p) /\ proc'[p].pc = "vars"
      BY <1>b, <2>1, ResolvedFacts
    <3>2. JobInv(p)'
      BY <3>1, RestingJob DEF BuildSteps
    <3> QED BY <1>a, <1>b, <2>0, <3>1, <3>2, JobFrame
  <2> QED BY <1>1, <1>a, <1>12, <2>0, <2>1 DEF set_current
<1>13. CASE ensure_tarball(p) \/ unpack(p)
  BY <1>1, <1>a, <1>2, <1>13 DEF ensure_tarball, unpack, dirs, At
<1> QED
  BY <1>3, <1>r, <1>5, <1>6, <1>7, <1>8, <1>10, <1>11, <1>12, <1>13 DEF Build

LEMMA BuildStep ==
  ASSUME ComponentAssumption, TypeOK, CommandsInv, BuildInv, ArtifactWhole, [Next]_vars
  PROVE  BuildInv' /\ ArtifactWhole'
<1>c. "cli" \in Procs /\ "bake" \in Procs
  BY DEF Procs
<1>0. ASSUME NEW p \in Procs, Others(p), proc'[p].pc \notin BuildSteps, proc'[p].pc # "clean",
             UNCHANGED <<work, stage, final>>
      PROVE  BuildInv' /\ ArtifactWhole'
  BY <1>0, RestingJob, JobFrame DEF ArtifactWhole
<1>f. ASSUME NEW p \in Procs, Fails(p), UNCHANGED <<work, stage, final>>
      PROVE  BuildInv' /\ ArtifactWhole'
  <2>1. Others(p) /\ proc'[p].pc = "idle"
    BY <1>f, FailsFacts DEF Idle
  <2> QED BY <1>f, <1>0, <2>1 DEF BuildSteps
<1>1. CASE Edit
  <2>1. UNCHANGED <<stage, final>>
    BY <1>1 DEF Edit, dirs
  <2>2. ASSUME NEW p \in Procs PROVE JobInv(p)'
    <3>1. /\ proc'[p].pc = proc[p].pc /\ proc'[p].tree = proc[p].tree
          /\ proc[p].pc \in BuildSteps => proc'[p].touched = TRUE
          /\ proc[p].pc \notin BuildSteps => proc'[p].touched = proc[p].touched
      BY <1>1, EditFacts
    <3>2. JobInv(p)
      BY DEF BuildInv
    <3> QED BY <2>1, <3>1, <3>2 DEF JobInv, BuildSteps
  <2> QED BY <2>1, <2>2 DEF BuildInv, ArtifactWhole
<1>2. CASE StartBake \/ StartBuild \/ StartInstall
  <2>1. PICK p \in Procs, verb \in {"bake", "build", "install"} : Start(p, verb, "clean")
    BY <1>2 DEF StartBake, StartBuild, StartInstall, Procs
  <2>2. UNCHANGED <<work, stage, final>>
    BY <2>1 DEF Start, source, dirs
  <2>3. Others(p) /\ proc'[p].pc = "clean" /\ proc'[p].touched = FALSE
    BY <2>1, StartFacts
  <2>4. JobInv(p)'
    BY <2>3 DEF JobInv, BuildSteps
  <2> QED BY <2>2, <2>3, <2>4, JobFrame DEF ArtifactWhole
<1>3. CASE resolve_artifact
  <2>1. Others("cli") /\ proc'["cli"].pc = "vars"
    BY <1>3, ArtifactChosen
  <2>2. UNCHANGED <<work, stage, final>>
    BY <1>3 DEF resolve_artifact, source, dirs
  <2> QED BY <1>0, <1>c, <2>1, <2>2 DEF BuildSteps
<1>4. ASSUME NEW p \in Procs, ensure_built(p) PROVE BuildInv' /\ ArtifactWhole'
  <2>1. UNCHANGED <<work, stage, final>> /\ Others(p) /\ proc[p].pc = "clean"
    BY <1>4, EnsureFacts DEF ensure_built, source
  <2>2. CASE proc'[p].pc \in {"idle", "vars"}
    BY <1>0, <2>1, <2>2 DEF BuildSteps
  <2>3. CASE proc'[p].pc = "tarball" /\ proc'[p].tree = work /\ proc'[p].touched = proc[p].touched
    <3>1. JobInv(p)'
      BY <2>1, <2>3 DEF JobInv, BuildSteps
    <3> QED BY <2>1, <3>1, JobFrame DEF ArtifactWhole
  <2> QED BY <1>4, <2>2, <2>3, EnsureFacts DEF Idle
<1>5. ASSUME NEW p \in Procs, Build(p) PROVE BuildInv' /\ ArtifactWhole'
  BY <1>5, BuildKeeps
<1>6. ASSUME NEW p \in Procs, Killed(p) PROVE BuildInv' /\ ArtifactWhole'
  BY <1>f, <1>6 DEF Killed, source, dirs
<1>7. ASSUME NEW p \in Procs, install_vars(p) PROVE BuildInv' /\ ArtifactWhole'
  <2>1. Others(p) /\ proc'[p].pc = "play"
    BY <1>7, GotoFacts, PcTypes DEF install_vars
  <2>2. UNCHANGED <<work, stage, final>>
    BY <1>7 DEF install_vars, source, dirs
  <2> QED BY <1>0, <2>1, <2>2 DEF BuildSteps
<1>8. CASE Bake
  BY <1>8, <1>c, <1>f DEF Bake, source, dirs
<1>9. CASE Install
  <2>0. UNCHANGED <<work, stage, final>>
    BY <1>9 DEF Install, BuildRelease, Flip, LiveCheck, Prune, Record, source, dirs
  <2>1. CASE Fails("cli")
    BY <1>c, <1>f, <2>0, <2>1
  <2>2. ASSUME NEW pc \in Flipped, Goto("cli", pc) PROVE BuildInv' /\ ArtifactWhole'
    <3>1. Others("cli") /\ proc'["cli"].pc = pc
      BY <1>c, <2>2, PcTypes, GotoFacts
    <3> QED BY <1>0, <1>c, <2>0, <3>1 DEF Flipped, BuildSteps
  <2>3. CASE BuildRelease /\ ~Fails("cli")
    <3>1. proc' = [proc EXCEPT !["cli"].pc = "flip", !["cli"].release = runs, !["cli"].src = vars_file]
      BY <2>3 DEF BuildRelease
    <3>2. Others("cli") /\ proc'["cli"].pc = "flip"
      BY <1>c, <3>1 DEF TypeOK, Others, Same, Jobs
    <3> QED BY <1>0, <1>c, <2>0, <3>2 DEF BuildSteps
  <2> QED BY <1>9, <2>1, <2>2, <2>3 DEF Install, Flip, LiveCheck, Prune, Record, Flipped
<1>10. CASE Commit \/ UNCHANGED vars
  BY <1>10 DEF Commit, vars, BuildInv, JobInv, ArtifactWhole, dirs
<1> QED
  BY <1>1, <1>2, <1>3, <1>4, <1>5, <1>6, <1>7, <1>8, <1>9, <1>10 DEF Next

-----------------------------------------------------------------------------
(***************************************************************************)
(* The guest.                                                              *)
(***************************************************************************)

\* Only the install command moves the guest: a step that leaves both alone,
\* or moves the command among the steps before the flip, keeps its part.
LEMMA GuestFrame ==
  ASSUME ReleaseInv, RecordMatchesLive, guest' = guest,
         \/ /\ proc'["cli"].pc = proc["cli"].pc
            /\ proc'["cli"].release = proc["cli"].release
         \/ /\ proc["cli"].pc \notin Flipped
            /\ proc'["cli"].pc \notin Flipped \cup {"flip"}
  PROVE  ReleaseInv' /\ RecordMatchesLive'
<1>1. RecordMatchesLive'
  BY DEF RecordMatchesLive
<1>2. ReleaseInv'
  BY DEF ReleaseInv, Flipped
<1> QED BY <1>1, <1>2

LEMMA GuestStep ==
  ASSUME ComponentAssumption, TypeOK, CommandsInv, ReleaseInv, RecordMatchesLive, [Next]_vars
  PROVE  ReleaseInv' /\ RecordMatchesLive'
<1>c. "cli" \in Procs /\ "bake" \in Procs /\ "cli" # "bake"
  BY DEF Procs
<1>g. guest \in Hosts /\ proc["cli"] \in Jobs
  BY <1>c DEF TypeOK
<1>n. None \notin guest.releases /\ None = 0 /\ guest.cut \in BOOLEAN
  BY <1>g, Constants DEF Hosts, None
<1>i. Idle.pc = "idle" /\ "idle" \notin Flipped
  BY DEF Idle, Flipped
\* A step of some command that is not of its play.
<1>0. ASSUME NEW p \in Procs, Others(p), guest' = guest,
             proc[p].pc \notin Flipped \cup {"flip"}, proc'[p].pc \notin Flipped \cup {"flip"}
      PROVE  ReleaseInv' /\ RecordMatchesLive'
  <2>1. CASE p = "cli"
    BY <1>0, <2>1, GuestFrame
  <2>2. CASE p # "cli"
    <3>1. proc'["cli"].pc = proc["cli"].pc /\ proc'["cli"].release = proc["cli"].release
      BY <1>c, <1>0, <2>2 DEF Others, Same
    <3> QED BY <1>0, <3>1, GuestFrame
  <2> QED BY <2>1, <2>2
<1>1. CASE Edit
  <2>1. proc'["cli"].pc = proc["cli"].pc /\ proc'["cli"].release = proc["cli"].release
    BY <1>1, <1>c, EditFacts
  <2>2. guest' = guest
    BY <1>1 DEF Edit
  <2> QED BY <2>1, <2>2, GuestFrame
<1>2. CASE StartBake \/ StartBuild \/ StartInstall
  <2>1. PICK p \in Procs, verb \in {"bake", "build", "install"} : Start(p, verb, "clean")
    BY <1>2 DEF StartBake, StartBuild, StartInstall, Procs
  <2>2. Others(p) /\ proc'[p].pc = "clean" /\ proc[p].pc = "idle"
    BY <2>1, StartFacts
  <2>3. guest' = guest
    BY <2>1 DEF Start
  <2> QED BY <1>0, <2>2, <2>3 DEF Flipped
<1>3. CASE resolve_artifact
  <2>1. Others("cli") /\ proc'["cli"].pc = "vars"
    BY <1>3, ArtifactChosen
  <2>2. proc["cli"].pc = "clean" /\ guest' = guest
    BY <1>3 DEF resolve_artifact, At
  <2> QED BY <1>0, <1>c, <2>1, <2>2 DEF Flipped
<1>4. ASSUME NEW p \in Procs, ensure_built(p) PROVE ReleaseInv' /\ RecordMatchesLive'
  <2>1. Others(p) /\ proc[p].pc = "clean" /\ proc'[p].pc \in {"idle", "vars", "tarball"}
    BY <1>4, <1>i, EnsureFacts
  <2>2. guest' = guest
    BY <1>4 DEF ensure_built
  <2> QED BY <1>0, <2>1, <2>2 DEF Flipped
<1>5. ASSUME NEW p \in Procs, Build(p) PROVE ReleaseInv' /\ RecordMatchesLive'
  <2>1. Building(p) /\ guest' = guest
    BY <1>5 DEF Build, ensure_tarball, unpack, test, RemoveStage, StageDir, wheel, stage_deps, BuildJson, RemoveFinal,
                Replace, set_current, InStage, Building, BuildSteps, At
  <2>2. proc[p].pc \notin Flipped \cup {"flip"} /\ proc[p].tree \in Trees /\ proc[p] \in Jobs
    BY <2>1 DEF Building, BuildSteps, Flipped, CommandsInv, TypeOK
  <2>3. CASE Fails(p)
    BY <1>0, <1>i, <2>1, <2>2, <2>3, FailsFacts
  <2>4. ASSUME NEW pc \in BuildSteps \cup {"remove", "replace", "current"}, Goto(p, pc)
        PROVE  ReleaseInv' /\ RecordMatchesLive'
    <3>1. pc \in Pcs /\ pc \notin Flipped \cup {"flip"}
      BY PcTypes DEF BuildSteps, Flipped
    <3> QED BY <1>0, <2>1, <2>2, <2>4, <3>1, GotoFacts
  <2>5. CASE proc' = [proc EXCEPT ![p].pc = "stage", ![p].tested = work]
    <3>1. Others(p) /\ proc'[p].pc = "stage"
      BY <2>2, <2>5 DEF TypeOK, Others, Same, Jobs
    <3> QED BY <1>0, <2>1, <2>2, <3>1 DEF Flipped
  <2>6. CASE Resolved(p, "final", proc[p].tree)
    BY <1>0, <2>1, <2>2, <2>6, ResolvedFacts DEF Flipped
  <2> QED
    BY <1>5, <2>3, <2>4, <2>5, <2>6
    DEF Build, ensure_tarball, unpack, test, RemoveStage, StageDir, wheel, stage_deps, BuildJson, RemoveFinal, Replace,
        set_current, InStage, BuildSteps
<1>6. ASSUME NEW p \in Procs, Killed(p) PROVE ReleaseInv' /\ RecordMatchesLive'
  <2>1. Others(p) /\ proc'[p] = Idle
    BY <1>6, FailsFacts DEF Killed
  <2>2. /\ guest'.releases = guest.releases /\ guest'.content = guest.content /\ guest'.live = guest.live
        /\ guest'.previous = guest.previous /\ guest'.record = guest.record
        /\ guest'.cut = (guest.cut \/ proc[p].pc \in Flipped)
    BY <1>6, <1>g DEF Killed, Hosts
  <2>3. CASE p = "cli"
    BY <1>i, <2>1, <2>2, <2>3 DEF ReleaseInv, RecordMatchesLive
  <2>4. CASE p # "cli"
    <3>1. proc'["cli"].pc = proc["cli"].pc /\ proc'["cli"].release = proc["cli"].release
      BY <1>c, <2>1, <2>4 DEF Others, Same
    <3> QED BY <2>2, <3>1 DEF ReleaseInv, RecordMatchesLive
  <2> QED BY <2>3, <2>4
<1>7. ASSUME NEW p \in Procs, install_vars(p) PROVE ReleaseInv' /\ RecordMatchesLive'
  <2>1. Others(p) /\ proc'[p].pc = "play"
    BY <1>7, GotoFacts, PcTypes DEF install_vars
  <2>2. proc[p].pc = "vars" /\ guest' = guest
    BY <1>7 DEF install_vars, At
  <2> QED BY <1>0, <2>1, <2>2 DEF Flipped
<1>8. CASE Bake
  <2>1. Others("bake") /\ guest' = guest
    BY <1>8, <1>c, FailsFacts DEF Bake
  <2>2. proc'["cli"].pc = proc["cli"].pc /\ proc'["cli"].release = proc["cli"].release
    BY <1>c, <2>1 DEF Others, Same
  <2> QED BY <2>1, <2>2, GuestFrame
<1>9. CASE BuildRelease
  <2>1. proc["cli"].pc = "play" /\ runs \in 1..MaxRuns
    BY <1>9, <1>c, Constants DEF BuildRelease, At, CommandsInv, TypeOK
  <2>2. CASE Fails("cli") /\ UNCHANGED guest
    BY <1>0, <1>c, <1>i, <2>1, <2>2, FailsFacts DEF Flipped
  <2>3. CASE ~(Fails("cli") /\ UNCHANGED guest)
    <3> DEFINE a == DirOf(vars_file)
    <3>1. /\ a.wheel # None
          /\ guest' = [guest EXCEPT !.releases = @ \cup {runs}, !.content[runs] = a.wheel]
          /\ proc' = [proc EXCEPT !["cli"].pc = "flip", !["cli"].release = runs, !["cli"].src = vars_file]
      BY <1>9, <2>3 DEF BuildRelease
    <3> HIDE DEF a
    <3>2. proc'["cli"].pc = "flip" /\ proc'["cli"].release = runs
      BY <1>c, <1>g, <3>1 DEF TypeOK, Jobs
    <3>3. /\ guest'.releases = guest.releases \cup {runs} /\ guest'.live = guest.live
          /\ guest'.previous = guest.previous /\ guest'.record = guest.record /\ guest'.cut = guest.cut
      BY <1>g, <3>1 DEF Hosts
    <3>4. \A r \in 1..MaxRuns : guest'.content[r] = IF r = runs THEN a.wheel ELSE guest.content[r]
      BY <1>g, <2>1, <3>1 DEF Hosts
    <3>5. \A r \in guest'.releases : guest'.content[r] # None
      BY <1>g, <2>1, <3>1, <3>3, <3>4 DEF ReleaseInv, Hosts
    <3> QED BY <2>1, <3>2, <3>3, <3>5 DEF ReleaseInv, RecordMatchesLive, Flipped
  <2> QED BY <2>2, <2>3
<1>10. CASE Flip
  <2>1. proc'["cli"].pc = "live" /\ proc'["cli"].release = proc["cli"].release /\ proc["cli"].pc = "flip"
    BY <1>10, <1>c, GotoFacts, PcTypes DEF Flip, Flipped, At
  <2>2. /\ guest'.releases = guest.releases /\ guest'.content = guest.content
        /\ guest'.live = proc["cli"].release
        /\ guest'.previous = IF guest.live # None THEN guest.live ELSE guest.previous
        /\ guest'.record = guest.record /\ guest'.cut = guest.cut
    BY <1>10, <1>g DEF Flip, Hosts
  <2> QED BY <1>n, <2>1, <2>2 DEF ReleaseInv, RecordMatchesLive, Flipped
<1>11. CASE LiveCheck
  <2>0. proc["cli"].pc = "live"
    BY <1>11 DEF LiveCheck, At
  <2>1. CASE Goto("cli", "prune") /\ UNCHANGED guest
    <3>1. proc'["cli"].pc = "prune" /\ proc'["cli"].release = proc["cli"].release
      BY <1>c, <2>1, GotoFacts, PcTypes DEF Flipped
    <3> QED BY <2>0, <2>1, <3>1 DEF ReleaseInv, RecordMatchesLive, Flipped
  <2>2. CASE Fails("cli") /\ flip_back
    <3>1. proc'["cli"].pc = "idle"
      BY <1>c, <1>i, <2>2, FailsFacts
    <3>2. /\ guest'.releases = guest.releases /\ guest'.content = guest.content
          /\ guest'.live = guest.previous /\ guest'.previous = guest.previous
          /\ guest'.record = guest.record /\ guest'.cut = guest.cut
      BY <1>g, <2>2 DEF flip_back, Hosts
    <3> QED BY <2>0, <3>1, <3>2 DEF ReleaseInv, RecordMatchesLive, Flipped
  <2> QED BY <1>11, <2>1, <2>2 DEF LiveCheck
<1>12. CASE Prune
  <2>1. proc'["cli"].pc = "record" /\ proc'["cli"].release = proc["cli"].release /\ proc["cli"].pc = "prune"
    BY <1>12, <1>c, GotoFacts, PcTypes DEF Prune, Flipped, At
  <2>2. /\ guest'.releases = guest.releases \cap {guest.live, guest.previous} /\ guest'.content = guest.content
        /\ guest'.live = guest.live /\ guest'.previous = guest.previous
        /\ guest'.record = guest.record /\ guest'.cut = guest.cut
    BY <1>12, <1>g DEF Prune, prune_keeps, Hosts
  <2> QED BY <2>1, <2>2 DEF ReleaseInv, RecordMatchesLive, Flipped
<1>13. CASE Record
  <2>1. proc'["cli"].pc = "idle" /\ proc["cli"].pc = "record"
    BY <1>13, <1>c, <1>i, FailsFacts DEF Record, At
  <2>2. /\ guest'.releases = guest.releases /\ guest'.content = guest.content /\ guest'.live = guest.live
        /\ guest'.previous = guest.previous /\ guest'.record = proc["cli"].release
    BY <1>13, <1>g DEF Record, Hosts
  <2> QED BY <2>1, <2>2 DEF ReleaseInv, RecordMatchesLive, Flipped
<1>14. CASE Commit \/ UNCHANGED vars
  BY <1>14, GuestFrame DEF Commit, vars
<1> QED
  BY <1>1, <1>2, <1>3, <1>4, <1>5, <1>6, <1>7, <1>8, <1>9, <1>10, <1>11, <1>12, <1>13, <1>14 DEF Next, Install

-----------------------------------------------------------------------------
(***************************************************************************)
(* The interpreter is renamed into place whole.                            *)
(***************************************************************************)
LEMMA InterpreterStep ==
  ASSUME TypeOK, CommandsInv, InterpreterWhole, [Next]_vars
  PROVE  InterpreterWhole'
<1>1. interp' \in {interp, "good", "mixed"}
  BY DEF Next, vars, Edit, Commit, StartBake, StartBuild, StartInstall, Start, resolve_artifact, ensure_built,
         Build, ensure_tarball, unpack, test, RemoveStage, StageDir, wheel, stage_deps, BuildJson, RemoveFinal, Replace,
         set_current, InStage, Killed, install_vars, Bake, Install, BuildRelease, Flip, LiveCheck, Prune, Record,
         runtime, CommandsInv
<1> QED BY <1>1 DEF InterpreterWhole

LEMMA InitParts == ComponentAssumption /\ Init => ComponentsSound /\ CommandsInv /\ BuildInv /\ ReleaseInv
<1> SUFFICES ASSUME ComponentAssumption, Init PROVE ComponentsSound /\ CommandsInv /\ BuildInv /\ ReleaseInv
  OBVIOUS
<1>1. \A p \in Procs : proc[p] = Idle /\ proc[p].pc = "idle"
  BY DEF Init, Idle
<1>2. "cli" \in Procs
  BY DEF Procs
<1>3. InterpreterWhole /\ ArtifactWhole
  BY DEF Init, InterpreterWhole, ArtifactWhole, NoDir
<1>4. CommandsInv
  BY <1>1 DEF CommandsInv, Building, BuildSteps, At
<1>5. BuildInv
  BY <1>1 DEF BuildInv, JobInv, BuildSteps
<1>6. ReleaseInv /\ GuestRuns /\ RecordMatchesLive
  BY <1>1, <1>2 DEF Init, ReleaseInv, GuestRuns, RecordMatchesLive, Flipped
<1> QED BY <1>3, <1>4, <1>5, <1>6 DEF ComponentsSound

LEMMA InitInv == ComponentAssumption /\ Init => ComponentInv
BY TypeInit, InitParts DEF ComponentInv

LEMMA StepInv ==
  ASSUME ComponentAssumption, ComponentInv, [Next]_vars
  PROVE  ComponentInv'
<1> USE DEF ComponentInv, ComponentsSound
<1>1. TypeOK' /\ CommandsInv'
  BY TypeStep, CommandsStep
<1>2. BuildInv' /\ ArtifactWhole' /\ InterpreterWhole'
  BY BuildStep, InterpreterStep
<1>3. ReleaseInv' /\ RecordMatchesLive'
  BY GuestStep
<1>4. GuestRuns'
  BY <1>3 DEF ReleaseInv, GuestRuns
<1> QED BY <1>1, <1>2, <1>3, <1>4

LEMMA InvImplies == ComponentInv => ComponentsSound
BY DEF ComponentInv

\* The strengthening holds through every edit, build, bake, install and kill.
THEOREM ComponentInvariant == ComponentAssumption => (Spec => []ComponentInv)
<1> SUFFICES ASSUME ComponentAssumption PROVE Spec => []ComponentInv
  OBVIOUS
<1>1. Init => ComponentInv
  BY InitInv
<1>2. ComponentInv /\ [Next]_vars => ComponentInv'
  BY StepInv
<1> QED BY <1>1, <1>2, PTL DEF Spec

\* component.py, runtime.py and the component-install role, for any trees and
\* any number of commands killed anywhere: the interpreter is whole, an
\* artifact taken is the tested wheel of its tree, the guest runs a release
\* that is there and has one to go back to, and the record names it.
THEOREM ComponentsAreSound == ComponentAssumption => (Spec => []ComponentsSound)
BY ComponentInvariant, InvImplies, PTL
=============================================================================
