------------------------------ MODULE BuildEnv ------------------------------
(***************************************************************************)
(* The build/ buckets of a main checkout and a worktree (buildenv.py).     *)
(* The main checkout owns the shared buckets, cache and state; a worktree  *)
(* reaches them through symlinks.  Top-level entries from before the       *)
(* buckets are migrated into them, or removed by a clean.                  *)
(*                                                                         *)
(* A file stands for an entry of a bucket, with a content; None is no      *)
(* file.  work/ and temp/ are disposable and left out.  A verb of either   *)
(* checkout, a migration and a clean may overlap; a migration may be       *)
(* killed between two renames.                                             *)
(***************************************************************************)
EXTENDS Naturals, FiniteSets

CONSTANTS
    Refs,       \* files of the mergeable entry refs (cache)
    Plain,      \* other legacy entries, each a directory (state)
    MaxOps      \* bound on verbs, cleans and migrations

Vagrant == "vagrant"      \* the dotfile directory (state); its legacy place is lab/.vagrant

BuildEnvAssumption == MaxOps \in Nat /\ Refs \cap Plain = {} /\ Vagrant \notin Refs \cup Plain

Files == Refs \cup Plain \cup {Vagrant}
SHARED == {"cache", "state"}
MIGRATION(f) == IF f \in Refs THEN "cache" ELSE "state"
None == 0
Contents == {1, 2}
Checkouts == {"main", "wt"}

VARIABLES
    kind,     \* checkout -> shared bucket -> "none", "real" or "link"
    shared,   \* file -> its content in the main checkout's bucket
    local,    \* file -> its content in a real shared bucket of the worktree
    legacy,   \* file -> its content at the old place
    running,  \* the checkouts where a verb is past its ensure
    mig,      \* the migration: its phase and what is left of its plan
    ops,
    ever, dropped, raced, unconfirmed   \* history: (file, content) pairs
vars == <<kind, shared, local, legacy, running, mig, ops, ever, dropped, raced, unconfirmed>>
history == <<ever, dropped, raced, unconfirmed>>

NoMig == [pc |-> "idle", moves |-> {}, dups |-> {}, whole |-> FALSE]
Pairs(where, fs) == {<<f, where[f]>> : f \in {g \in fs : where[g] # None}}

(* A checkout from before the buckets, in use since: legacy entries, buckets
   that may hold newer copies, and a worktree that is wired or not. *)
Init ==
    /\ legacy \in [Files -> {None, 1}]
    /\ shared \in [Files -> {None, 1, 2}] /\ shared[Vagrant] # 1
    /\ local = [f \in Files |-> None]
    /\ \E w \in {"none", "link"} :
          kind = [c \in Checkouts |-> [b \in SHARED |-> IF c = "main" THEN "real" ELSE w]]
    /\ running = {} /\ mig = NoMig /\ ops = 0
    /\ ever = Pairs(legacy, Files) \cup Pairs(shared, Files)
    /\ dropped = {} /\ raced = {} /\ unconfirmed = {}

----------------------------------------------------------------------------
(* migrate_vagrant_dotfile of this checkout; a worktree has no legacy one. *)
heal(c) ==
    IF c = "main" /\ legacy[Vagrant] # None /\ shared[Vagrant] = None
    THEN /\ shared' = [shared EXCEPT ![Vagrant] = legacy[Vagrant]]
         /\ legacy' = [legacy EXCEPT ![Vagrant] = None]
    ELSE UNCHANGED <<shared, legacy>>

poisoned(c) == {b \in SHARED : c = "wt" /\ kind[c][b] = "real"}

(* ensure, run by every verb outside the build group: in a worktree missing
   links are laid, existing ones trusted, and a real bucket refused before
   the verb starts; the buckets before it stay wired. *)
StartVerb(c) ==
    /\ c \notin running /\ ops < MaxOps /\ ops' = ops + 1
    /\ kind' = [kind EXCEPT !["main"] = [b \in SHARED |-> "real"],
                            ![c] = [b \in SHARED |->
                                IF c = "main" THEN "real"
                                ELSE IF @[b] = "none" /\ (poisoned(c) = {} \/ (b = "cache" /\ "cache" \notin poisoned(c)))
                                     THEN "link" ELSE @[b]]]
    /\ IF poisoned(c) # {} THEN UNCHANGED <<running, shared, legacy>>
       ELSE running' = running \cup {c} /\ heal(c)
    /\ UNCHANGED <<local, mig, history>>

(* The verb, or a tool it spawns, creates a file of a bucket through its
   checkout's path. *)
Write(c, f) ==
    /\ c \in running
    /\ LET x == <<f, 2>> IN
       /\ IF c = "wt" /\ kind[c][MIGRATION(f)] # "link"
          THEN local[f] = None /\ local' = [local EXCEPT ![f] = 2] /\ UNCHANGED <<shared, raced>>
          ELSE /\ shared[f] = None /\ shared' = [shared EXCEPT ![f] = 2] /\ UNCHANGED local
               /\ raced' = IF mig.pc = "apply" THEN raced \cup {x} ELSE raced
       /\ ever' = ever \cup {x}
       /\ dropped' = dropped \ {x} /\ unconfirmed' = unconfirmed \ {x}
    /\ UNCHANGED <<kind, legacy, running, mig, ops>>
EndVerb(c) == c \in running /\ running' = running \ {c}
              /\ UNCHANGED <<kind, shared, local, legacy, mig, ops, history>>

----------------------------------------------------------------------------
(* build clean: the buckets asked for are emptied (a link's target is, and the
   link kept; one that is not there is made), and every stray entry of this
   checkout's build/ goes.  --state needs --yes-destroy-state. *)
Cleaned(c, drop) ==
    LET gone == {f \in Files : MIGRATION(f) \in drop}
        there == {f \in gone : c = "main" \/ kind[c][MIGRATION(f)] = "link"}
        here == {f \in gone : c = "wt" /\ kind[c][MIGRATION(f)] = "real"}
        strays == IF c = "main" THEN Files \ {Vagrant} ELSE {} IN
    /\ kind' = [kind EXCEPT ![c] = [b \in SHARED |-> IF b \in drop /\ @[b] = "none" THEN "real" ELSE @[b]]]
    /\ shared' = [f \in Files |-> IF f \in there THEN None ELSE shared[f]]
    /\ local' = [f \in Files |-> IF f \in here THEN None ELSE local[f]]
    /\ legacy' = [f \in Files |-> IF f \in strays THEN None ELSE legacy[f]]
    /\ dropped' = dropped \cup Pairs(shared, there) \cup Pairs(local, here) \cup Pairs(legacy, strays)
    /\ unconfirmed' = IF "state" \in drop THEN unconfirmed
                      ELSE unconfirmed \cup Pairs(legacy, strays \cap Plain)
Clean(c) ==
    /\ c \notin running /\ ops < MaxOps /\ ops' = ops + 1
    /\ \E drop \in SUBSET SHARED : Cleaned(c, drop)
    /\ UNCHANGED <<running, mig, ever, raced>>

----------------------------------------------------------------------------
(* migrate, in the main checkout *)

mergeable == Refs
conflicts_none == {}
(* Entries that cannot move: a plain one that exists in its bucket, a refs file
   that differs from the bucket's. *)
conflicts ==
    {f \in Refs \cup Plain : legacy[f] # None /\ shared[f] # None /\ (f \in mergeable => legacy[f] # shared[f])}

(* Everything is planned before anything is touched; refs move as one
   directory when the bucket has none.  A stale dotfile is left alone. *)
MigratePlan ==
    /\ mig.pc = "idle" /\ ops < MaxOps /\ ops' = ops + 1
    /\ mig' = IF conflicts # {} THEN NoMig
              ELSE [pc |-> "apply",
                    moves |-> {f \in Files : legacy[f] # None /\ shared[f] = None},
                    dups |-> {f \in mergeable : legacy[f] # None /\ shared[f] # None},
                    whole |-> \A f \in Refs : shared[f] = None]
    /\ UNCHANGED <<kind, shared, local, legacy, running, history>>

Moved(fs) ==
    /\ shared' = [f \in Files |-> IF f \in fs THEN legacy[f] ELSE shared[f]]
    /\ legacy' = [f \in Files |-> IF f \in fs THEN None ELSE legacy[f]]
    /\ mig' = [mig EXCEPT !.moves = @ \ fs]
(* The refs move as one directory if the bucket had none, else one by one. *)
Batch(f) == IF f \in Refs /\ mig.whole THEN mig.moves \cap Refs ELSE {f}
(* A rename that fails (a directory in the way, a source gone) ends it. *)
Blocked(f) ==
    \/ \E g \in Batch(f) : legacy[g] = None
    \/ f \in Refs /\ mig.whole /\ \E g \in Refs : shared[g] # None
    \/ f \notin Refs /\ shared[f] # None
MoveOf(f) ==
    IF Blocked(f) THEN mig' = NoMig /\ UNCHANGED <<shared, legacy>> ELSE Moved(Batch(f))
MigrateMove ==
    /\ mig.pc = "apply"
    /\ \E f \in mig.moves : MoveOf(f)
    /\ UNCHANGED <<kind, local, running, ops, history>>
(* The identical duplicates are dropped, then the emptied directories. *)
MigrateDrop ==
    /\ mig.pc = "apply" /\ mig.moves = {}
    /\ \E f \in mig.dups : legacy' = [legacy EXCEPT ![f] = None] /\ mig' = [mig EXCEPT !.dups = @ \ {f}]
    /\ UNCHANGED <<kind, shared, local, running, ops, history>>
MigrateEnds ==
    /\ mig.pc = "apply" /\ mig' = NoMig     \* done, or killed
    /\ UNCHANGED <<kind, shared, local, legacy, running, ops, history>>

Next ==
    \/ \E c \in Checkouts : StartVerb(c) \/ EndVerb(c) \/ Clean(c) \/ \E f \in Files : Write(c, f)
    \/ MigratePlan \/ MigrateMove \/ MigrateDrop \/ MigrateEnds
Spec == Init /\ [][Next]_vars

----------------------------------------------------------------------------
Exists(x) == x \in Pairs(legacy, Files) \cup Pairs(shared, Files) \cup Pairs(local, Files)

TypeOK ==
    /\ shared \in [Files -> {None} \cup Contents] /\ local \in [Files -> {None} \cup Contents]
    /\ legacy \in [Files -> {None} \cup Contents]
    /\ kind \in [Checkouts -> [SHARED -> {"none", "real", "link"}]] /\ kind["main"] = [b \in SHARED |-> "real"]
    /\ running \subseteq Checkouts /\ ops \in 0..MaxOps
    /\ mig \in [pc : {"idle", "apply"}, moves : SUBSET Files, dups : SUBSET Refs, whole : BOOLEAN]
    /\ \A h \in {ever, dropped, raced, unconfirmed} : h \subseteq Files \X Contents

(* Whatever mix of migrations, cut or refused, verbs and cleans: a file is
   lost only to a clean, or to a rename over a file written meanwhile. *)
NothingLost == \A x \in ever \ (dropped \cup raced) : Exists(x)

(* The worktree never forks the lab: a verb runs there only on links, and no
   file of a shared bucket is the worktree's own. *)
NeverForked ==
    /\ \A f \in Files : local[f] = None
    /\ "wt" \in running => \A b \in SHARED : kind["wt"][b] = "link"

(* The dotfile of a lab from before the buckets is never left behind at its old
   place while a verb of the main checkout runs without one: it was healed, or
   a clean --state in between threw the lab's own away. *)
Healed ==
    "main" \in running /\ legacy[Vagrant] # None /\ shared[Vagrant] = None => <<Vagrant, 2>> \in dropped

(* The build buckets, whatever mix of migrations, cut or refused, verbs and cleans. *)
BucketsSound == NothingLost /\ NeverForked /\ Healed

(* Why they hold.  What a migration under way still has to rename would overwrite
   only a refs file that was written after the plan; what it still has to drop is
   in the bucket, or a clean took it there; a dotfile left at its old place has
   only a newer one in the bucket. *)
MigrationInv ==
    mig.pc = "apply" =>
        /\ mig.moves \cap mig.dups = {}
        /\ \A f \in mig.moves \cap Refs : shared[f] # None => <<f, shared[f]>> \in raced
        /\ \A f \in mig.dups : legacy[f] \in {None, shared[f]} \/ <<f, legacy[f]>> \in dropped
DotfileInv == legacy[Vagrant] # None => shared[Vagrant] \in {None, 2}
BuildEnvInv == TypeOK /\ BucketsSound /\ MigrationInv /\ DotfileInv

(* Claimed, and not kept by the code.  cli.py refuses to drop snapshots and
   secrets without --state --yes-destroy-state. *)
StateNeedsConsent == unconfirmed = {}

(* Claimed, and not kept by the code.  The worktree's shared buckets stay
   links: cli.py and ensure treat a real one as poison that only a verb
   without the check could create. *)
NeverPoisoned == \A b \in SHARED : kind["wt"][b] # "real"

(* Claimed, and not kept by the code.  ensure's comment: the old dotfile is
   relocated so that vagrant finds the running lab instead of orphaning it. *)
LabFound == running # {} /\ legacy[Vagrant] # None => shared[Vagrant] # None

(* Claimed, and not kept by the code.  buildenv.py on a merge: "A merge never
   overwrites". *)
NeverOverwrites == \A x \in raced \ dropped : Exists(x)
=============================================================================
