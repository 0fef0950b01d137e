------------------------------ MODULE PartsProofs ------------------------------
(***************************************************************************)
(* Five components that are proved side by side: the forced-DR report, the *)
(* cutover scripts, the build buckets and the collectors of RDQM and of    *)
(* Native HA.  Each is an instance of its module over its own variables;   *)
(* they share no state, and a name that two of them use (pc, file,         *)
(* link...) is one variable here only because no lemma is about two of     *)
(* them.  Each has an inductive invariant, stated in its module; the       *)
(* lemmas here say that it holds initially, that a step keeps it and that  *)
(* it implies what the component promises.  MCSafeParts instantiates this  *)
(* module, and SafePartsProofs draws the theorems.                         *)
(***************************************************************************)
EXTENDS Integers, Sequences, FiniteSets, FiniteSetTheorems, TLAPS

CONSTANTS
    ForcedSeqs, ForcedServes, ForcedFloor,          \* DRForced
    CutMsgs, CutFaults, CutRuns,                    \* Cutover
    Refs, Plain, BuildOps,                          \* BuildEnv
    RdqmNodes, RdqmChanges, RdqmLosses,             \* RdqmState
    HaInstances, HaObservers, HaChanges, HaLosses   \* NativeHaState

VARIABLES
    now, disk, shipped, link, break_ts, kill_ts, seq, unlogged, taken, ledger, file,
    flushing, app, received, lost_tail, unshipped, late, flushed, arm, written, copy, role,
    qm, pc, drill, rpo0, token, verified, runs, faults, gated, kind, shared, local, legacy,
    running, mig, ops, ever, dropped, raced, unconfirmed, site, live, primary, online,
    fails, cut, changes, losses, status, drbd, crm, torn, past, cutoff, active, backlog,
    hax, grp, log

Forced == INSTANCE DRForced WITH MaxSeq <- ForcedSeqs, MaxServes <- ForcedServes, Floor <- ForcedFloor
Cutting == INSTANCE Cutover WITH MaxMsgs <- CutMsgs, MaxFaults <- CutFaults, MaxRuns <- CutRuns
Buckets == INSTANCE BuildEnv WITH MaxOps <- BuildOps
Rdqm == INSTANCE RdqmState WITH
    N <- RdqmNodes, MaxChanges <- RdqmChanges, MaxLosses <- RdqmLosses
NativeHa == INSTANCE NativeHaState WITH
    N <- HaInstances, Observers <- HaObservers, MaxChanges <- HaChanges, MaxLosses <- HaLosses

-----------------------------------------------------------------------------
(***************************************************************************)
(* The forced-DR report (module DRForced).                                 *)
(***************************************************************************)
LEMMA ForcedCardinality == \A S : Forced!Cardinality(S) = Cardinality(S)
BY DEF Forced!Cardinality, Cardinality

\* A commit made once is counted once.
LEMMA ForcedCount ==
  ASSUME Forced!TypeOK, Forced!DiskInv, NEW op, NEW k
  PROVE  Forced!Count(disk, op, k) = Forced!Once(Forced!On(disk, op, k))
<1> DEFINE S == {i \in DOMAIN disk : disk[i] = <<op, k>>}
<1>1. CASE ~Forced!On(disk, op, k)
  <2>1. S = {}
    BY <1>1 DEF Forced!On
  <2> QED BY <2>1, <1>1, FS_EmptySet, ForcedCardinality DEF Forced!Count, Forced!Once
<1>2. CASE Forced!On(disk, op, k)
  <2>1. PICK i \in DOMAIN disk : disk[i] = <<op, k>>
    BY <1>2 DEF Forced!On
  <2>2. S = {i}
    BY <2>1 DEF Forced!DiskInv
  <2> QED BY <2>2, <1>2, FS_Singleton, ForcedCardinality DEF Forced!Count, Forced!Once
<1> QED BY <1>1, <1>2

LEMMA ForcedInit == Forced!DRForcedAssumption /\ Forced!Init => Forced!ForcedInv
<1> SUFFICES ASSUME Forced!DRForcedAssumption, Forced!Init PROVE Forced!ForcedInv
  OBVIOUS
<1>1. disk = <<>> /\ ledger = <<>> /\ file = <<>> /\ DOMAIN disk = {} /\ DOMAIN ledger = {}
        /\ DOMAIN file = {}
  BY DEF Forced!Init
<1>2. Forced!TypeOK
  BY <1>1 DEF Forced!Init, Forced!TypeOK, Forced!DRForcedAssumption, Forced!Seqs
<1>3. Forced!DiskInv
  BY <1>1 DEF Forced!Init, Forced!DiskInv, Forced!On, Forced!Once
<1>4. Forced!LedgerInv /\ Forced!FileInv
  BY <1>1 DEF Forced!Init, Forced!LedgerInv, Forced!FileInv
<1> QED BY <1>2, <1>3, <1>4 DEF Forced!ForcedInv

\* What a line of the file says is what a line of the ledger says.
LEMMA ForcedFileLine ==
  ASSUME Forced!ForcedInv, NEW i \in DOMAIN file
  PROVE  file[i] \in Forced!Lines /\ Forced!LineInv(file[i])
<1>1. PICK j \in DOMAIN ledger : file[i] = ledger[j]
  BY DEF Forced!ForcedInv, Forced!FileInv
<1>2. file[i] \in Forced!Lines
  BY DEF Forced!ForcedInv, Forced!TypeOK
<1> QED BY <1>1, <1>2 DEF Forced!ForcedInv, Forced!LedgerInv

\* A seq the report has facts on was logged SENT in the file.
LEMMA ForcedFactsOf ==
  ASSUME Forced!ForcedInv, NEW k \in DOMAIN Forced!ForcedFacts(file)
  PROVE  /\ k \in Forced!Seqs
         /\ \E i \in DOMAIN file : file[i].event = "sent" /\ file[i].seq = k
         /\ Forced!ForcedFacts(file)[k].app_confirmed <=> k \in Forced!confirmed_at(file, break_ts)
         /\ Forced!ForcedFacts(file)[k].svc_received = received[k]
         /\ Forced!ForcedFacts(file)[k].on_secondary
              <=> k \in Forced!SeqsOf(Forced!Entries(file, "sent")) \ Forced!lost(file)
         /\ ~Forced!ForcedFacts(file)[k].on_primary_disk
<1>1. Forced!ForcedFacts(file) = [m \in Forced!sent_seqs(Forced!AppCounts(file)) |->
        [app_confirmed |-> m \in Forced!confirmed_at(file, break_ts), svc_received |-> received[m],
         on_secondary |-> m \in Forced!SeqsOf(Forced!Entries(file, "sent")) \ Forced!lost(file),
           on_primary_disk |-> m \in {}]]
  BY DEF Forced!ForcedFacts, Forced!reconcile, Forced!cutover_ts
<1>2. k \in Forced!sent_seqs(Forced!AppCounts(file))
  BY <1>1
<1>3. k \in Forced!Seqs /\ Forced!EntryCount(file, "sent", k) > 0
  BY <1>2 DEF Forced!sent_seqs, Forced!AppCounts
<1>4. \E i \in DOMAIN file : file[i].event = "sent" /\ file[i].seq = k
  <2>1. SUFFICES ASSUME {i \in DOMAIN file : file[i].event = "sent" /\ file[i].seq = k} = {} PROVE FALSE
    OBVIOUS
  <2>2. Forced!EntryCount(file, "sent", k) = 0
    BY <2>1, FS_EmptySet, ForcedCardinality DEF Forced!EntryCount
  <2> QED BY <2>2, <1>3
<1> DEFINE a == k \in Forced!confirmed_at(file, break_ts)
           b == k \in Forced!SeqsOf(Forced!Entries(file, "sent")) \ Forced!lost(file)
           c == k \in {}
<1>5. Forced!ForcedFacts(file)[k] =
        [app_confirmed |-> k \in Forced!confirmed_at(file, break_ts), svc_received |-> received[k],
         on_secondary |-> k \in Forced!SeqsOf(Forced!Entries(file, "sent")) \ Forced!lost(file),
           on_primary_disk |-> k \in {}]
  BY <1>1, <1>2, Zenon
<1>6. /\ Forced!ForcedFacts(file)[k].app_confirmed <=> k \in Forced!confirmed_at(file, break_ts)
      /\ Forced!ForcedFacts(file)[k].svc_received = received[k]
      /\ Forced!ForcedFacts(file)[k].on_secondary
           <=> k \in Forced!SeqsOf(Forced!Entries(file, "sent")) \ Forced!lost(file)
      /\ ~Forced!ForcedFacts(file)[k].on_primary_disk
  <2>1. Forced!ForcedFacts(file)[k] = [app_confirmed |-> a, svc_received |-> received[k],
                                on_secondary |-> b, on_primary_disk |-> c]
    BY <1>5, Zenon
  <2>2. a \in BOOLEAN /\ b \in BOOLEAN /\ ~c
    OBVIOUS
  <2> HIDE DEF a, b, c
  <2>3. /\ Forced!ForcedFacts(file)[k].app_confirmed = a
        /\ Forced!ForcedFacts(file)[k].svc_received = received[k]
        /\ Forced!ForcedFacts(file)[k].on_secondary = b
        /\ Forced!ForcedFacts(file)[k].on_primary_disk = c
    BY <2>1
  <2>4. /\ Forced!ForcedFacts(file)[k].app_confirmed <=> a
        /\ Forced!ForcedFacts(file)[k].on_secondary <=> b
        /\ ~Forced!ForcedFacts(file)[k].on_primary_disk
    BY <2>2, <2>3, Zenon
  <2> QED BY <2>3, <2>4 DEF a, b
<1> QED BY <1>3, <1>4, <1>6, Zenon

LEMMA ForcedConfirmedAt ==
  ASSUME Forced!ForcedInv, NEW k, k \in Forced!confirmed_at(file, break_ts)
  PROVE  \E i \in DOMAIN file : file[i].event = "confirmed" /\ file[i].seq = k /\ file[i].ts <= break_ts
BY DEF Forced!confirmed_at, Forced!SeqsOf, Forced!Entries

LEMMA ForcedImplies == Forced!ForcedInv => Forced!ForcedSound
<1> SUFFICES ASSUME Forced!ForcedInv PROVE Forced!ForcedSound
  OBVIOUS
<1>1. Forced!HiddenOnlyAtTheEdges
  <2> SUFFICES ASSUME Forced!Analyzed, NEW k \in DOMAIN Forced!ForcedFacts(file), Forced!Gone(k),
                      k \notin unshipped \cup late
               PROVE  k \in Forced!at_risk(Forced!ForcedFacts(file))
    BY DEF Forced!HiddenOnlyAtTheEdges
  <2> DEFINE f == Forced!ForcedFacts(file)[k]
  <2>1. link = "promoted" /\ <<"put", k>> \in lost_tail /\ received[k] = 0
    BY DEF Forced!Analyzed, Forced!Gone
  <2>2. Forced!AfterBreak(k) /\ Forced!Doomed(k)
    BY <2>1 DEF Forced!AfterBreak, Forced!Doomed
  <2>3. PICK i \in DOMAIN file : file[i].event = "sent" /\ file[i].seq = k
    BY ForcedFactsOf
  <2>4. file[i] \in Forced!Lines /\ Forced!LineInv(file[i])
    BY ForcedFileLine
  <2>5. break_ts <= file[i].ts /\ ~(kill_ts < file[i].ts)
    BY <2>1, <2>2, <2>3, <2>4 DEF Forced!LineInv
  <2>6. k \in Forced!lost(file)
    <3>1. kill_ts \in Nat /\ file[i].ts \in Nat
      BY <2>4 DEF Forced!ForcedInv, Forced!TypeOK, Forced!Lines
    <3>2. file[i].ts <= kill_ts
      BY <3>1, <2>5
    <3>3. file[i] \in Forced!Entries(file, "sent")
      BY <2>3 DEF Forced!Entries
    <3> QED BY <3>2, <3>3, <2>5, <2>3 DEF Forced!lost, Forced!SeqsOf
  <2>7. k \notin Forced!confirmed_at(file, break_ts)
    <3> SUFFICES ASSUME k \in Forced!confirmed_at(file, break_ts) PROVE FALSE
      OBVIOUS
    <3>1. PICK j \in DOMAIN file : file[j].event = "confirmed" /\ file[j].seq = k
      BY ForcedConfirmedAt
    <3>2. received[k] >= 1
      BY <3>1, ForcedFileLine DEF Forced!LineInv
    <3> QED BY <3>2, <2>1
  <2>8. f.svc_received = 0 /\ ~f.app_confirmed /\ ~f.on_secondary /\ ~f.on_primary_disk
    BY <2>1, <2>6, <2>7, ForcedFactsOf
  <2>9. Forced!classify(f) = "lost_unprocessed"
    BY <2>8 DEF Forced!classify
  <2> QED BY <2>9 DEF Forced!at_risk, Forced!SAFE_BUCKETS
<1>2. Forced!ConfirmedBeforeBreak
  <2> SUFFICES ASSUME Forced!Analyzed, NEW k \in DOMAIN Forced!ForcedFacts(file),
                      Forced!Bucket(file, k) = "confirmed"
               PROVE  received[k] = 1 /\ \E i \in DOMAIN file :
                        file[i].event = "confirmed" /\ file[i].seq = k /\ file[i].ts < break_ts
    BY DEF Forced!ConfirmedBeforeBreak
  <2> DEFINE f == Forced!ForcedFacts(file)[k]
  <2>1. f.app_confirmed /\ ~(f.svc_received >= 2)
    BY DEF Forced!Bucket, Forced!classify
  <2>2. k \in Forced!Seqs /\ k \in Forced!confirmed_at(file, break_ts) /\ ~(received[k] >= 2)
    BY <2>1, ForcedFactsOf
  <2>3. PICK i \in DOMAIN file : file[i].event = "confirmed" /\ file[i].seq = k /\
       file[i].ts <= break_ts
    BY <2>2, ForcedConfirmedAt
  <2>4. file[i] \in Forced!Lines /\ Forced!LineInv(file[i])
    BY ForcedFileLine
  <2>5. received[k] >= 1 /\ file[i].ts # break_ts
    BY <2>3, <2>4 DEF Forced!LineInv, Forced!Analyzed
  <2>6. received[k] \in Nat /\ file[i].ts \in Nat /\ break_ts \in Nat
    BY <2>2, <2>4 DEF Forced!ForcedInv, Forced!TypeOK, Forced!Lines
  <2>7. received[k] = 1 /\ file[i].ts < break_ts
    BY <2>2, <2>3, <2>5, <2>6
  <2> QED BY <2>7, <2>3
<1>3. Forced!LostIsLost
  <2> SUFFICES ASSUME Forced!Analyzed, Forced!Requests(disk) = {},
                      NEW k \in DOMAIN Forced!ForcedFacts(file),
                      Forced!Bucket(file, k) = "lost_unprocessed"
               PROVE  received[k] = 0 /\ Forced!Count(disk, "put", k) = 0
    BY DEF Forced!LostIsLost
  <2> DEFINE f == Forced!ForcedFacts(file)[k]
  <2>1. ~(f.svc_received >= 2) /\ f.svc_received # 1
    BY DEF Forced!Bucket, Forced!classify
  <2>2. k \in Forced!Seqs /\ ~(received[k] >= 2) /\ received[k] # 1
    BY <2>1, ForcedFactsOf
  <2>3. received[k] = 0
    BY <2>2 DEF Forced!ForcedInv, Forced!TypeOK
  <2>4. ~Forced!On(disk, "serve", k)
    <3>1. received[k] = Forced!Once(Forced!On(disk, "serve", k)) + Forced!Once(<<"serve",
            k>> \in lost_tail)
      BY <2>2 DEF Forced!ForcedInv, Forced!DiskInv
    <3>2. Forced!Once(<<"serve", k>> \in lost_tail) \in {0, 1}
      BY DEF Forced!Once
    <3> QED BY <2>3, <3>1, <3>2 DEF Forced!Once
  <2>5. Forced!Count(disk, "serve", k) = 0
    BY <2>4, ForcedCount DEF Forced!ForcedInv, Forced!Once
  <2>6. ~(Forced!Count(disk, "put", k) > Forced!Count(disk, "serve", k))
    BY <2>2 DEF Forced!Requests
  <2>7. Forced!Count(disk, "put", k) \in {0, 1}
    BY ForcedCount DEF Forced!ForcedInv, Forced!Once
  <2> QED BY <2>3, <2>5, <2>6, <2>7
<1>4. Forced!DuplicatesFromTheTail
  BY DEF Forced!DuplicatesFromTheTail, Forced!ForcedInv, Forced!DiskInv, Forced!Once
<1> QED BY <1>1, <1>2, <1>3, <1>4 DEF Forced!ForcedSound

\* A commit not yet on the disk.
LEMMA ForcedAppend ==
  ASSUME Forced!TypeOK, Forced!DiskInv, NEW c \in Forced!Commits, disk' = Append(disk, c),
         \A i \in DOMAIN disk : disk[i] # c,
         seq <= seq', seq' \in Nat, c[2] <= seq'
  PROVE  /\ disk' \in Seq(Forced!Commits) /\ Len(disk') = Len(disk) + 1
         /\ \A i, j \in DOMAIN disk' : disk'[i] = disk'[j] => i = j
         /\ \A i \in DOMAIN disk' : disk'[i][2] <= seq'
         /\ \A op, k : Forced!On(disk', op, k) <=> Forced!On(disk, op, k) \/ c = <<op, k>>
         /\ \A k : c # <<"put", k>> /\ (\E j \in DOMAIN disk' : j > shipped /\ disk'[j] = <<"put", k>>)
                     => \E j \in DOMAIN disk : j > shipped /\ disk[j] = <<"put", k>>
<1>1. disk \in Seq(Forced!Commits) /\ DOMAIN disk = 1..Len(disk) /\ Len(disk) \in Nat /\ seq \in Nat
  BY DEF Forced!TypeOK
<1>2. disk' \in Seq(Forced!Commits) /\ Len(disk') = Len(disk) + 1 /\ DOMAIN disk' = 1..(Len(disk) + 1)
  BY <1>1
<1>3. \A i \in DOMAIN disk : i \in DOMAIN disk' /\ disk'[i] = disk[i]
  BY <1>1, <1>2
<1>4. disk'[Len(disk) + 1] = c /\ Len(disk) + 1 \in DOMAIN disk'
  BY <1>1, <1>2
<1>5. \A i \in DOMAIN disk' : i \in DOMAIN disk \/ i = Len(disk) + 1
  BY <1>1, <1>2
<1>6. \A i, j \in DOMAIN disk' : disk'[i] = disk'[j] => i = j
  BY <1>3, <1>4, <1>5 DEF Forced!DiskInv
<1>7. \A i \in DOMAIN disk' : disk'[i][2] <= seq'
  <2> TAKE i \in DOMAIN disk'
  <2>1. CASE i \in DOMAIN disk
    <3>1. disk[i] \in Forced!Commits /\ disk[i][2] <= seq /\ disk[i][2] \in Forced!Seqs
      BY <1>1, <2>1 DEF Forced!DiskInv, Forced!Commits
    <3>2. \A m \in Forced!Seqs : m \in Int
      BY DEF Forced!Seqs
    <3>3. \A m \in Int : m <= seq => m <= seq'
      BY <1>1
    <3> QED BY <3>1, <3>2, <3>3, <2>1, <1>3
  <2>2. CASE i = Len(disk) + 1
    BY <2>2, <1>4
  <2> QED BY <2>1, <2>2, <1>5
<1>8. \A op, k : Forced!On(disk', op, k) <=> Forced!On(disk, op, k) \/ c = <<op, k>>
  BY <1>3, <1>4, <1>5 DEF Forced!On
<1> QED BY <1>2, <1>3, <1>4, <1>5, <1>6, <1>7, <1>8

\* What a line says stays so while the drill stands still.
LEMMA ForcedLineKept ==
  ASSUME Forced!TypeOK, NEW e \in Forced!Lines, Forced!LineInv(e), seq \in Nat, seq' \in Nat,
           seq <= seq',
         now' \in Nat,
         now <= now',
         UNCHANGED <<link, break_ts, kill_ts, lost_tail, unshipped>>, late \subseteq late',
         \A k \in Forced!Seqs : received[k] >= 1 => received'[k] >= 1,
         link = "promoted" \/ ~(\E j \in DOMAIN disk' : j > shipped' /\ disk'[j] = <<"put", e.seq>>)
           \/ \E j \in DOMAIN disk : j > shipped /\ disk[j] = <<"put", e.seq>>
  PROVE  Forced!LineInv(e)'
<1>1. e.seq \in Forced!Seqs /\ e.seq \in Int /\ e.ts \in Nat /\ now \in Nat
  BY DEF Forced!Lines, Forced!Seqs, Forced!TypeOK
<1>2. Forced!AfterBreak(e.seq)' => Forced!AfterBreak(e.seq)
  BY DEF Forced!AfterBreak
<1>3. Forced!Doomed(e.seq)' <=> Forced!Doomed(e.seq)
  BY DEF Forced!Doomed
<1>4. e.seq <= seq' /\ e.ts <= now'
  BY <1>1 DEF Forced!LineInv
<1> QED BY <1>1, <1>2, <1>3, <1>4 DEF Forced!LineInv

\* The invariant when neither the ledger nor the disk moves.
LEMMA ForcedStill ==
  ASSUME Forced!DRForcedAssumption, Forced!ForcedInv, Forced!TypeOK',
         UNCHANGED <<now, disk, link, break_ts, kill_ts, seq, taken, ledger, received, lost_tail,
           unshipped, late>>,
         shipped <= shipped', Forced!FileInv'
  PROVE  Forced!ForcedInv'
<1> USE DEF Forced!ForcedInv
<1>1. Forced!DiskInv'
  BY DEF Forced!DiskInv, Forced!On
<1>2. ASSUME NEW i \in DOMAIN ledger PROVE Forced!LineInv(ledger[i])'
  <2>1. ledger[i] \in Forced!Lines /\ Forced!LineInv(ledger[i])
    BY DEF Forced!TypeOK, Forced!LedgerInv
  <2>2. seq \in Nat /\ now \in Nat /\ shipped \in Int /\ shipped' \in Int
    BY DEF Forced!TypeOK
  <2>3. \A j \in DOMAIN disk : j \in Int
    BY DEF Forced!TypeOK
  <2>4. \A j \in DOMAIN disk : j > shipped' => j > shipped
    BY <2>2, <2>3
  <2>5. (\E j \in DOMAIN disk' : j > shipped' /\ disk'[j] = <<"put", ledger[i].seq>>)
          => \E j \in DOMAIN disk : j > shipped /\ disk[j] = <<"put", ledger[i].seq>>
    BY <2>4
  <2>6. seq <= seq' /\ now <= now' /\ seq' \in Nat /\ now' \in Nat
    BY <2>2
  <2> QED BY <2>1, <2>2, <2>5, <2>6, ForcedLineKept
<1>3. Forced!LedgerInv'
  BY <1>2 DEF Forced!LedgerInv
<1> QED BY <1>1, <1>3

LEMMA ForcedShip == Forced!DRForcedAssumption /\ Forced!ForcedInv /\ Forced!Ship => Forced!ForcedInv'
<1> SUFFICES ASSUME Forced!DRForcedAssumption, Forced!ForcedInv, Forced!Ship PROVE Forced!ForcedInv'
  OBVIOUS
<1>1. Forced!TypeOK' /\ shipped <= shipped'
  BY DEF Forced!ForcedInv, Forced!TypeOK, Forced!Ship, Forced!drill, Forced!appVars, Forced!history
<1>2. Forced!FileInv'
  BY DEF Forced!ForcedInv, Forced!FileInv, Forced!Ship, Forced!appVars
<1> QED BY <1>1, <1>2, ForcedStill DEF Forced!Ship, Forced!drill, Forced!appVars, Forced!history

LEMMA ForcedKilled == Forced!DRForcedAssumption /\ Forced!ForcedInv
  /\ Forced!AppKilled => Forced!ForcedInv'
<1> SUFFICES ASSUME Forced!DRForcedAssumption, Forced!ForcedInv,
  Forced!AppKilled PROVE Forced!ForcedInv'
  OBVIOUS
<1>1. Forced!TypeOK' /\ shipped <= shipped'
  BY DEF Forced!ForcedInv, Forced!TypeOK, Forced!AppKilled, Forced!drill, Forced!history
<1>2. Forced!FileInv'
  BY DEF Forced!ForcedInv, Forced!FileInv, Forced!AppKilled
<1> QED BY <1>1, <1>2, ForcedStill DEF Forced!AppKilled, Forced!drill, Forced!history

LEMMA ForcedFlush == Forced!DRForcedAssumption /\ Forced!ForcedInv
  /\ (Forced!FlushStart \/ Forced!FlushLine) => Forced!ForcedInv'
<1> SUFFICES ASSUME Forced!DRForcedAssumption, Forced!ForcedInv,
                    Forced!FlushStart \/ Forced!FlushLine PROVE Forced!ForcedInv'
  OBVIOUS
<1>0. ledger \in Seq(Forced!Lines) /\ file \in Seq(Forced!Lines) /\ Len(ledger) \in Nat
        /\ flushing \in -1..Len(ledger)
      /\ DOMAIN ledger = 1..Len(ledger) /\ DOMAIN file = 1..Len(file) /\ Len(file) \in Nat
  BY DEF Forced!ForcedInv, Forced!TypeOK
<1>1. UNCHANGED <<now, disk, shipped, link, break_ts, kill_ts, seq, unlogged, taken, ledger, app,
        received,
                  lost_tail, unshipped, late>>
  BY DEF Forced!FlushStart, Forced!FlushLine, Forced!drill, Forced!history
<1>2. file' \in Seq(Forced!Lines) /\ flushing' \in -1..Len(ledger) /\ Forced!FileInv'
  <2>1. CASE Forced!FlushStart
    <3>1. file' = <<>> /\ flushing' = 0
      BY <2>1 DEF Forced!FlushStart
    <3> QED BY <3>1, <1>0 DEF Forced!FileInv
  <2>2. CASE Forced!FlushLine /\ flushing < Len(ledger)
    <3>1. file' = Append(file, ledger[flushing + 1]) /\ flushing' = flushing + 1 /\ flushing >= 0
      BY <2>2 DEF Forced!FlushLine
    <3>2. flushing + 1 \in DOMAIN ledger /\ ledger[flushing + 1] \in Forced!Lines
      BY <3>1, <2>2, <1>0
    <3>3. file' \in Seq(Forced!Lines) /\ flushing' \in -1..Len(ledger)
      BY <3>1, <3>2, <1>0, <2>2
    <3>4. \A i \in DOMAIN file' : (i \in DOMAIN file
            /\ file'[i] = file[i]) \/ file'[i] = ledger[flushing + 1]
      BY <3>1, <3>2, <1>0
    <3>5. Forced!FileInv'
      BY <3>4, <3>2, <1>1 DEF Forced!ForcedInv, Forced!FileInv
    <3> QED BY <3>3, <3>5
  <2>3. CASE Forced!FlushLine /\ ~(flushing < Len(ledger))
    <3>1. file' = file /\ flushing' = -1
      BY <2>3 DEF Forced!FlushLine
    <3> QED BY <3>1, <1>0, <1>1 DEF Forced!ForcedInv, Forced!FileInv
  <2> QED BY <2>1, <2>2, <2>3
<1>3. Forced!TypeOK' /\ shipped <= shipped'
  BY <1>1, <1>2 DEF Forced!ForcedInv, Forced!TypeOK
<1> QED BY <1>1, <1>2, <1>3, ForcedStill

LEMMA ForcedBreak == Forced!DRForcedAssumption /\ Forced!ForcedInv /\ Forced!Break => Forced!ForcedInv'
<1> SUFFICES ASSUME Forced!DRForcedAssumption, Forced!ForcedInv, Forced!Break PROVE Forced!ForcedInv'
  OBVIOUS
<1> USE DEF Forced!ForcedInv
<1>1. UNCHANGED <<disk, shipped, kill_ts, seq, unlogged, taken, ledger, file, flushing, app, received,
                  lost_tail, late, flushed>>
      /\ link = "up" /\ link' = "broken" /\ now' = now + 1 /\ break_ts' = now + 1
      /\ unshipped' = {disk[i][2] : i \in {j \in DOMAIN disk : j > shipped /\ disk[j][1] = "put"}}
  BY DEF Forced!Break, Forced!appVars
<1>2. Forced!TypeOK'
  BY <1>1 DEF Forced!TypeOK
<1>3. Forced!DiskInv'
  BY <1>1 DEF Forced!DiskInv, Forced!On
<1>4. ASSUME NEW i \in DOMAIN ledger PROVE Forced!LineInv(ledger[i])'
  <2>1. ledger[i] \in Forced!Lines /\ Forced!LineInv(ledger[i]) /\ now \in Nat
    BY DEF Forced!TypeOK, Forced!LedgerInv
  <2>2. ~Forced!AfterBreak(ledger[i].seq)'
    <3>1. lost_tail = {}
      BY <1>1 DEF Forced!DiskInv
    <3>2. \A k : (\E j \in DOMAIN disk : j > shipped /\ disk[j] = <<"put", k>>) => k \in unshipped'
      BY <1>1
    <3> QED BY <3>1, <3>2, <1>1 DEF Forced!AfterBreak
  <2>3. ~Forced!Doomed(ledger[i].seq)'
    BY <1>1 DEF Forced!Doomed
  <2>4. ledger[i].ts \in Nat /\ ledger[i].ts <= now
    BY <2>1 DEF Forced!Lines, Forced!LineInv
  <2>5. ledger[i].ts <= now' /\ ledger[i].ts # break_ts'
    BY <2>4, <2>1, <1>1
  <2> QED BY <2>1, <2>2, <2>3, <2>5, <1>1 DEF Forced!LineInv
<1>5. Forced!LedgerInv' /\ Forced!FileInv'
  BY <1>1, <1>4 DEF Forced!LedgerInv, Forced!FileInv
<1> QED BY <1>2, <1>3, <1>5

LEMMA ForcedDies == Forced!DRForcedAssumption /\ Forced!ForcedInv /\ Forced!SiteDies =>
  Forced!ForcedInv'
<1> SUFFICES ASSUME Forced!DRForcedAssumption, Forced!ForcedInv, Forced!SiteDies PROVE Forced!ForcedInv'
  OBVIOUS
<1> USE DEF Forced!ForcedInv
<1>1. UNCHANGED <<disk, shipped, break_ts, seq, unlogged, taken, ledger, file, flushing, app, received,
                  lost_tail, unshipped, late, flushed>>
      /\ link = "broken" /\ link' = "dead" /\ now' = now + 1 /\ kill_ts' = now + 1
  BY DEF Forced!SiteDies, Forced!appVars, Forced!history
<1>2. Forced!TypeOK'
  BY <1>1 DEF Forced!TypeOK
<1>3. Forced!DiskInv'
  BY <1>1 DEF Forced!DiskInv, Forced!On
<1>4. ASSUME NEW i \in DOMAIN ledger PROVE Forced!LineInv(ledger[i])'
  <2>1. ledger[i] \in Forced!Lines /\ Forced!LineInv(ledger[i]) /\ now \in Nat
    BY DEF Forced!TypeOK, Forced!LedgerInv
  <2>2. Forced!AfterBreak(ledger[i].seq)' => Forced!AfterBreak(ledger[i].seq)
    BY <1>1 DEF Forced!AfterBreak
  <2>4. ledger[i].ts \in Nat /\ ledger[i].ts <= now
    BY <2>1 DEF Forced!Lines, Forced!LineInv
  <2>5. ledger[i].ts <= now' /\ ~(kill_ts' < ledger[i].ts)
    BY <2>4, <2>1, <1>1
  <2> QED BY <2>1, <2>2, <2>5, <1>1 DEF Forced!LineInv
<1>5. Forced!LedgerInv' /\ Forced!FileInv'
  BY <1>1, <1>4 DEF Forced!LedgerInv, Forced!FileInv
<1> QED BY <1>2, <1>3, <1>5

LEMMA ForcedPromote == Forced!DRForcedAssumption /\ Forced!ForcedInv
  /\ Forced!Promote => Forced!ForcedInv'
<1> SUFFICES ASSUME Forced!DRForcedAssumption, Forced!ForcedInv, Forced!Promote PROVE Forced!ForcedInv'
  OBVIOUS
<1> USE DEF Forced!ForcedInv
<1>1. UNCHANGED <<now, shipped, break_ts, kill_ts, seq, unlogged, taken, ledger, file, flushing, app,
        received,
                  unshipped, late, flushed>>
      /\ link = "dead" /\ link' = "promoted" /\ disk' = SubSeq(disk, 1, shipped)
      /\ lost_tail' = {disk[i] : i \in {j \in DOMAIN disk : j > shipped}}
  BY DEF Forced!Promote, Forced!appVars
<1>2. disk \in Seq(Forced!Commits) /\ DOMAIN disk = 1..Len(disk) /\ shipped \in 0..Len(disk)
        /\ Len(disk) \in Nat
  BY DEF Forced!TypeOK
<1>3. disk' \in Seq(Forced!Commits) /\ Len(disk') = shipped /\ DOMAIN disk' = 1..shipped
      /\ \A i \in DOMAIN disk' : i \in DOMAIN disk /\ disk'[i] = disk[i]
  BY <1>1, <1>2
<1>4. \A i \in DOMAIN disk : i \in DOMAIN disk' \/ i > shipped
  BY <1>2, <1>3
<1>5. Forced!TypeOK'
  BY <1>1, <1>3, <1>2 DEF Forced!TypeOK
<1>6. Forced!DiskInv'
  <2>1. \A k \in Forced!Seqs : received[k] = Forced!Once(Forced!On(disk, "serve", k))
    <3> TAKE k \in Forced!Seqs
    <3>1. received[k] = Forced!Once(Forced!On(disk, "serve", k)) + Forced!Once(<<"serve",
            k>> \in lost_tail) /\ lost_tail = {}
      BY <1>1 DEF Forced!DiskInv
    <3>2. received[k] = Forced!Once(Forced!On(disk, "serve", k)) + 0
            /\ Forced!Once(Forced!On(disk, "serve", k)) \in {0, 1}
      BY <3>1 DEF Forced!Once
    <3> QED BY <3>2
  <2>2. \A k : Forced!On(disk, "serve", k) <=> Forced!On(disk', "serve", k) \/ <<"serve",
          k>> \in lost_tail'
    <3> TAKE k
    <3>1. Forced!On(disk, "serve", k) => Forced!On(disk', "serve", k) \/ <<"serve", k>> \in lost_tail'
      BY <1>1, <1>3, <1>4 DEF Forced!On
    <3>2. Forced!On(disk', "serve", k) \/ <<"serve", k>> \in lost_tail' => Forced!On(disk, "serve", k)
      BY <1>1, <1>3 DEF Forced!On
    <3> QED BY <3>1, <3>2
  <2>3. \A k : ~(Forced!On(disk', "serve", k) /\ <<"serve", k>> \in lost_tail')
    <3> SUFFICES ASSUME NEW k, Forced!On(disk', "serve", k), <<"serve", k>> \in lost_tail' PROVE FALSE
      OBVIOUS
    <3>1. PICK i \in DOMAIN disk' : disk'[i] = <<"serve", k>>
      BY DEF Forced!On
    <3>2. PICK j \in DOMAIN disk : j > shipped /\ disk[j] = <<"serve", k>>
      BY <1>1
    <3>3. i = j
      BY <3>1, <3>2, <1>3 DEF Forced!DiskInv
    <3> QED BY <3>1, <3>2, <3>3, <1>3, <1>2
  <2>4. \A k \in Forced!Seqs : received[k] = Forced!Once(Forced!On(disk', "serve",
          k)) + Forced!Once(<<"serve", k>> \in lost_tail')
    <3> TAKE k \in Forced!Seqs
    <3>1. CASE Forced!On(disk', "serve", k)
      <4>1. Forced!On(disk, "serve", k) /\ <<"serve", k>> \notin lost_tail'
        BY <3>1, <2>2, <2>3
      <4> QED BY <4>1, <3>1, <2>1 DEF Forced!Once
    <3>2. CASE ~Forced!On(disk', "serve", k)
      <4>1. Forced!On(disk, "serve", k) <=> <<"serve", k>> \in lost_tail'
        BY <3>2, <2>2
      <4> QED BY <4>1, <3>2, <2>1 DEF Forced!Once
    <3> QED BY <3>1, <3>2
  <2> QED BY <2>4, <1>1, <1>3 DEF Forced!DiskInv
<1>7. ASSUME NEW i \in DOMAIN ledger PROVE Forced!LineInv(ledger[i])'
  <2>1. Forced!LineInv(ledger[i])
    BY DEF Forced!LedgerInv
  <2>2. Forced!AfterBreak(ledger[i].seq)' => Forced!AfterBreak(ledger[i].seq)
    BY <1>1 DEF Forced!AfterBreak
  <2>3. Forced!Doomed(ledger[i].seq)
    BY <1>1 DEF Forced!Doomed
  <2> QED BY <2>1, <2>2, <2>3, <1>1 DEF Forced!LineInv
<1>8. Forced!LedgerInv' /\ Forced!FileInv'
  BY <1>1, <1>7 DEF Forced!LedgerInv, Forced!FileInv
<1> QED BY <1>5, <1>6, <1>8

\* The invariant when one commit is made.
LEMMA ForcedCommit ==
  ASSUME Forced!DRForcedAssumption, Forced!ForcedInv, NEW c \in Forced!Commits, disk' = Append(disk, c),
         \A i \in DOMAIN disk : disk[i] # c, seq <= seq', seq' \in 0..ForcedSeqs, c[2] <= seq',
         c[1] = "put" => c[2] > seq,
         unlogged' \in 0..seq', taken' \subseteq 1..seq', received' \in [Forced!Seqs -> Nat],
         \A k \in Forced!Seqs : received'[k] = received[k] + Forced!Once(c = <<"serve", k>>),
         \A k \in taken' : received[k] >= 1,
         UNCHANGED <<now, shipped, link, break_ts, kill_ts, ledger, file, flushing, lost_tail, unshipped,
           late>>
  PROVE  Forced!ForcedInv'
<1> USE DEF Forced!ForcedInv
<1>1. /\ disk' \in Seq(Forced!Commits) /\ Len(disk') = Len(disk) + 1
      /\ \A i, j \in DOMAIN disk' : disk'[i] = disk'[j] => i = j
      /\ \A i \in DOMAIN disk' : disk'[i][2] <= seq'
      /\ \A op, k : Forced!On(disk', op, k) <=> Forced!On(disk, op, k) \/ c = <<op, k>>
      /\ \A k : c # <<"put", k>> /\ (\E j \in DOMAIN disk' : j > shipped /\ disk'[j] = <<"put", k>>)
                  => \E j \in DOMAIN disk : j > shipped /\ disk[j] = <<"put", k>>
  <2>1. seq' \in Nat
    BY DEF Forced!DRForcedAssumption
  <2> QED BY <2>1, ForcedAppend
<1>2. Forced!TypeOK'
  <2>1. shipped \in 0..(Len(disk) + 1)
    BY DEF Forced!TypeOK
  <2> QED BY <1>1, <2>1 DEF Forced!TypeOK
<1>3. \A k \in Forced!Seqs : received'[k] = Forced!Once(Forced!On(disk', "serve",
        k)) + Forced!Once(<<"serve", k>> \in lost_tail)
  <2> TAKE k \in Forced!Seqs
  <2>1. /\ received[k] = Forced!Once(Forced!On(disk, "serve", k)) + Forced!Once(<<"serve",
             k>> \in lost_tail)
        /\ received'[k] = received[k] + Forced!Once(c = <<"serve", k>>)
    BY DEF Forced!DiskInv
  <2>2. Forced!On(disk', "serve", k) <=> Forced!On(disk, "serve", k) \/ c = <<"serve", k>>
    BY <1>1
  <2>3. Forced!Once(<<"serve", k>> \in lost_tail) \in {0, 1}
    BY DEF Forced!Once
  <2>4. CASE c = <<"serve", k>>
    <3>1. ~Forced!On(disk, "serve", k)
      BY <2>4 DEF Forced!On
    <3> QED BY <2>1, <2>2, <2>3, <2>4, <3>1 DEF Forced!Once
  <2>5. CASE c # <<"serve", k>>
    <3>1. Forced!Once(Forced!On(disk', "serve", k)) = Forced!Once(Forced!On(disk, "serve", k))
            /\ Forced!Once(c = <<"serve", k>>) = 0
      BY <2>2, <2>5 DEF Forced!Once
    <3> HIDE DEF Forced!Once
    <3>2. received[k] \in Nat
      BY DEF Forced!TypeOK
    <3> QED BY <2>1, <3>1, <3>2
  <2> QED BY <2>4, <2>5
<1>4. Forced!DiskInv'
  BY <1>1, <1>3 DEF Forced!DiskInv
<1>5. \A k \in Forced!Seqs : received[k] >= 1 => received'[k] >= 1
  <2> TAKE k \in Forced!Seqs
  <2>1. received[k] \in Nat
    BY DEF Forced!TypeOK
  <2>2. received'[k] = received[k] + Forced!Once(c = <<"serve", k>>)
    OBVIOUS
  <2>3. Forced!Once(c = <<"serve", k>>) \in {0, 1}
    BY DEF Forced!Once
  <2> HIDE DEF Forced!Once
  <2> QED BY <2>1, <2>2, <2>3
<1>6. ASSUME NEW i \in DOMAIN ledger PROVE Forced!LineInv(ledger[i])'
  <2>1. ledger[i] \in Forced!Lines /\ Forced!LineInv(ledger[i])
    BY DEF Forced!TypeOK, Forced!LedgerInv
  <2>2. seq \in Nat /\ now \in Nat /\ seq' \in Nat /\ now' \in Nat /\ now <= now'
    BY DEF Forced!TypeOK, Forced!DRForcedAssumption
  <2>3. c # <<"put", ledger[i].seq>>
    <3>1. ledger[i].seq <= seq /\ ledger[i].seq \in Int
      BY <2>1 DEF Forced!LineInv, Forced!Lines, Forced!Seqs
    <3> QED BY <3>1, <2>2
  <2>4. (\E j \in DOMAIN disk' : j > shipped' /\ disk'[j] = <<"put", ledger[i].seq>>)
          => \E j \in DOMAIN disk : j > shipped /\ disk[j] = <<"put", ledger[i].seq>>
    BY <1>1, <2>3
  <2> QED BY <1>5, <2>1, <2>2, <2>4, ForcedLineKept
<1>7. \A k \in taken' : received'[k] >= 1
  <2>1. \A k \in taken' : k \in Forced!Seqs
    BY DEF Forced!Seqs, Forced!DRForcedAssumption
  <2> QED BY <2>1, <1>5
<1>8. Forced!LedgerInv' /\ Forced!FileInv'
  BY <1>6, <1>7 DEF Forced!LedgerInv, Forced!FileInv
<1> QED BY <1>2, <1>4, <1>8

LEMMA ForcedPut == Forced!DRForcedAssumption /\ Forced!ForcedInv /\ Forced!AppPut => Forced!ForcedInv'
<1> SUFFICES ASSUME Forced!DRForcedAssumption, Forced!ForcedInv, Forced!AppPut PROVE Forced!ForcedInv'
  OBVIOUS
<1> DEFINE c == <<"put", seq + 1>>
<1>1. /\ seq < ForcedSeqs /\ seq' = seq + 1 /\ unlogged' = seq + 1 /\ disk' = Append(disk, c)
      /\ UNCHANGED <<now, shipped, link, break_ts, kill_ts, taken, ledger, file, flushing, received,
                     lost_tail, unshipped, late>>
  BY DEF Forced!AppPut, Forced!drill, Forced!history
<1>2. seq \in Nat /\ ForcedSeqs \in Nat /\ seq' \in 0..ForcedSeqs /\ seq <= seq' /\
     unlogged' \in 0..seq'
      /\ seq + 1 \in Forced!Seqs
  BY <1>1 DEF Forced!ForcedInv, Forced!TypeOK, Forced!DRForcedAssumption, Forced!Seqs
<1>3. c \in Forced!Commits /\ c[1] = "put" /\ c[2] = seq + 1
  BY <1>2 DEF Forced!Commits
<1>4. \A i \in DOMAIN disk : disk[i] # c
  <2>1. \A i \in DOMAIN disk : disk[i][2] <= seq
    BY DEF Forced!ForcedInv, Forced!DiskInv
  <2> QED BY <2>1, <1>2, <1>3
<1>5. \A k \in Forced!Seqs : c # <<"serve", k>>
  OBVIOUS
<1>6. \A k \in Forced!Seqs : received'[k] = received[k] + Forced!Once(c = <<"serve", k>>)
  <2> TAKE k \in Forced!Seqs
  <2>1. Forced!Once(c = <<"serve", k>>) = 0
    BY <1>5 DEF Forced!Once
  <2>2. received[k] \in Nat
    BY DEF Forced!ForcedInv, Forced!TypeOK
  <2> HIDE DEF c, Forced!Once
  <2> QED BY <2>1, <2>2, <1>1
<1>7. taken' \subseteq 1..seq' /\ received' \in [Forced!Seqs -> Nat] /\
     \A k \in taken' : received[k] >= 1
  BY <1>1, <1>2 DEF Forced!ForcedInv, Forced!TypeOK, Forced!LedgerInv
<1>8. c[2] <= seq' /\ (c[1] = "put" => c[2] > seq)
  BY <1>1, <1>2, <1>3
<1> HIDE DEF c
<1> QED BY <1>1, <1>2, <1>3, <1>4, <1>6, <1>7, <1>8, ForcedCommit

LEMMA ForcedTake == Forced!DRForcedAssumption /\ Forced!ForcedInv /\ Forced!AppTake => Forced!ForcedInv'
<1> SUFFICES ASSUME Forced!DRForcedAssumption, Forced!ForcedInv, Forced!AppTake PROVE Forced!ForcedInv'
  OBVIOUS
<1>1. PICK k \in Forced!Replies(disk) : disk' = Append(disk, <<"take", k>>) /\ taken' = {k}
  BY DEF Forced!AppTake
<1> DEFINE c == <<"take", k>>
<1>2. UNCHANGED <<now, shipped, link, break_ts, kill_ts, seq, unlogged, ledger, file, flushing, received,
                  lost_tail, unshipped, late>>
  BY DEF Forced!AppTake, Forced!drill, Forced!history
<1>3. k \in Forced!Seqs /\ Forced!Count(disk, "serve", k) > Forced!Count(disk, "take", k)
  BY DEF Forced!Replies
<1>4. Forced!On(disk, "serve", k) /\ ~Forced!On(disk, "take", k)
  BY <1>3, ForcedCount DEF Forced!ForcedInv, Forced!Once
<1>5. PICK i \in DOMAIN disk : disk[i] = <<"serve", k>>
  BY <1>4 DEF Forced!On
<1>6. k <= seq
  <2>1. disk[i][2] <= seq
    BY DEF Forced!ForcedInv, Forced!DiskInv
  <2> QED BY <2>1, <1>5
<1>7. received[k] >= 1
  <2>1. received[k] = 1 + Forced!Once(<<"serve", k>> \in lost_tail)
    BY <1>3, <1>4 DEF Forced!ForcedInv, Forced!DiskInv, Forced!Once
  <2> QED BY <2>1 DEF Forced!Once
<1>8. c \in Forced!Commits /\ c[2] = k /\ c[1] # "put" /\ \A m : c # <<"serve", m>>
  BY <1>3 DEF Forced!Commits
<1>9. \A j \in DOMAIN disk : disk[j] # c
  BY <1>4 DEF Forced!On
<1>10. \A m \in Forced!Seqs : received'[m] = received[m] + Forced!Once(c = <<"serve", m>>)
  <2> TAKE m \in Forced!Seqs
  <2>1. Forced!Once(c = <<"serve", m>>) = 0
    BY <1>8 DEF Forced!Once
  <2>2. received[m] \in Nat
    BY DEF Forced!ForcedInv, Forced!TypeOK
  <2> HIDE DEF c, Forced!Once
  <2> QED BY <2>1, <2>2, <1>2
<1>11. /\ seq <= seq' /\ seq' \in 0..ForcedSeqs /\ unlogged' \in 0..seq' /\ taken' \subseteq 1..seq'
       /\ received' \in [Forced!Seqs -> Nat]
  BY <1>1, <1>2, <1>3, <1>6 DEF Forced!ForcedInv, Forced!TypeOK, Forced!Seqs
<1>12. c[2] <= seq' /\ (c[1] = "put" => c[2] > seq) /\ \A m \in taken' : received[m] >= 1
  BY <1>1, <1>2, <1>6, <1>7, <1>8
<1>13. disk' = Append(disk, c)
  BY <1>1
<1> HIDE DEF c
<1> QED BY <1>2, <1>8, <1>9, <1>10, <1>11, <1>12, <1>13, ForcedCommit

LEMMA ForcedServe == Forced!DRForcedAssumption /\ Forced!ForcedInv /\ Forced!Serve => Forced!ForcedInv'
<1> SUFFICES ASSUME Forced!DRForcedAssumption, Forced!ForcedInv, Forced!Serve PROVE Forced!ForcedInv'
  OBVIOUS
<1>1. PICK k \in Forced!Requests(disk) : disk' = Append(disk, <<"serve", k>>)
                                  /\ received' = [received EXCEPT ![k] = @ + 1]
  BY DEF Forced!Serve
<1> DEFINE c == <<"serve", k>>
<1>2. UNCHANGED <<now, shipped, link, break_ts, kill_ts, seq, unlogged, taken, ledger, file, flushing,
                  lost_tail, unshipped, late>>
  BY DEF Forced!Serve, Forced!drill, Forced!history, Forced!appVars
<1>3. k \in Forced!Seqs /\ Forced!Count(disk, "put", k) > Forced!Count(disk, "serve", k)
  BY DEF Forced!Requests
<1>4. Forced!On(disk, "put", k) /\ ~Forced!On(disk, "serve", k)
  BY <1>3, ForcedCount DEF Forced!ForcedInv, Forced!Once
<1>5. PICK i \in DOMAIN disk : disk[i] = <<"put", k>>
  BY <1>4 DEF Forced!On
<1>6. k <= seq
  <2>1. disk[i][2] <= seq
    BY DEF Forced!ForcedInv, Forced!DiskInv
  <2> QED BY <2>1, <1>5
<1>8. c \in Forced!Commits /\ c[2] = k /\ c[1] # "put" /\ \A m : c = <<"serve", m>> <=> m = k
  BY <1>3 DEF Forced!Commits
<1>9. \A j \in DOMAIN disk : disk[j] # c
  BY <1>4 DEF Forced!On
<1>10. \A m \in Forced!Seqs : received'[m] = received[m] + Forced!Once(c = <<"serve", m>>)
  <2> TAKE m \in Forced!Seqs
  <2>1. Forced!Once(c = <<"serve", m>>) = IF m = k THEN 1 ELSE 0
    BY <1>8 DEF Forced!Once
  <2>2. received \in [Forced!Seqs -> Nat]
    BY DEF Forced!ForcedInv, Forced!TypeOK
  <2> HIDE DEF c, Forced!Once
  <2> QED BY <2>1, <2>2, <1>1
<1>11. /\ seq <= seq' /\ seq' \in 0..ForcedSeqs /\ unlogged' \in 0..seq' /\ taken' \subseteq 1..seq'
       /\ received' \in [Forced!Seqs -> Nat]
  BY <1>1, <1>2, <1>3 DEF Forced!ForcedInv, Forced!TypeOK
<1>12. c[2] <= seq' /\ (c[1] = "put" => c[2] > seq) /\ \A m \in taken' : received[m] >= 1
  BY <1>2, <1>6, <1>8 DEF Forced!ForcedInv, Forced!LedgerInv
<1>13. disk' = Append(disk, c)
  BY <1>1
<1> HIDE DEF c
<1> QED BY <1>2, <1>8, <1>9, <1>10, <1>11, <1>12, <1>13, ForcedCommit

\* The invariant when one line is logged.
LEMMA ForcedLogged ==
  ASSUME Forced!DRForcedAssumption, Forced!ForcedInv, NEW event \in {"sent", "confirmed"},
         NEW k \in 1..seq,
         Forced!Logged(event, k),
         unlogged' \in 0..seq, taken' \subseteq taken, UNCHANGED <<lost_tail, unshipped>>,
           late \subseteq late',
         event = "confirmed" => received[k] >= 1,
         event = "sent" /\ Forced!Doomed(k) => k \in late'
  PROVE  Forced!ForcedInv'
<1> USE DEF Forced!ForcedInv
<1>0. PICK e : e = [event |-> event, seq |-> k, ts |-> now + 1]
  OBVIOUS
<1>1. /\ now' = now + 1 /\ ledger' = Append(ledger, e) /\ flushing = -1
      /\ UNCHANGED <<disk, shipped, link, break_ts, kill_ts, seq, file, flushing, app, received>>
  BY <1>0 DEF Forced!Logged, Forced!drill
<1>2. now \in Nat /\ seq \in 0..ForcedSeqs /\ ForcedSeqs \in Nat /\ k \in Forced!Seqs
        /\ break_ts \in 0..now
        /\ kill_ts \in 0..now
  BY DEF Forced!TypeOK, Forced!DRForcedAssumption, Forced!Seqs
<1>3. e \in Forced!Lines /\ e.event = event /\ e.seq = k /\ e.ts = now + 1
  BY <1>0, <1>2 DEF Forced!Lines
<1>4. Forced!LineInv(e)'
  <2>1. e.seq <= seq' /\ e.ts <= now' /\ break_ts' < e.ts
    BY <1>1, <1>2, <1>3
  <2>2. e.ts # break_ts' /\ break_ts' <= e.ts
    BY <2>1, <1>1, <1>2, <1>3
  <2>3. e.event = "confirmed" => received'[e.seq] >= 1
    BY <1>1, <1>3
  <2>4. Forced!Doomed(e.seq)' => Forced!Doomed(k)
    BY <1>1, <1>3 DEF Forced!Doomed
  <2>5. e.event = "sent" /\ Forced!Doomed(e.seq)' => e.seq \in late'
    BY <2>4, <1>3
  <2> QED BY <2>1, <2>2, <2>3, <2>5 DEF Forced!LineInv
<1>5. /\ ledger \in Seq(Forced!Lines) /\ Len(ledger) \in Nat /\ DOMAIN ledger = 1..Len(ledger)
      /\ ledger' \in Seq(Forced!Lines) /\ Len(ledger') = Len(ledger) + 1
           /\ DOMAIN ledger' = 1..(Len(ledger) + 1)
  BY <1>1, <1>3 DEF Forced!TypeOK
<1>6. /\ \A i \in DOMAIN ledger : i \in DOMAIN ledger' /\ ledger'[i] = ledger[i]
      /\ \A i \in DOMAIN ledger' : i \in DOMAIN ledger \/ ledger'[i] = e
  BY <1>1, <1>3, <1>5
<1>7. Forced!TypeOK'
  <2>1. break_ts \in 0..(now + 1) /\ kill_ts \in 0..(now + 1) /\ now + 1 \in Nat
    BY <1>2
  <2>2. flushing \in -1..(Len(ledger) + 1)
    BY <1>1, <1>5
  <2> QED BY <1>1, <1>5, <2>1, <2>2 DEF Forced!TypeOK
<1>8. Forced!DiskInv'
  BY <1>1 DEF Forced!DiskInv, Forced!On
<1>9. ASSUME NEW d \in Forced!Lines, Forced!LineInv(d) PROVE Forced!LineInv(d)'
  <2>2. seq \in Nat /\ seq' \in Nat /\ seq <= seq' /\ now' \in Nat /\ now <= now'
    BY <1>1, <1>2
  <2> QED BY <1>1, <1>9, <2>2, ForcedLineKept
<1>10. ASSUME NEW i \in DOMAIN ledger' PROVE Forced!LineInv(ledger[i])'
  <2>1. CASE i \in DOMAIN ledger
    <3>1. PICK d : d = ledger[i]
      OBVIOUS
    <3>2. d \in Forced!Lines /\ Forced!LineInv(d) /\ ledger'[i] = d
      BY <2>1, <3>1, <1>5, <1>6 DEF Forced!LedgerInv
    <3> QED BY <3>2, <1>9
  <2>2. CASE ledger'[i] = e
    BY <2>2, <1>4
  <2> QED BY <2>1, <2>2, <1>6
<1>11. Forced!LedgerInv'
  <2>1. \A m \in taken' : received'[m] >= 1
    BY <1>1 DEF Forced!LedgerInv
  <2> QED BY <1>10, <2>1 DEF Forced!LedgerInv
<1>12. Forced!FileInv'
  BY <1>1, <1>6 DEF Forced!FileInv
<1> QED BY <1>7, <1>8, <1>11, <1>12

LEMMA ForcedSent == Forced!DRForcedAssumption /\ Forced!ForcedInv /\ Forced!AppSent => Forced!ForcedInv'
<1> SUFFICES ASSUME Forced!DRForcedAssumption, Forced!ForcedInv, Forced!AppSent PROVE Forced!ForcedInv'
  OBVIOUS
<1>1. /\ Forced!Logged("sent", unlogged) /\ unlogged' = 0 /\ UNCHANGED <<taken, lost_tail, unshipped>>
      /\ late' = IF link = "dead" \/ (link = "promoted" /\ <<"put", unlogged>> \in lost_tail)
                 THEN late \cup {unlogged} ELSE late
  BY DEF Forced!AppSent
<1>2. unlogged \in 1..seq /\ unlogged' \in 0..seq
  BY <1>1 DEF Forced!AppSent, Forced!ForcedInv, Forced!TypeOK
<1>3. late \subseteq late' /\ (Forced!Doomed(unlogged) => unlogged \in late')
  BY <1>1 DEF Forced!Doomed
<1> QED BY <1>1, <1>2, <1>3, ForcedLogged

LEMMA ForcedConfirmed == Forced!DRForcedAssumption /\ Forced!ForcedInv
  /\ Forced!AppConfirmed => Forced!ForcedInv'
<1> SUFFICES ASSUME Forced!DRForcedAssumption, Forced!ForcedInv,
                    Forced!AppConfirmed PROVE Forced!ForcedInv'
  OBVIOUS
<1>1. PICK k \in taken : Forced!Logged("confirmed", k)
  BY DEF Forced!AppConfirmed
<1>2. taken' = {} /\ UNCHANGED <<unlogged, lost_tail, unshipped, late>>
  BY DEF Forced!AppConfirmed, Forced!history
<1>3. k \in 1..seq /\ unlogged' \in 0..seq /\ received[k] >= 1
  BY <1>2 DEF Forced!ForcedInv, Forced!TypeOK, Forced!LedgerInv
<1> QED BY <1>1, <1>2, <1>3, ForcedLogged

LEMMA ForcedStep == Forced!DRForcedAssumption /\ Forced!ForcedInv
  /\ [Forced!Next]_(Forced!vars) => Forced!ForcedInv'
<1> SUFFICES ASSUME Forced!DRForcedAssumption, Forced!ForcedInv,
                    [Forced!Next]_(Forced!vars) PROVE Forced!ForcedInv'
  OBVIOUS
<1>1. CASE Forced!Next
  BY <1>1, ForcedShip, ForcedBreak, ForcedDies, ForcedPromote, ForcedPut, ForcedSent, ForcedTake,
     ForcedConfirmed, ForcedServe, ForcedFlush, ForcedKilled DEF Forced!Next
<1>2. CASE UNCHANGED Forced!vars
  <2>1. Forced!TypeOK' /\ shipped <= shipped'
    BY <1>2 DEF Forced!vars, Forced!ForcedInv, Forced!TypeOK
  <2>2. Forced!FileInv'
    BY <1>2 DEF Forced!vars, Forced!ForcedInv, Forced!FileInv
  <2> QED BY <2>1, <2>2, <1>2, ForcedStill DEF Forced!vars
<1> QED BY <1>1, <1>2

-----------------------------------------------------------------------------
(***************************************************************************)
(* The cutover scripts (module Cutover).  CutoverInv is inductive: each    *)
(* survives every step, the later ones with the help of the earlier.       *)
(***************************************************************************)
LEMMA CutoverInit == Cutting!CutoverAssumption /\ Cutting!Init => Cutting!CutoverInv
<1> USE DEF Cutting!script, Cutting!data, Cutting!sites, Cutting!Quiet, Cutting!Goto, Cutting!At
<1> SUFFICES ASSUME Cutting!CutoverAssumption, Cutting!Init PROVE Cutting!CutoverInv
  OBVIOUS
<1>1. Cutting!TypeOK
  <2>1. rpo0 \in BOOLEAN /\ drill \in BOOLEAN /\ verified \in BOOLEAN /\ gated \in BOOLEAN
    BY DEF Cutting!Init
  <2>2. copy \in 0..written /\ token \in 0..written /\ written \in 0..CutMsgs
    BY DEF Cutting!Init, Cutting!CutoverAssumption
  <2>3. runs \in 0..CutRuns /\ faults \in 0..CutFaults
    BY DEF Cutting!Init, Cutting!CutoverAssumption
  <2> QED BY <2>1, <2>2, <2>3 DEF Cutting!TypeOK, Cutting!CutoverAssumption, Cutting!Init, Cutting!Arms,
        Cutting!Pcs
<1>2. Cutting!SitesInv /\ Cutting!CopyInv /\ Cutting!DrillInv
  BY DEF Cutting!Init, Cutting!SitesInv, Cutting!CopyInv, Cutting!DrillInv, Cutting!Arms
<1> QED BY <1>1, <1>2 DEF Cutting!CutoverInv

LEMMA CutoverTypes ==
  ASSUME Cutting!CutoverAssumption, Cutting!TypeOK, [Cutting!Next]_(Cutting!vars)
  PROVE  Cutting!TypeOK'
<1> USE DEF Cutting!script, Cutting!data, Cutting!sites, Cutting!Quiet, Cutting!Goto, Cutting!At
<1> USE DEF Cutting!TypeOK, Cutting!CutoverAssumption, Cutting!Arms, Cutting!Pcs
<1>1. CASE Cutting!Commit
  BY <1>1 DEF Cutting!Commit
<1>2. CASE Cutting!Ship
  BY <1>2 DEF Cutting!Ship
<1>3. CASE Cutting!LinkBreaks
  <2>1. gated' \in BOOLEAN
    BY <1>3 DEF Cutting!LinkBreaks
  <2> QED BY <1>3, <2>1 DEF Cutting!LinkBreaks
<1>4. CASE Cutting!LinkRestored
  BY <1>4 DEF Cutting!LinkRestored
<1>5. CASE Cutting!Start
  <2>1. drill' \in BOOLEAN /\ gated' \in BOOLEAN
    BY <1>5 DEF Cutting!Start
  <2>2. runs' \in 0..CutRuns /\ pc' \in Cutting!Pcs
    BY <1>5 DEF Cutting!Start
  <2> QED BY <1>5, <2>1, <2>2 DEF Cutting!Start
<1>6. CASE Cutting!Fails
  BY <1>6 DEF Cutting!Fails
<1>7. CASE Cutting!DiscoverAndSeed
  <2>1. written' \in 0..CutMsgs /\ copy \in 0..written' /\ token' \in 0..written'
    <3>1. CASE drill
      BY <1>7, <3>1 DEF Cutting!DiscoverAndSeed
    <3>2. CASE ~drill
      BY <1>7, <3>2 DEF Cutting!DiscoverAndSeed
    <3> QED BY <3>1, <3>2
  <2> QED BY <1>7, <2>1 DEF Cutting!DiscoverAndSeed
<1>8. CASE Cutting!Gate
  BY <1>8 DEF Cutting!Gate
<1>9. CASE Cutting!RdqmDemote \/ Cutting!PcmkDemote
  BY <1>9 DEF Cutting!RdqmDemote, Cutting!PcmkDemote, Cutting!Demote
<1>10. CASE Cutting!RdqmPromote
  BY <1>10 DEF Cutting!RdqmPromote
<1>11. CASE Cutting!Settle
  BY <1>11 DEF Cutting!Settle
<1>12. CASE Cutting!Verify
  BY <1>12 DEF Cutting!Verify
<1>13. CASE Cutting!rpo0_verify
  BY <1>13 DEF Cutting!rpo0_verify
<1>14. CASE Cutting!Quiesce
  BY <1>14 DEF Cutting!Quiesce
<1>15. CASE Cutting!PcmkPromote
  BY <1>15 DEF Cutting!PcmkPromote
<1>16. CASE Cutting!StartGroup
  BY <1>16 DEF Cutting!StartGroup
<1>17. CASE UNCHANGED Cutting!vars
  BY <1>17 DEF Cutting!vars
<1> QED
  BY <1>1, <1>2, <1>3, <1>4, <1>5, <1>6, <1>7, <1>8, <1>9, <1>10, <1>11, <1>12, <1>13,
     <1>14, <1>15, <1>16, <1>17 DEF Cutting!Next

LEMMA CutoverSites ==
  ASSUME Cutting!TypeOK, Cutting!SitesInv, [Cutting!Next]_(Cutting!vars)
  PROVE  Cutting!SitesInv'
<1> USE DEF Cutting!script, Cutting!data, Cutting!sites, Cutting!Quiet, Cutting!Goto, Cutting!At
<1> USE DEF Cutting!SitesInv
<1> DEFINE roles == [from : {"primary", "secondary"}, to : {"primary", "secondary"}]
<1> DEFINE qms == [from : {"running", "ended"}, to : {"running", "ended"}]
<1>0. role \in roles /\ qm \in qms
  BY DEF Cutting!TypeOK
<1>1. CASE UNCHANGED Cutting!sites /\ (pc' = pc \/ pc' \in {"idle", "discover", "quiesce", "gate",
             "demote"})
  BY <1>1
<1>2. CASE Cutting!RdqmDemote \/ Cutting!PcmkDemote
  BY <1>0, <1>2 DEF Cutting!RdqmDemote, Cutting!PcmkDemote, Cutting!Demote
<1>3. CASE Cutting!RdqmPromote \/ Cutting!PcmkPromote
  BY <1>0, <1>3 DEF Cutting!RdqmPromote, Cutting!PcmkPromote
<1>4. CASE Cutting!Settle \/ Cutting!StartGroup
  BY <1>0, <1>4 DEF Cutting!Settle, Cutting!StartGroup
<1>5. CASE Cutting!Verify \/ Cutting!rpo0_verify
  BY <1>0, <1>5 DEF Cutting!Verify, Cutting!rpo0_verify
<1>6. CASE Cutting!Quiesce
  BY <1>0, <1>6 DEF Cutting!Quiesce
<1> QED
  BY <1>1, <1>2, <1>3, <1>4, <1>5, <1>6
  DEF Cutting!Next, Cutting!vars, Cutting!Commit, Cutting!Ship, Cutting!LinkBreaks,
      Cutting!LinkRestored, Cutting!Start, Cutting!Fails, Cutting!DiscoverAndSeed, Cutting!Gate

LEMMA CutoverCopy ==
  ASSUME Cutting!TypeOK, Cutting!SitesInv, Cutting!CopyInv, [Cutting!Next]_(Cutting!vars)
  PROVE  Cutting!CopyInv'
<1> USE DEF Cutting!script, Cutting!data, Cutting!sites, Cutting!Quiet, Cutting!Goto, Cutting!At
<1> USE DEF Cutting!CopyInv
<1> DEFINE roles == [from : {"primary", "secondary"}, to : {"primary", "secondary"}]
<1>0. role \in roles /\ copy \in Nat /\ written \in Nat /\ copy <= written
  BY DEF Cutting!TypeOK
<1>1. CASE UNCHANGED <<written, copy, link, gated>> /\ (role'.from = role.from)
  BY <1>1
<1>2. CASE Cutting!Commit
  BY <1>2 DEF Cutting!Commit
<1>3. CASE Cutting!Ship
  BY <1>0, <1>3 DEF Cutting!Ship
<1>4. CASE Cutting!LinkBreaks \/ Cutting!LinkRestored
  BY <1>4 DEF Cutting!LinkBreaks, Cutting!LinkRestored
<1>5. CASE Cutting!Start
  BY <1>5 DEF Cutting!Start
<1>6. CASE Cutting!DiscoverAndSeed
  BY <1>6 DEF Cutting!DiscoverAndSeed
<1>7. CASE Cutting!Gate
  BY <1>7 DEF Cutting!Gate, Cutting!in_sync
<1>8. CASE Cutting!RdqmDemote \/ Cutting!PcmkDemote
  BY <1>0, <1>8 DEF Cutting!RdqmDemote, Cutting!PcmkDemote, Cutting!Demote
<1>9. CASE Cutting!RdqmPromote \/ Cutting!PcmkPromote
  BY <1>0, <1>1, <1>9 DEF Cutting!RdqmPromote, Cutting!PcmkPromote
<1> QED
  BY <1>1, <1>2, <1>3, <1>4, <1>5, <1>6, <1>7, <1>8, <1>9
  DEF Cutting!Next, Cutting!vars, Cutting!Fails, Cutting!Settle, Cutting!Verify,
      Cutting!rpo0_verify, Cutting!Quiesce, Cutting!StartGroup

LEMMA CutoverDrill ==
  ASSUME Cutting!TypeOK, Cutting!DrillInv, [Cutting!Next]_(Cutting!vars)
  PROVE  Cutting!DrillInv'
<1> USE DEF Cutting!script, Cutting!data, Cutting!sites, Cutting!Quiet, Cutting!Goto, Cutting!At
<1> USE DEF Cutting!DrillInv
<1>0. copy \in Nat /\ written \in Nat /\ token \in Nat /\ arm \in Cutting!Arms
  BY DEF Cutting!TypeOK
<1>1. CASE UNCHANGED <<arm, drill, rpo0, token, pc, verified>> /\ copy' = copy
  BY <1>1
<1>2. CASE Cutting!Ship
  BY <1>0, <1>2 DEF Cutting!Ship
<1>3. CASE Cutting!Start
  BY <1>3 DEF Cutting!Start, Cutting!drill_refused
<1>4. CASE Cutting!DiscoverAndSeed
  BY <1>0, <1>4 DEF Cutting!DiscoverAndSeed
<1>5. CASE Cutting!RdqmDemote \/ Cutting!PcmkDemote
  BY <1>5 DEF Cutting!RdqmDemote, Cutting!PcmkDemote, Cutting!Demote
<1>6. CASE Cutting!RdqmPromote \/ Cutting!Settle \/ Cutting!Verify \/ Cutting!Gate \/ Cutting!Fails
  BY <1>6 DEF Cutting!RdqmPromote, Cutting!Settle, Cutting!Verify, Cutting!Gate, Cutting!Fails
<1>7. CASE Cutting!rpo0_verify
  BY <1>7 DEF Cutting!rpo0_verify
<1>8. CASE Cutting!Quiesce \/ Cutting!PcmkPromote \/ Cutting!StartGroup
  <2>1. drill = FALSE
    BY <1>8 DEF Cutting!Quiesce, Cutting!PcmkPromote, Cutting!StartGroup, Cutting!TypeOK
  <2> QED BY <1>8, <2>1 DEF Cutting!Quiesce, Cutting!PcmkPromote, Cutting!StartGroup
<1> QED
  BY <1>1, <1>2, <1>3, <1>4, <1>5, <1>6, <1>7, <1>8
  DEF Cutting!Next, Cutting!vars, Cutting!Commit, Cutting!LinkBreaks, Cutting!LinkRestored

LEMMA CutoverImplies == Cutting!CutoverInv => Cutting!CutoverSound
<1> SUFFICES ASSUME Cutting!CutoverInv PROVE Cutting!CutoverSound
  OBVIOUS
<1> USE DEF Cutting!CutoverInv
<1>1. Cutting!OneLiveSite
  BY DEF Cutting!OneLiveSite, Cutting!SitesInv
<1>2. Cutting!GatedCutLosesNothing
  BY DEF Cutting!GatedCutLosesNothing, Cutting!SitesInv, Cutting!CopyInv
<1>3. Cutting!NoSilentPass
  BY DEF Cutting!NoSilentPass, Cutting!DrillInv
<1> QED BY <1>1, <1>2, <1>3 DEF Cutting!CutoverSound

LEMMA CutoverStep ==
  ASSUME Cutting!CutoverAssumption, Cutting!CutoverInv, [Cutting!Next]_(Cutting!vars)
  PROVE  Cutting!CutoverInv'
BY CutoverTypes, CutoverSites, CutoverCopy, CutoverDrill DEF Cutting!CutoverInv

-----------------------------------------------------------------------------
(***************************************************************************)
(* The build buckets (module BuildEnv).                                    *)
(***************************************************************************)
LEMMA BucketsContentFacts == Buckets!None \notin Buckets!Contents /\ Buckets!Contents = {1, 2}
  /\ Buckets!None = 0
BY DEF Buckets!None, Buckets!Contents

LEMMA BucketsFileFacts ==
  ASSUME Buckets!BuildEnvAssumption
  PROVE  /\ Buckets!Vagrant \in Buckets!Files /\ Buckets!Vagrant \notin Refs
              /\ Buckets!Vagrant \notin Plain
         /\ Refs \subseteq Buckets!Files /\ Plain \subseteq Buckets!Files
         /\ BuildOps \in Nat
BY DEF Buckets!BuildEnvAssumption, Buckets!Files

\* The (file, content) pairs of a place.
LEMMA BucketsPairsMember ==
  ASSUME NEW where, NEW fs, NEW f, NEW c
  PROVE  <<f, c>> \in Buckets!Pairs(where, fs) <=> f \in fs /\ where[f] = c /\ c # Buckets!None
BY DEF Buckets!Pairs

LEMMA BucketsPairsType ==
  ASSUME NEW where \in [Buckets!Files -> {Buckets!None} \cup Buckets!Contents],
         NEW fs \in SUBSET Buckets!Files
  PROVE  Buckets!Pairs(where, fs) \subseteq Buckets!Files \X Buckets!Contents
BY DEF Buckets!Pairs

\* A file exists when one of the three places holds it.
Placed(f, c) == legacy[f] = c \/ shared[f] = c \/ local[f] = c

LEMMA BucketsExistsPlaced ==
  ASSUME NEW f \in Buckets!Files, NEW c \in Buckets!Contents
  PROVE  Buckets!Exists(<<f, c>>) <=> Placed(f, c)
BY BucketsPairsMember, BucketsContentFacts DEF Buckets!Exists, Placed

LEMMA BucketsExistsPlacedNext ==
  ASSUME NEW f \in Buckets!Files, NEW c \in Buckets!Contents
  PROVE  Buckets!Exists(<<f, c>>)' <=> Placed(f, c)'
<1>1. /\ <<f, c>> \in Buckets!Pairs(legacy', Buckets!Files) <=> legacy'[f] = c
      /\ <<f, c>> \in Buckets!Pairs(shared', Buckets!Files) <=> shared'[f] = c
      /\ <<f, c>> \in Buckets!Pairs(local', Buckets!Files) <=> local'[f] = c
  BY BucketsPairsMember, BucketsContentFacts
<1>2. Buckets!Exists(<<f, c>>)' <=> <<f, c>> \in Buckets!Pairs(legacy',
        Buckets!Files) \cup Buckets!Pairs(shared',
        Buckets!Files) \cup Buckets!Pairs(local', Buckets!Files)
  BY DEF Buckets!Exists, Buckets!Pairs
<1> QED BY <1>1, <1>2 DEF Placed

LEMMA BucketsTypeInit == Buckets!BuildEnvAssumption /\ Buckets!Init => Buckets!TypeOK
<1> SUFFICES ASSUME Buckets!BuildEnvAssumption, Buckets!Init PROVE Buckets!TypeOK
  OBVIOUS
<1>1. /\ shared \in [Buckets!Files -> {Buckets!None} \cup Buckets!Contents]
           /\ local \in [Buckets!Files -> {Buckets!None} \cup Buckets!Contents]
      /\ legacy \in [Buckets!Files -> {Buckets!None} \cup Buckets!Contents]
  BY BucketsContentFacts DEF Buckets!Init
<1>2. kind \in [Buckets!Checkouts -> [Buckets!SHARED -> {"none", "real", "link"}]]
        /\ kind["main"] = [b \in Buckets!SHARED |-> "real"]
  BY DEF Buckets!Init, Buckets!Checkouts
<1>3. mig \in [pc : {"idle", "apply"}, moves : SUBSET Buckets!Files, dups : SUBSET Refs, whole : BOOLEAN]
  BY DEF Buckets!Init, Buckets!NoMig
<1>4. running \subseteq Buckets!Checkouts /\ ops \in 0..BuildOps
  BY BucketsFileFacts DEF Buckets!Init
<1>5. ever \subseteq Buckets!Files \X Buckets!Contents
  BY <1>1, BucketsPairsType DEF Buckets!Init
<1>6. \A h \in {ever, dropped, raced, unconfirmed} : h \subseteq Buckets!Files \X Buckets!Contents
  BY <1>5 DEF Buckets!Init
<1> QED BY <1>1, <1>2, <1>3, <1>4, <1>6 DEF Buckets!TypeOK

LEMMA BucketsNoMigType ==
  Buckets!NoMig \in [pc : {"idle", "apply"}, moves : SUBSET Buckets!Files, dups : SUBSET Refs,
    whole : BOOLEAN]
BY DEF Buckets!NoMig

LEMMA BucketsCleanType ==
  ASSUME Buckets!BuildEnvAssumption, Buckets!TypeOK, NEW c \in Buckets!Checkouts,
         NEW drop \in SUBSET Buckets!SHARED, Buckets!Cleaned(c, drop)
  PROVE  /\ shared' \in [Buckets!Files -> {Buckets!None} \cup Buckets!Contents]
              /\ local' \in [Buckets!Files -> {Buckets!None} \cup Buckets!Contents]
         /\ legacy' \in [Buckets!Files -> {Buckets!None} \cup Buckets!Contents]
         /\ kind' \in [Buckets!Checkouts -> [Buckets!SHARED -> {"none", "real", "link"}]]
         /\ kind'["main"] = [b \in Buckets!SHARED |-> "real"]
         /\ dropped' \subseteq Buckets!Files \X Buckets!Contents
              /\ unconfirmed' \subseteq Buckets!Files \X Buckets!Contents
<1> USE DEF Buckets!TypeOK, Buckets!Cleaned
<1>1. /\ shared' \in [Buckets!Files -> {Buckets!None} \cup Buckets!Contents]
           /\ local' \in [Buckets!Files -> {Buckets!None} \cup Buckets!Contents]
      /\ legacy' \in [Buckets!Files -> {Buckets!None} \cup Buckets!Contents]
  OBVIOUS
<1>2. kind' \in [Buckets!Checkouts -> [Buckets!SHARED -> {"none", "real", "link"}]]
  OBVIOUS
<1>3. kind'["main"] = [b \in Buckets!SHARED |-> "real"]
  BY DEF Buckets!Checkouts
<1>4. dropped' \subseteq Buckets!Files \X Buckets!Contents
        /\ unconfirmed' \subseteq Buckets!Files \X Buckets!Contents
  <2> USE BucketsPairsType
  <2> QED OBVIOUS
<1> QED BY <1>1, <1>2, <1>3, <1>4

LEMMA BucketsTypeStep ==
  ASSUME Buckets!BuildEnvAssumption, Buckets!TypeOK, [Buckets!Next]_(Buckets!vars)
  PROVE  Buckets!TypeOK'
<1> USE BucketsContentFacts, BucketsFileFacts DEF Buckets!TypeOK
<1>1. ASSUME NEW c \in Buckets!Checkouts, Buckets!StartVerb(c) PROVE Buckets!TypeOK'
  <2>1. kind' \in [Buckets!Checkouts -> [Buckets!SHARED -> {"none", "real", "link"}]]
          /\ kind'["main"] = [b \in Buckets!SHARED |-> "real"]
    BY <1>1 DEF Buckets!StartVerb, Buckets!Checkouts
  <2>2. shared' \in [Buckets!Files -> {Buckets!None} \cup Buckets!Contents]
          /\ legacy' \in [Buckets!Files -> {Buckets!None} \cup Buckets!Contents]
    BY <1>1 DEF Buckets!StartVerb, Buckets!heal
  <2>3. running' \subseteq Buckets!Checkouts /\ ops' \in 0..BuildOps
    BY <1>1 DEF Buckets!StartVerb
  <2> QED BY <1>1, <2>1, <2>2, <2>3 DEF Buckets!StartVerb, Buckets!history
<1>2. ASSUME NEW c \in Buckets!Checkouts, Buckets!EndVerb(c) PROVE Buckets!TypeOK'
  BY <1>2 DEF Buckets!EndVerb, Buckets!history
<1>3. ASSUME NEW c \in Buckets!Checkouts, Buckets!Clean(c) PROVE Buckets!TypeOK'
  BY <1>3, BucketsCleanType DEF Buckets!Clean
<1>4. ASSUME NEW c \in Buckets!Checkouts, NEW f \in Buckets!Files,
             Buckets!Write(c, f) PROVE Buckets!TypeOK'
  <2>1. shared' \in [Buckets!Files -> {Buckets!None} \cup Buckets!Contents]
          /\ local' \in [Buckets!Files -> {Buckets!None} \cup Buckets!Contents]
    BY <1>4 DEF Buckets!Write
  <2>2. <<f, 2>> \in Buckets!Files \X Buckets!Contents
    OBVIOUS
  <2>3. ever' \subseteq Buckets!Files \X Buckets!Contents
          /\ raced' \subseteq Buckets!Files \X Buckets!Contents
    BY <1>4, <2>2 DEF Buckets!Write
  <2>4. dropped' \subseteq Buckets!Files \X Buckets!Contents
          /\ unconfirmed' \subseteq Buckets!Files \X Buckets!Contents
    BY <1>4 DEF Buckets!Write
  <2> QED BY <1>4, <2>1, <2>3, <2>4 DEF Buckets!Write
<1>5. CASE Buckets!MigratePlan
  BY <1>5, BucketsNoMigType DEF Buckets!MigratePlan, Buckets!mergeable, Buckets!history
<1>6. CASE Buckets!MigrateMove
  <2> PICK f \in mig.moves : Buckets!MoveOf(f)
    BY <1>6 DEF Buckets!MigrateMove
  <2>1. CASE Buckets!Blocked(f)
    BY <1>6, <2>1, BucketsNoMigType DEF Buckets!MoveOf, Buckets!MigrateMove, Buckets!history
  <2>2. CASE ~Buckets!Blocked(f)
    BY <1>6, <2>2 DEF Buckets!MoveOf, Buckets!Moved, Buckets!MigrateMove, Buckets!history
  <2> QED BY <2>1, <2>2
<1>7. CASE Buckets!MigrateDrop
  <2> PICK f \in mig.dups : legacy' = [legacy EXCEPT ![f] = Buckets!None]
        /\ mig' = [mig EXCEPT !.dups = @ \ {f}]
    BY <1>7 DEF Buckets!MigrateDrop
  <2>1. legacy' \in [Buckets!Files -> {Buckets!None} \cup Buckets!Contents]
    OBVIOUS
  <2> QED BY <1>7, <2>1 DEF Buckets!MigrateDrop, Buckets!history
<1>8. CASE Buckets!MigrateEnds
  BY <1>8, BucketsNoMigType DEF Buckets!MigrateEnds, Buckets!history
<1>9. CASE UNCHANGED Buckets!vars
  BY <1>9 DEF Buckets!vars
<1> QED
  BY <1>1, <1>2, <1>3, <1>4, <1>5, <1>6, <1>7, <1>8, <1>9 DEF Buckets!Next

-----------------------------------------------------------------------------
(***************************************************************************)
(* What a clean and a rename do, file by file.                             *)
(***************************************************************************)
LEMMA BucketsCleanFacts ==
  ASSUME Buckets!TypeOK, NEW c \in Buckets!Checkouts, Buckets!Clean(c), NEW f \in Buckets!Files
  PROVE  /\ shared'[f] = shared[f] \/ (shared'[f] = Buckets!None
              /\ (shared[f] # Buckets!None => <<f, shared[f]>> \in dropped'))
         /\ legacy'[f] = legacy[f] \/ (legacy'[f] = Buckets!None
              /\ (legacy[f] # Buckets!None => <<f, legacy[f]>> \in dropped'))
         /\ local'[f] = local[f] \/ (local'[f] = Buckets!None
              /\ (local[f] # Buckets!None => <<f, local[f]>> \in dropped'))
         /\ dropped \subseteq dropped'
         /\ f = Buckets!Vagrant => legacy'[f] = legacy[f]
<1> PICK drop \in SUBSET Buckets!SHARED : Buckets!Cleaned(c, drop)
  BY DEF Buckets!Clean
<1> DEFINE gone == {g \in Buckets!Files : Buckets!MIGRATION(g) \in drop}
           there == {g \in gone : c = "main" \/ kind[c][Buckets!MIGRATION(g)] = "link"}
           here == {g \in gone : c = "wt" /\ kind[c][Buckets!MIGRATION(g)] = "real"}
           strays == IF c = "main" THEN Buckets!Files \ {Buckets!Vagrant} ELSE {}
<1>1. /\ shared' = [g \in Buckets!Files |-> IF g \in there THEN Buckets!None ELSE shared[g]]
      /\ local' = [g \in Buckets!Files |-> IF g \in here THEN Buckets!None ELSE local[g]]
      /\ legacy' = [g \in Buckets!Files |-> IF g \in strays THEN Buckets!None ELSE legacy[g]]
      /\ dropped' = dropped \cup Buckets!Pairs(shared, there) \cup Buckets!Pairs(local,
           here) \cup Buckets!Pairs(legacy,
           strays)
  BY DEF Buckets!Cleaned
<1>2. Buckets!Vagrant \notin strays
  OBVIOUS
<1> HIDE DEF gone, there, here, strays
<1>3. shared'[f] = shared[f] \/ (shared'[f] = Buckets!None
        /\ (shared[f] # Buckets!None => <<f, shared[f]>> \in dropped'))
  <2>1. f \in there /\ shared[f] # Buckets!None => <<f, shared[f]>> \in Buckets!Pairs(shared, there)
    BY BucketsPairsMember
  <2> QED BY <1>1, <2>1
<1>4. legacy'[f] = legacy[f] \/ (legacy'[f] = Buckets!None
        /\ (legacy[f] # Buckets!None => <<f, legacy[f]>> \in dropped'))
  <2>1. f \in strays /\ legacy[f] # Buckets!None => <<f, legacy[f]>> \in Buckets!Pairs(legacy, strays)
    BY BucketsPairsMember
  <2> QED BY <1>1, <2>1
<1>5. local'[f] = local[f] \/ (local'[f] = Buckets!None
        /\ (local[f] # Buckets!None => <<f, local[f]>> \in dropped'))
  <2>1. f \in here /\ local[f] # Buckets!None => <<f, local[f]>> \in Buckets!Pairs(local, here)
    BY BucketsPairsMember
  <2> QED BY <1>1, <2>1
<1>6. dropped \subseteq dropped' /\ (f = Buckets!Vagrant => legacy'[f] = legacy[f])
  BY <1>1, <1>2
<1> QED BY <1>3, <1>4, <1>5, <1>6

\* A verb writes to the main checkout's buckets only.
LEMMA BucketsWriteFacts ==
  ASSUME Buckets!TypeOK, Buckets!NeverForked, NEW c \in Buckets!Checkouts, NEW f \in Buckets!Files,
         Buckets!Write(c, f)
  PROVE  /\ local' = local /\ shared[f] = Buckets!None /\ shared' = [shared EXCEPT ![f] = 2]
         /\ raced' = IF mig.pc = "apply" THEN raced \cup {<<f, 2>>} ELSE raced
<1>1. Buckets!MIGRATION(f) \in Buckets!SHARED
  BY DEF Buckets!MIGRATION, Buckets!SHARED
<1> QED BY <1>1 DEF Buckets!Write, Buckets!NeverForked

LEMMA BucketsMoveFacts ==
  ASSUME Buckets!BuildEnvAssumption, Buckets!TypeOK, Buckets!MigrationInv, Buckets!MigrateMove
  PROVE  \/ mig' = Buckets!NoMig /\ UNCHANGED <<shared, legacy>>
         \/ \E fs \in SUBSET mig.moves :
               /\ Buckets!Moved(fs)
               /\ \A g \in fs : /\ legacy[g] # Buckets!None
                                /\ shared[g] # Buckets!None => g \in Refs /\ <<g, shared[g]>> \in raced
<1> PICK f \in mig.moves : Buckets!MoveOf(f)
  BY DEF Buckets!MigrateMove
<1>1. CASE Buckets!Blocked(f)
  BY <1>1 DEF Buckets!MoveOf
<1>2. CASE ~Buckets!Blocked(f)
  <2>1. Buckets!Moved(Buckets!Batch(f)) /\ Buckets!Batch(f) \subseteq mig.moves
    BY <1>2 DEF Buckets!MoveOf, Buckets!Batch
  <2>2. ASSUME NEW g \in Buckets!Batch(f), shared[g] # Buckets!None
        PROVE  g \in Refs /\ <<g, shared[g]>> \in raced
    <3>1. g \in Refs
      BY <1>2, <2>2 DEF Buckets!Blocked, Buckets!Batch
    <3> QED BY <2>1, <2>2, <3>1 DEF Buckets!MigrationInv, Buckets!MigrateMove
  <2>3. \A g \in Buckets!Batch(f) : legacy[g] # Buckets!None
    BY <1>2 DEF Buckets!Blocked
  <2> QED BY <2>1, <2>2, <2>3
<1> QED BY <1>1, <1>2

-----------------------------------------------------------------------------
(***************************************************************************)
(* The parts of the invariant.                                             *)
(***************************************************************************)

\* No verb runs in a worktree on a bucket of its own.
LEMMA BucketsForkStep ==
  ASSUME Buckets!BuildEnvAssumption, Buckets!TypeOK, Buckets!NeverForked, [Buckets!Next]_(Buckets!vars)
  PROVE  Buckets!NeverForked'
<1> USE DEF Buckets!TypeOK, Buckets!NeverForked
<1>1. ASSUME NEW c \in Buckets!Checkouts, Buckets!StartVerb(c) PROVE Buckets!NeverForked'
  <2>1. CASE c = "main"
    BY <1>1, <2>1 DEF Buckets!StartVerb, Buckets!Checkouts
  <2>2. CASE c = "wt" /\ Buckets!poisoned(c) = {}
    <3>1. \A b \in Buckets!SHARED : kind["wt"][b] \in {"none", "link"}
      BY <2>2 DEF Buckets!poisoned, Buckets!Checkouts
    <3> QED BY <1>1, <2>2, <3>1 DEF Buckets!StartVerb, Buckets!Checkouts
  <2>3. CASE c = "wt" /\ Buckets!poisoned(c) # {}
    <3>1. "wt" \notin running' /\ local' = local
      BY <1>1, <2>3 DEF Buckets!StartVerb
    <3> QED BY <3>1
  <2> QED BY <2>1, <2>2, <2>3 DEF Buckets!Checkouts
<1>2. ASSUME NEW c \in Buckets!Checkouts, Buckets!EndVerb(c) PROVE Buckets!NeverForked'
  BY <1>2 DEF Buckets!EndVerb
<1>3. ASSUME NEW c \in Buckets!Checkouts, Buckets!Clean(c) PROVE Buckets!NeverForked'
  <2>1. \A f \in Buckets!Files : local'[f] = Buckets!None
    BY <1>3, BucketsCleanFacts
  <2>2. "wt" \in running' => \A b \in Buckets!SHARED : kind'["wt"][b] = "link"
    BY <1>3 DEF Buckets!Clean, Buckets!Cleaned, Buckets!Checkouts
  <2> QED BY <2>1, <2>2
<1>4. ASSUME NEW c \in Buckets!Checkouts, NEW f \in Buckets!Files,
             Buckets!Write(c, f) PROVE Buckets!NeverForked'
  <2>1. Buckets!MIGRATION(f) \in Buckets!SHARED
    BY DEF Buckets!MIGRATION, Buckets!SHARED
  <2> QED BY <1>4, <2>1 DEF Buckets!Write
<1>5. CASE UNCHANGED <<local, kind, running>>
  BY <1>5
<1> QED
  BY <1>1, <1>2, <1>3, <1>4, <1>5 DEF Buckets!Next, Buckets!vars, Buckets!MigratePlan,
     Buckets!MigrateMove,
     Buckets!MigrateDrop, Buckets!MigrateEnds

\* What a migration under way may still overwrite or drop.
LEMMA BucketsMigrationStep ==
  ASSUME Buckets!BuildEnvAssumption, Buckets!TypeOK, Buckets!NeverForked, Buckets!MigrationInv,
         [Buckets!Next]_(Buckets!vars)
  PROVE  Buckets!MigrationInv'
<1> USE BucketsContentFacts, BucketsFileFacts DEF Buckets!TypeOK
<1>1. ASSUME NEW c \in Buckets!Checkouts, Buckets!StartVerb(c) PROVE Buckets!MigrationInv'
  <2>1. \A f \in Refs : shared'[f] = shared[f] /\ legacy'[f] = legacy[f]
    BY <1>1 DEF Buckets!StartVerb, Buckets!heal
  <2> QED BY <1>1, <2>1 DEF Buckets!StartVerb, Buckets!MigrationInv, Buckets!history
<1>2. ASSUME NEW c \in Buckets!Checkouts, Buckets!EndVerb(c) PROVE Buckets!MigrationInv'
  BY <1>2 DEF Buckets!EndVerb, Buckets!MigrationInv, Buckets!history
<1>3. ASSUME NEW c \in Buckets!Checkouts, Buckets!Clean(c) PROVE Buckets!MigrationInv'
  <2>1. UNCHANGED <<mig, raced>>
    BY <1>3 DEF Buckets!Clean
  <2> QED BY <1>3, <2>1, BucketsCleanFacts DEF Buckets!MigrationInv
<1>4. ASSUME NEW c \in Buckets!Checkouts, NEW f \in Buckets!Files,
             Buckets!Write(c, f) PROVE Buckets!MigrationInv'
  <2>1. /\ local' = local /\ shared[f] = Buckets!None /\ shared' = [shared EXCEPT ![f] = 2]
        /\ raced' = IF mig.pc = "apply" THEN raced \cup {<<f, 2>>} ELSE raced
    BY <1>4, BucketsWriteFacts
  <2>2. UNCHANGED <<mig, legacy>> /\ dropped' = dropped \ {<<f, 2>>}
    BY <1>4 DEF Buckets!Write
  <2> SUFFICES ASSUME mig.pc = "apply" PROVE Buckets!MigrationInv'
    BY <2>2 DEF Buckets!MigrationInv
  <2>3. ASSUME NEW g \in mig.moves \cap Refs, shared'[g] # Buckets!None
        PROVE  <<g, shared'[g]>> \in raced'
    BY <2>1, <2>3 DEF Buckets!MigrationInv
  <2>4. ASSUME NEW g \in mig.dups
        PROVE  legacy[g] \in {Buckets!None, shared'[g]} \/ <<g, legacy[g]>> \in dropped'
    <3>1. g \in Buckets!Files /\ legacy[g] \in {Buckets!None, 1, 2}
      OBVIOUS
    <3>2. CASE g = f
      BY <2>1, <2>2, <3>1, <3>2 DEF Buckets!MigrationInv
    <3>3. CASE g # f
      BY <2>1, <2>2, <3>1, <3>3 DEF Buckets!MigrationInv
    <3> QED BY <3>2, <3>3
  <2> QED BY <2>2, <2>3, <2>4 DEF Buckets!MigrationInv
<1>5. CASE Buckets!MigratePlan
  BY <1>5 DEF Buckets!MigratePlan, Buckets!MigrationInv, Buckets!mergeable, Buckets!conflicts,
     Buckets!NoMig
<1>6. CASE Buckets!MigrateMove
  <2>1. CASE mig' = Buckets!NoMig
    BY <2>1 DEF Buckets!MigrationInv, Buckets!NoMig
  <2>2. CASE mig' # Buckets!NoMig
    <3> PICK fs \in SUBSET mig.moves : Buckets!Moved(fs)
      BY <1>6, <2>2, BucketsMoveFacts
    <3>1. UNCHANGED <<raced, dropped>> /\ mig.pc = "apply"
      BY <1>6 DEF Buckets!MigrateMove, Buckets!history
    <3>2. /\ mig'.moves = mig.moves \ fs /\ mig'.dups = mig.dups
          /\ \A g \in Buckets!Files \ fs : shared'[g] = shared[g] /\ legacy'[g] = legacy[g]
      BY DEF Buckets!Moved
    <3> QED BY <3>1, <3>2 DEF Buckets!MigrationInv
  <2> QED BY <2>1, <2>2
<1>7. CASE Buckets!MigrateDrop
  <2> PICK f \in mig.dups : legacy' = [legacy EXCEPT ![f] = Buckets!None]
        /\ mig' = [mig EXCEPT !.dups = @ \ {f}]
    BY <1>7 DEF Buckets!MigrateDrop
  <2>1. UNCHANGED <<shared, raced, dropped>> /\ mig.pc = "apply"
    BY <1>7 DEF Buckets!MigrateDrop, Buckets!history
  <2> QED BY <2>1 DEF Buckets!MigrationInv
<1>8. CASE Buckets!MigrateEnds
  BY <1>8 DEF Buckets!MigrateEnds, Buckets!MigrationInv, Buckets!NoMig
<1>9. CASE UNCHANGED Buckets!vars
  BY <1>9 DEF Buckets!vars, Buckets!MigrationInv
<1> QED
  BY <1>1, <1>2, <1>3, <1>4, <1>5, <1>6, <1>7, <1>8, <1>9 DEF Buckets!Next

\* The dotfile: an old one left behind is not in the bucket.
LEMMA BucketsDotfileStep ==
  ASSUME Buckets!BuildEnvAssumption, Buckets!TypeOK, Buckets!DotfileInv, Buckets!MigrationInv,
         [Buckets!Next]_(Buckets!vars)
  PROVE  Buckets!DotfileInv'
<1> USE BucketsContentFacts, BucketsFileFacts DEF Buckets!TypeOK, Buckets!DotfileInv
<1>1. ASSUME NEW c \in Buckets!Checkouts, Buckets!StartVerb(c) PROVE Buckets!DotfileInv'
  BY <1>1 DEF Buckets!StartVerb, Buckets!heal
<1>2. ASSUME NEW c \in Buckets!Checkouts, Buckets!Clean(c) PROVE Buckets!DotfileInv'
  BY <1>2, BucketsCleanFacts
<1>3. ASSUME NEW c \in Buckets!Checkouts, NEW f \in Buckets!Files,
             Buckets!Write(c, f) PROVE Buckets!DotfileInv'
  BY <1>3 DEF Buckets!Write
<1>4. CASE Buckets!MigrateMove
  <2>1. CASE UNCHANGED <<shared, legacy>>
    BY <2>1
  <2>2. CASE ~UNCHANGED <<shared, legacy>>
    <3> PICK fs \in SUBSET mig.moves : Buckets!Moved(fs)
      BY <1>4, <2>2, BucketsMoveFacts
    <3> QED BY DEF Buckets!Moved
  <2> QED BY <2>1, <2>2
<1>5. CASE Buckets!MigrateDrop
  BY <1>5 DEF Buckets!MigrateDrop
<1>6. CASE UNCHANGED <<shared, legacy>>
  BY <1>6
<1> QED
  BY <1>1, <1>2, <1>3, <1>4, <1>5, <1>6 DEF Buckets!Next, Buckets!vars, Buckets!EndVerb,
     Buckets!MigratePlan, Buckets!MigrateEnds

\* A verb of the main checkout leaves no dotfile behind.
LEMMA BucketsHealedStep ==
  ASSUME Buckets!BuildEnvAssumption, Buckets!TypeOK, Buckets!NeverForked, Buckets!DotfileInv,
         Buckets!MigrationInv, Buckets!Healed, [Buckets!Next]_(Buckets!vars)
  PROVE  Buckets!Healed'
<1> USE BucketsContentFacts, BucketsFileFacts DEF Buckets!TypeOK, Buckets!Healed
<1>1. ASSUME NEW c \in Buckets!Checkouts, Buckets!StartVerb(c) PROVE Buckets!Healed'
  <2>1. CASE c = "main"
    <3>1. Buckets!poisoned(c) = {}
      BY <2>1 DEF Buckets!poisoned
    <3> QED BY <1>1, <2>1, <3>1 DEF Buckets!StartVerb, Buckets!heal
  <2>2. CASE c # "main"
    <3>1. UNCHANGED <<shared, legacy, dropped>> /\ ("main" \in running' => "main" \in running)
      BY <1>1, <2>2 DEF Buckets!StartVerb, Buckets!heal, Buckets!history
    <3> QED BY <3>1
  <2> QED BY <2>1, <2>2
<1>2. ASSUME NEW c \in Buckets!Checkouts, Buckets!EndVerb(c) PROVE Buckets!Healed'
  BY <1>2 DEF Buckets!EndVerb, Buckets!history
<1>3. ASSUME NEW c \in Buckets!Checkouts, Buckets!Clean(c) PROVE Buckets!Healed'
  <2>1. running' = running
    BY <1>3 DEF Buckets!Clean
  <2> QED BY <1>3, <2>1, BucketsCleanFacts DEF Buckets!DotfileInv
<1>4. ASSUME NEW c \in Buckets!Checkouts, NEW f \in Buckets!Files,
             Buckets!Write(c, f) PROVE Buckets!Healed'
  <2>1. CASE f = Buckets!Vagrant
    BY <1>4, <2>1, BucketsWriteFacts
  <2>2. CASE f # Buckets!Vagrant
    <3>1. <<Buckets!Vagrant, 2>> # <<f, 2>>
      BY <2>2
    <3> QED BY <1>4, <2>2, <3>1 DEF Buckets!Write
  <2> QED BY <2>1, <2>2
<1>5. CASE Buckets!MigrateMove
  <2>0. UNCHANGED <<running, dropped>>
    BY <1>5 DEF Buckets!MigrateMove, Buckets!history
  <2>1. CASE UNCHANGED <<shared, legacy>>
    BY <2>0, <2>1
  <2>2. CASE ~UNCHANGED <<shared, legacy>>
    <3> PICK fs \in SUBSET mig.moves : Buckets!Moved(fs)
      BY <1>5, <2>2, BucketsMoveFacts
    <3> QED BY <2>0 DEF Buckets!Moved
  <2> QED BY <2>1, <2>2
<1>6. CASE Buckets!MigrateDrop
  BY <1>6 DEF Buckets!MigrateDrop, Buckets!history
<1>7. CASE UNCHANGED <<shared, legacy, running, dropped>>
  BY <1>7
<1> QED
  BY <1>1, <1>2, <1>3, <1>4, <1>5, <1>6, <1>7
     DEF Buckets!Next, Buckets!vars, Buckets!MigratePlan, Buckets!MigrateEnds, Buckets!history

\* A file that was written is at one of the places, dropped or raced.
LEMMA BucketsLostStep ==
  ASSUME Buckets!BuildEnvAssumption, Buckets!TypeOK, Buckets!TypeOK', Buckets!NeverForked,
         Buckets!MigrationInv, Buckets!NothingLost, [Buckets!Next]_(Buckets!vars)
  PROVE  Buckets!NothingLost'
<1> USE BucketsContentFacts, BucketsFileFacts
<1> SUFFICES ASSUME NEW g \in Buckets!Files, NEW c \in Buckets!Contents, <<g, c>> \in ever', <<g,
                    c>> \notin dropped',
                    <<g, c>> \notin raced'
             PROVE  Placed(g, c)'
  <2>1. ASSUME NEW x \in (ever \ (dropped \cup raced))' PROVE Buckets!Exists(x)'
    <3>1. x \in Buckets!Files \X Buckets!Contents /\ x \in ever' /\ x \notin dropped' /\ x \notin raced'
      BY <2>1 DEF Buckets!TypeOK
    <3> PICK g \in Buckets!Files, c \in Buckets!Contents : x = <<g, c>>
      BY <3>1
    <3>2. Placed(g, c)'
      BY <3>1
    <3> QED BY <3>2, BucketsExistsPlacedNext
  <2> QED BY <2>1 DEF Buckets!NothingLost
<1>0. <<g, c>> \in ever /\ <<g, c>> \notin dropped /\ <<g, c>> \notin raced => Placed(g, c)
  BY BucketsExistsPlaced DEF Buckets!NothingLost
<1>c. c # Buckets!None /\ c \in {1, 2}
  OBVIOUS
<1> USE DEF Buckets!TypeOK
<1>1. ASSUME NEW d \in Buckets!Checkouts, Buckets!StartVerb(d) PROVE Placed(g, c)'
  <2>1. Placed(g, c)
    BY <1>0, <1>1 DEF Buckets!StartVerb, Buckets!history
  <2> QED BY <1>1, <1>c, <2>1 DEF Buckets!StartVerb, Buckets!heal, Placed
<1>2. ASSUME NEW d \in Buckets!Checkouts, Buckets!Clean(d) PROVE Placed(g, c)'
  <2>1. UNCHANGED <<ever, raced>>
    BY <1>2 DEF Buckets!Clean
  <2>2. dropped \subseteq dropped'
    BY <1>2, BucketsCleanFacts
  <2>3. Placed(g, c)
    BY <1>0, <2>1, <2>2
  <2> QED BY <1>2, <1>c, <2>3, BucketsCleanFacts DEF Placed
<1>3. ASSUME NEW d \in Buckets!Checkouts, NEW f \in Buckets!Files,
     Buckets!Write(d, f) PROVE Placed(g, c)'
  <2>1. CASE <<g, c>> = <<f, 2>>
    BY <1>3, <2>1 DEF Buckets!Write, Placed
  <2>2. CASE <<g, c>> # <<f, 2>>
    <3>1. Placed(g, c)
      BY <1>0, <1>3, <2>2 DEF Buckets!Write
    <3> QED BY <1>3, <1>c, <3>1 DEF Buckets!Write, Placed
  <2> QED BY <2>1, <2>2
<1>4. CASE Buckets!MigrateMove
  <2>1. UNCHANGED <<ever, dropped, raced, local>>
    BY <1>4 DEF Buckets!MigrateMove, Buckets!history
  <2>2. Placed(g, c)
    BY <1>0, <2>1
  <2>3. CASE UNCHANGED <<shared, legacy>>
    BY <2>1, <2>2, <2>3 DEF Placed
  <2>4. CASE ~UNCHANGED <<shared, legacy>>
    <3> PICK fs \in SUBSET mig.moves :
               /\ Buckets!Moved(fs)
               /\ \A h \in fs : /\ legacy[h] # Buckets!None
                                /\ shared[h] # Buckets!None => h \in Refs /\ <<h, shared[h]>> \in raced
      BY <1>4, <2>4, BucketsMoveFacts
    <3>1. CASE g \in fs
      <4>1. shared'[g] = legacy[g] /\ local'[g] = local[g]
        BY <2>1, <3>1 DEF Buckets!Moved
      <4>2. shared[g] # c
        <5>1. shared[g] # Buckets!None => <<g, shared[g]>> \in raced
          BY <3>1
        <5>2. <<g, c>> \notin raced
          BY <2>1
        <5> HIDE DEF Buckets!TypeOK
        <5> QED BY <1>c, <5>1, <5>2
      <4> QED BY <2>2, <4>1, <4>2 DEF Placed
    <3>2. CASE g \notin fs
      BY <2>1, <2>2, <3>2 DEF Buckets!Moved, Placed
    <3> QED BY <3>1, <3>2
  <2> QED BY <2>3, <2>4
<1>5. CASE Buckets!MigrateDrop
  <2>1. UNCHANGED <<ever, dropped, raced, local, shared>> /\ mig.pc = "apply"
    BY <1>5 DEF Buckets!MigrateDrop, Buckets!history
  <2>2. Placed(g, c)
    BY <1>0, <2>1
  <2> PICK f \in mig.dups : legacy' = [legacy EXCEPT ![f] = Buckets!None]
    BY <1>5 DEF Buckets!MigrateDrop
  <2>3. legacy[f] \in {Buckets!None, shared[f]} \/ <<f, legacy[f]>> \in dropped
    BY <2>1 DEF Buckets!MigrationInv
  <2> QED BY <1>c, <2>1, <2>2, <2>3 DEF Placed
<1>6. CASE UNCHANGED <<ever, dropped, raced, local, shared, legacy>>
  BY <1>0, <1>6 DEF Placed
<1> QED
  BY <1>1, <1>2, <1>3, <1>4, <1>5, <1>6 DEF Buckets!Next, Buckets!vars, Buckets!EndVerb,
     Buckets!MigratePlan, Buckets!MigrateEnds, Buckets!history

LEMMA BucketsInitParts == Buckets!BuildEnvAssumption /\ Buckets!Init => Buckets!BucketsSound
  /\ Buckets!MigrationInv /\ Buckets!DotfileInv
<1> SUFFICES ASSUME Buckets!BuildEnvAssumption, Buckets!Init PROVE Buckets!BucketsSound
                    /\ Buckets!MigrationInv /\ Buckets!DotfileInv
  OBVIOUS
<1>1. Buckets!NeverForked /\ Buckets!Healed
  BY DEF Buckets!Init, Buckets!NeverForked, Buckets!Healed
<1>2. Buckets!NothingLost
  BY DEF Buckets!Init, Buckets!NothingLost, Buckets!Exists
<1>3. Buckets!MigrationInv
  BY DEF Buckets!Init, Buckets!MigrationInv, Buckets!NoMig
<1>4. Buckets!DotfileInv
  BY BucketsFileFacts, BucketsContentFacts DEF Buckets!Init, Buckets!DotfileInv
<1> QED BY <1>1, <1>2, <1>3, <1>4 DEF Buckets!BucketsSound

LEMMA BucketsInitInv == Buckets!BuildEnvAssumption /\ Buckets!Init => Buckets!BuildEnvInv
BY BucketsTypeInit, BucketsInitParts DEF Buckets!BuildEnvInv

LEMMA BucketsStepInv ==
  ASSUME Buckets!BuildEnvAssumption, Buckets!BuildEnvInv, [Buckets!Next]_(Buckets!vars)
  PROVE  Buckets!BuildEnvInv'
BY BucketsTypeStep, BucketsForkStep, BucketsMigrationStep, BucketsDotfileStep, BucketsHealedStep,
   BucketsLostStep DEF Buckets!BuildEnvInv, Buckets!BucketsSound

LEMMA BucketsInvImplies == Buckets!BuildEnvInv => Buckets!BucketsSound
BY DEF Buckets!BuildEnvInv

-----------------------------------------------------------------------------
(***************************************************************************)
(* The RDQM collectors (module RdqmState).                                 *)
(***************************************************************************)
LEMMA RdqmInit == Rdqm!RdqmStateAssumption /\ Rdqm!Init => Rdqm!RdqmInv
<1> SUFFICES ASSUME Rdqm!RdqmStateAssumption, Rdqm!Init PROVE Rdqm!RdqmInv
  OBVIOUS
<1>1. 1 \in Rdqm!Nodes /\ \A n \in Rdqm!Nodes : 1 <= n /\ (n <= 1 => n = 1)
  BY DEF Rdqm!Nodes, Rdqm!RdqmStateAssumption
<1> DEFINE Least(s, n) == site[n] = s /\ \A m \in Rdqm!Nodes : site[m] = s => n <= m
<1>2. (CHOOSE n \in Rdqm!Nodes : Least("A", n)) = 1
  <2>1. Least("A", 1) /\ \A n \in Rdqm!Nodes : Least("A", n) => n = 1
    BY <1>1 DEF Rdqm!Init
  <2> HIDE DEF Least
  <2> QED BY <1>1, <2>1
<1>3. primary["A"] = 1
  BY <1>1, <1>2 DEF Rdqm!Init, Rdqm!Sites
<1>4. DOMAIN primary = Rdqm!Sites
  BY DEF Rdqm!Init
<1>5. Rdqm!ShapeInv
  BY <1>1, <1>4 DEF Rdqm!Init, Rdqm!ShapeInv, Rdqm!Sites, Rdqm!INFINITY
<1>6. Rdqm!RunsInv
  BY <1>1, <1>3 DEF Rdqm!Init, Rdqm!RunsInv, Rdqm!CanRun, Rdqm!INFINITY
<1>7. Rdqm!ReadsInv
  BY DEF Rdqm!Init, Rdqm!ReadsInv
<1>8. Rdqm!OwnersInv
  BY DEF Rdqm!Init, Rdqm!OwnersInv, Rdqm!NoFile
<1> QED BY <1>5, <1>6, <1>7, <1>8 DEF Rdqm!RdqmInv

LEMMA RdqmReads ==
  ASSUME UNCHANGED Rdqm!truth, NEW n \in Rdqm!Nodes
  PROVE  Rdqm!rdqmstatus(n)' = Rdqm!rdqmstatus(n) /\ Rdqm!crm_mon(n)' = Rdqm!crm_mon(n)
         /\ (Rdqm!CanRun(n) <=> Rdqm!CanRun(n)')
BY DEF Rdqm!truth, Rdqm!rdqmstatus, Rdqm!crm_mon, Rdqm!Here, Rdqm!StandAlone, Rdqm!CanRun

\* What rdqmstatus prints where the queue manager runs.
LEMMA RdqmStatusFields ==
  ASSUME Rdqm!ShapeInv, Rdqm!RunsInv, NEW n \in Rdqm!Nodes, Rdqm!rdqmstatus(n).qm = "Running"
  PROVE  /\ running = n /\ Rdqm!CanRun(n) /\ Rdqm!rdqmstatus(n).location = Rdqm!ThisNode
              /\ Rdqm!rdqmstatus(n).dr = "Primary"
         /\ n # Rdqm!None
BY DEF Rdqm!ShapeInv, Rdqm!RunsInv, Rdqm!rdqmstatus, Rdqm!CanRun, Rdqm!Nodes, Rdqm!None

\* A change of the cluster makes every file old, and every tick under way.
LEMMA RdqmChange ==
  ASSUME Rdqm!RdqmStateAssumption, Rdqm!RdqmInv, Rdqm!Change, Rdqm!RunsInv', live' \in Rdqm!Sites,
         DOMAIN primary' = Rdqm!Sites,
         running' \in Rdqm!Nodes \cup {Rdqm!None}, online' \in [Rdqm!Nodes -> BOOLEAN],
           fails' \in [Rdqm!Nodes -> 0..Rdqm!INFINITY]
  PROVE  Rdqm!RdqmInv'
<1>0. Rdqm!ShapeInv /\ Rdqm!ReadsInv
  BY DEF Rdqm!RdqmInv
<1>1. /\ torn' = {n \in Rdqm!Nodes : pc[n] # "idle"} /\ UNCHANGED <<site, pc, status, crm, file>>
      /\ past' = [n \in Rdqm!Nodes |-> IF pc[n] = "idle" THEN {"file"} ELSE {"read", "file"}]
  BY DEF Rdqm!Change, Rdqm!reads
<1>2. Rdqm!ShapeInv'
  BY <1>0, <1>1 DEF Rdqm!ShapeInv
<1>3. Rdqm!ReadsInv'
  <2> SUFFICES ASSUME NEW n \in Rdqm!Nodes
               PROVE  /\ pc[n] \in {"idle", "rdqmstatus"} => status[n] = {}
                      /\ pc[n] \in {"idle", "rdqmstatus", "crm"} => crm[n] = {}
                      /\ n \in torn' <=> "read" \in past'[n]
                      /\ n \notin torn' => status[n] = {} /\ crm[n] = {}
    BY <1>1 DEF Rdqm!ReadsInv
  <2> QED BY <1>0, <1>1 DEF Rdqm!ReadsInv
<1>4. Rdqm!OwnersInv'
  BY <1>1 DEF Rdqm!OwnersInv
<1> QED BY <1>2, <1>3, <1>4 DEF Rdqm!RdqmInv

LEMMA RdqmCluster ==
  ASSUME Rdqm!RdqmStateAssumption, Rdqm!RdqmInv,
         Rdqm!Cluster \/ Rdqm!Fails \/ Rdqm!LinkTurns \/ Rdqm!CutsOver
  PROVE  Rdqm!RdqmInv'
<1>0. Rdqm!ShapeInv /\ Rdqm!RunsInv /\ Rdqm!None \notin Rdqm!Nodes
  BY DEF Rdqm!RdqmInv, Rdqm!Nodes, Rdqm!None
<1>c. Rdqm!Change => site' = site
  BY DEF Rdqm!Change
<1>1. ASSUME NEW n \in Rdqm!Nodes, Rdqm!Starts(n)
      PROVE  Rdqm!RdqmInv'
  <2>1. Rdqm!RunsInv'
    BY <1>0, <1>1, <1>c DEF Rdqm!Starts, Rdqm!RunsInv, Rdqm!CanRun
  <2> QED BY <1>0, <1>1, <2>1, RdqmChange DEF Rdqm!Starts, Rdqm!ShapeInv
<1>2. ASSUME NEW n \in Rdqm!Nodes, Rdqm!Relocates(n)
      PROVE  Rdqm!RdqmInv'
  <2>1. Rdqm!RunsInv'
    BY <1>0, <1>2, <1>c DEF Rdqm!Relocates, Rdqm!RunsInv, Rdqm!CanRun, Rdqm!ShapeInv
  <2>2. DOMAIN primary' = Rdqm!Sites
    BY <1>0, <1>2 DEF Rdqm!Relocates, Rdqm!ShapeInv
  <2> QED BY <1>0, <1>2, <2>1, <2>2, RdqmChange DEF Rdqm!Relocates, Rdqm!ShapeInv
<1>3. ASSUME NEW n \in Rdqm!Nodes, Rdqm!NodeTurns(n)
      PROVE  Rdqm!RdqmInv'
  <2>1. Rdqm!RunsInv'
    BY <1>0, <1>3, <1>c DEF Rdqm!NodeTurns, Rdqm!RunsInv, Rdqm!CanRun, Rdqm!ShapeInv
  <2>2. online' \in [Rdqm!Nodes -> BOOLEAN]
    BY <1>0, <1>3 DEF Rdqm!NodeTurns, Rdqm!ShapeInv
  <2> QED BY <1>0, <1>3, <2>1, <2>2, RdqmChange DEF Rdqm!NodeTurns, Rdqm!ShapeInv
<1>4. ASSUME Rdqm!Fails
      PROVE  Rdqm!RdqmInv'
  <2>1. PICK k \in 1..Rdqm!INFINITY : fails' = [fails EXCEPT ![running] = k]
    BY <1>4 DEF Rdqm!Fails
  <2>2. fails' \in [Rdqm!Nodes -> 0..Rdqm!INFINITY]
    <3>1. k \in 0..Rdqm!INFINITY
      BY <2>1 DEF Rdqm!INFINITY
    <3> QED BY <1>0, <2>1, <3>1 DEF Rdqm!ShapeInv
  <2> QED BY <1>0, <1>4, <2>2, RdqmChange DEF Rdqm!Fails, Rdqm!ShapeInv, Rdqm!RunsInv
<1>5. ASSUME Rdqm!LinkTurns
      PROVE  Rdqm!RdqmInv'
  <2>1. Rdqm!RunsInv'
    BY <1>0, <1>5, <1>c DEF Rdqm!LinkTurns, Rdqm!RunsInv, Rdqm!CanRun
  <2> QED BY <1>0, <1>5, <2>1, RdqmChange DEF Rdqm!LinkTurns, Rdqm!ShapeInv
<1>6. ASSUME Rdqm!CutsOver
      PROVE  Rdqm!RdqmInv'
  <2>1. live' \in Rdqm!Sites
    <3>1. \E s \in Rdqm!Sites : s # live
      BY DEF Rdqm!Sites
    <3> QED BY <1>6, <3>1 DEF Rdqm!CutsOver
  <2> QED BY <1>0, <1>6, <2>1, RdqmChange DEF Rdqm!CutsOver, Rdqm!ShapeInv, Rdqm!RunsInv
<1> QED BY <1>1, <1>2, <1>3, <1>4, <1>5, <1>6 DEF Rdqm!Cluster

\* The owner a file names, from readings that have seen no change.
LEMMA RdqmRender ==
  ASSUME Rdqm!RdqmInv, NEW n \in Rdqm!Nodes, n \notin torn, Rdqm!render(n).owner # Rdqm!None
  PROVE  Rdqm!render(n).owner = running
<1>0. Rdqm!ShapeInv /\ Rdqm!RunsInv /\ status[n] \subseteq {Rdqm!rdqmstatus(n)}
  BY DEF Rdqm!RdqmInv, Rdqm!ReadsInv
<1>1. Rdqm!render(n).owner = IF status[n] # {} THEN Rdqm!owner(CHOOSE x \in status[n] : TRUE,
        n) ELSE Rdqm!None
  BY DEF Rdqm!render
<1>2. status[n] = {Rdqm!rdqmstatus(n)} /\ Rdqm!owner(Rdqm!rdqmstatus(n), n) # Rdqm!None
  <2>1. status[n] = {Rdqm!rdqmstatus(n)}
    BY <1>0, <1>1
  <2> QED BY <1>1, <2>1
<1>3. Rdqm!rdqmstatus(n).qm = "Running"
  BY <1>2 DEF Rdqm!owner
<1>4. running = n /\ Rdqm!rdqmstatus(n).location = Rdqm!ThisNode
  BY <1>0, <1>3, RdqmStatusFields
<1> QED BY <1>1, <1>2, <1>3, <1>4 DEF Rdqm!owner, Rdqm!resolve

LEMMA RdqmTick ==
  ASSUME Rdqm!RdqmStateAssumption, Rdqm!RdqmInv, NEW n \in Rdqm!Nodes, Rdqm!Tick(n)
  PROVE  Rdqm!RdqmInv'
<1>0. Rdqm!ShapeInv /\ Rdqm!RunsInv /\ Rdqm!ReadsInv /\ Rdqm!OwnersInv
  BY DEF Rdqm!RdqmInv
<1>1. UNCHANGED Rdqm!truth
  BY DEF Rdqm!Tick, Rdqm!Begin, Rdqm!ProbeStatus, Rdqm!ProbeCrm, Rdqm!Garbled, Rdqm!Publish
<1>2. \A m \in Rdqm!Nodes : Rdqm!rdqmstatus(m)' = Rdqm!rdqmstatus(m) /\
     Rdqm!crm_mon(m)' = Rdqm!crm_mon(m)
  BY <1>1, RdqmReads
<1>3. Rdqm!RunsInv'
  BY <1>0, <1>1, RdqmReads DEF Rdqm!RunsInv, Rdqm!truth, Rdqm!ShapeInv
<1>4. ASSUME Rdqm!Begin(n)
      PROVE  Rdqm!RdqmInv'
  <2>1. Rdqm!ShapeInv'
    BY <1>0, <1>1, <1>4 DEF Rdqm!Begin, Rdqm!ShapeInv, Rdqm!truth, Rdqm!reads
  <2>2. Rdqm!ReadsInv'
    BY <1>0, <1>2, <1>4 DEF Rdqm!Begin, Rdqm!ShapeInv, Rdqm!ReadsInv, Rdqm!reads
  <2> QED BY <1>0, <1>1, <1>3, <1>4, <2>1, <2>2 DEF Rdqm!Begin, Rdqm!OwnersInv, Rdqm!truth, Rdqm!RdqmInv
<1>5. ASSUME NEW ok \in BOOLEAN, Rdqm!ProbeStatus(n, ok)
      PROVE  Rdqm!RdqmInv'
  <2>1. Rdqm!ShapeInv'
    BY <1>0, <1>1, <1>5 DEF Rdqm!ProbeStatus, Rdqm!ShapeInv, Rdqm!truth
  <2>2. Rdqm!ReadsInv'
    BY <1>0, <1>2, <1>5 DEF Rdqm!ProbeStatus, Rdqm!ShapeInv, Rdqm!ReadsInv
  <2> QED BY <1>0, <1>1, <1>3, <1>5, <2>1, <2>2
        DEF Rdqm!ProbeStatus, Rdqm!OwnersInv, Rdqm!truth, Rdqm!RdqmInv
<1>6. ASSUME NEW ok \in BOOLEAN, Rdqm!ProbeCrm(n, ok)
      PROVE  Rdqm!RdqmInv'
  <2>1. Rdqm!ShapeInv'
    BY <1>0, <1>1, <1>6 DEF Rdqm!ProbeCrm, Rdqm!ShapeInv, Rdqm!truth
  <2>2. Rdqm!ReadsInv'
    BY <1>0, <1>2, <1>6 DEF Rdqm!ProbeCrm, Rdqm!ShapeInv, Rdqm!ReadsInv
  <2> QED BY <1>0, <1>1, <1>3, <1>6, <2>1, <2>2
        DEF Rdqm!ProbeCrm, Rdqm!OwnersInv, Rdqm!truth, Rdqm!RdqmInv
<1>7. ASSUME Rdqm!Garbled(n)
      PROVE  Rdqm!RdqmInv'
  <2>1. Rdqm!ShapeInv'
    BY <1>0, <1>1, <1>7 DEF Rdqm!Garbled, Rdqm!Forget, Rdqm!ShapeInv, Rdqm!truth
  <2>2. Rdqm!ReadsInv'
    BY <1>0, <1>2, <1>7 DEF Rdqm!Garbled, Rdqm!Forget, Rdqm!ShapeInv, Rdqm!ReadsInv
  <2>3. Rdqm!OwnersInv'
    BY <1>0, <1>1, <1>7 DEF Rdqm!Garbled, Rdqm!OwnersInv, Rdqm!truth, Rdqm!ShapeInv
  <2> QED BY <1>3, <2>1, <2>2, <2>3 DEF Rdqm!RdqmInv
<1>8. ASSUME Rdqm!Publish(n)
      PROVE  Rdqm!RdqmInv'
  <2>1. Rdqm!ShapeInv'
    BY <1>0, <1>1, <1>8 DEF Rdqm!Publish, Rdqm!Forget, Rdqm!ShapeInv, Rdqm!truth
  <2>2. Rdqm!ReadsInv'
    BY <1>0, <1>2, <1>8 DEF Rdqm!Publish, Rdqm!Forget, Rdqm!ShapeInv, Rdqm!ReadsInv
  <2>3. Rdqm!OwnersInv'
    <3>1. running' = running /\ file' = [file EXCEPT ![n] = Rdqm!render(n)]
      BY <1>1, <1>8 DEF Rdqm!truth, Rdqm!Publish
    <3>2. "file" \notin past'[n] => n \notin torn
      BY <1>0, <1>8 DEF Rdqm!Publish, Rdqm!ShapeInv, Rdqm!ReadsInv
    <3>3. \A m \in Rdqm!Nodes : m # n => past'[m] = past[m]
      BY <1>0, <1>8 DEF Rdqm!Publish, Rdqm!ShapeInv
    <3> QED BY <1>0, <3>1, <3>2, <3>3, RdqmRender DEF Rdqm!OwnersInv, Rdqm!ShapeInv
  <2> QED BY <1>3, <2>1, <2>2, <2>3 DEF Rdqm!RdqmInv
<1> QED BY <1>4, <1>5, <1>6, <1>7, <1>8 DEF Rdqm!Tick

LEMMA RdqmStep == Rdqm!RdqmStateAssumption /\ Rdqm!RdqmInv /\ [Rdqm!Next]_(Rdqm!vars) => Rdqm!RdqmInv'
<1> SUFFICES ASSUME Rdqm!RdqmStateAssumption, Rdqm!RdqmInv, [Rdqm!Next]_(Rdqm!vars) PROVE Rdqm!RdqmInv'
  OBVIOUS
<1>1. CASE UNCHANGED Rdqm!vars
  <2>1. \A n \in Rdqm!Nodes : Rdqm!rdqmstatus(n)' = Rdqm!rdqmstatus(n)
          /\ Rdqm!crm_mon(n)' = Rdqm!crm_mon(n) /\ (Rdqm!CanRun(n) <=> Rdqm!CanRun(n)')
    BY <1>1, RdqmReads DEF Rdqm!vars
  <2> QED BY <1>1, <2>1 DEF Rdqm!vars, Rdqm!truth, Rdqm!reads, Rdqm!RdqmInv, Rdqm!ShapeInv,
    Rdqm!RunsInv,
        Rdqm!ReadsInv, Rdqm!OwnersInv
<1> QED BY <1>1, RdqmCluster, RdqmTick DEF Rdqm!Next

LEMMA RdqmImplies == Rdqm!RdqmInv => Rdqm!OneOwnerShown /\ Rdqm!CoherentFile
<1> SUFFICES ASSUME Rdqm!RdqmInv PROVE Rdqm!OneOwnerShown /\ Rdqm!CoherentFile
  OBVIOUS
<1>0. Rdqm!ShapeInv /\ Rdqm!RunsInv /\ Rdqm!ReadsInv /\ Rdqm!OwnersInv
  BY DEF Rdqm!RdqmInv
<1>1. Rdqm!OneOwnerShown
  BY <1>0 DEF Rdqm!OneOwnerShown, Rdqm!OwnersInv
<1>2. ASSUME NEW n \in Rdqm!Nodes, n \notin torn, Rdqm!render(n).running = 1,
             DOMAIN Rdqm!render(n).ready # {}
      PROVE  Rdqm!render(n).ready[n] = 1 /\ Rdqm!render(n).dr = "Primary"
  <2>1. status[n] \subseteq {Rdqm!rdqmstatus(n)} /\ crm[n] \subseteq {Rdqm!crm_mon(n)}
    BY <1>0, <1>2 DEF Rdqm!ReadsInv
  <2> DEFINE s == CHOOSE x \in status[n] : TRUE
             c == CHOOSE x \in crm[n] : TRUE
  <2>2. /\ Rdqm!render(n).running = IF status[n] # {} THEN (IF s.qm = "Running" THEN 1 ELSE 0) ELSE -1
        /\ Rdqm!render(n).dr = IF status[n] # {} THEN s.dr ELSE ""
        /\ Rdqm!render(n).ready = [m \in (IF crm[n] # {} THEN Rdqm!Nodes ELSE {}) |-> IF Rdqm!node_ready(c,
             m) THEN 1 ELSE 0]
    BY DEF Rdqm!render
  <2>3. status[n] = {Rdqm!rdqmstatus(n)} /\ crm[n] = {Rdqm!crm_mon(n)}
    <3>1. status[n] # {}
      <4>1. status[n] = {} => Rdqm!render(n).running = -1
        BY <2>2
      <4>2. -1 # 1
        OBVIOUS
      <4> QED BY <1>2, <4>1, <4>2
    <3>2. DOMAIN Rdqm!render(n).ready = IF crm[n] # {} THEN Rdqm!Nodes ELSE {}
      BY <2>2
    <3>3. crm[n] # {}
      BY <1>2, <3>2
    <3> QED BY <2>1, <3>1, <3>3
  <2>4. s = Rdqm!rdqmstatus(n) /\ c = Rdqm!crm_mon(n)
    BY <2>3
  <2>5. Rdqm!rdqmstatus(n).qm = "Running"
    BY <1>2, <2>2, <2>3, <2>4
  <2>6. Rdqm!CanRun(n) /\ Rdqm!rdqmstatus(n).dr = "Primary"
    BY <1>0, <2>5, RdqmStatusFields
  <2>7. Rdqm!node_ready(Rdqm!crm_mon(n), n)
    BY <2>6 DEF Rdqm!CanRun, Rdqm!node_ready, Rdqm!crm_mon, Rdqm!startable
  <2> HIDE DEF s, c
  <2> QED BY <2>2, <2>3, <2>4, <2>6, <2>7
<1>3. Rdqm!CoherentFile
  BY <1>2 DEF Rdqm!CoherentFile
<1> QED BY <1>1, <1>3

-----------------------------------------------------------------------------
(***************************************************************************)
(* The Native HA collectors (module NativeHaState).                        *)
(***************************************************************************)
LEMMA NativeHaCardinality == \A S : NativeHa!Cardinality(S) = Cardinality(S)
BY DEF NativeHa!Cardinality, Cardinality

LEMMA NativeHaInit == NativeHa!NativeHaStateAssumption /\ NativeHa!Init => NativeHa!NativeHaInv
<1> SUFFICES ASSUME NativeHa!NativeHaStateAssumption, NativeHa!Init PROVE NativeHa!NativeHaInv
  OBVIOUS
<1>1. 2 * NativeHa!Cardinality({}) < HaInstances
  BY FS_EmptySet, NativeHaCardinality DEF NativeHa!NativeHaStateAssumption
<1>2. NativeHa!ShapeInv
  BY <1>1 DEF NativeHa!Init, NativeHa!ShapeInv
<1>3. NativeHa!ReadsInv /\ NativeHa!ShownInv
  BY DEF NativeHa!Init, NativeHa!ReadsInv, NativeHa!ShownInv, NativeHa!NoFile, NativeHa!Absent
<1> QED BY <1>2, <1>3 DEF NativeHa!NativeHaInv

LEMMA NativeHaReads ==
  ASSUME UNCHANGED NativeHa!group, NEW n \in HaObservers
  PROVE  NativeHa!parse_nativeha_x(n)' = NativeHa!parse_nativeha_x(n)
BY DEF NativeHa!group, NativeHa!parse_nativeha_x, NativeHa!Peers, NativeHa!RoleSeen

\* A side that counts a majority is not the one cut off.
LEMMA NativeHaQuorum ==
  ASSUME NativeHa!NativeHaStateAssumption, NativeHa!ShapeInv, NEW n \in HaObservers,
         NativeHa!parse_nativeha_x(n).cur >= NativeHa!majority(NativeHa!parse_nativeha_x(n).total)
  PROVE  n \notin cutoff
<1>1. SUFFICES ASSUME n \in cutoff PROVE FALSE
  OBVIOUS
<1>2. NativeHa!Cardinality(cutoff) >= HaInstances \div 2 + 1
  BY <1>1 DEF NativeHa!parse_nativeha_x, NativeHa!Peers, NativeHa!majority
<1>3. NativeHa!Cardinality(cutoff) \in Nat
  <2>1. IsFiniteSet(NativeHa!Instances)
    BY FS_Interval DEF NativeHa!Instances, NativeHa!NativeHaStateAssumption
  <2> QED BY <2>1, NativeHaCardinality, FS_Subset, FS_CardinalityType DEF NativeHa!ShapeInv
<1>4. 2 * NativeHa!Cardinality(cutoff) < HaInstances /\ HaInstances \in Nat
  BY DEF NativeHa!ShapeInv, NativeHa!NativeHaStateAssumption
<1>5. \A c, k \in Nat : ~(2 * c < k /\ c >= k \div 2 + 1)
  OBVIOUS
<1> QED BY <1>2, <1>3, <1>4, <1>5

LEMMA NativeHaRender ==
  ASSUME NativeHa!NativeHaStateAssumption, NativeHa!NativeHaInv, NEW n \in HaObservers,
         "read" \notin past[n]
  PROVE  /\ NativeHa!render(n).quorate = 1 => n \notin cutoff
         /\ NativeHa!render(n).holder # NativeHa!None => NativeHa!render(n).holder = active
<1>0. NativeHa!ShapeInv /\ hax[n] \subseteq {NativeHa!parse_nativeha_x(n)}
  BY DEF NativeHa!NativeHaInv, NativeHa!ReadsInv
<1> DEFINE x == CHOOSE r \in hax[n] : TRUE
<1>1. /\ NativeHa!render(n).quorate = IF hax[n] = {} THEN NativeHa!Absent
                                     ELSE IF x.cur >= NativeHa!majority(x.total) THEN 1 ELSE 0
      /\ NativeHa!render(n).holder = IF hax[n] # {} /\
           \E m \in NativeHa!Instances : x.role[m] = "Active"
                            THEN CHOOSE m \in NativeHa!Instances : x.role[m] = "Active" ELSE NativeHa!None
  BY DEF NativeHa!render
<1>2. CASE hax[n] = {}
  <2>1. NativeHa!render(n).quorate = NativeHa!Absent /\ NativeHa!render(n).holder = NativeHa!None
    BY <1>1, <1>2
  <2> QED BY <2>1 DEF NativeHa!Absent
<1>3. CASE hax[n] # {}
  <2>1. hax[n] = {NativeHa!parse_nativeha_x(n)}
    BY <1>0, <1>3
  <2>2. x = NativeHa!parse_nativeha_x(n)
    BY <2>1
  <2> HIDE DEF x
  <2>3. NativeHa!render(n).quorate = 1 => n \notin cutoff
    BY <1>0, <1>1, <1>3, <2>2, NativeHaQuorum
  <2>4. \A m \in NativeHa!Instances : x.role[m] = "Active" => m = active
    BY <2>2 DEF NativeHa!parse_nativeha_x, NativeHa!RoleSeen
  <2>5. NativeHa!render(n).holder # NativeHa!None => NativeHa!render(n).holder = active
    <3>1. CASE \E m \in NativeHa!Instances : x.role[m] = "Active"
      <4>1. NativeHa!render(n).holder = CHOOSE m \in NativeHa!Instances : x.role[m] = "Active"
        BY <1>1, <1>3, <3>1
      <4> QED BY <2>4, <3>1, <4>1
    <3>2. CASE ~\E m \in NativeHa!Instances : x.role[m] = "Active"
      BY <1>1, <3>2
    <3> QED BY <3>1, <3>2
  <2> QED BY <2>3, <2>5
<1> QED BY <1>2, <1>3

LEMMA NativeHaStep == NativeHa!NativeHaStateAssumption /\ NativeHa!NativeHaInv
  /\ [NativeHa!Next]_(NativeHa!vars) => NativeHa!NativeHaInv'
<1> SUFFICES ASSUME NativeHa!NativeHaStateAssumption, NativeHa!NativeHaInv,
                    [NativeHa!Next]_(NativeHa!vars) PROVE NativeHa!NativeHaInv'
  OBVIOUS
<1>0. NativeHa!ShapeInv /\ NativeHa!ReadsInv /\ NativeHa!ShownInv
  BY DEF NativeHa!NativeHaInv
<1>1. ASSUME NativeHa!Change, cutoff' \subseteq NativeHa!Instances,
             2 * NativeHa!Cardinality(cutoff') < HaInstances
      PROVE  NativeHa!NativeHaInv'
  <2>1. NativeHa!ShapeInv'
    BY <1>0, <1>1 DEF NativeHa!Change, NativeHa!ShapeInv
  <2>2. NativeHa!ReadsInv'
    BY <1>0, <1>1 DEF NativeHa!Change, NativeHa!ReadsInv
  <2>3. NativeHa!ShownInv'
    BY <1>1 DEF NativeHa!Change, NativeHa!ShownInv
  <2> QED BY <2>1, <2>2, <2>3 DEF NativeHa!NativeHaInv
<1>2. CASE NativeHa!Partition
  BY <1>1, <1>2 DEF NativeHa!Partition
<1>3. CASE NativeHa!Elect \/ NativeHa!Backlog \/ NativeHa!Disk
  BY <1>0, <1>1, <1>3 DEF NativeHa!Elect, NativeHa!Backlog, NativeHa!Disk, NativeHa!ShapeInv
<1>4. ASSUME NEW n \in HaObservers, NativeHa!Tick(n)
      PROVE  NativeHa!NativeHaInv'
  <2>1. UNCHANGED NativeHa!group
    BY <1>4 DEF NativeHa!Tick, NativeHa!Begin, NativeHa!ProbeX, NativeHa!ProbeG, NativeHa!Publish,
       NativeHa!LogTick
  <2>2. \A m \in HaObservers : NativeHa!parse_nativeha_x(m)' = NativeHa!parse_nativeha_x(m)
    BY <2>1, NativeHaReads
  <2>3. cutoff' = cutoff /\ active' = active
    BY <2>1 DEF NativeHa!group
  <2>4. ASSUME NEW p \in {"idle", "x", "log"}, NEW q \in {"idle", "x", "g"}, pc' = [pc EXCEPT ![n] = q],
               pc[n] = p,
               hax' = hax \/ (q = "g" /\ \E r \in {{},
                 {NativeHa!parse_nativeha_x(n)}} : hax' = [hax EXCEPT ![n] = r]),
               UNCHANGED <<file, past>>
        PROVE  NativeHa!NativeHaInv'
    <3>1. NativeHa!ShapeInv'
      BY <1>0, <2>3, <2>4 DEF NativeHa!ShapeInv
    <3>2. NativeHa!ReadsInv'
      BY <1>0, <2>2, <2>4 DEF NativeHa!ShapeInv, NativeHa!ReadsInv
    <3>3. NativeHa!ShownInv'
      BY <1>0, <2>3, <2>4 DEF NativeHa!ShownInv
    <3> QED BY <3>1, <3>2, <3>3 DEF NativeHa!NativeHaInv
  <2>5. CASE NativeHa!Begin(n) \/ \E failed \in {"", "role", "df", "ls"} : NativeHa!LogTick(n, failed)
    BY <2>4, <2>5 DEF NativeHa!Begin, NativeHa!LogTick, NativeHa!At
  <2>6. ASSUME NEW ok \in BOOLEAN, NativeHa!ProbeX(n, ok)
        PROVE  NativeHa!NativeHaInv'
    BY <2>4, <2>6 DEF NativeHa!ProbeX, NativeHa!At
  <2>7. ASSUME NEW ok \in BOOLEAN, NativeHa!ProbeG(n, ok)
        PROVE  NativeHa!NativeHaInv'
    <3>1. pc[n] = "g" /\ pc' = [pc EXCEPT ![n] = "publish"] /\ UNCHANGED <<hax, file, past>>
      BY <2>7 DEF NativeHa!ProbeG, NativeHa!At
    <3>2. NativeHa!ShapeInv'
      BY <1>0, <2>3, <3>1 DEF NativeHa!ShapeInv
    <3>3. NativeHa!ReadsInv'
      BY <1>0, <2>2, <3>1 DEF NativeHa!ShapeInv, NativeHa!ReadsInv
    <3>4. NativeHa!ShownInv'
      BY <1>0, <2>3, <3>1 DEF NativeHa!ShownInv
    <3> QED BY <3>2, <3>3, <3>4 DEF NativeHa!NativeHaInv
  <2>8. CASE NativeHa!Publish(n)
    <3>1. /\ pc' = [pc EXCEPT ![n] = "log"] /\ file' = [file EXCEPT ![n] = NativeHa!render(n)]
          /\ hax' = [hax EXCEPT ![n] = {}]
          /\ past' = [past EXCEPT ![n] = IF "read" \in past[n] THEN {"file"} ELSE {}]
      BY <2>8 DEF NativeHa!Publish, NativeHa!At
    <3>2. NativeHa!ShapeInv'
      BY <1>0, <2>3, <3>1 DEF NativeHa!ShapeInv
    <3>3. NativeHa!ReadsInv'
      BY <1>0, <2>2, <3>1 DEF NativeHa!ShapeInv, NativeHa!ReadsInv
    <3>4. NativeHa!ShownInv'
      <4>1. \A m \in HaObservers : m # n => past'[m] = past[m] /\ file'[m] = file[m]
        BY <1>0, <3>1 DEF NativeHa!ShapeInv
      <4>2. "file" \notin past'[n] => "read" \notin past[n]
        BY <1>0, <3>1 DEF NativeHa!ShapeInv
      <4>3. file'[n] = NativeHa!render(n)
        BY <1>0, <3>1 DEF NativeHa!ShapeInv
      <4> QED BY <1>0, <2>3, <4>1, <4>2, <4>3, NativeHaRender DEF NativeHa!ShownInv
    <3> QED BY <3>2, <3>3, <3>4 DEF NativeHa!NativeHaInv
  <2> QED BY <1>4, <2>5, <2>6, <2>7, <2>8 DEF NativeHa!Tick
<1>5. CASE UNCHANGED NativeHa!vars
  <2>1. \A m \in HaObservers : NativeHa!parse_nativeha_x(m)' = NativeHa!parse_nativeha_x(m)
    BY <1>5, NativeHaReads DEF NativeHa!vars
  <2> QED BY <1>0, <1>5, <2>1 DEF NativeHa!vars, NativeHa!group, NativeHa!NativeHaInv,
    NativeHa!ShapeInv,
        NativeHa!ReadsInv, NativeHa!ShownInv
<1> QED BY <1>2, <1>3, <1>4, <1>5 DEF NativeHa!Next

LEMMA NativeHaImplies == NativeHa!NativeHaInv => NativeHa!OneQuorumShown
<1> SUFFICES ASSUME NativeHa!NativeHaInv, NEW n \in HaObservers, NEW m \in HaObservers, past[n] = {},
                    past[m] = {}
             PROVE  /\ file[n].quorate = 1 /\ file[m].quorate = 1 => NativeHa!Peers(n) = NativeHa!Peers(m)
                    /\ file[n].holder # NativeHa!None /\ file[m].holder # NativeHa!None
                         => file[n].holder = file[m].holder
  BY DEF NativeHa!OneQuorumShown
<1>0. "file" \notin past[n] /\ "file" \notin past[m] /\ NativeHa!ShownInv
  BY DEF NativeHa!NativeHaInv
<1>1. /\ file[n].quorate = 1 => n \notin cutoff
      /\ file[n].holder # NativeHa!None => file[n].holder = active
  BY <1>0 DEF NativeHa!ShownInv
<1>2. /\ file[m].quorate = 1 => m \notin cutoff
      /\ file[m].holder # NativeHa!None => file[m].holder = active
  BY <1>0 DEF NativeHa!ShownInv
<1> QED BY <1>1, <1>2 DEF NativeHa!Peers
================================================================================
