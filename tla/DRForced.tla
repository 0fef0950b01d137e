------------------------------ MODULE DRForced ------------------------------
(***************************************************************************)
(* The forced-DR drill and mq-dr-forced (dr_forced.py): the app runs       *)
(* against site A, the replication link is broken, the site dies, and the  *)
(* copy of site B is promoted with whatever DRBD (protocol A,              *)
(* asynchronous) had shipped.  The analyzer attributes the loss from the   *)
(* two ledger files and the two instants.                                  *)
(*                                                                         *)
(* The storage is the sequence of commits made on it; the copy at B is a   *)
(* prefix of A's until the promotion.  Every timestamp is taken once, so   *)
(* no two are equal.  Commits in doubt are DRSystem's matter.              *)
(***************************************************************************)
EXTENDS Integers, Sequences, FiniteSets, DRReport

CONSTANTS
    MaxSeq,     \* bound on the messages the app sends
    MaxServes,  \* bound on the requests the service answers
    Floor       \* the evidence floor: [rate, seconds, total]

DRForcedAssumption ==
    MaxSeq \in Nat /\ MaxServes \in Nat /\ Floor \in [rate : Nat, seconds : Nat, total : Nat]

Seqs == 1..MaxSeq

VARIABLES
    now,
    disk,       \* commits on the live storage, in order
    shipped,    \* how many of them the copy at B holds
    link,       \* "up", "broken"; the drill's next state, "dead" and "promoted"
    break_ts, kill_ts,
    seq,        \* messages made
    unlogged,   \* a seq committed and not yet SENT in the ledger, 0 if none
    taken,      \* seqs whose reply is taken and not yet CONFIRMED in the ledger
    ledger,     \* the app's ledger in memory
    file,       \* the app's ledger file
    flushing,   \* lines written by a flush under way, -1 if none
    app,        \* "up" or "killed"
    received,   \* the Watcher's RECEIVED count per seq
    lost_tail,  \* history: the commits A made that B does not have
    unshipped,  \* history: seqs put before the break and not shipped by then
    late,       \* history: seqs put at A and logged SENT after the kill
    flushed     \* history: lines of the last flush that finished
vars == <<now, disk, shipped, link, break_ts, kill_ts, seq, unlogged, taken, ledger, file,
          flushing, app, received, lost_tail, unshipped, late, flushed>>
drill == <<link, break_ts, kill_ts>>
appVars == <<seq, unlogged, taken, ledger, file, flushing, app>>
history == <<lost_tail, unshipped, late, flushed>>

Init ==
    /\ now = 0 /\ disk = <<>> /\ shipped = 0 /\ link = "up" /\ break_ts = 0 /\ kill_ts = 0
    /\ seq = 0 /\ unlogged = 0 /\ taken = {} /\ ledger = <<>> /\ file = <<>>
    /\ flushing = -1 /\ app = "up" /\ received = [k \in Seqs |-> 0]
    /\ lost_tail = {} /\ unshipped = {} /\ late = {} /\ flushed = 0

----------------------------------------------------------------------------
(* The storage *)

Count(log, op, k) == Cardinality({i \in DOMAIN log : log[i] = <<op, k>>})
Requests(log) == {k \in Seqs : Count(log, "put", k) > Count(log, "serve", k)}
Replies(log) == {k \in Seqs : Count(log, "serve", k) > Count(log, "take", k)}
Alive == link # "dead"

Ship ==
    /\ link = "up" /\ shipped < Len(disk) /\ shipped' = shipped + 1
    /\ UNCHANGED <<now, disk, drill, appVars, received, history>>

----------------------------------------------------------------------------
(* The drill *)

(* drbd-degrade.sh break *)
Break ==
    /\ link = "up" /\ link' = "broken" /\ now' = now + 1 /\ break_ts' = now'
    /\ unshipped' = {disk[i][2] : i \in {j \in DOMAIN disk : j > shipped /\ disk[j][1] = "put"}}
    /\ UNCHANGED <<disk, shipped, kill_ts, appVars, received, lost_tail, late, flushed>>
SiteDies ==
    /\ link = "broken" /\ link' = "dead" /\ now' = now + 1 /\ kill_ts' = now'
    /\ UNCHANGED <<disk, shipped, break_ts, appVars, received, history>>
(* pcmk-dr-force.sh *)
Promote ==
    /\ link = "dead" /\ link' = "promoted"
    /\ disk' = SubSeq(disk, 1, shipped)
    /\ lost_tail' = {disk[i] : i \in {j \in DOMAIN disk : j > shipped}}
    /\ UNCHANGED <<now, shipped, break_ts, kill_ts, appVars, received, unshipped, late, flushed>>

----------------------------------------------------------------------------
(* The app and the service.  SENT and CONFIRMED are appended, each with the
   time, after their commit; a flush holds the ledger's lock. *)

AppPut ==
    /\ app = "up" /\ Alive /\ seq < MaxSeq /\ unlogged = 0
    /\ seq' = seq + 1 /\ unlogged' = seq' /\ disk' = Append(disk, <<"put", seq'>>)
    /\ UNCHANGED <<now, shipped, drill, taken, ledger, file, flushing, app, received, history>>
Logged(event, k) ==
    /\ app = "up" /\ flushing = -1
    /\ now' = now + 1 /\ ledger' = Append(ledger, [event |-> event, seq |-> k, ts |-> now'])
    /\ UNCHANGED <<disk, shipped, drill, seq, file, flushing, app, received>>
AppSent ==
    /\ unlogged # 0 /\ Logged("sent", unlogged)
    /\ unlogged' = 0
    /\ late' = IF link = "dead" \/ (link = "promoted" /\ <<"put", unlogged>> \in lost_tail)
               THEN late \cup {unlogged} ELSE late
    /\ UNCHANGED <<taken, lost_tail, unshipped, flushed>>
AppTake ==
    /\ app = "up" /\ Alive /\ taken = {}
    /\ \E k \in Replies(disk) : disk' = Append(disk, <<"take", k>>) /\ taken' = {k}
    /\ UNCHANGED <<now, shipped, drill, seq, unlogged, ledger, file, flushing, app, received, history>>
AppConfirmed ==
    /\ \E k \in taken : Logged("confirmed", k)
    /\ taken' = {} /\ UNCHANGED <<unlogged, history>>
Serve ==
    /\ Alive /\ Cardinality({i \in DOMAIN disk : disk[i][1] = "serve"}) < MaxServes
    /\ \E k \in Requests(disk) :
          disk' = Append(disk, <<"serve", k>>) /\ received' = [received EXCEPT ![k] = @ + 1]
    /\ UNCHANGED <<now, shipped, drill, appVars, history>>

(* write_jsonl: the file is truncated, then written line by line.  The app
   flushes after a SENT, and before it ends. *)
FlushStart ==
    /\ app = "up" /\ flushing = -1 /\ unlogged = 0 /\ ledger # file
    /\ flushing' = 0 /\ file' = <<>>
    /\ UNCHANGED <<now, disk, shipped, drill, seq, unlogged, taken, ledger, app, received, history>>
FlushLine ==
    /\ app = "up" /\ flushing >= 0
    /\ IF flushing < Len(ledger)
       THEN /\ file' = Append(file, ledger[flushing + 1]) /\ flushing' = flushing + 1
            /\ UNCHANGED flushed
       ELSE flushing' = -1 /\ flushed' = Len(ledger) /\ UNCHANGED file
    /\ UNCHANGED <<now, disk, shipped, drill, seq, unlogged, taken, ledger, app, received,
                   lost_tail, unshipped, late>>
AppKilled ==
    /\ app = "up" /\ app' = "killed"
    /\ UNCHANGED <<now, disk, shipped, drill, seq, unlogged, taken, ledger, file, flushing, received, history>>

Next == Ship \/ Break \/ SiteDies \/ Promote \/ AppPut \/ AppSent \/ AppTake \/ AppConfirmed
        \/ Serve \/ FlushStart \/ FlushLine \/ AppKilled
Spec == Init /\ [][Next]_vars

----------------------------------------------------------------------------
(* The ledger's queries *)

Entries(l, event) == {l[i] : i \in {j \in DOMAIN l : l[j].event = event}}
SeqsOf(es) == {e.seq : e \in es}
EntryCount(l, event, k) == Cardinality({i \in DOMAIN l : l[i].event = event /\ l[i].seq = k})
(* The file as DRReport counts it. *)
AppCounts(l) == [sent |-> [k \in Seqs |-> EntryCount(l, "sent", k)],
                 confirmed |-> [k \in Seqs |-> EntryCount(l, "confirmed", k)]]
confirmed_at(l, ts) == SeqsOf({e \in Entries(l, "confirmed") : e.ts <= ts})

unresolved_seqs(l, ts) == SeqsOf({e \in Entries(l, "sent") : e.ts <= ts}) \ confirmed_at(l, ts)
exposure(l, ts) == Cardinality(unresolved_seqs(l, ts))
MaxOf(S) == CHOOSE x \in S : \A y \in S : y <= x
(* The events replayed in the order of their timestamps. *)
peak_exposure(l) ==
    MaxOf({0} \cup {Cardinality({i \in DOMAIN l : l[i].event = "sent" /\ l[i].ts <= t})
                    - Cardinality({i \in DOMAIN l : l[i].event = "confirmed" /\ l[i].ts <= t}) : t \in 1..now})

meets_floor(l) ==
    LET ts == {e.ts : e \in Entries(l, "sent")}
        total == Cardinality(ts)
        seconds == IF total < 2 THEN 0 ELSE MaxOf(ts) - (CHOOSE x \in ts : \A y \in ts : x <= y)
    IN /\ total >= Floor.total
       /\ seconds >= Floor.seconds
       /\ IF seconds > 0 THEN total >= Floor.rate * seconds ELSE Floor.rate = 0

----------------------------------------------------------------------------
(* mq-dr-forced *)

lost(l) == SeqsOf({e \in Entries(l, "sent") : break_ts <= e.ts /\ e.ts <= kill_ts})

(* The instant a confirmation must not be later than. *)
cutover_ts == break_ts

ForcedFacts(l) ==
    reconcile(AppCounts(l), received, SeqsOf(Entries(l, "sent")) \ lost(l), {}, confirmed_at(l, cutover_ts))
Bucket(l, k) == classify(ForcedFacts(l)[k])
rpo_zero(l) == at_risk(ForcedFacts(l)) = {}
ReportedPeak(l) == exposure(l, now)

----------------------------------------------------------------------------
Analyzed == link = "promoted"

Commits == {"put", "serve", "take"} \X Seqs
Lines == [event : {"sent", "confirmed"}, seq : Seqs, ts : Nat]

TypeOK ==
    /\ now \in Nat /\ disk \in Seq(Commits) /\ shipped \in 0..Len(disk)
    /\ link \in {"up", "broken", "dead", "promoted"} /\ break_ts \in 0..now /\ kill_ts \in 0..now
    /\ seq \in 0..MaxSeq /\ unlogged \in 0..seq /\ taken \subseteq 1..seq
    /\ ledger \in Seq(Lines) /\ file \in Seq(Lines) /\ flushing \in -1..Len(ledger)
    /\ received \in [Seqs -> Nat]

Gone(k) == <<"put", k>> \in lost_tail /\ received[k] = 0

(* mq-dr-forced never reports as safe a request that is gone from the promoted
   copy, except one that was still in DRBD's buffer at the break or logged only
   after the site's death. *)
HiddenOnlyAtTheEdges ==
    Analyzed => \A k \in DOMAIN ForcedFacts(file) :
        Gone(k) /\ k \notin unshipped \cup late => k \in at_risk(ForcedFacts(file))

(* A message is confirmed in the report only on a confirmation whose whole round
   trip B can have: no part of it was committed after the break. *)
ConfirmedBeforeBreak ==
    Analyzed => \A k \in DOMAIN ForcedFacts(file) :
        Bucket(file, k) = "confirmed" => received[k] = 1 /\ \E i \in DOMAIN file :
            file[i].event = "confirmed" /\ file[i].seq = k /\ file[i].ts < break_ts

(* Once B has answered what it holds, a message the report calls lost is neither
   on the promoted copy nor known to the service. *)
LostIsLost ==
    Analyzed /\ Requests(disk) = {} => \A k \in DOMAIN ForcedFacts(file) :
        Bucket(file, k) = "lost_unprocessed" => received[k] = 0 /\ Count(disk, "put", k) = 0

(* A request is served twice only when the forced promotion took back its first
   answer: the service's own count is never the reason. *)
DuplicatesFromTheTail == \A k \in Seqs : received[k] >= 2 => <<"serve", k>> \in lost_tail /\ received[k] = 2

ForcedSound == HiddenOnlyAtTheEdges /\ ConfirmedBeforeBreak /\ LostIsLost /\ DuplicatesFromTheTail

(***************************************************************************)
(* The strengthening that is inductive.  A commit is made once on a disk,  *)
(* and the service has counted the answers on it and those it lost; a      *)
(* request put on what B will not have is logged SENT after the break, and *)
(* after the site's death only as late; the file holds lines of the        *)
(* ledger.                                                                 *)
(***************************************************************************)
On(log, op, k) == \E i \in DOMAIN log : log[i] = <<op, k>>
Once(b) == IF b THEN 1 ELSE 0
DiskInv ==
    /\ \A i, j \in DOMAIN disk : disk[i] = disk[j] => i = j
    /\ \A i \in DOMAIN disk : disk[i][2] <= seq
    /\ \A k \in Seqs : received[k] = Once(On(disk, "serve", k)) + Once(<<"serve", k>> \in lost_tail)
    /\ link # "promoted" => lost_tail = {}
(* Put after the break, at A. *)
AfterBreak(k) ==
    /\ k \notin unshipped
    /\ \/ <<"put", k>> \in lost_tail
       \/ link # "promoted" /\ \E j \in DOMAIN disk : j > shipped /\ disk[j] = <<"put", k>>
Doomed(k) == link = "dead" \/ (link = "promoted" /\ <<"put", k>> \in lost_tail)
LineInv(e) ==
    /\ e.seq <= seq /\ e.ts <= now
    /\ e.event = "confirmed" => received[e.seq] >= 1
    /\ link # "up" => e.ts # break_ts
    /\ e.event = "sent" /\ link # "up" /\ AfterBreak(e.seq) => break_ts <= e.ts
    /\ e.event = "sent" /\ Doomed(e.seq) /\ kill_ts < e.ts => e.seq \in late
LedgerInv == (\A i \in DOMAIN ledger : LineInv(ledger[i])) /\ \A k \in taken : received[k] >= 1
FileInv == \A i \in DOMAIN file : \E j \in DOMAIN ledger : file[i] = ledger[j]
ForcedInv == TypeOK /\ DiskInv /\ LedgerInv /\ FileInv

(* Claimed, and not kept by the code.  dr_forced.py: the forced promotion
   "loses exactly that tail", the messages committed after the break; none of
   the others is gone. *)
ExactlyTheTail ==
    Analyzed => \A k \in DOMAIN ForcedFacts(file) : Gone(k) => k \in at_risk(ForcedFacts(file))

(* Claimed, and not kept by the code.  dr_flow.py flushes so that a client
   that hangs or is killed still leaves its evidence behind. *)
EvidenceKept == app = "killed" => Len(file) >= flushed

(* Claimed, and not kept by the code.  exposure.py: peak_exposure "never
   under-reports the peak" of the exact exposure gauge. *)
NeverUnderReports == peak_exposure(ledger) >= MaxOf({0} \cup {exposure(ledger, t) : t \in 1..now})

(* Claimed, and not kept by the code.  report.py prints as "Peak exposure" the
   most that was ever at risk. *)
PeakReported == Analyzed => ReportedPeak(file) >= peak_exposure(file)

(* Claimed, and not kept by the code.  floor.py: a run counts as RPO 0 only if
   it clears the floor. *)
RpoZeroClearsFloor == Analyzed /\ rpo_zero(file) => meets_floor(file)
=============================================================================
