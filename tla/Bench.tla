------------------------------- MODULE Bench -------------------------------
(***************************************************************************)
(* mq-bench-client: a warm-up window and a measured window of put plus     *)
(* commit, each attempt counted, its latency or its reason code kept and   *)
(* the queue depth sampled now and then; then one results record, or a     *)
(* diagnosis when nothing was committed.  One attempt is one step: the     *)
(* client is a single thread, and what its queue manager answers is the    *)
(* choice.                                                                 *)
(***************************************************************************)
EXTENDS Naturals, Sequences, FiniteSets, SequencesExt

CONSTANTS
    Count,        \* --count, > 0: the measured window is a number of attempts
    MaxWarm,      \* bound on the attempts of the warm-up window
    SampleEvery,  \* an attempt whose number is a multiple samples the depth
    Latencies,    \* commit latencies, numbers
    Depths        \* queue depths, numbers

BenchAssumption ==
    /\ Count \in Nat \ {0} /\ MaxWarm \in Nat /\ SampleEvery \in Nat \ {0}
    /\ Latencies \subseteq Nat /\ Depths \subseteq Nat

VARIABLES
    phase,      \* "warmup", "measure" or the outcome
    i,          \* attempts of the window
    conn,       \* whether the client holds a connection
    latencies, depths, reasons,   \* what the measured window kept
    stats,      \* RoundTripStats
    landed,     \* measured messages that are on the queue
    record      \* the results record, a set with at most one element
vars == <<phase, i, conn, latencies, depths, reasons, stats, landed, record>>

(* Reason codes by what the client makes of them: a dead connection; no
   connection at all (2537, 2538), which is unreachable but not
   reconnectable; and an answer that refuses. *)
Reasons == {"dead", "nohost", "refused"}
_UNREACHABLE_REASONS == {"dead", "nohost"}
is_reconnectable(r) == r = "dead"

CeilDiv(a, b) == (a + b - 1) \div b
Sorted(s) == SortSeq(s, <)

(* ceil(p / 100 * n) *)
rank(p, n) == CeilDiv(p * n, 100)
(* Nearest-rank percentile, and the latency block of the record. *)
percentile(samples, p) == Sorted(samples)[rank(p, Len(samples))]
latency_summary(samples) ==
    [p50 |-> percentile(samples, 50), p95 |-> percentile(samples, 95),
     p99 |-> percentile(samples, 99), max |-> Last(Sorted(samples))]

SumSeq(s) == FoldLeft(+, 0, s)
(* The mean of the second half exceeds the mean of the first by at most a
   tenth plus one; in integers, both sides times the two lengths and ten. *)
depth_is_bounded(ds) ==
    LET mid == Len(ds) \div 2
        first == SubSeq(ds, 1, mid)
        second == SubSeq(ds, mid + 1, Len(ds))
    IN  \/ Len(ds) < 2
        \/ 10 * SumSeq(second) * Len(first)
              <= 11 * SumSeq(first) * Len(second) + 10 * Len(first) * Len(second)

no_commits_message(rs) ==
    IF rs = <<>> THEN "nothing attempted"
    ELSE IF ToSet(rs) \subseteq _UNREACHABLE_REASONS THEN "unreachable" ELSE "refused"

results_record(ls, ds) ==
    [count |-> Len(ls), depth_bounded |-> depth_is_bounded(ds), latency_ms |-> latency_summary(ls)]

Init ==
    /\ phase = "warmup" /\ i = 0 /\ conn = FALSE
    /\ latencies = <<>> /\ depths = <<>> /\ reasons = <<>>
    /\ stats = [total |-> 0, failures |-> 0]
    /\ landed = 0 /\ record = {}

InLoop == \/ phase = "warmup" /\ i < MaxWarm
          \/ phase = "measure" /\ i < Count
Recording == phase = "measure"

(* The handler of the loop: count, keep the reason, and tear the connection
   down when it is dead.  before is stats as the attempt left it, held whether
   the attempt had a connection. *)
Handle(r, before, held) ==
    /\ stats' = IF Recording THEN [total |-> before.total + 1, failures |-> before.failures + 1]
                             ELSE before
    /\ reasons' = IF Recording THEN Append(reasons, r) ELSE reasons
    /\ conn' = (held /\ ~is_reconnectable(r))

(* _connect fails: there is still no connection. *)
ConnectFails ==
    /\ InLoop /\ ~conn
    /\ \E r \in Reasons : Handle(r, stats, FALSE)
    /\ i' = i + 1
    /\ UNCHANGED <<phase, latencies, depths, landed, record>>

(* The put or the commit fails: refused, the unit of work backed out, or on a
   connection that died, the commit in doubt. *)
CommitFails ==
    /\ InLoop
    /\ \E r \in {"dead", "refused"}, applied \in BOOLEAN :
          /\ applied => r = "dead"
          /\ landed' = IF applied /\ Recording THEN landed + 1 ELSE landed
          /\ Handle(r, stats, TRUE)
    /\ i' = i + 1
    /\ UNCHANGED <<phase, latencies, depths, record>>

Succeeded == [stats EXCEPT !.total = @ + 1]

KeepLatencyAlways(dt) == latencies' = Append(latencies, dt)
KeepLatency(dt) == latencies' = IF Recording THEN Append(latencies, dt) ELSE latencies

(* Put and commit succeed, on a connection made now if there was none; the
   sampled depth is kept. *)
Committed ==
    /\ InLoop
    /\ conn' = TRUE
    /\ landed' = IF Recording THEN landed + 1 ELSE landed
    /\ \E dt \in Latencies : KeepLatency(dt)
    /\ stats' = IF Recording THEN Succeeded ELSE stats
    /\ IF Recording /\ i % SampleEvery = 0
       THEN \E d \in Depths : depths' = Append(depths, d)
       ELSE UNCHANGED depths
    /\ i' = i + 1
    /\ UNCHANGED <<phase, reasons, record>>

(* Put and commit succeed and the depth cannot be read: the handler of the
   same attempt runs after its success was recorded. *)
DepthFails ==
    /\ InLoop /\ Recording /\ i % SampleEvery = 0
    /\ landed' = landed + 1
    /\ \E dt \in Latencies : KeepLatency(dt)
    /\ \E r \in {"dead", "refused"} : Handle(r, Succeeded, TRUE)
    /\ i' = i + 1
    /\ UNCHANGED <<phase, depths, record>>

(* The warm-up window closes on time: what it did is discarded. *)
WarmupEnds ==
    /\ phase = "warmup"
    /\ phase' = "measure" /\ i' = 0
    /\ UNCHANGED <<conn, latencies, depths, reasons, stats, landed, record>>

(* Disconnect; the diagnosis and exit 1 without a commit, else the record
   and an exit status that counts the failures. *)
Finish ==
    /\ phase = "measure" /\ i = Count
    /\ conn' = FALSE
    /\ IF latencies = <<>>
       THEN phase' = no_commits_message(reasons) /\ UNCHANGED record
       ELSE /\ phase' = IF stats.failures = 0 THEN "exit0" ELSE "exit1"
            /\ record' = {results_record(latencies, depths)}
    /\ UNCHANGED <<i, latencies, depths, reasons, stats, landed>>

Next == \/ ConnectFails \/ CommitFails \/ Committed \/ DepthFails
        \/ WarmupEnds \/ Finish
Spec == Init /\ [][Next]_vars

----------------------------------------------------------------------------
(* The failed attempts have their reason codes kept in order, and only the
   measured window counts. *)
TypeOK ==
    /\ phase \in {"warmup", "measure", "exit0", "exit1", "unreachable", "refused"}
    /\ ToSet(latencies) \subseteq Latencies /\ ToSet(depths) \subseteq Depths
    /\ ToSet(reasons) \subseteq Reasons
    /\ stats.failures = Len(reasons)
    /\ phase = "warmup" => stats.total = 0 /\ latencies = <<>> /\ landed = 0

(* The throughput that is reported is on the queue: every recorded latency is
   a message that landed in the measured window, and the only others are
   attempts counted as failures. *)
CommitsLanded == Len(latencies) <= landed /\ landed <= Len(latencies) + stats.failures

(* The percentiles are samples, the smallest one that at least p percent of
   the samples do not exceed. *)
PercentilesExact ==
    \A r \in record, q \in {<<"p50", 50>>, <<"p95", 95>>, <<"p99", 99>>} :
        LET v == r.latency_ms[q[1]]
            covers(x) == 100 * Cardinality({k \in DOMAIN latencies : latencies[k] <= x})
                            >= q[2] * Len(latencies)
        IN  /\ v \in ToSet(latencies) /\ covers(v)
            /\ \A x \in ToSet(latencies) : covers(x) => v <= x
            /\ v <= r.latency_ms.max

(* The depth flag does not cry wolf on one sample: a queue whose samples stay
   within one message of each other is bounded, and one that was empty in the
   first half and deep throughout the second is not. *)
DepthTrend ==
    \A r \in record :
        LET n == Len(depths) IN
        /\ (\A j, k \in 1..n : depths[k] <= depths[j] + 1) => r.depth_bounded
        /\ (n >= 2 /\ \A k \in 1..n : IF k <= n \div 2 THEN depths[k] = 0 ELSE depths[k] > 1)
              => ~r.depth_bounded
        /\ (n >= 3 /\ depths[1] = 0 /\ depths[n] = 2 /\ \A k \in 2..(n - 1) : depths[k] = 0)
              => r.depth_bounded

(* "Says QM unreachable only when every failure was a connection failure":
   one refusal in the window is enough for the other diagnosis. *)
DiagnosisTrue ==
    /\ phase = "unreachable" => "refused" \notin ToSet(reasons) /\ stats.failures = Count
    /\ phase = "refused" => "refused" \in ToSet(reasons)

(* Claimed, and not kept by the code.  RoundTripStats.total counts every
   attempt, success or failure, once. *)
EveryAttemptOnce == Recording => stats.total = i

(* Claimed, and not kept by the code.  --count measures exactly that many
   commits. *)
ExactlyCountCommits == record # {} => Len(latencies) = Count
=============================================================================
