------------------------------- MODULE DRFlow -------------------------------
(***************************************************************************)
(* mq-dr-flow (mqrc/dr_flow.py): the producer thread (the main thread), the*)
(* consumer thread and main() around them.  One action per MQI call or     *)
(* ledger append; what the code does between two of them is part of the    *)
(* action before.  Loop turns that change nothing (no message, a connect   *)
(* attempt that fails, a call refused by a quiescing queue manager) are    *)
(* stuttering.  Time enters as two one-way events: the producer's deadline *)
(* (late) and the join timeout.                                            *)
(***************************************************************************)
EXTENDS QueueManager, FiniteSets

CONSTANT Unexpected   \* whether a call may raise a reason no handler expects

ASSUME FlowAssumption == Unexpected \in BOOLEAN

VARIABLES
  ppc,        \* producer: "loop", "commit", "record", "done", "failed"
  seq,        \* the producer's counter
  pending,    \* the seq built and not yet confirmed-sent; 0 is None
  late,       \* the producer's deadline has passed
  cpc,        \* consumer: "loop", "commit", "record", "done", "failed", "killed"
  cmsg,       \* the seq of the reply the consumer holds
  mpc,        \* main: "run", "join", "write", "exit", "exited"
  stop,       \* the STOP event
  errors,     \* the sides that raised
  sent,       \* app ledger: copies of SENT per seq
  confirmed,  \* app ledger: copies of CONFIRMED per seq
  appfile,    \* the ledger file: flushed now and then, written before main exits
  rc          \* main's return code; -1 while it runs

flowVars == <<ppc, seq, pending, late, cpc, cmsg, mpc, stop, errors,
              sent, confirmed, appfile, rc>>
prodVars == <<ppc, seq, pending>>
consVars == <<cpc, cmsg>>
mainVars == <<mpc, appfile, rc>>

FlowTypeOK ==
  /\ ppc \in {"loop", "commit", "record", "done", "failed"}
  /\ seq \in 0..MaxSeq /\ pending \in Keys /\ late \in BOOLEAN
  /\ cpc \in {"loop", "commit", "record", "done", "failed", "killed"}
  /\ cmsg \in Keys
  /\ mpc \in {"run", "join", "write", "exit", "exited"}
  /\ stop \in BOOLEAN /\ errors \in SUBSET {"producer", "consumer"}
  /\ sent \in [Keys -> Nat] /\ confirmed \in [Keys -> Nat]
  /\ appfile \in [sent : [Keys -> Nat], confirmed : [Keys -> Nat]]
  /\ rc \in {-1, 0, 1}

FlowInit ==
  /\ ppc = "loop" /\ seq = 0 /\ pending = 0 /\ late = FALSE
  /\ cpc = "loop" /\ cmsg = 0
  /\ mpc = "run" /\ stop = FALSE /\ errors = {}
  /\ sent = Nothing /\ confirmed = Nothing
  /\ appfile = [sent |-> Nothing, confirmed |-> Nothing] /\ rc = -1

-----------------------------------------------------------------------------
(* The producer.                                                           *)

KeepProducing == ~stop /\ ~late

Deadline ==
  /\ ~late /\ late' = TRUE
  /\ UNCHANGED <<qmVars, prodVars, consVars, mainVars, stop, errors, sent, confirmed>>

ProducerConnect ==
  /\ ppc = "loop" /\ KeepProducing
  /\ Connect("producer")
  /\ UNCHANGED flowVars

\* Mutant: a retry builds a new message.
BuildPendingRekeyed ==
  /\ seq < MaxSeq
  /\ seq' = seq + 1 /\ pending' = seq + 1

\* pending is built once and kept until SENT is recorded: a retry carries the
\* same seq.  Past MaxSeq (a bound of the model) the producer only waits.
BuildPending ==
  /\ pending # 0 \/ seq < MaxSeq
  /\ seq' = IF pending = 0 THEN seq + 1 ELSE seq
  /\ pending' = IF pending = 0 THEN seq + 1 ELSE pending

\* q.put: accepted; refused with 2161 (nothing in the UOW to back out);
\* interrupted; or the connection is gone.
ProducerPut ==
  /\ ppc = "loop" /\ KeepProducing
  /\ BuildPending
  /\ \/ /\ conn["producer"] = "ok" /\ qm = "up"
        /\ put' = [put EXCEPT !["producer"] = Add(@, pending')]
        /\ ppc' = "commit"
        /\ UNCHANGED <<qm, conn, reqq, repq, dlq, got, downs, foreign,
                       landed, expired, processed, swallowed, taken>>
     \/ /\ conn["producer"] = "ok" /\ qm = "quiescing"
        /\ Resolve({}, {"producer"})
        /\ UNCHANGED <<conn, envVars, ppc>>
     \/ /\ Interrupted("producer") \/ Broken("producer")
        /\ UNCHANGED ppc
  /\ UNCHANGED <<late, consVars, mainVars, stop, errors, sent, confirmed>>

\* Mutant: an interrupted commit counts as clean.
ProducerCommitTrusting ==
  /\ ppc = "commit"
  /\ \/ (Commit("producer") \/ Interrupted("producer")) /\ ppc' = "record"
     \/ Broken("producer") /\ ppc' = "loop"
  /\ UNCHANGED <<seq, pending, late, consVars, mainVars, stop, errors, sent, confirmed>>

\* Mutant: a rebuilt connection starts with no pending message.
ProducerCommitForgetful ==
  /\ ppc = "commit"
  /\ \/ Commit("producer") /\ ppc' = "record" /\ UNCHANGED pending
     \/ Interrupted("producer") /\ ppc' = "loop" /\ UNCHANGED pending
     \/ Broken("producer") /\ ppc' = "loop" /\ pending' = 0
  /\ UNCHANGED <<seq, late, consVars, mainVars, stop, errors, sent, confirmed>>

\* qmgr.commit: clean; in doubt (2549) or backed out (2003), retried with the
\* same pending; or a RECONNECT reason, after which the connection is rebuilt.
ProducerCommit ==
  /\ ppc = "commit"
  /\ \/ Commit("producer") /\ ppc' = "record"
     \/ (Interrupted("producer") \/ Broken("producer")) /\ ppc' = "loop"
  /\ UNCHANGED <<seq, pending, late, consVars, mainVars, stop, errors, sent, confirmed>>

\* Mutant: pending is not cleared once SENT is recorded.
ProducerRecordKeepsPending ==
  /\ ppc = "record"
  /\ sent' = Add(sent, pending)
  /\ ppc' = "loop"
  /\ UNCHANGED <<qmVars, seq, pending, late, consVars, mainVars, stop, errors, confirmed>>

\* SENT, then, if the last flush is old enough, a flush of the shared ledger.
ProducerRecord ==
  /\ ppc = "record"
  /\ sent' = Add(sent, pending)
  /\ appfile' \in {appfile, [sent |-> sent', confirmed |-> confirmed]}
  /\ pending' = 0 /\ ppc' = "loop"
  /\ UNCHANGED <<qmVars, seq, late, consVars, mpc, rc, stop, errors, confirmed>>

\* keep() is false at the top of the loop: the final disconnect.
ProducerExit ==
  /\ ppc = "loop" /\ ~KeepProducing
  /\ Disconnect("producer")
  /\ ppc' = "done"
  /\ UNCHANGED <<seq, pending, late, consVars, mainVars, stop, errors, sent, confirmed>>

\* Any other reason propagates to _guarded.  The open UOW ends with the
\* process: its fate is left open.
ProducerRaise ==
  /\ Unexpected
  /\ \/ ppc = "loop" /\ KeepProducing
     \/ ppc = "commit"
  /\ \/ Disconnect("producer")
     \/ BackoutAndDisconnect("producer")
  /\ ppc' = "failed" /\ errors' = errors \cup {"producer"} /\ stop' = TRUE
  /\ UNCHANGED <<seq, pending, late, consVars, mainVars, sent, confirmed>>

-----------------------------------------------------------------------------
(* The consumer.                                                           *)

ConsumerConnect ==
  /\ cpc = "loop" /\ ~stop
  /\ Connect("consumer")
  /\ UNCHANGED flowVars

\* Mutant: a failing consumer stops the run and is not recorded.
ConsumerFailsSilently ==
  /\ cpc' = "failed" /\ stop' = TRUE
  /\ UNCHANGED <<prodVars, late, cmsg, mainVars, errors, sent, confirmed>>

ConsumerFails ==
  /\ cpc' = "failed" /\ errors' = errors \cup {"consumer"} /\ stop' = TRUE
  /\ UNCHANGED <<prodVars, late, cmsg, mainVars, sent, confirmed>>

\* A reply of this run is got under syncpoint.
ConsumerGet ==
  /\ cpc = "loop" /\ ~stop
  /\ \/ /\ conn["consumer"] = "ok" /\ qm = "up"
        /\ \E k \in Seqs :
             /\ repq[k] > 0
             /\ repq' = Drop(repq, k)
             /\ got' = [got EXCEPT !["consumer"] = Add(@, k)]
             /\ cmsg' = k
        /\ cpc' = "commit"
        /\ UNCHANGED <<qm, conn, reqq, dlq, put, downs, foreign,
                       landed, expired, processed, swallowed, taken>>
     \/ /\ Interrupted("consumer") \/ Broken("consumer")
        /\ UNCHANGED consVars
  /\ UNCHANGED <<prodVars, late, mainVars, stop, errors, sent, confirmed>>

\* A correlated reply with no DRv1 body: got, backed out, and fail loud.
ConsumerGetNotDRv1 ==
  /\ cpc = "loop" /\ ~stop
  /\ conn["consumer"] = "ok" /\ qm = "up" /\ repq[NotDRv1] > 0
  /\ BackoutAndDisconnect("consumer")
  /\ ConsumerFails

\* Mutant: an interrupted commit confirms the reply.
ConsumerCommitTrusting ==
  /\ cpc = "commit"
  /\ \/ (Commit("consumer") \/ Interrupted("consumer")) /\ cpc' = "record"
     \/ Broken("consumer") /\ cpc' = "loop"
  /\ UNCHANGED <<cmsg, prodVars, late, mainVars, stop, errors, sent, confirmed>>

ConsumerCommit ==
  /\ cpc = "commit"
  /\ \/ Commit("consumer") /\ cpc' = "record"
     \/ (Interrupted("consumer") \/ Broken("consumer")) /\ cpc' = "loop"
  /\ UNCHANGED <<cmsg, prodVars, late, mainVars, stop, errors, sent, confirmed>>

ConsumerRecord ==
  /\ cpc = "record"
  /\ confirmed' = Add(confirmed, cmsg)
  /\ cpc' = "loop"
  /\ UNCHANGED <<qmVars, cmsg, prodVars, late, mainVars, stop, errors, sent>>

ConsumerExit ==
  /\ cpc = "loop" /\ stop
  /\ Disconnect("consumer")
  /\ cpc' = "done"
  /\ UNCHANGED <<cmsg, prodVars, late, mainVars, stop, errors, sent, confirmed>>

ConsumerRaise ==
  /\ Unexpected
  /\ \/ cpc = "loop" /\ ~stop
     \/ cpc = "commit"
  /\ \/ Disconnect("consumer")
     \/ BackoutAndDisconnect("consumer")
  /\ ConsumerFails

-----------------------------------------------------------------------------
(* main.                                                                   *)

ConsumerFinished == cpc \in {"done", "failed"}

\* Mutant: the drain waits until every SENT is confirmed.
MainStopAllConfirmed ==
  /\ mpc = "run" /\ ppc \in {"done", "failed"}
  /\ \A k \in Seqs : sent[k] > 0 => confirmed[k] > 0
  /\ stop' = TRUE /\ mpc' = "join"
  /\ UNCHANGED <<qmVars, prodVars, consVars, late, errors, sent, confirmed, appfile, rc>>

\* The producer returned; after the drain (any delay) STOP is set.
MainStop ==
  /\ mpc = "run" /\ ppc \in {"done", "failed"}
  /\ stop' = TRUE /\ mpc' = "join"
  /\ UNCHANGED <<qmVars, prodVars, consVars, late, errors, sent, confirmed, appfile, rc>>

\* t.join(timeout=5): the consumer finished, or the timeout expired.
MainJoin ==
  /\ mpc = "join" /\ mpc' = "write"
  /\ UNCHANGED <<qmVars, prodVars, consVars, late, stop, errors, sent, confirmed, appfile, rc>>

MainWrite ==
  /\ mpc = "write" /\ mpc' = "exit"
  /\ appfile' = [sent |-> sent, confirmed |-> confirmed]
  /\ UNCHANGED <<qmVars, prodVars, consVars, late, stop, errors, sent, confirmed, rc>>

\* Mutant: main returns the number of errors.
MainExitCountsErrors ==
  /\ mpc = "exit" /\ mpc' = "exited"
  /\ rc' = Cardinality(errors)
  /\ ConsumerFinished
  /\ UNCHANGED <<qmVars, cpc, prodVars, cmsg, late, stop, errors, sent, confirmed, appfile>>

\* The exit code; a consumer still running is a daemon thread and dies with
\* the process, its UOW settled by the queue manager.
MainExit ==
  /\ mpc = "exit" /\ mpc' = "exited"
  /\ rc' = IF errors = {} THEN 0 ELSE 1
  /\ \/ /\ ConsumerFinished
        /\ UNCHANGED <<qmVars, cpc>>
     \/ /\ ~ConsumerFinished
        /\ cpc' = "killed"
        /\ \/ BackoutAndDisconnect("consumer")
           \/ cpc = "commit" /\ Disconnect("consumer")
  /\ UNCHANGED <<prodVars, cmsg, late, stop, errors, sent, confirmed, appfile>>

FlowNext ==
  \/ Deadline \/ ProducerConnect \/ ProducerPut \/ ProducerCommit
  \/ ProducerRecord \/ ProducerExit \/ ProducerRaise
  \/ ConsumerConnect \/ ConsumerGet \/ ConsumerGetNotDRv1 \/ ConsumerCommit
  \/ ConsumerRecord \/ ConsumerExit \/ ConsumerRaise
  \/ MainStop \/ MainJoin \/ MainWrite \/ MainExit
=============================================================================
