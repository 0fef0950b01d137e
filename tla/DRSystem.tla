------------------------------ MODULE DRSystem ------------------------------
(***************************************************************************)
(* mq-dr-flow and mq-dr-responder against one queue manager that is ended, *)
(* crashes and comes back: the message accounting the DR and HA drills     *)
(* rest on.  The history variables of QueueManager say what really         *)
(* happened to each message; the ledgers say what the clients recorded.    *)
(***************************************************************************)
EXTENDS DRFlow, DRResponder

vars == <<qmVars, flowVars, respVars>>

\* Clients with a commit in flight on a connection that is still alive.
Committing ==
  {p \in Procs : /\ conn[p] = "ok"
                 /\ \/ p = "producer"  /\ ppc = "commit"
                    \/ p = "consumer"  /\ cpc = "commit"
                    \/ p = "responder" /\ rpc = "commit"}

Init == QMInit /\ FlowInit /\ RespInit

QMNext == EndMqm \/ QmDown(Committing) \/ QmStart \/ Expire \/ PutForeign

Next ==
  \/ QMNext /\ UNCHANGED <<flowVars, respVars>>
  \/ FlowNext /\ UNCHANGED respVars
  \/ RespNext(Unexpected) /\ UNCHANGED flowVars

Spec == Init /\ [][Next]_vars

(***************************************************************************)
(* Fairness.  Each thread keeps running (the operating system schedules    *)
(* it), time passes the producer's deadline, an endmqm completes and a     *)
(* queue manager that is down is started on the survivor.  Failures,       *)
(* expiry, foreign messages and unexpected errors are never forced; nor is *)
(* the responder's deadline, which the properties speak of.                *)
(***************************************************************************)
Flow(A) == A /\ UNCHANGED respVars
Resp(A) == A /\ UNCHANGED flowVars

Fairness ==
  /\ WF_vars(Flow(Deadline))
  /\ WF_vars(Flow(ProducerConnect \/ ProducerPut \/ ProducerCommit
                  \/ ProducerRecord \/ ProducerExit))
  /\ WF_vars(Flow(ConsumerConnect \/ ConsumerGet \/ ConsumerCommit
                  \/ ConsumerRecord \/ ConsumerExit))
  /\ WF_vars(Flow(MainStop \/ MainJoin \/ MainWrite \/ MainExit))
  /\ WF_vars(Resp(RespConnect \/ RespGet \/ RespPutReply \/ RespDeadLetter
                  \/ RespCommit \/ RespRecord \/ RespExit))
  /\ WF_vars(QmStart /\ UNCHANGED <<flowVars, respVars>>)
  /\ WF_vars(/\ qm = "quiescing" /\ QmDown(Committing)
             /\ UNCHANGED <<flowVars, respVars>>)

FairSpec == Spec /\ Fairness

-----------------------------------------------------------------------------
(***************************************************************************)
(* Safety.                                                                 *)
(***************************************************************************)

\* Every variable keeps its type.
TypeOK == QMTypeOK /\ FlowTypeOK /\ RespTypeOK

\* The app ledger never claims a SENT that did not land, and claims each seq
\* at most once, across in-doubt commits, rollbacks and rebuilt connections
\* (dr_flow.producer records SENT only after a clean commit).
SentLanded == \A k \in Seqs : sent[k] <= 1 /\ sent[k] <= landed[k]

\* No ledger holds a phantom: every RECEIVED is a get+reply that committed,
\* every CONFIRMED a reply that was consumed, every reply consumed answers a
\* request processed, every request processed was put.
NoPhantoms ==
  \A k \in Seqs : /\ received[k] <= processed[k]
                  /\ confirmed[k] <= taken[k]
                  /\ taken[k] <= processed[k]
                  /\ processed[k] + swallowed[k] <= landed[k]

\* A failover never drops or re-keys the in-flight message: every seq made so
\* far is SENT, except the one pending, and no other seq is on the wire.
NoSeqSkipped ==
  /\ \A k \in 1..seq : sent[k] = 1 \/ k = pending
  /\ \A k \in Seqs : landed[k] > 0 => sent[k] = 1 \/ k = pending
  /\ \A k \in Seqs : k > seq => landed[k] = 0 /\ k # pending

\* Resending is the only source of duplicates, and each needs a queue manager
\* failure of its own: one seq lands at most once more than the queue manager
\* went down.
DuplicatesNeedFailures == \A k \in Seqs : landed[k] <= 1 + downs

\* The Watcher misses a processed request only if its commit was in doubt:
\* per seq, processings without a RECEIVED are bounded by the failures.
WatcherMissesOnlyInDoubt ==
  \A k \in Seqs :
    processed[k] - received[k]
      <= downs + (IF rpc = "record" /\ rmsg = k THEN 1 ELSE 0)

\* A request may be consumed without a reply only by the MQDISC of a responder
\* that reached its deadline; a rebuilt connection or an error never does it,
\* and it happens to one request at most.
SwallowedOnlyAtDeadline ==
  /\ \A k \in Keys : swallowed[k] \in {0, 1}
  /\ \A k \in Keys : swallowed[k] > 0 => rpc = "done" /\ k = rmsg

\* Return code 0 means neither side raised, and the file main wrote holds every
\* SENT and all CONFIRMED but the last one a consumer may append after a join
\* that timed out.
ExitHonest ==
  /\ rc = 0 => ppc = "done" /\ cpc # "failed"
  /\ mpc \in {"exit", "exited"} =>
       /\ appfile.sent = sent
       /\ \A k \in Seqs : /\ appfile.confirmed[k] <= confirmed[k]
                          /\ confirmed[k] <= appfile.confirmed[k] + 1

\* What a client that is killed or hangs leaves on disk never over-claims: each
\* entry of either ledger file really happened.  A responder that ends, whatever
\* the reason, has written all it recorded.
FilesHonest ==
  /\ \A k \in Seqs : /\ appfile.sent[k] <= landed[k]
                     /\ appfile.confirmed[k] <= taken[k]
                     /\ watchfile[k] <= processed[k]
  /\ rpc \in {"done", "failed"} => watchfile = received

\* The producer implements AtLeastOnce: delivered means committed onto the
\* request queue, acknowledged means SENT in the app ledger.
Sender == INSTANCE AtLeastOnce WITH
            Last <- MaxSeq, made <- seq, cur <- pending,
            wire <- [k \in Seqs |-> landed[k]], acked <- [k \in Seqs |-> sent[k]]

\* Through every failure, rebuilt connection and retry, dr_flow.producer only
\* makes, delivers and acknowledges as AtLeastOnce allows.
SendRefines == Sender!Spec

-----------------------------------------------------------------------------
(***************************************************************************)
(* The inductive invariant behind the safety properties.                   *)
(***************************************************************************)

\* What each open UOW holds, from where its owner stands.  A live connection
\* means the queue manager is not down; the responder alone may return to its
\* loop with a request in its UOW, and only while the queue manager quiesces.
UowAt(k) ==
  /\ got["producer"][k] = 0 /\ put["consumer"][k] = 0
  /\ put["producer"][k] =
       IF ppc = "commit" /\ conn["producer"] = "ok" /\ k = pending THEN 1 ELSE 0
  /\ got["consumer"][k] =
       IF cpc = "commit" /\ conn["consumer"] = "ok" /\ k = cmsg THEN 1 ELSE 0
  /\ put["responder"][k] =
       IF rpc = "commit" /\ conn["responder"] = "ok" /\ k = rmsg THEN 1 ELSE 0
  /\ got["responder"][k] \in {0, 1}
  /\ got["responder"][k] = 1 =>
       /\ k = rmsg /\ conn["responder"] = "ok"
       /\ rpc \in {"put", "deadletter", "commit"} \/ (rpc = "loop" /\ qm = "quiescing")
  /\ rpc \in {"put", "deadletter", "commit"} /\ conn["responder"] = "ok" /\ k = rmsg
       => got["responder"][k] = 1

UowInv ==
  /\ \A p \in Procs : conn[p] = "ok" => qm # "down"
  /\ \A k \in Keys : UowAt(k)

\* Where every copy of a message is.
AccountInv ==
  /\ \A k \in Seqs :
       /\ landed[k] = reqq[k] + got["responder"][k] + processed[k]
                       + swallowed[k] + expired[k]
       /\ processed[k] = repq[k] + got["consumer"][k] + taken[k]
  /\ \A k \in Keys : swallowed[k] >= 0

\* The producer's counter, its pending message, SENT and what landed.
SendInv ==
  /\ pending \in {0, seq}
  /\ ppc \in {"commit", "record"} => pending # 0
  /\ ppc = "record" => landed[pending] >= 1
  /\ pending # 0 /\ ppc \in {"loop", "commit", "done"} => landed[pending] <= downs
  /\ \A k \in Seqs :
       /\ sent[k] = IF k <= seq /\ k # pending THEN 1 ELSE 0
       /\ k <= seq /\ k # pending => landed[k] >= 1
       /\ k > seq => landed[k] = 0
       /\ landed[k] <= 1 + downs

\* The Watcher ledger against what was processed; RECEIVED is owed while the
\* responder stands between its commit and its append.
WatcherInv ==
  /\ rpc \in {"put", "record"} => rmsg # NotDRv1
  /\ \A k \in Seqs :
       LET owed == IF rpc = "record" /\ rmsg = k THEN 1 ELSE 0
       IN  /\ received[k] + owed <= processed[k]
           /\ processed[k] <= received[k] + owed + downs
  /\ \A k \in Keys : /\ swallowed[k] \in {0, 1}
                     /\ swallowed[k] = 1 => rpc = "done" /\ k = rmsg

\* CONFIRMED against the replies taken.
ConfirmInv ==
  \A k \in Seqs :
    confirmed[k] + (IF cpc = "record" /\ cmsg = k THEN 1 ELSE 0) <= taken[k]

\* main: what it waits for, the file it writes and the code it returns.
MainInv ==
  /\ mpc # "run" => ppc \in {"done", "failed"} /\ stop
  /\ ppc = "failed" => "producer" \in errors
  /\ cpc = "failed" => "consumer" \in errors
  /\ mpc = "exited" => cpc \in {"done", "failed", "killed"}
  /\ rc = 0 => mpc = "exited" /\ errors = {}
  /\ mpc \in {"exit", "exited"} =>
       /\ appfile.sent = sent
       /\ cpc \in {"commit", "record"} => confirmed = appfile.confirmed
       /\ \A k \in Keys : /\ appfile.confirmed[k] <= confirmed[k]
                          /\ confirmed[k] <= appfile.confirmed[k] + 1

\* A ledger file is a past state of its ledger.
FileInv ==
  /\ \A k \in Keys : /\ appfile.sent[k] <= sent[k]
                     /\ appfile.confirmed[k] <= confirmed[k]
                     /\ watchfile[k] <= received[k]
  /\ rpc \in {"done", "failed"} => watchfile = received

IInv ==
  /\ TypeOK /\ UowInv /\ AccountInv /\ SendInv
  /\ WatcherInv /\ ConfirmInv /\ MainInv /\ FileInv

-----------------------------------------------------------------------------
(***************************************************************************)
(* Liveness.                                                               *)
(***************************************************************************)

\* Whatever the queue manager does, the flow and a responder with a deadline
\* end: no side waits for ever on a message, a connection or the other side.
BothEnd == <>rlate => <>(mpc = "exited" /\ rpc \in {"done", "failed"})

\* While a responder serves, a request recorded as SENT does not stay on the
\* queue: connections are rebuilt until it is processed or expires.
SentServed ==
  []~rlate =>
    \A k \in Seqs : sent[k] = 1 ~> processed[k] + expired[k] > 0 \/ rpc = "failed"

-----------------------------------------------------------------------------
(***************************************************************************)
(* Claims of the repository's comments the code does not keep.             *)
(***************************************************************************)

\* "a double-landing is a detectable duplicate (classifier's Duplicated
\* bucket)": a seq the SVC processed twice has two RECEIVED entries once both
\* clients are done.
DoubleLandingDetectable ==
  mpc = "exited" /\ rpc = "done" =>
    \A k \in Seqs : processed[k] >= 2 => received[k] >= 2

\* "the request is requeued and we re-get it": a request whose reply put fails
\* is never consumed without its reply.
FailedReplyRequeued == \A k \in Seqs : swallowed[k] = 0
=============================================================================
