---------------------------- MODULE QueueManager ----------------------------
(***************************************************************************)
(* The IBM MQ queue manager as the DR clients use it: three client         *)
(* connections, each with one unit of work (UOW), the request queue, the   *)
(* reply queue and the dead-letter queue.  IBM MQ itself is not part of    *)
(* the repository: the semantics here are those the clients and their fake *)
(* (tests/fake_dr_ibmmq.py) rely on:                                       *)
(*                                                                         *)
(*   - a put is visible, and a get permanent, only once the UOW commits;   *)
(*   - a backout, or the end of the queue manager, restores what was got;  *)
(*   - a failed put leaves the UOW, and the get in it, open;               *)
(*   - MQDISC on a live connection COMMITS the open UOW;                   *)
(*   - a quiescing queue manager refuses put and get (FAIL_IF_QUIESCING)   *)
(*     and new connections, and still completes MQCMIT;                    *)
(*   - a commit in flight when the queue manager fails is in doubt.        *)
(*                                                                         *)
(* A message is identified by its business key, the DRv1 seq (the uuid is  *)
(* made together with the seq and never without it).  Key 0 is a message   *)
(* with no DRv1 body.  A queue is a bag: the number of copies of each key. *)
(***************************************************************************)
EXTENDS Integers

CONSTANTS
  MaxSeq,         \* bound: the producer makes at most this many messages
  MaxDowns,       \* bound: how often the queue manager goes down
  MaxForeign,     \* bound: messages without a DRv1 body put by others
  Expiry,         \* whether requests carry an expiry (--expiry)
  Deadq,          \* whether the queue manager has a dead-letter queue
  BrokenMayLand   \* whether a commit that returns a RECONNECT reason may
                  \* have landed (the clients' comments say it did not)

ASSUME QMAssumption ==
  /\ MaxSeq \in Nat /\ MaxDowns \in Nat /\ MaxForeign \in Nat
  /\ Expiry \in BOOLEAN /\ Deadq \in BOOLEAN /\ BrokenMayLand \in BOOLEAN

VARIABLES
  qm,         \* "up", "quiescing" (endmqm in progress) or "down"
  conn,       \* per client: "none" (qmgr is None), "ok", "interrupted" (the
              \* client library reconnected: the next call returns 2549/2003)
              \* or "dead" (the next call returns a RECONNECT reason)
  reqq,       \* committed copies of each key on the request queue
  repq,       \* committed copies of each key on the reply queue
  dlq,        \* number of messages on the dead-letter queue
  got,        \* per client: copies got in the open UOW
  put,        \* per client: copies put in the open UOW
  downs,      \* times the queue manager went down
  foreign     \* messages without a DRv1 body put so far

\* History: what the queue manager really did, whatever the ledgers say.
VARIABLES
  landed,     \* copies of each key committed onto the request queue
  expired,    \* copies of each key that expired on the request queue
  processed,  \* request gets committed with their reply (key 0: dead letter)
  swallowed,  \* request gets committed without a reply or a dead letter
  taken       \* reply gets committed

qmVars == <<qm, conn, reqq, repq, dlq, got, put, downs, foreign,
            landed, expired, processed, swallowed, taken>>

Procs   == {"producer", "consumer", "responder"}
NotDRv1 == 0
Seqs    == 1..MaxSeq
Keys    == Seqs \cup {NotDRv1}
Nothing == [k \in Keys |-> 0]

Add(f, k)  == [f EXCEPT ![k] = @ + 1]
Drop(f, k) == [f EXCEPT ![k] = @ - 1]

QMTypeOK ==
  /\ qm \in {"up", "quiescing", "down"}
  /\ conn \in [Procs -> {"none", "ok", "interrupted", "dead"}]
  /\ reqq \in [Keys -> Nat] /\ repq \in [Keys -> Nat] /\ dlq \in Nat
  /\ got \in [Procs -> [Keys -> Nat]] /\ put \in [Procs -> [Keys -> Nat]]
  /\ downs \in 0..MaxDowns /\ foreign \in 0..MaxForeign
  /\ landed \in [Keys -> Nat] /\ expired \in [Keys -> Nat]
  /\ processed \in [Keys -> Nat] /\ swallowed \in [Keys -> Int]
  /\ taken \in [Keys -> Nat]

QMInit ==
  /\ qm = "up" /\ conn = [p \in Procs |-> "none"]
  /\ reqq = Nothing /\ repq = Nothing /\ dlq = 0
  /\ got = [p \in Procs |-> Nothing] /\ put = [p \in Procs |-> Nothing]
  /\ downs = 0 /\ foreign = 0
  /\ landed = Nothing /\ expired = Nothing
  /\ processed = Nothing /\ swallowed = Nothing /\ taken = Nothing

-----------------------------------------------------------------------------
(***************************************************************************)
(* Units of work.  C is the set of clients whose UOW commits, B the set    *)
(* whose UOW is backed out; the two are disjoint.  The producer puts on    *)
(* the request queue, the consumer gets from the reply queue, the          *)
(* responder gets from the request queue and puts a reply (or, for key 0,  *)
(* a dead letter).                                                         *)
(***************************************************************************)
Of(p, S, f, k) == IF p \in S THEN f[p][k] ELSE 0

Resolve(C, B) ==
  /\ reqq' = [k \in Keys |-> reqq[k] + Of("producer", C, put, k)
                                     + Of("responder", B, got, k)]
  /\ repq' = [k \in Keys |-> repq[k] + (IF k = NotDRv1 THEN 0
                                        ELSE Of("responder", C, put, k))
                                     + Of("consumer", B, got, k)]
  /\ dlq' = dlq + Of("responder", C, put, NotDRv1)
  /\ landed' = [k \in Keys |-> landed[k] + Of("producer", C, put, k)]
  /\ processed' = [k \in Keys |-> processed[k] + Of("responder", C, put, k)]
  /\ swallowed' = [k \in Keys |-> swallowed[k] + Of("responder", C, got, k)
                                               - Of("responder", C, put, k)]
  /\ taken' = [k \in Keys |-> taken[k] + Of("consumer", C, got, k)]
  /\ got' = [p \in Procs |-> IF p \in C \cup B THEN Nothing ELSE got[p]]
  /\ put' = [p \in Procs |-> IF p \in C \cup B THEN Nothing ELSE put[p]]

queueVars == <<reqq, repq, dlq, got, put, landed, processed, swallowed, taken>>
envVars   == <<qm, downs, foreign, expired>>

SetConn(p, c) == conn' = [conn EXCEPT ![p] = c]

\* dr_mqi.connect_retry: MQCONNX is repeated until it succeeds, which it does
\* only on a queue manager that is up; the attempts before it are stuttering.
Connect(p) ==
  /\ conn[p] = "none" /\ qm = "up"
  /\ SetConn(p, "ok")
  /\ UNCHANGED <<queueVars, envVars>>

\* MQCMIT on a live connection.
Commit(p) ==
  /\ conn[p] = "ok"
  /\ Resolve({p}, {})
  /\ UNCHANGED <<conn, envVars>>

\* CALL_INTERRUPTED (2549) or MQRC_BACKED_OUT (2003 of RETRY_INPLACE): the call
\* returns once the client library has reconnected; the UOW was settled when
\* the queue manager went down, the handle is usable.
Interrupted(p) ==
  /\ conn[p] = "interrupted" /\ qm = "up"
  /\ SetConn(p, "ok")
  /\ UNCHANGED <<queueVars, envVars>>

\* The call returns a reason of RECONNECT and the client drops its handle.
Broken(p) ==
  /\ conn[p] = "dead"
  /\ SetConn(p, "none")
  /\ UNCHANGED <<queueVars, envVars>>

\* MQDISC: commits the open UOW of a live connection.
Disconnect(p) ==
  /\ Resolve(IF conn[p] = "ok" THEN {p} ELSE {}, {})
  /\ SetConn(p, "none")
  /\ UNCHANGED envVars

\* MQBACK and then MQDISC.
BackoutAndDisconnect(p) ==
  /\ Resolve({}, {p})
  /\ SetConn(p, "none")
  /\ UNCHANGED envVars

-----------------------------------------------------------------------------
(***************************************************************************)
(* What happens to the queue manager and around it.                        *)
(***************************************************************************)

\* A controlled endmqm begins.
EndMqm ==
  /\ qm = "up" /\ downs < MaxDowns
  /\ qm' = "quiescing"
  /\ UNCHANGED <<conn, queueVars, downs, foreign, expired>>

\* The queue manager goes down.  Commits in flight (committing) may have
\* landed; every other open UOW is rolled back.  A controlled end breaks
\* every connection; after an abrupt one the client library may reconnect.
QmDown(committing) ==
  /\ qm # "down" /\ downs < MaxDowns
  /\ \E landing \in SUBSET committing, broken \in SUBSET Procs :
       /\ qm = "quiescing" => broken = Procs
       /\ landing \cap broken = {} \/ BrokenMayLand
       /\ Resolve(landing, Procs \ landing)
       /\ conn' = [p \in Procs |-> IF conn[p] = "none" THEN "none"
                                   ELSE IF p \in broken THEN "dead"
                                   ELSE IF conn[p] = "dead" THEN "dead"
                                   ELSE "interrupted"]
  /\ qm' = "down" /\ downs' = downs + 1
  /\ UNCHANGED <<foreign, expired>>

\* The queue manager is started again (on the survivor).
QmStart ==
  /\ qm = "down"
  /\ qm' = "up"
  /\ UNCHANGED <<conn, queueVars, downs, foreign, expired>>

\* A request on the queue reaches its expiry.
Expire ==
  /\ Expiry
  /\ \E k \in Seqs : /\ reqq[k] > 0
                     /\ reqq' = Drop(reqq, k)
                     /\ expired' = Add(expired, k)
  /\ UNCHANGED <<qm, conn, repq, dlq, got, put, downs, foreign,
                 landed, processed, swallowed, taken>>

\* Another program puts a message without a DRv1 body on the request queue,
\* or on the reply queue with the run's CorrelId.
PutForeign ==
  /\ qm = "up" /\ foreign < MaxForeign
  /\ foreign' = foreign + 1
  /\ \/ /\ reqq' = Add(reqq, NotDRv1)
        /\ UNCHANGED repq
     \/ /\ repq' = Add(repq, NotDRv1)
        /\ UNCHANGED reqq
  /\ UNCHANGED <<qm, conn, dlq, got, put, downs, expired,
                 landed, processed, swallowed, taken>>
=============================================================================
