------------------------------ MODULE DRSafety ------------------------------
(***************************************************************************)
(* Safety of DRSystem for every number of messages, failures and foreign   *)
(* messages, with or without expiry, a dead-letter queue, in-doubt broken  *)
(* commits and unexpected errors.                                          *)
(***************************************************************************)
EXTENDS DRVerdict, TLAPS

-----------------------------------------------------------------------------
(***************************************************************************)
(* Type correctness.                                                       *)
(***************************************************************************)

\* Committing some units of work and backing out others keeps every count a
\* natural number (swallowed an integer).
LEMMA ResolveType ==
  ASSUME QMTypeOK, NEW C \in SUBSET Procs, NEW B \in SUBSET Procs, Resolve(C, B)
  PROVE  /\ reqq' \in [Keys -> Nat] /\ repq' \in [Keys -> Nat] /\ dlq' \in Nat
         /\ got' \in [Procs -> [Keys -> Nat]] /\ put' \in [Procs -> [Keys -> Nat]]
         /\ landed' \in [Keys -> Nat] /\ processed' \in [Keys -> Nat]
         /\ swallowed' \in [Keys -> Int] /\ taken' \in [Keys -> Nat]
  <1>1. \A p \in Procs, S \in SUBSET Procs, k \in Keys :
          Of(p, S, got, k) \in Nat /\ Of(p, S, put, k) \in Nat
    BY DEF Of, QMTypeOK
  <1>2. Nothing \in [Keys -> Nat]
    BY DEF Nothing
  <1>3. "producer" \in Procs /\ "consumer" \in Procs /\ "responder" \in Procs
        /\ NotDRv1 \in Keys
    BY DEF Procs, Keys
  <1>4. reqq' \in [Keys -> Nat] /\ landed' \in [Keys -> Nat]
        /\ processed' \in [Keys -> Nat] /\ taken' \in [Keys -> Nat]
    BY <1>1, <1>3, QMAssumption, FlowAssumption DEF Resolve, QMTypeOK
  <1>5. repq' \in [Keys -> Nat] /\ dlq' \in Nat
    BY <1>1, <1>3 DEF Resolve, QMTypeOK
  <1>6. swallowed' \in [Keys -> Int]
    BY <1>1, <1>3 DEF Resolve, QMTypeOK
  <1>7. got' \in [Procs -> [Keys -> Nat]] /\ put' \in [Procs -> [Keys -> Nat]]
    BY <1>2 DEF Resolve, QMTypeOK
  <1> QED
    BY <1>4, <1>5, <1>6, <1>7

\* The calls a client makes on its connection keep QMTypeOK.
LEMMA CallType ==
  ASSUME QMTypeOK, NEW p \in Procs,
         \/ Connect(p) \/ Commit(p) \/ Interrupted(p) \/ Broken(p)
         \/ Disconnect(p) \/ BackoutAndDisconnect(p)
  PROVE  QMTypeOK'
  <1>1. CASE Connect(p) \/ Interrupted(p) \/ Broken(p)
    BY <1>1 DEF QMTypeOK, Connect, Interrupted, Broken, SetConn, queueVars, envVars
  <1>2. CASE Commit(p)
    BY <1>2, ResolveType DEF Commit, QMTypeOK, envVars
  <1>3. CASE Disconnect(p)
    <2>1. PICK C \in SUBSET Procs : Resolve(C, {})
      BY <1>3 DEF Disconnect
    <2> QED
      BY <1>3, <2>1, ResolveType DEF Disconnect, SetConn, QMTypeOK, envVars
  <1>4. CASE BackoutAndDisconnect(p)
    BY <1>4, ResolveType DEF BackoutAndDisconnect, SetConn, QMTypeOK, envVars
  <1> QED
    BY <1>1, <1>2, <1>3, <1>4

\* Adding one to a count, and taking one from a positive count.
LEMMA AddDropType ==
  ASSUME NEW f \in [Keys -> Nat], NEW k \in Keys
  PROVE  Add(f, k) \in [Keys -> Nat] /\ (f[k] > 0 => Drop(f, k) \in [Keys -> Nat])
  BY DEF Add, Drop

\* The queue manager's steps keep the types.
LEMMA QMStepType ==
  ASSUME TypeOK, QMNext
  PROVE  QMTypeOK'
  <1> USE DEF TypeOK
  <1>1. CASE EndMqm \/ QmStart
    BY <1>1 DEF QMTypeOK, EndMqm, QmStart, queueVars
  <1>2. CASE QmDown(Committing)
    <2>1. PICK landing \in SUBSET Committing, broken \in SUBSET Procs :
            /\ Resolve(landing, Procs \ landing)
            /\ conn' = [p \in Procs |-> IF conn[p] = "none" THEN "none"
                                        ELSE IF p \in broken THEN "dead"
                                        ELSE IF conn[p] = "dead" THEN "dead"
                                        ELSE "interrupted"]
      BY <1>2 DEF QmDown
    <2>2. landing \in SUBSET Procs /\ Procs \ landing \in SUBSET Procs
      BY <2>1 DEF Committing
    <2>3. /\ reqq' \in [Keys -> Nat] /\ repq' \in [Keys -> Nat] /\ dlq' \in Nat
          /\ got' \in [Procs -> [Keys -> Nat]] /\ put' \in [Procs -> [Keys -> Nat]]
          /\ landed' \in [Keys -> Nat] /\ processed' \in [Keys -> Nat]
          /\ swallowed' \in [Keys -> Int] /\ taken' \in [Keys -> Nat]
      BY <2>1, <2>2, ResolveType
    <2>4. conn' \in [Procs -> {"none", "ok", "interrupted", "dead"}]
      BY <2>1
    <2>5. qm' \in {"up", "quiescing", "down"} /\ downs' \in 0..MaxDowns
          /\ UNCHANGED <<foreign, expired>>
      BY <1>2, QMAssumption, FlowAssumption DEF QmDown, QMTypeOK
    <2> QED
      BY <2>3, <2>4, <2>5 DEF QMTypeOK
  <1>3. CASE Expire
    BY <1>3, AddDropType DEF QMTypeOK, Expire, Keys
  <1>4. CASE PutForeign
    <2>1. NotDRv1 \in Keys
      BY DEF Keys
    <2>2. reqq' \in [Keys -> Nat] /\ repq' \in [Keys -> Nat]
      BY <1>4, <2>1, AddDropType DEF QMTypeOK, PutForeign
    <2>3. foreign' \in 0..MaxForeign
      BY <1>4, QMAssumption, FlowAssumption DEF QMTypeOK, PutForeign
    <2> QED
      BY <1>4, <2>2, <2>3 DEF QMTypeOK, PutForeign
  <1> QED
    BY <1>1, <1>2, <1>3, <1>4 DEF QMNext

\* dr_flow's steps keep the types.
LEMMA FlowStepType ==
  ASSUME TypeOK, FlowNext
  PROVE  QMTypeOK' /\ FlowTypeOK'
  <1> USE DEF TypeOK
  <1> DEFINE Same == UNCHANGED qmVars
  <1>0. /\ "producer" \in Procs /\ "consumer" \in Procs /\ NotDRv1 \in Keys
        /\ Same => QMTypeOK'
    BY DEF Procs, Keys, QMTypeOK, qmVars
  <1>1. CASE Deadline \/ MainStop \/ MainJoin \/ MainWrite
    <2>1. QMTypeOK'
      BY <1>0, <1>1 DEF Deadline, MainStop, MainJoin, MainWrite
    <2>2. appfile' \in [sent : [Keys -> Nat], confirmed : [Keys -> Nat]]
      BY <1>1 DEF FlowTypeOK, Deadline, MainStop, MainJoin, MainWrite, mainVars
    <2>3. late' \in BOOLEAN /\ stop' \in BOOLEAN
      BY <1>1 DEF FlowTypeOK, Deadline, MainStop, MainJoin, MainWrite
    <2> QED
      BY <1>1, <2>1, <2>2, <2>3
         DEF FlowTypeOK, Deadline, MainStop, MainJoin, MainWrite, prodVars, consVars, mainVars
  <1>2. CASE ProducerConnect \/ ConsumerConnect
    BY <1>0, <1>2, CallType DEF FlowTypeOK, ProducerConnect, ConsumerConnect, flowVars
  <1>3. CASE ProducerPut
    <2>1. seq' \in 0..MaxSeq /\ pending' \in Keys
      BY <1>3, QMAssumption, FlowAssumption DEF ProducerPut, BuildPending, FlowTypeOK, Keys, Seqs
    <2>2. FlowTypeOK'
      BY <1>3, <2>1 DEF ProducerPut, FlowTypeOK, consVars, mainVars
    <2>3. CASE conn["producer"] = "ok" /\ qm = "up"
      <3>1. /\ put' = [put EXCEPT !["producer"] = Add(@, pending')]
            /\ UNCHANGED <<qm, conn, reqq, repq, dlq, got, downs, foreign,
                           landed, expired, processed, swallowed, taken>>
        BY <1>3, <2>3 DEF ProducerPut, Interrupted, Broken
      <3>2. Add(put["producer"], pending') \in [Keys -> Nat]
        BY <1>0, <2>1, AddDropType DEF QMTypeOK
      <3>3. put' \in [Procs -> [Keys -> Nat]]
        BY <1>0, <3>1, <3>2 DEF QMTypeOK
      <3> QED
        BY <2>2, <3>1, <3>3 DEF QMTypeOK
    <2>4. CASE conn["producer"] = "ok" /\ qm = "quiescing"
      <3>1. Resolve({}, {"producer"}) /\ UNCHANGED <<conn, envVars>>
        BY <1>3, <2>4 DEF ProducerPut, Interrupted, Broken
      <3> QED
        BY <1>0, <2>2, <3>1, ResolveType DEF QMTypeOK, envVars
    <2>5. CASE Interrupted("producer") \/ Broken("producer")
      BY <1>0, <2>2, <2>5, CallType
    <2> QED
      BY <1>3, <2>2, <2>3, <2>4, <2>5 DEF ProducerPut
  <1>4. CASE ProducerCommit
    BY <1>0, <1>4, CallType DEF FlowTypeOK, ProducerCommit, consVars, mainVars
  <1>5. CASE ProducerRecord
    BY <1>0, <1>5, AddDropType DEF FlowTypeOK, ProducerRecord, consVars, mainVars, Keys, NotDRv1
  <1>6. CASE ProducerExit \/ ProducerRaise
    BY <1>0, <1>6, CallType DEF FlowTypeOK, ProducerExit, ProducerRaise, consVars, mainVars
  <1>7. CASE ConsumerGet
    <2>1. CASE Interrupted("consumer") \/ Broken("consumer")
      BY <1>0, <1>7, <2>1, CallType
         DEF ConsumerGet, FlowTypeOK, consVars, prodVars, mainVars, Interrupted, Broken
    <2>2. CASE conn["consumer"] = "ok"
      <3>1. PICK k \in Seqs : /\ repq[k] > 0 /\ repq' = Drop(repq, k) /\ cmsg' = k
                              /\ got' = [got EXCEPT !["consumer"] = Add(@, k)]
                              /\ cpc' = "commit"
                              /\ UNCHANGED <<qm, conn, reqq, dlq, put, downs, foreign,
                                   landed, expired, processed, swallowed, taken>>
        BY <1>7, <2>2 DEF ConsumerGet, Interrupted, Broken
      <3>2. k \in Keys
        BY DEF Keys
      <3>3. QMTypeOK'
        BY <1>0, <3>1, <3>2, AddDropType DEF QMTypeOK
      <3> QED
        BY <1>7, <3>1, <3>2, <3>3 DEF ConsumerGet, FlowTypeOK, prodVars, mainVars
    <2> QED
      BY <1>7, <2>1, <2>2 DEF ConsumerGet
  <1>8. CASE ConsumerGetNotDRv1 \/ ConsumerRaise
    BY <1>0, <1>8, CallType DEF FlowTypeOK, ConsumerGetNotDRv1, ConsumerRaise,
                                ConsumerFails, prodVars, mainVars
  <1>9. CASE ConsumerCommit \/ ConsumerExit
    BY <1>0, <1>9, CallType DEF FlowTypeOK, ConsumerCommit, ConsumerExit, prodVars, mainVars
  <1>10. CASE ConsumerRecord
    BY <1>0, <1>10, AddDropType DEF FlowTypeOK, ConsumerRecord, prodVars, mainVars
  <1>11. CASE MainExit
    BY <1>0, <1>11, CallType DEF FlowTypeOK, MainExit, prodVars, qmVars
  <1> QED
    BY <1>1, <1>2, <1>3, <1>4, <1>5, <1>6, <1>7, <1>8, <1>9, <1>10, <1>11 DEF FlowNext

\* dr_responder's steps keep the types.
LEMMA RespStepType ==
  ASSUME TypeOK, RespNext(Unexpected)
  PROVE  QMTypeOK' /\ RespTypeOK'
  <1> USE DEF TypeOK
  <1>0. "responder" \in Procs /\ (UNCHANGED qmVars => QMTypeOK')
    BY DEF Procs, QMTypeOK, qmVars
  <1>1. CASE RespDeadline \/ RespConnect
    BY <1>0, <1>1, CallType DEF RespDeadline, RespConnect, RespTypeOK, respVars
  <1>2. CASE RespGet
    <2>1. CASE Interrupted("responder") \/ Broken("responder")
      BY <1>0, <1>2, <2>1, CallType DEF RespGet, RespTypeOK, Interrupted, Broken
    <2>2. CASE conn["responder"] = "ok"
      <3>1. PICK k \in Keys : /\ reqq[k] > 0 /\ reqq' = Drop(reqq, k) /\ rmsg' = k
                              /\ got' = [got EXCEPT !["responder"] = Add(@, k)]
                              /\ rpc' = IF k = NotDRv1 THEN "deadletter" ELSE "put"
                              /\ UNCHANGED <<qm, conn, repq, dlq, put, downs, foreign,
                                   landed, expired, processed, swallowed, taken>>
        BY <1>2, <2>2 DEF RespGet, Interrupted, Broken
      <3> QED
        BY <1>0, <1>2, <3>1, AddDropType DEF QMTypeOK, RespGet, RespTypeOK
    <2> QED
      BY <1>2, <2>1, <2>2 DEF RespGet
  <1>3. ASSUME PutInUow  PROVE QMTypeOK'
    BY <1>0, <1>3, AddDropType DEF QMTypeOK, PutInUow, RespTypeOK
  <1>4. CASE RespPutReply \/ RespDeadLetter
    BY <1>0, <1>3, <1>4, CallType
       DEF RespPutReply, RespDeadLetter, PutFails, PutInUow, RespTypeOK
  <1>5. CASE RespCommit \/ RespExit \/ RespRaise(Unexpected)
    BY <1>0, <1>5, CallType DEF RespCommit, RespExit, RespRaise, RespTypeOK
  <1>6. CASE RespRecord
    BY <1>0, <1>6, AddDropType DEF RespRecord, RespTypeOK
  <1> QED
    BY <1>1, <1>2, <1>4, <1>5, <1>6 DEF RespNext

\* The initial state has its types.
LEMMA InitType == Init => TypeOK
  <1> SUFFICES ASSUME Init PROVE TypeOK
    OBVIOUS
  <1>1. Nothing \in [Keys -> Nat] /\ 0 \in Keys /\ Nothing \in [Keys -> Int]
    BY DEF Nothing, Keys, NotDRv1
  <1>2. QMTypeOK
    BY <1>1, QMAssumption, FlowAssumption DEF Init, QMInit, QMTypeOK
  <1>3. FlowTypeOK
    <2>1. appfile \in [sent : [Keys -> Nat], confirmed : [Keys -> Nat]]
      BY <1>1 DEF Init, FlowInit
    <2>2. seq \in 0..MaxSeq
      BY QMAssumption, FlowAssumption DEF Init, FlowInit
    <2>3. late \in BOOLEAN /\ stop \in BOOLEAN
      BY DEF Init, FlowInit
    <2> QED
      BY <1>1, <2>1, <2>2, <2>3 DEF Init, FlowInit, FlowTypeOK
  <1>4. RespTypeOK
    BY <1>1 DEF Init, RespInit, RespTypeOK
  <1> QED
    BY <1>2, <1>3, <1>4 DEF TypeOK

\* Every reachable state of the clients and the queue manager is well typed,
\* for any number of messages and failures.
THEOREM TypeCorrect == Spec => []TypeOK
  <1>1. Init => TypeOK
    BY InitType
  <1>2. TypeOK /\ [Next]_vars => TypeOK'
    <2> SUFFICES ASSUME TypeOK, [Next]_vars PROVE TypeOK'
      OBVIOUS
    <2>1. CASE QMNext /\ UNCHANGED <<flowVars, respVars>>
      BY <2>1, QMStepType DEF TypeOK, FlowTypeOK, RespTypeOK, flowVars, respVars
    <2>2. CASE FlowNext /\ UNCHANGED respVars
      BY <2>2, FlowStepType DEF TypeOK, RespTypeOK, respVars
    <2>3. CASE RespNext(Unexpected) /\ UNCHANGED flowVars
      BY <2>3, RespStepType DEF TypeOK, FlowTypeOK, flowVars
    <2>4. CASE UNCHANGED vars
      BY <2>4 DEF vars, qmVars, flowVars, respVars, TypeOK, QMTypeOK, FlowTypeOK, RespTypeOK
    <2> QED
      BY <2>1, <2>2, <2>3, <2>4 DEF Next
  <1> QED
    BY <1>1, <1>2, PTL DEF Spec

-----------------------------------------------------------------------------
(***************************************************************************)
(* The inductive invariant and the safety properties it gives.             *)
(***************************************************************************)

(***************************************************************************)
(* What committing and backing out do to each count.                       *)
(***************************************************************************)
ResolvedAt(C, B, k) ==
  /\ reqq'[k] = reqq[k] + Of("producer", C, put, k) + Of("responder", B, got, k)
  /\ repq'[k] = repq[k] + (IF k = NotDRv1 THEN 0 ELSE Of("responder", C, put, k))
                + Of("consumer", B, got, k)
  /\ landed'[k] = landed[k] + Of("producer", C, put, k)
  /\ processed'[k] = processed[k] + Of("responder", C, put, k)
  /\ swallowed'[k] = swallowed[k] + Of("responder", C, got, k)
                                  - Of("responder", C, put, k)
  /\ taken'[k] = taken[k] + Of("consumer", C, got, k)
  /\ \A p \in Procs : /\ got'[p][k] = IF p \in C \cup B THEN 0 ELSE got[p][k]
                      /\ put'[p][k] = IF p \in C \cup B THEN 0 ELSE put[p][k]

\* One UOW settled, client by client (QueueManager!Resolve).
LEMMA ResolveAt ==
  ASSUME NEW C \in SUBSET Procs, NEW B \in SUBSET Procs, Resolve(C, B), NEW k \in Keys
  PROVE  ResolvedAt(C, B, k)
  BY DEF Resolve, Nothing, ResolvedAt

\* The elements of the constant sets.
LEMMA Members ==
  /\ "producer" \in Procs /\ "consumer" \in Procs /\ "responder" \in Procs
  /\ NotDRv1 \in Keys /\ \A k \in Seqs : k \in Keys /\ k # NotDRv1 /\ k \in Nat
  BY DEF Procs, Keys, Seqs, NotDRv1

\* The counts of one key as numbers.
LEMMA Counts ==
  ASSUME TypeOK, NEW k \in Keys
  PROVE  /\ got["responder"][k] \in Nat /\ got["consumer"][k] \in Nat
         /\ got["producer"][k] \in Nat /\ put["consumer"][k] \in Nat
         /\ put["producer"][k] \in Nat /\ put["responder"][k] \in Nat
         /\ landed[k] \in Nat /\ reqq[k] \in Nat /\ repq[k] \in Nat
         /\ processed[k] \in Nat /\ taken[k] \in Nat /\ swallowed[k] \in Int
         /\ expired[k] \in Nat /\ sent[k] \in Nat /\ confirmed[k] \in Nat
         /\ received[k] \in Nat
  BY Members DEF TypeOK, QMTypeOK, FlowTypeOK, RespTypeOK

\* Moving whole units of work keeps the account of every message balanced.
LEMMA ResolveAccount ==
  ASSUME TypeOK, UowInv, AccountInv, UNCHANGED expired,
         NEW C \in SUBSET Procs, NEW B \in SUBSET Procs, C \cap B = {}, Resolve(C, B)
  PROVE  AccountInv'
  <1>1. ASSUME NEW k \in Keys PROVE put["responder"][k] <= got["responder"][k]
    BY Counts, <1>1 DEF UowInv, UowAt
  <1>2. ASSUME NEW k \in Keys PROVE swallowed'[k] >= 0
    <2>1. ResolvedAt(C, B, k)
      BY ResolveAt, <1>2
    <2>2. swallowed[k] >= 0
      BY <1>2 DEF AccountInv
    <2> QED
      BY <1>1, <1>2, <2>1, <2>2, Counts DEF ResolvedAt, Of
  <1>3. ASSUME NEW k \in Seqs
        PROVE  /\ landed'[k] = reqq'[k] + got'["responder"][k] + processed'[k]
                               + swallowed'[k] + expired'[k]
               /\ processed'[k] = repq'[k] + got'["consumer"][k] + taken'[k]
    <2>1. k \in Keys /\ k # NotDRv1
      BY Members, <1>3
    <2>2. ResolvedAt(C, B, k)
      BY ResolveAt, <2>1
    <2>3. /\ landed[k] = reqq[k] + got["responder"][k] + processed[k]
                         + swallowed[k] + expired[k]
          /\ processed[k] = repq[k] + got["consumer"][k] + taken[k]
      BY <1>3 DEF AccountInv
    <2>4. ~("responder" \in C /\ "responder" \in B) /\ ~("consumer" \in C /\ "consumer" \in B)
      OBVIOUS
    <2> QED
      BY <2>1, <2>2, <2>3, <2>4, Counts, Members DEF ResolvedAt, Of
  <1> QED
    BY <1>2, <1>3 DEF AccountInv

-----------------------------------------------------------------------------
(***************************************************************************)
(* Units of work.                                                          *)
(***************************************************************************)

\* A client's call leaves the units of work of the other two alone ...
OthersKept(p, k) ==
  /\ qm' = qm
  /\ \A o \in Procs \ {p} : /\ conn'[o] = conn[o]
                            /\ got'[o][k] = got[o][k] /\ put'[o][k] = put[o][k]

\* ... and keeps or empties its own.
OwnKept(p, k)    == got'[p][k] = got[p][k] /\ put'[p][k] = put[p][k]
OwnEmptied(p, k) == got'[p][k] = 0 /\ put'[p][k] = 0

\* Connecting, or learning that a connection broke, moves no message.
LEMMA HandleEffect ==
  ASSUME TypeOK, NEW p \in Procs, NEW k \in Keys,
         Connect(p) \/ Interrupted(p) \/ Broken(p)
  PROVE  /\ OthersKept(p, k) /\ OwnKept(p, k)
         /\ \/ conn[p] \in {"none", "interrupted"} /\ qm = "up" /\ conn'[p] = "ok"
            \/ conn[p] = "dead" /\ conn'[p] = "none"
         /\ UNCHANGED <<queueVars, envVars>>
  BY DEF Connect, Interrupted, Broken, SetConn, queueVars, envVars, TypeOK, QMTypeOK,
         OthersKept, OwnKept

\* MQCMIT empties the caller's UOW and leaves the others alone.
LEMMA CommitEffect ==
  ASSUME TypeOK, NEW p \in Procs, NEW k \in Keys, Commit(p)
  PROVE  /\ OthersKept(p, k) /\ OwnEmptied(p, k)
         /\ conn[p] = "ok" /\ conn' = conn
         /\ ResolvedAt({p}, {}, k)
  <1>1. ResolvedAt({p}, {}, k)
    BY ResolveAt DEF Commit
  <1> QED
    BY <1>1 DEF Commit, ResolvedAt, OthersKept, OwnEmptied, envVars

\* MQDISC empties the caller's UOW and leaves the others alone.
LEMMA DisconnectEffect ==
  ASSUME TypeOK, NEW p \in Procs, NEW k \in Keys, Disconnect(p)
  PROVE  /\ OthersKept(p, k) /\ conn'[p] = "none"
         /\ conn[p] = "ok" => OwnEmptied(p, k) /\ ResolvedAt({p}, {}, k)
         /\ conn[p] # "ok" => OwnKept(p, k) /\ ResolvedAt({}, {}, k)
  <1>1. qm' = qm /\ conn' = [conn EXCEPT ![p] = "none"]
    BY DEF Disconnect, SetConn, envVars, OthersKept
  <1>2. CASE conn[p] = "ok"
    <2>1. ResolvedAt({p}, {}, k)
      BY <1>2, ResolveAt DEF Disconnect
    <2> QED
      BY <1>1, <1>2, <2>1 DEF ResolvedAt, OthersKept, OwnEmptied, TypeOK, QMTypeOK
  <1>3. CASE conn[p] # "ok"
    <2>1. ResolvedAt({}, {}, k)
      BY <1>3, ResolveAt DEF Disconnect
    <2> QED
      BY <1>1, <1>3, <2>1 DEF ResolvedAt, OthersKept, OwnKept, TypeOK, QMTypeOK
  <1> QED
    BY <1>2, <1>3

\* MQBACK and MQDISC empty the caller's UOW and leave the others alone.
LEMMA BackoutEffect ==
  ASSUME TypeOK, NEW p \in Procs, NEW k \in Keys, BackoutAndDisconnect(p)
  PROVE  /\ OthersKept(p, k) /\ conn'[p] = "none"
         /\ OwnEmptied(p, k) /\ ResolvedAt({}, {p}, k)
  <1>1. ResolvedAt({}, {p}, k)
    BY ResolveAt DEF BackoutAndDisconnect
  <1> QED
    BY <1>1 DEF BackoutAndDisconnect, SetConn, envVars, ResolvedAt, OthersKept, OwnEmptied,
                TypeOK, QMTypeOK

\* Ending, failing and starting the queue manager keep UowInv.
LEMMA UowQM ==
  ASSUME IInv, QMNext, UNCHANGED <<flowVars, respVars>>
  PROVE  UowInv'
  <1> USE DEF IInv, flowVars, respVars
  <1>1. CASE EndMqm
    BY <1>1 DEF EndMqm, queueVars, UowInv, UowAt
  <1>2. CASE QmStart
    BY <1>2 DEF QmStart, queueVars, UowInv, UowAt
  <1>3. CASE Expire \/ PutForeign
    BY <1>3 DEF Expire, PutForeign, UowInv, UowAt
  <1>4. CASE QmDown(Committing)
    <2>1. PICK landing \in SUBSET Committing, broken \in SUBSET Procs :
            /\ Resolve(landing, Procs \ landing)
            /\ conn' = [p \in Procs |-> IF conn[p] = "none" THEN "none"
                                        ELSE IF p \in broken THEN "dead"
                                        ELSE IF conn[p] = "dead" THEN "dead"
                                        ELSE "interrupted"]
      BY <1>4 DEF QmDown
    <2>2. landing \in SUBSET Procs /\ Procs \ landing \in SUBSET Procs
      BY <2>1 DEF Committing
    <2>3. \A p \in Procs : conn'[p] # "ok"
      BY <2>1
    <2>4. ASSUME NEW k \in Keys PROVE UowAt(k)'
      <3>1. ResolvedAt(landing, Procs \ landing, k)
        BY <2>1, <2>2, ResolveAt
      <3>2. \A p \in Procs : got'[p][k] = 0 /\ put'[p][k] = 0
        BY <2>2, <3>1 DEF ResolvedAt
      <3> QED
        BY <2>3, <3>2, Members DEF UowAt
    <2> QED
      BY <2>3, <2>4 DEF UowInv
  <1> QED
    BY <1>1, <1>2, <1>3, <1>4 DEF QMNext

\* Every step of dr_flow's threads keeps UowInv.
LEMMA UowFlow ==
  ASSUME IInv, FlowNext, UNCHANGED respVars
  PROVE  UowInv'
  <1> USE DEF IInv, respVars
  <1>0. UowInv /\ TypeOK
    OBVIOUS
  <1>1. CASE Deadline \/ MainStop \/ MainJoin \/ MainWrite \/ ConsumerRecord
    BY <1>0, <1>1 DEF Deadline, MainStop, MainJoin, MainWrite, ConsumerRecord, qmVars, prodVars,
                consVars, mainVars, UowInv, UowAt
  <1>2. CASE ProducerRecord
    BY <1>0, <1>2 DEF ProducerRecord, qmVars, consVars, UowInv, UowAt
  <1>3. SUFFICES ASSUME NEW k \in Keys,
                        ProducerConnect \/ ProducerPut \/ ProducerCommit \/ ProducerExit
                        \/ ProducerRaise \/ ConsumerConnect \/ ConsumerGet
                        \/ ConsumerGetNotDRv1 \/ ConsumerCommit \/ ConsumerExit
                        \/ ConsumerRaise \/ MainExit
                 PROVE  UowAt(k)' /\ \A p \in Procs : conn'[p] = "ok" => qm' # "down"
    BY <1>1, <1>2, Members DEF UowInv, FlowNext
  <1>4. UowAt(k) /\ \A p \in Procs : conn[p] = "ok" => qm # "down"
    BY <1>0 DEF UowInv
  <1>5. CASE ProducerConnect
    BY <1>4, <1>5, HandleEffect, Members
       DEF ProducerConnect, flowVars, OthersKept, OwnKept, UowAt
  <1>6. CASE ProducerPut
    <2>1. CASE Interrupted("producer") \/ Broken("producer")
      BY <1>4, <1>6, <2>1, HandleEffect, Members
         DEF ProducerPut, consVars, OthersKept, OwnKept, UowAt
    <2>2. CASE conn["producer"] = "ok" /\ qm = "up"
      BY <1>4, <1>6, <2>2, Members
         DEF ProducerPut, consVars, Interrupted, Broken, UowAt, Add, TypeOK, QMTypeOK
    <2>3. CASE conn["producer"] = "ok" /\ qm = "quiescing"
      <3>1. /\ Resolve({}, {"producer"}) /\ UNCHANGED <<conn, envVars, ppc>> /\ ppc = "loop"
            /\ UNCHANGED consVars
        BY <1>6, <2>3 DEF ProducerPut, Interrupted, Broken
      <3>2. ResolvedAt({}, {"producer"}, k)
        BY <3>1, ResolveAt, Members
      <3> QED
        BY <1>4, <3>1, <3>2, Members DEF ResolvedAt, envVars, consVars, UowAt
    <2> QED
      BY <1>6, <2>1, <2>2, <2>3 DEF ProducerPut
  <1>7. CASE ProducerCommit
    <2>1. CASE Commit("producer") /\ ppc' = "record"
      <3>1. OthersKept("producer", k) /\ OwnEmptied("producer", k) /\ conn' = conn
        BY <2>1, CommitEffect, Members
      <3> QED
        BY <1>4, <1>7, <2>1, <3>1, Members
           DEF ProducerCommit, consVars, OthersKept, OwnEmptied, UowAt
    <2>2. CASE (Interrupted("producer") \/ Broken("producer")) /\ ppc' = "loop"
      BY <1>4, <1>7, <2>2, HandleEffect, Members
         DEF ProducerCommit, consVars, OthersKept, OwnKept, UowAt
    <2> QED
      BY <1>7, <2>1, <2>2 DEF ProducerCommit
  <1>8. CASE ProducerExit \/ ProducerRaise
    <2>1. CASE Disconnect("producer")
      <3>1. /\ OthersKept("producer", k) /\ conn'["producer"] = "none"
            /\ OwnEmptied("producer", k) \/ (OwnKept("producer", k) /\ conn["producer"] # "ok")
        BY <2>1, DisconnectEffect, Members
      <3> QED
        BY <1>4, <1>8, <3>1, Members
           DEF ProducerExit, ProducerRaise, consVars, OthersKept, OwnKept, OwnEmptied, UowAt
    <2>2. CASE BackoutAndDisconnect("producer")
      <3>1. /\ OthersKept("producer", k) /\ conn'["producer"] = "none"
            /\ OwnEmptied("producer", k)
        BY <2>2, BackoutEffect, Members
      <3> QED
        BY <1>4, <1>8, <3>1, Members
           DEF ProducerExit, ProducerRaise, consVars, OthersKept, OwnEmptied, UowAt
    <2> QED
      BY <1>8, <2>1, <2>2 DEF ProducerExit, ProducerRaise
  <1>9. CASE ConsumerConnect
    BY <1>4, <1>9, HandleEffect, Members
       DEF ConsumerConnect, flowVars, OthersKept, OwnKept, UowAt
  <1>10. CASE ConsumerGet
    <2>1. CASE Interrupted("consumer") \/ Broken("consumer")
      BY <1>4, <1>10, <2>1, HandleEffect, Members
         DEF ConsumerGet, consVars, prodVars, OthersKept, OwnKept, UowAt, Interrupted, Broken
    <2>2. CASE conn["consumer"] = "ok"
      <3>1. PICK j \in Seqs : /\ cmsg' = j /\ cpc' = "commit" /\ cpc = "loop"
                              /\ got' = [got EXCEPT !["consumer"] = Add(@, j)]
                              /\ UNCHANGED <<qm, conn, put, prodVars>>
        BY <1>10, <2>2 DEF ConsumerGet, Interrupted, Broken
      <3>2. got'["consumer"][k] = IF k = j THEN 1 ELSE 0
        BY <1>4, <3>1, Members DEF UowAt, Add, TypeOK, QMTypeOK
      <3>3. got'["producer"] = got["producer"] /\ got'["responder"] = got["responder"]
        BY <3>1, Members DEF TypeOK, QMTypeOK
      <3> QED
        BY <1>4, <2>2, <3>1, <3>2, <3>3, Members DEF prodVars, UowAt
    <2> QED
      BY <1>10, <2>1, <2>2 DEF ConsumerGet
  <1>11. CASE ConsumerCommit
    <2>1. CASE Commit("consumer") /\ cpc' = "record"
      <3>1. OthersKept("consumer", k) /\ OwnEmptied("consumer", k) /\ conn' = conn
        BY <2>1, CommitEffect, Members
      <3> QED
        BY <1>4, <1>11, <2>1, <3>1, Members
           DEF ConsumerCommit, prodVars, OthersKept, OwnEmptied, UowAt
    <2>2. CASE (Interrupted("consumer") \/ Broken("consumer")) /\ cpc' = "loop"
      BY <1>4, <1>11, <2>2, HandleEffect, Members
         DEF ConsumerCommit, prodVars, OthersKept, OwnKept, UowAt
    <2> QED
      BY <1>11, <2>1, <2>2 DEF ConsumerCommit
  <1>12. CASE ConsumerExit \/ ConsumerGetNotDRv1 \/ ConsumerRaise \/ MainExit
    <2>1. UNCHANGED <<ppc, pending>> /\ (cpc' # "commit" \/ UNCHANGED <<qmVars, cpc, cmsg>>)
      BY <1>12 DEF ConsumerExit, ConsumerGetNotDRv1, ConsumerRaise, ConsumerFails, MainExit, prodVars,
                   ConsumerFinished
    <2>2. CASE Disconnect("consumer") /\ cpc' # "commit"
      <3>1. /\ OthersKept("consumer", k) /\ conn'["consumer"] = "none"
            /\ OwnEmptied("consumer", k) \/ (OwnKept("consumer", k) /\ conn["consumer"] # "ok")
        BY <2>2, DisconnectEffect, Members
      <3> QED
        BY <1>4, <2>1, <2>2, <3>1, Members DEF OthersKept, OwnKept, OwnEmptied, UowAt
    <2>3. CASE BackoutAndDisconnect("consumer") /\ cpc' # "commit"
      <3>1. /\ OthersKept("consumer", k) /\ conn'["consumer"] = "none"
            /\ OwnEmptied("consumer", k)
        BY <2>3, BackoutEffect, Members
      <3> QED
        BY <1>4, <2>1, <2>3, <3>1, Members DEF OthersKept, OwnEmptied, UowAt
    <2>4. CASE UNCHANGED <<qmVars, cpc, cmsg>>
      BY <1>4, <2>1, <2>4 DEF qmVars, UowAt
    <2> QED
      BY <1>12, <2>2, <2>3, <2>4
         DEF ConsumerExit, ConsumerGetNotDRv1, ConsumerRaise, ConsumerFails, MainExit
  <1> QED
    BY <1>3, <1>5, <1>6, <1>7, <1>8, <1>9, <1>10, <1>11, <1>12

\* Every step of dr_responder keeps UowInv.
LEMMA UowResp ==
  ASSUME IInv, RespNext(Unexpected), UNCHANGED flowVars
  PROVE  UowInv'
  <1> USE DEF IInv, flowVars
  <1>0. UowInv /\ TypeOK
    OBVIOUS
  <1>1. CASE RespDeadline \/ RespRecord
    BY <1>0, <1>1 DEF RespDeadline, RespRecord, qmVars, UowInv, UowAt
  <1>2. SUFFICES ASSUME NEW k \in Keys,
                        RespConnect \/ RespGet \/ RespPutReply \/ RespDeadLetter
                        \/ RespCommit \/ RespExit \/ RespRaise(Unexpected)
                 PROVE  UowAt(k)' /\ \A p \in Procs : conn'[p] = "ok" => qm' # "down"
    BY <1>1, Members DEF UowInv, RespNext
  <1>3. UowAt(k) /\ \A p \in Procs : conn[p] = "ok" => qm # "down"
    BY <1>0 DEF UowInv
  <1>4. CASE RespConnect
    BY <1>3, <1>4, HandleEffect, Members DEF RespConnect, respVars, OthersKept, OwnKept, UowAt
  <1>5. CASE RespGet
    <2>1. CASE Interrupted("responder") \/ Broken("responder")
      BY <1>3, <1>5, <2>1, HandleEffect, Members
         DEF RespGet, OthersKept, OwnKept, UowAt, Interrupted, Broken
    <2>2. CASE conn["responder"] = "ok"
      <3>1. PICK j \in Keys : /\ rmsg' = j /\ rpc' = IF j = NotDRv1 THEN "deadletter" ELSE "put"
                              /\ got' = [got EXCEPT !["responder"] = Add(@, j)]
                              /\ UNCHANGED <<qm, conn, put>> /\ qm = "up" /\ rpc = "loop"
        BY <1>5, <2>2 DEF RespGet, Interrupted, Broken
      <3>2. got["responder"][k] = 0
        BY <1>3, <3>1 DEF UowAt
      <3>3. got'["responder"][k] = IF k = j THEN 1 ELSE 0
        BY <3>1, <3>2, Members DEF Add, TypeOK, QMTypeOK
      <3>4. got'["producer"] = got["producer"] /\ got'["consumer"] = got["consumer"]
        BY <3>1, Members DEF TypeOK, QMTypeOK
      <3> QED
        BY <1>3, <2>2, <3>1, <3>3, <3>4, Members DEF UowAt
    <2> QED
      BY <1>5, <2>1, <2>2 DEF RespGet
  <1>6. CASE RespPutReply \/ RespDeadLetter
    <2>1. rpc \in {"put", "deadletter"} /\ rmsg' = rmsg
      BY <1>6 DEF RespPutReply, RespDeadLetter
    <2>2. CASE PutInUow
      <3>1. put'["responder"][k] = IF k = rmsg THEN 1 ELSE 0
        BY <1>3, <2>1, <2>2, Members DEF PutInUow, UowAt, Add, TypeOK, QMTypeOK
      <3>2. put'["producer"] = put["producer"] /\ put'["consumer"] = put["consumer"]
        BY <2>2, Members DEF PutInUow, TypeOK, QMTypeOK
      <3> QED
        BY <1>3, <2>1, <2>2, <3>1, <3>2, Members DEF PutInUow, UowAt
    <2>3. CASE conn["responder"] = "ok" /\ qm = "quiescing" /\ UNCHANGED qmVars /\ rpc' = "loop"
      BY <1>3, <2>1, <2>3 DEF qmVars, UowAt
    <2>4. CASE (Interrupted("responder") \/ Broken("responder")) /\ rpc' = "loop"
      BY <1>3, <2>1, <2>4, HandleEffect, Members DEF OthersKept, OwnKept, UowAt
    <2>5. CASE BackoutAndDisconnect("responder") /\ rpc' = "failed"
      <3>1. /\ OthersKept("responder", k) /\ conn'["responder"] = "none"
            /\ OwnEmptied("responder", k)
        BY <2>5, BackoutEffect, Members
      <3> QED
        BY <1>3, <2>1, <2>5, <3>1, Members DEF OthersKept, OwnEmptied, UowAt
    <2> QED
      BY <1>6, <2>2, <2>3, <2>4, <2>5 DEF RespPutReply, RespDeadLetter, PutFails
  <1>7. CASE RespCommit
    <2>1. CASE Commit("responder") /\ rpc' # "commit" /\ rpc' \in {"loop", "record"}
      <3>1. OthersKept("responder", k) /\ OwnEmptied("responder", k) /\ conn' = conn
        BY <2>1, CommitEffect, Members
      <3> QED
        BY <1>3, <1>7, <2>1, <3>1, Members DEF RespCommit, OthersKept, OwnEmptied, UowAt
    <2>2. CASE (Interrupted("responder") \/ Broken("responder")) /\ rpc' = "loop"
      BY <1>3, <1>7, <2>2, HandleEffect, Members DEF RespCommit, OthersKept, OwnKept, UowAt
    <2> QED
      BY <1>7, <2>1, <2>2 DEF RespCommit
  <1>8. CASE RespExit
    <2>1. /\ OthersKept("responder", k) /\ conn'["responder"] = "none"
          /\ OwnEmptied("responder", k) \/ (OwnKept("responder", k) /\ conn["responder"] # "ok")
      BY <1>8, DisconnectEffect, Members DEF RespExit
    <2> QED
      BY <1>3, <1>8, <2>1, Members DEF RespExit, OthersKept, OwnKept, OwnEmptied, UowAt
  <1>9. CASE RespRaise(Unexpected)
    <2>1. /\ OthersKept("responder", k) /\ conn'["responder"] = "none"
          /\ OwnEmptied("responder", k)
      BY <1>9, BackoutEffect, Members DEF RespRaise
    <2> QED
      BY <1>3, <1>9, <2>1, Members DEF RespRaise, OthersKept, OwnEmptied, UowAt
  <1> QED
    BY <1>2, <1>4, <1>5, <1>6, <1>7, <1>8, <1>9

-----------------------------------------------------------------------------
(***************************************************************************)
(* The account of every message.                                           *)
(***************************************************************************)
Calls(p) ==
  \/ Connect(p) \/ Commit(p) \/ Interrupted(p) \/ Broken(p)
  \/ Disconnect(p) \/ BackoutAndDisconnect(p)

\* Every MQI call keeps the account of messages.
LEMMA CallAccount ==
  ASSUME TypeOK, UowInv, AccountInv, NEW p \in Procs, Calls(p)
  PROVE  AccountInv'
  <1>1. CASE Connect(p) \/ Interrupted(p) \/ Broken(p)
    BY <1>1 DEF Connect, Interrupted, Broken, queueVars, envVars, AccountInv
  <1>2. CASE Commit(p)
    BY <1>2, ResolveAccount DEF Commit, envVars
  <1>3. CASE Disconnect(p)
    <2>1. PICK C \in SUBSET Procs : Resolve(C, {})
      BY <1>3 DEF Disconnect
    <2> QED
      BY <1>3, <2>1, ResolveAccount DEF Disconnect, envVars
  <1>4. CASE BackoutAndDisconnect(p)
    BY <1>4, ResolveAccount DEF BackoutAndDisconnect, envVars
  <1> QED
    BY <1>1, <1>2, <1>3, <1>4 DEF Calls

\* The queue manager's steps lose and invent no message.
LEMMA AccountQM ==
  ASSUME IInv, QMNext
  PROVE  AccountInv'
  <1> USE DEF IInv
  <1>1. CASE EndMqm \/ QmStart
    BY <1>1 DEF EndMqm, QmStart, queueVars, AccountInv
  <1>2. CASE QmDown(Committing)
    <2>1. PICK landing \in SUBSET Committing : Resolve(landing, Procs \ landing)
      BY <1>2 DEF QmDown
    <2>2. landing \in SUBSET Procs /\ Procs \ landing \in SUBSET Procs
      BY <2>1 DEF Committing
    <2> QED
      BY <1>2, <2>1, <2>2, ResolveAccount DEF QmDown
  <1>3. CASE Expire
    <2>1. PICK j \in Seqs : reqq' = Drop(reqq, j) /\ expired' = Add(expired, j)
      BY <1>3 DEF Expire
    <2>2. ASSUME NEW k \in Seqs
          PROVE  reqq'[k] + expired'[k] = reqq[k] + expired[k]
      BY <2>1, <2>2, Counts, Members DEF Drop, Add, TypeOK, QMTypeOK
    <2>3. ASSUME NEW k \in Seqs
          PROVE  reqq'[k] \in Int /\ expired'[k] \in Int
      BY <2>1, <2>3, Counts, Members DEF Drop, Add, TypeOK, QMTypeOK
    <2>4. ASSUME NEW k \in Seqs
          PROVE  landed'[k] = reqq'[k] + got'["responder"][k] + processed'[k]
                              + swallowed'[k] + expired'[k]
      <3>1. landed[k] = reqq[k] + got["responder"][k] + processed[k] + swallowed[k] + expired[k]
        BY <2>4 DEF AccountInv
      <3>2. /\ reqq[k] \in Nat /\ expired[k] \in Nat /\ got["responder"][k] \in Nat
            /\ processed[k] \in Nat /\ swallowed[k] \in Int
        BY <2>4, Counts, Members
      <3>3. UNCHANGED <<landed, got, processed, swallowed>>
        BY <1>3 DEF Expire
      <3> QED
        BY <2>2, <2>3, <2>4, <3>1, <3>2, <3>3
    <2> QED
      BY <1>3, <2>4 DEF Expire, AccountInv
  <1>4. CASE PutForeign
    <2>1. ASSUME NEW k \in Seqs PROVE reqq'[k] = reqq[k] /\ repq'[k] = repq[k]
      BY <1>4, <2>1, Members DEF PutForeign, Add, TypeOK, QMTypeOK
    <2> QED
      BY <1>4, <2>1 DEF PutForeign, AccountInv
  <1> QED
    BY <1>1, <1>2, <1>3, <1>4 DEF QMNext

\* dr_flow's steps lose and invent no message.
LEMMA AccountFlow ==
  ASSUME IInv, FlowNext
  PROVE  AccountInv'
  <1> USE DEF IInv
  <1>1. CASE UNCHANGED qmVars
    BY <1>1 DEF qmVars, AccountInv
  <1>2. CASE Calls("producer") \/ Calls("consumer")
    BY <1>2, CallAccount, Members
  <1>3. CASE ProducerPut
    <2>1. CASE conn["producer"] = "ok" /\ qm = "up"
      BY <1>3, <2>1 DEF ProducerPut, Interrupted, Broken, AccountInv
    <2>2. CASE conn["producer"] = "ok" /\ qm = "quiescing"
      <3>1. Resolve({}, {"producer"}) /\ UNCHANGED expired
        BY <1>3, <2>2 DEF ProducerPut, Interrupted, Broken, envVars
      <3> QED
        BY <3>1, ResolveAccount, Members
    <2> QED
      BY <1>2, <1>3, <2>1, <2>2 DEF ProducerPut, Calls
  <1>4. CASE ConsumerGet
    <2>1. CASE conn["consumer"] = "ok"
      <3>1. PICK j \in Seqs : /\ repq' = Drop(repq, j)
                              /\ got' = [got EXCEPT !["consumer"] = Add(@, j)]
                              /\ UNCHANGED <<reqq, landed, expired, processed, swallowed, taken>>
        BY <1>4, <2>1 DEF ConsumerGet, Interrupted, Broken
      <3>2. got'["responder"] = got["responder"]
        BY <3>1, Members DEF TypeOK, QMTypeOK
      <3>3. ASSUME NEW k \in Seqs
            PROVE  processed'[k] = repq'[k] + got'["consumer"][k] + taken'[k]
        <4>1. processed[k] = repq[k] + got["consumer"][k] + taken[k]
          BY <3>3 DEF AccountInv
        <4>2. /\ repq'[k] = IF k = j THEN repq[k] - 1 ELSE repq[k]
              /\ got'["consumer"][k] = IF k = j THEN got["consumer"][k] + 1
                                                ELSE got["consumer"][k]
          BY <3>1, <3>3, Members DEF Drop, Add, TypeOK, QMTypeOK
        <4>3. repq[k] \in Nat /\ got["consumer"][k] \in Nat /\ taken[k] \in Nat
          BY <3>3, Counts, Members
        <4> QED
          BY <3>1, <4>1, <4>2, <4>3
      <3> QED
        BY <3>1, <3>2, <3>3 DEF AccountInv
    <2> QED
      BY <1>2, <1>4, <2>1 DEF ConsumerGet, Calls
  <1> QED
    BY <1>1, <1>2, <1>3, <1>4
       DEF FlowNext, Calls, Deadline, ProducerConnect, ProducerCommit, ProducerRecord,
           ProducerExit, ProducerRaise, ConsumerConnect, ConsumerGetNotDRv1, ConsumerCommit,
           ConsumerRecord, ConsumerExit, ConsumerRaise, MainStop, MainJoin, MainWrite, MainExit

\* dr_responder's steps lose and invent no message.
LEMMA AccountResp ==
  ASSUME IInv, RespNext(Unexpected)
  PROVE  AccountInv'
  <1> USE DEF IInv
  <1>1. CASE UNCHANGED qmVars
    BY <1>1 DEF qmVars, AccountInv
  <1>2. CASE Calls("responder")
    BY <1>2, CallAccount, Members
  <1>3. CASE PutInUow
    BY <1>3 DEF PutInUow, AccountInv
  <1>4. CASE RespGet
    <2>1. CASE conn["responder"] = "ok"
      <3>1. PICK j \in Keys : /\ reqq' = Drop(reqq, j)
                              /\ got' = [got EXCEPT !["responder"] = Add(@, j)]
                              /\ UNCHANGED <<repq, landed, expired, processed, swallowed, taken>>
        BY <1>4, <2>1 DEF RespGet, Interrupted, Broken
      <3>2. got'["consumer"] = got["consumer"]
        BY <3>1, Members DEF TypeOK, QMTypeOK
      <3>3. ASSUME NEW k \in Seqs
            PROVE  landed'[k] = reqq'[k] + got'["responder"][k] + processed'[k]
                                + swallowed'[k] + expired'[k]
        <4>1. landed[k] = reqq[k] + got["responder"][k] + processed[k]
                          + swallowed[k] + expired[k]
          BY <3>3 DEF AccountInv
        <4>2. /\ reqq'[k] = IF k = j THEN reqq[k] - 1 ELSE reqq[k]
              /\ got'["responder"][k] = IF k = j THEN got["responder"][k] + 1
                                                 ELSE got["responder"][k]
          BY <3>1, <3>3, Members DEF Drop, Add, TypeOK, QMTypeOK
        <4> QED
          BY <3>1, <3>3, <4>1, <4>2, Counts, Members
      <3> QED
        BY <3>1, <3>2, <3>3 DEF AccountInv
    <2> QED
      BY <1>2, <1>4, <2>1 DEF RespGet, Calls
  <1> QED
    BY <1>1, <1>2, <1>3, <1>4
       DEF RespNext, Calls, RespDeadline, RespConnect, RespPutReply, RespDeadLetter, PutFails,
           RespCommit, RespRecord, RespExit, RespRaise

\* Whose calls move which history: only the producer's commits land requests,
\* only the responder's process them, only the consumer's take replies; and a
\* call that does not commit moves none.
LEMMA CallHistory ==
  ASSUME TypeOK, NEW p \in Procs, Calls(p), NEW k \in Keys
  PROVE  /\ downs' = downs
         /\ p # "producer" => landed'[k] = landed[k]
         /\ p # "responder" => processed'[k] = processed[k] /\ swallowed'[k] = swallowed[k]
         /\ p # "consumer" => taken'[k] = taken[k]
         /\ landed'[k] = landed[k] \/ landed'[k] = landed[k] + put["producer"][k]
         /\ taken'[k] = taken[k] \/ taken'[k] = taken[k] + got["consumer"][k]
         /\ (Connect(p) \/ Interrupted(p) \/ Broken(p) \/ BackoutAndDisconnect(p)) =>
              landed'[k] = landed[k] /\ processed'[k] = processed[k]
              /\ swallowed'[k] = swallowed[k] /\ taken'[k] = taken[k]
  <1>0. downs' = downs
    BY DEF Calls, Connect, Commit, Interrupted, Broken, Disconnect, BackoutAndDisconnect, envVars
  <1>1. CASE Connect(p) \/ Interrupted(p) \/ Broken(p)
    BY <1>0, <1>1 DEF Connect, Interrupted, Broken, queueVars
  <1>2. CASE BackoutAndDisconnect(p)
    <2>1. ResolvedAt({}, {p}, k)
      BY <1>2, BackoutEffect
    <2> QED
      BY <1>0, <2>1, Counts DEF ResolvedAt, Of
  <1>3. CASE ResolvedAt({p}, {}, k) /\ ~(Connect(p) \/ Interrupted(p) \/ Broken(p)
                                         \/ BackoutAndDisconnect(p))
    BY <1>0, <1>3, Counts DEF ResolvedAt, Of
  <1>4. CASE ResolvedAt({}, {}, k)
    BY <1>0, <1>4, Counts DEF ResolvedAt, Of
  <1> QED
    BY <1>1, <1>2, <1>3, <1>4, CommitEffect, DisconnectEffect DEF Calls

-----------------------------------------------------------------------------
(***************************************************************************)
(* What is SENT and what landed.                                           *)
(***************************************************************************)
LEMMA SendKept ==
  ASSUME TypeOK, SendInv, UNCHANGED <<ppc, seq, pending, sent, downs>>,
         \A k \in Keys : landed'[k] = landed[k]
  PROVE  SendInv'
  BY Members DEF SendInv, TypeOK, FlowTypeOK

\* A failure that lands an in-doubt put is paid for by downs.
LEMMA SendQM ==
  ASSUME IInv, QMNext, UNCHANGED flowVars
  PROVE  SendInv'
  <1> USE DEF IInv
  <1>1. CASE EndMqm \/ QmStart \/ Expire \/ PutForeign
    BY <1>1, SendKept DEF EndMqm, QmStart, Expire, PutForeign, queueVars, flowVars
  <1>2. CASE QmDown(Committing)
    <2>1. PICK landing \in SUBSET Committing : Resolve(landing, Procs \ landing)
      BY <1>2 DEF QmDown
    <2>2. landing \in SUBSET Procs /\ Procs \ landing \in SUBSET Procs
      BY <2>1 DEF Committing
    <2>3. downs' = downs + 1 /\ downs \in Nat
      BY <1>2 DEF QmDown, TypeOK, QMTypeOK
    <2>4. ASSUME NEW k \in Keys
          PROVE  /\ landed'[k] = landed[k] \/ landed'[k] = landed[k] + 1
                 /\ landed'[k] # landed[k] => k = pending /\ ppc = "commit"
                 /\ landed[k] \in Nat
      <3>1. ResolvedAt(landing, Procs \ landing, k)
        BY <2>1, <2>2, <2>4, ResolveAt
      <3>2. UowAt(k)
        BY <2>4 DEF UowInv
      <3> QED
        BY <2>4, <3>1, <3>2, Counts DEF ResolvedAt, Of, UowAt
    <2>5. pending \in Keys /\ seq \in Nat /\ \A k \in Seqs : k \in Keys /\ k \in Nat
      BY Members DEF TypeOK, FlowTypeOK
    <2>6. ASSUME NEW k \in Seqs
          PROVE  /\ sent[k] = IF k <= seq /\ k # pending THEN 1 ELSE 0
                 /\ k <= seq /\ k # pending => landed'[k] >= 1
                 /\ k > seq => landed'[k] = 0
                 /\ landed'[k] <= 1 + downs'
      BY <2>3, <2>4, <2>5, <2>6 DEF SendInv
    <2>7. /\ ppc = "record" => landed'[pending] >= 1
          /\ pending # 0 /\ ppc \in {"loop", "commit", "done"} => landed'[pending] <= downs'
      BY <2>3, <2>4, <2>5 DEF SendInv
    <2> QED
      BY <2>6, <2>7 DEF SendInv, flowVars
  <1> QED
    BY <1>1, <1>2 DEF QMNext

\* The producer's steps keep seq, pending, SENT and landed in line.
LEMMA SendFlow ==
  ASSUME IInv, FlowNext
  PROVE  SendInv'
  <1> USE DEF IInv
  <1>0. /\ pending \in Keys /\ seq \in Nat /\ downs \in Nat
        /\ \A k \in Seqs : k \in Keys /\ k \in Nat /\ k # 0
        /\ \A k \in Keys : landed[k] \in Nat /\ sent[k] \in Nat /\ k \in Nat
        /\ 0 \notin Seqs
    <2>1. pending \in Keys /\ seq \in Nat /\ downs \in Nat
      BY DEF TypeOK, QMTypeOK, FlowTypeOK
    <2>2. /\ \A k \in Seqs : k \in Keys /\ k \in Nat /\ k # 0
          /\ 0 \notin Seqs /\ \A k \in Keys : k \in Nat
      BY DEF Keys, Seqs, NotDRv1
    <2> QED
      BY <2>1, <2>2, Counts
  <1>1. CASE Deadline \/ MainStop \/ MainJoin \/ MainWrite \/ ConsumerRecord
    BY <1>1, SendKept DEF Deadline, MainStop, MainJoin, MainWrite, ConsumerRecord,
                          qmVars, prodVars, mainVars
  <1>2. CASE ConsumerConnect \/ ConsumerGet \/ ConsumerGetNotDRv1 \/ ConsumerCommit
             \/ ConsumerExit \/ ConsumerRaise \/ MainExit
    <2>1. UNCHANGED <<ppc, seq, pending, sent>>
      BY <1>2 DEF ConsumerConnect, ConsumerGet, ConsumerGetNotDRv1, ConsumerCommit, ConsumerExit,
                  ConsumerRaise, ConsumerFails, MainExit, flowVars, prodVars
    <2>2. Calls("consumer") \/ UNCHANGED <<landed, downs>>
      BY <1>2 DEF Calls, ConsumerConnect, ConsumerGet, ConsumerGetNotDRv1, ConsumerCommit,
                  ConsumerExit, ConsumerRaise, MainExit, qmVars
    <2>3. downs' = downs /\ \A k \in Keys : landed'[k] = landed[k]
      BY <2>2, CallHistory, Members
    <2> QED
      BY <2>1, <2>3, SendKept
  <1>3. CASE ProducerConnect
    <2>1. downs' = downs /\ \A k \in Keys : landed'[k] = landed[k]
      BY <1>3, CallHistory, Members DEF Calls, ProducerConnect
    <2> QED
      BY <1>3, <2>1, SendKept DEF ProducerConnect, flowVars
  <1>4. CASE ProducerPut
    <2>1. downs' = downs /\ \A k \in Keys : landed'[k] = landed[k]
      <3>1. CASE Interrupted("producer") \/ Broken("producer")
        BY <3>1, CallHistory, Members DEF Calls
      <3>2. CASE Resolve({}, {"producer"}) /\ UNCHANGED envVars
        <4>1. ASSUME NEW k \in Keys PROVE landed'[k] = landed[k]
          <5>1. ResolvedAt({}, {"producer"}, k)
            BY <3>2, <4>1, ResolveAt, Members
          <5> QED
            BY <1>0, <4>1, <5>1 DEF ResolvedAt, Of
        <4> QED
          BY <3>2, <4>1 DEF envVars
      <3> QED
        BY <1>4, <3>1, <3>2 DEF ProducerPut
    <2>2. /\ pending # 0 \/ seq < MaxSeq
          /\ seq' = IF pending = 0 THEN seq + 1 ELSE seq
          /\ pending' = IF pending = 0 THEN seq + 1 ELSE pending
          /\ ppc = "loop" /\ ppc' \in {"loop", "commit"} /\ sent' = sent
      BY <1>4 DEF ProducerPut, BuildPending
    <2>3. CASE pending # 0
      BY <1>0, <2>1, <2>2, <2>3 DEF SendInv
    <2>4. CASE pending = 0
      <3>1. seq + 1 \in Seqs /\ landed[seq + 1] = 0 /\ seq' = seq + 1 /\ pending' = seq + 1
        <4>1. seq + 1 \in Seqs
          BY <1>0, <2>2, <2>4, QMAssumption DEF Seqs
        <4> QED
          BY <1>0, <2>2, <2>4, <4>1 DEF SendInv
      <3>2. /\ pending' \in {0, seq'}
            /\ ppc' \in {"commit", "record"} => pending' # 0
            /\ ppc' = "record" => landed'[pending'] >= 1
            /\ landed'[pending'] <= downs'
        BY <1>0, <2>1, <2>2, <3>1
      <3>3. ASSUME NEW k \in Seqs
            PROVE  /\ sent'[k] = IF k <= seq' /\ k # pending' THEN 1 ELSE 0
                   /\ k <= seq' /\ k # pending' => landed'[k] >= 1
                   /\ k > seq' => landed'[k] = 0
                   /\ landed'[k] <= 1 + downs'
        BY <1>0, <2>1, <2>2, <2>4, <3>1, <3>3 DEF SendInv
      <3> QED
        BY <3>2, <3>3 DEF SendInv
    <2> QED
      BY <2>3, <2>4
  <1>5. CASE ProducerCommit \/ ProducerExit \/ ProducerRaise
    <2>1. /\ UNCHANGED <<seq, pending, sent>> /\ Calls("producer")
          /\ ppc \in {"loop", "commit"}
      BY <1>5 DEF ProducerCommit, ProducerExit, ProducerRaise, Calls
    <2>2. downs' = downs
      BY <1>0, <2>1, CallHistory, Members
    <2>3. ASSUME NEW k \in Keys
          PROVE  /\ landed'[k] = landed[k] \/ landed'[k] = landed[k] + 1
                 /\ landed'[k] # landed[k] => k = pending /\ ppc = "commit"
      <3>1. UowAt(k)
        BY <2>3 DEF UowInv
      <3>2. landed'[k] = landed[k] \/ landed'[k] = landed[k] + put["producer"][k]
        BY <2>1, <2>3, CallHistory, Members
      <3> QED
        BY <1>0, <2>3, <3>1, <3>2 DEF UowAt
    <2>4. ppc' = "record" => landed'[pending] = landed[pending] + 1 /\ ppc = "commit"
      <3> SUFFICES ASSUME ppc' = "record"
                   PROVE  landed'[pending] = landed[pending] + 1 /\ ppc = "commit"
        OBVIOUS
      <3>1. Commit("producer") /\ ppc = "commit"
        BY <1>5 DEF ProducerCommit, ProducerExit, ProducerRaise
      <3>2. ResolvedAt({"producer"}, {}, pending) /\ conn["producer"] = "ok"
        BY <1>0, <3>1, CommitEffect, Members
      <3>3. UowAt(pending)
        BY <1>0 DEF UowInv
      <3> QED
        BY <3>1, <3>2, <3>3 DEF ResolvedAt, Of, UowAt
    <2>5. ppc' \in {"loop", "done"} => landed'[pending] = landed[pending]
      <3>1. CASE ppc' = "loop"
        <4>1. Interrupted("producer") \/ Broken("producer")
          BY <1>5, <3>1 DEF ProducerCommit, ProducerExit, ProducerRaise
        <4> QED
          BY <1>0, <4>1, CallHistory, Members DEF Calls
      <3>2. CASE ppc' = "done"
        <4>1. ppc = "loop"
          BY <1>5, <3>2 DEF ProducerCommit, ProducerExit, ProducerRaise
        <4> QED
          BY <1>0, <2>3, <4>1
      <3> QED
        BY <3>1, <3>2
    <2>6. ppc' \in {"loop", "record", "done", "failed"}
      BY <1>5 DEF ProducerCommit, ProducerExit, ProducerRaise
    <2>7. /\ pending \in {0, seq} /\ (ppc = "commit" => pending # 0)
          /\ pending # 0 => landed[pending] <= downs
      BY <2>1 DEF SendInv
    <2>8. /\ ppc' \in {"commit", "record"} => pending # 0
          /\ ppc' = "record" => landed'[pending] >= 1
          /\ pending # 0 /\ ppc' \in {"loop", "commit", "done"} => landed'[pending] <= downs
      BY <1>0, <2>4, <2>5, <2>6, <2>7
    <2>9. ASSUME NEW k \in Seqs
          PROVE  /\ sent[k] = IF k <= seq /\ k # pending THEN 1 ELSE 0
                 /\ k <= seq /\ k # pending => landed'[k] >= 1
                 /\ k > seq => landed'[k] = 0
                 /\ landed'[k] <= 1 + downs
      BY <1>0, <2>3, <2>7, <2>9 DEF SendInv
    <2> QED
      BY <2>1, <2>2, <2>7, <2>8, <2>9 DEF SendInv
  <1>6. CASE ProducerRecord
    <2>1. /\ sent' = Add(sent, pending) /\ pending' = 0 /\ ppc' = "loop" /\ ppc = "record"
          /\ UNCHANGED <<seq, landed, downs>>
      BY <1>6 DEF ProducerRecord, qmVars
    <2>2. pending = seq /\ pending # 0 /\ landed[pending] >= 1
      BY <2>1 DEF SendInv
    <2>3. ASSUME NEW k \in Seqs
          PROVE  /\ sent'[k] = IF k <= seq THEN 1 ELSE 0
                 /\ k <= seq => landed[k] >= 1
      BY <1>0, <2>1, <2>2, <2>3 DEF SendInv, Add, TypeOK, FlowTypeOK
    <2> QED
      BY <1>0, <2>1, <2>3 DEF SendInv
  <1> QED
    BY <1>1, <1>2, <1>3, <1>4, <1>5, <1>6 DEF FlowNext

\* dr_responder's steps do not touch what the producer relies on.
LEMMA SendResp ==
  ASSUME IInv, RespNext(Unexpected), UNCHANGED flowVars
  PROVE  SendInv'
  <1> USE DEF IInv
  <1>1. Calls("responder") \/ UNCHANGED <<landed, downs>>
    BY DEF RespNext, Calls, RespDeadline, RespConnect, RespGet, RespPutReply, RespDeadLetter,
           PutInUow, PutFails, RespCommit, RespRecord, RespExit, RespRaise, qmVars
  <1>2. downs' = downs /\ \A k \in Keys : landed'[k] = landed[k]
    BY <1>1, CallHistory, Members
  <1> QED
    BY <1>2, SendKept DEF flowVars

-----------------------------------------------------------------------------
(***************************************************************************)
(* What the Watcher recorded and what was processed.                       *)
(***************************************************************************)
LEMMA WatcherKept ==
  ASSUME TypeOK, WatcherInv, UNCHANGED respVars, downs' = downs,
         \A k \in Keys : processed'[k] = processed[k] /\ swallowed'[k] = swallowed[k]
  PROVE  WatcherInv'
  BY Members DEF WatcherInv, respVars

\* A failure that lands an in-doubt reply is paid for by downs.
LEMMA WatcherQM ==
  ASSUME IInv, QMNext, UNCHANGED respVars
  PROVE  WatcherInv'
  <1> USE DEF IInv
  <1>1. CASE EndMqm \/ QmStart \/ Expire \/ PutForeign
    BY <1>1, WatcherKept DEF EndMqm, QmStart, Expire, PutForeign, queueVars
  <1>2. CASE QmDown(Committing)
    <2>1. PICK landing \in SUBSET Committing : Resolve(landing, Procs \ landing)
      BY <1>2 DEF QmDown
    <2>2. /\ landing \in SUBSET Procs /\ Procs \ landing \in SUBSET Procs
          /\ "responder" \in landing => rpc = "commit" /\ conn["responder"] = "ok"
      BY <2>1 DEF Committing
    <2>3. downs' = downs + 1 /\ downs \in Nat
      BY <1>2 DEF QmDown, TypeOK, QMTypeOK
    <2>4. ASSUME NEW k \in Keys
          PROVE  /\ processed'[k] = processed[k] \/ processed'[k] = processed[k] + 1
                 /\ swallowed'[k] = swallowed[k]
      <3>1. ResolvedAt(landing, Procs \ landing, k)
        BY <2>1, <2>2, <2>4, ResolveAt
      <3>2. UowAt(k)
        BY <2>4 DEF UowInv
      <3>3. "responder" \in landing => got["responder"][k] = put["responder"][k]
        BY <2>2, <3>2 DEF UowAt
      <3> QED
        BY <2>4, <3>1, <3>2, <3>3, Counts DEF ResolvedAt, Of, UowAt
    <2>5. ASSUME NEW k \in Seqs
          PROVE  LET owed == IF rpc = "record" /\ rmsg = k THEN 1 ELSE 0
                 IN  /\ received[k] + owed <= processed'[k]
                     /\ processed'[k] <= received[k] + owed + downs'
      <3>1. k \in Keys
        BY <2>5, Members
      <3>2. processed[k] \in Nat /\ received[k] \in Nat
        BY <3>1, Counts
      <3> QED
        BY <2>3, <2>4, <2>5, <3>1, <3>2 DEF WatcherInv
    <2> QED
      BY <2>4, <2>5 DEF WatcherInv, respVars
  <1> QED
    BY <1>1, <1>2 DEF QMNext

\* dr_flow's steps do not touch what the Watcher ledger is compared with.
LEMMA WatcherFlow ==
  ASSUME IInv, FlowNext, UNCHANGED respVars
  PROVE  WatcherInv'
  <1> USE DEF IInv
  <1>1. CASE Calls("producer") \/ Calls("consumer")
    <2>1. /\ downs' = downs
          /\ \A k \in Keys : processed'[k] = processed[k] /\ swallowed'[k] = swallowed[k]
      BY <1>1, CallHistory, Members
    <2> QED
      BY <2>1, WatcherKept
  <1>2. CASE UNCHANGED <<downs, processed, swallowed>>
    BY <1>2, WatcherKept
  <1>3. CASE ProducerPut
    <2>1. CASE Resolve({}, {"producer"}) /\ UNCHANGED envVars
      <3>1. ASSUME NEW k \in Keys
            PROVE  processed'[k] = processed[k] /\ swallowed'[k] = swallowed[k]
        <4>1. ResolvedAt({}, {"producer"}, k)
          BY <2>1, <3>1, ResolveAt, Members
        <4> QED
          BY <3>1, <4>1, Counts DEF ResolvedAt, Of
      <3> QED
        BY <2>1, <3>1, WatcherKept DEF envVars
    <2> QED
      BY <1>1, <1>2, <1>3, <2>1 DEF ProducerPut, Calls
  <1> QED
    BY <1>1, <1>2, <1>3
       DEF FlowNext, Calls, Deadline, ProducerConnect, ProducerCommit, ProducerRecord,
           ProducerExit, ProducerRaise, ConsumerConnect, ConsumerGet, ConsumerGetNotDRv1,
           ConsumerCommit, ConsumerRecord, ConsumerExit, ConsumerRaise, MainStop, MainJoin,
           MainWrite, MainExit, qmVars

\* dr_responder's steps keep the Watcher ledger in line with what was processed.
LEMMA WatcherResp ==
  ASSUME IInv, RespNext(Unexpected)
  PROVE  WatcherInv'
  <1> USE DEF IInv
  <1>0. /\ rmsg \in Keys /\ downs \in Nat
        /\ \A k \in Seqs : k \in Keys /\ k # NotDRv1
        /\ \A k \in Keys : processed[k] \in Nat /\ swallowed[k] \in Int /\ received[k] \in Nat
    BY Members, Counts DEF TypeOK, RespTypeOK, QMTypeOK
  <1>1. \A k \in Keys : swallowed[k] \in {0, 1} /\ (swallowed[k] = 1 => rpc = "done")
    BY <1>0 DEF WatcherInv
  <1>2. CASE RespDeadline \/ RespConnect \/ RespGet \/ RespPutReply \/ RespDeadLetter
             \/ RespRaise(Unexpected)
    <2>1. /\ rpc \notin {"record", "done"} \/ (RespDeadline /\ UNCHANGED <<rpc, rmsg>>)
          /\ rpc' # "record" \/ RespDeadline
      BY <1>2 DEF RespDeadline, RespConnect, RespGet, RespPutReply, RespDeadLetter, PutInUow,
                  PutFails, RespRaise, respVars
    <2>2. received' = received /\ (rpc' = "put" => rmsg' # NotDRv1)
      BY <1>2 DEF RespDeadline, RespConnect, RespGet, RespPutReply, RespDeadLetter, PutInUow,
                  PutFails, RespRaise, respVars, WatcherInv
    <2>3. \/ Connect("responder") \/ Interrupted("responder") \/ Broken("responder")
          \/ BackoutAndDisconnect("responder") \/ UNCHANGED <<downs, processed, swallowed>>
      BY <1>2 DEF RespDeadline, RespConnect, RespGet, RespPutReply, RespDeadLetter, PutInUow,
                  PutFails, RespRaise, qmVars
    <2>4. /\ downs' = downs
          /\ \A k \in Keys : processed'[k] = processed[k] /\ swallowed'[k] = swallowed[k]
      BY <2>3, CallHistory, Members DEF Calls
    <2>5. CASE UNCHANGED <<rpc, rmsg>>
      BY <1>0, <2>2, <2>4, <2>5 DEF WatcherInv
    <2>6. CASE rpc \notin {"record", "done"} /\ rpc' # "record"
      BY <1>0, <1>1, <2>2, <2>4, <2>6 DEF WatcherInv
    <2> QED
      BY <2>1, <2>5, <2>6 DEF RespDeadline
  <1>3. CASE RespCommit
    <2>1. rpc = "commit" /\ UNCHANGED <<rmsg, received>>
      BY <1>3 DEF RespCommit
    <2>2. CASE Interrupted("responder") \/ Broken("responder")
      <3>1. /\ downs' = downs
            /\ \A k \in Keys : processed'[k] = processed[k] /\ swallowed'[k] = swallowed[k]
        BY <2>2, CallHistory, Members DEF Calls
      <3>2. rpc' = "loop"
        BY <1>3, <2>2 DEF RespCommit, Commit, Interrupted, Broken
      <3> QED
        BY <1>0, <1>1, <2>1, <3>1, <3>2 DEF WatcherInv
    <2>3. CASE Commit("responder") /\ rpc' = IF rmsg = NotDRv1 THEN "loop" ELSE "record"
      <3>1. downs' = downs
        BY <2>3 DEF Commit, envVars
      <3>2. ASSUME NEW k \in Keys
            PROVE  /\ processed'[k] = IF k = rmsg THEN processed[k] + 1 ELSE processed[k]
                   /\ swallowed'[k] = swallowed[k]
        <4>1. ResolvedAt({"responder"}, {}, k) /\ conn["responder"] = "ok"
          BY <2>3, <3>2, CommitEffect, Members
        <4>2. UowAt(k)
          BY <3>2 DEF UowInv
        <4>3. got["responder"][k] = put["responder"][k]
              /\ put["responder"][k] = IF k = rmsg THEN 1 ELSE 0
          BY <2>1, <4>1, <4>2 DEF UowAt
        <4> QED
          BY <1>0, <3>2, <4>1, <4>3 DEF ResolvedAt, Of
      <3>3. ASSUME NEW k \in Seqs
            PROVE  LET owed == IF rpc' = "record" /\ rmsg = k THEN 1 ELSE 0
                   IN  /\ received[k] + owed <= processed'[k]
                       /\ processed'[k] <= received[k] + owed + downs
        <4>1. received[k] <= processed[k] /\ processed[k] <= received[k] + downs
          BY <1>0, <2>1, <3>3 DEF WatcherInv
        <4> QED
          BY <1>0, <2>3, <3>2, <3>3, <4>1
      <3> QED
        BY <1>1, <2>1, <2>3, <3>1, <3>2, <3>3 DEF WatcherInv
    <2> QED
      BY <1>3, <2>2, <2>3 DEF RespCommit
  <1>4. CASE RespRecord
    <2>1. /\ rpc = "record" /\ rpc' = "loop" /\ received' = Add(received, rmsg)
          /\ UNCHANGED <<processed, swallowed, downs, rmsg>>
      BY <1>4 DEF RespRecord, qmVars
    <2>2. ASSUME NEW k \in Seqs
          PROVE  received'[k] = IF k = rmsg THEN received[k] + 1 ELSE received[k]
      BY <1>0, <2>1, <2>2 DEF Add, TypeOK, RespTypeOK
    <2>3. ASSUME NEW k \in Seqs
          PROVE  /\ received'[k] \in Nat
                 /\ received'[k] <= processed[k] /\ processed[k] <= received'[k] + downs
      BY <1>0, <2>1, <2>2, <2>3 DEF WatcherInv
    <2> QED
      BY <1>0, <1>1, <2>1, <2>3 DEF WatcherInv
  <1>5. CASE RespExit
    <2>1. /\ rpc = "loop" /\ rpc' = "done" /\ Disconnect("responder")
          /\ UNCHANGED <<rmsg, received>>
      BY <1>5 DEF RespExit
    <2>2. downs' = downs
      BY <2>1 DEF Disconnect, envVars
    <2>3. ASSUME NEW k \in Keys
          PROVE  /\ processed'[k] = processed[k]
                 /\ swallowed'[k] = swallowed[k] \/ (swallowed'[k] = swallowed[k] + 1 /\ k = rmsg)
      <3>1. \/ ResolvedAt({"responder"}, {}, k)
            \/ ResolvedAt({}, {}, k)
        BY <2>1, <2>3, DisconnectEffect, Members
      <3>2. UowAt(k)
        BY <2>3 DEF UowInv
      <3>3. put["responder"][k] = 0 /\ (got["responder"][k] = 0 \/ (got["responder"][k] = 1 /\ k = rmsg))
        BY <2>1, <3>2 DEF UowAt
      <3> QED
        BY <1>0, <2>3, <3>1, <3>3 DEF ResolvedAt, Of
    <2>4. \A k \in Keys : swallowed[k] = 0
      BY <1>1, <2>1
    <2> QED
      BY <1>0, <2>1, <2>2, <2>3, <2>4 DEF WatcherInv
  <1> QED
    BY <1>2, <1>3, <1>4, <1>5 DEF RespNext

-----------------------------------------------------------------------------
(***************************************************************************)
(* What is CONFIRMED and which replies were taken.                         *)
(***************************************************************************)
LEMMA ConfirmKept ==
  ASSUME TypeOK, ConfirmInv, UNCHANGED <<confirmed, cpc, cmsg>>,
         \A k \in Keys : taken'[k] = taken[k]
  PROVE  ConfirmInv'
  BY Members DEF ConfirmInv

\* Every step keeps CONFIRMED within the replies taken (dr_flow.consumer).
LEMMA ConfirmStep ==
  ASSUME IInv, Next
  PROVE  ConfirmInv'
  <1> USE DEF IInv
  <1>0. /\ \A k \in Seqs : k \in Keys
        /\ \A k \in Keys : taken[k] \in Nat /\ confirmed[k] \in Nat
        /\ cmsg \in Keys
    BY Members, Counts DEF TypeOK, FlowTypeOK
  <1>1. ASSUME NEW k \in Keys PROVE got["consumer"][k] \in {0, 1}
    BY <1>1 DEF UowInv, UowAt
  <1>2. CASE QMNext /\ UNCHANGED <<flowVars, respVars>>
    <2>1. CASE EndMqm \/ QmStart \/ Expire \/ PutForeign
      BY <1>2, <2>1, ConfirmKept DEF EndMqm, QmStart, Expire, PutForeign, queueVars, flowVars
    <2>2. CASE QmDown(Committing)
      <3>1. PICK landing \in SUBSET Committing : Resolve(landing, Procs \ landing)
        BY <2>2 DEF QmDown
      <3>2. landing \in SUBSET Procs /\ Procs \ landing \in SUBSET Procs
        BY <3>1 DEF Committing
      <3>3. ASSUME NEW k \in Keys PROVE taken'[k] \in Nat /\ taken'[k] >= taken[k]
        <4>1. ResolvedAt(landing, Procs \ landing, k)
          BY <3>1, <3>2, <3>3, ResolveAt
        <4> QED
          BY <1>0, <1>1, <3>3, <4>1 DEF ResolvedAt, Of
      <3> QED
        BY <1>0, <1>2, <3>3 DEF ConfirmInv, flowVars
    <2> QED
      BY <1>2, <2>1, <2>2 DEF QMNext
  <1>3. CASE RespNext(Unexpected) /\ UNCHANGED flowVars
    <2>1. Calls("responder") \/ UNCHANGED taken
      BY <1>3 DEF RespNext, Calls, RespDeadline, RespConnect, RespGet, RespPutReply,
             RespDeadLetter, PutInUow, PutFails, RespCommit, RespRecord, RespExit, RespRaise, qmVars
    <2>2. \A k \in Keys : taken'[k] = taken[k]
      BY <2>1, CallHistory, Members
    <2> QED
      BY <1>3, <2>2, ConfirmKept DEF flowVars
  <1>4. CASE FlowNext
    <2>1. CASE ProducerPut
      <3>1. \A k \in Keys : taken'[k] = taken[k]
        <4>1. CASE Interrupted("producer") \/ Broken("producer")
          BY <4>1, CallHistory, Members DEF Calls
        <4>2. CASE Resolve({}, {"producer"})
          <5>1. ASSUME NEW k \in Keys PROVE taken'[k] = taken[k]
            <6>1. ResolvedAt({}, {"producer"}, k)
              BY <4>2, <5>1, ResolveAt, Members
            <6> QED
              BY <1>0, <5>1, <6>1 DEF ResolvedAt, Of
          <5> QED
            BY <5>1
        <4> QED
          BY <2>1, <4>1, <4>2 DEF ProducerPut
      <3> QED
        BY <2>1, <3>1, ConfirmKept DEF ProducerPut, consVars
    <2>2. CASE ProducerConnect \/ ProducerCommit \/ ProducerExit \/ ProducerRaise
      <3>1. Calls("producer") /\ UNCHANGED <<confirmed, cpc, cmsg>>
        BY <2>2 DEF Calls, ProducerConnect, ProducerCommit, ProducerExit, ProducerRaise,
                    consVars, flowVars
      <3>2. \A k \in Keys : taken'[k] = taken[k]
        BY <3>1, CallHistory, Members
      <3> QED
        BY <3>1, <3>2, ConfirmKept
    <2>3. CASE ProducerRecord \/ Deadline \/ MainStop \/ MainJoin \/ MainWrite
      BY <2>3, ConfirmKept DEF ProducerRecord, Deadline, MainStop, MainJoin, MainWrite, qmVars,
                               consVars
    <2>4. CASE ConsumerConnect \/ ConsumerGet \/ ConsumerGetNotDRv1 \/ ConsumerExit
               \/ ConsumerRaise \/ MainExit
      <3>1. /\ confirmed' = confirmed
            /\ (cpc' # "record" \/ UNCHANGED <<cpc, cmsg>>)
            /\ Calls("consumer") \/ UNCHANGED taken
        BY <2>4 DEF Calls, ConsumerConnect, ConsumerGet, ConsumerGetNotDRv1, ConsumerExit,
                    ConsumerRaise, ConsumerFails, MainExit, qmVars, flowVars, consVars
      <3>2. ASSUME NEW k \in Keys PROVE taken'[k] \in Nat /\ taken'[k] >= taken[k]
        <4>1. taken'[k] = taken[k] \/ taken'[k] = taken[k] + got["consumer"][k]
          BY <3>1, <3>2, CallHistory, Members
        <4> QED
          BY <1>0, <1>1, <3>2, <4>1
      <3> QED
        BY <1>0, <3>1, <3>2 DEF ConfirmInv
    <2>5. CASE ConsumerCommit
      <3>1. cpc = "commit" /\ UNCHANGED <<cmsg, confirmed>>
        BY <2>5 DEF ConsumerCommit
      <3>2. CASE Commit("consumer") /\ cpc' = "record"
        <4>1. ASSUME NEW k \in Keys
              PROVE  taken'[k] = IF k = cmsg THEN taken[k] + 1 ELSE taken[k]
          <5>1. ResolvedAt({"consumer"}, {}, k) /\ conn["consumer"] = "ok"
            BY <3>2, <4>1, CommitEffect, Members
          <5>2. UowAt(k)
            BY <4>1 DEF UowInv
          <5> QED
            BY <1>0, <3>1, <4>1, <5>1, <5>2 DEF ResolvedAt, Of, UowAt
        <4> QED
          BY <1>0, <3>1, <3>2, <4>1 DEF ConfirmInv
      <3>3. CASE (Interrupted("consumer") \/ Broken("consumer")) /\ cpc' = "loop"
        <4>1. \A k \in Keys : taken'[k] = taken[k]
          BY <3>3, CallHistory, Members DEF Calls
        <4> QED
          BY <1>0, <3>1, <3>3, <4>1 DEF ConfirmInv
      <3> QED
        BY <2>5, <3>2, <3>3 DEF ConsumerCommit
    <2>6. CASE ConsumerRecord
      <3>1. /\ cpc = "record" /\ cpc' = "loop" /\ confirmed' = Add(confirmed, cmsg)
            /\ taken' = taken
        BY <2>6 DEF ConsumerRecord, qmVars
      <3>2. ASSUME NEW k \in Seqs
            PROVE  confirmed'[k] = IF k = cmsg THEN confirmed[k] + 1 ELSE confirmed[k]
        BY <1>0, <3>1, <3>2 DEF Add, TypeOK, FlowTypeOK
      <3> QED
        BY <1>0, <3>1, <3>2 DEF ConfirmInv
    <2> QED
      BY <1>4, <2>1, <2>2, <2>3, <2>4, <2>5, <2>6 DEF FlowNext
  <1> QED
    BY <1>2, <1>3, <1>4 DEF Next

-----------------------------------------------------------------------------
(***************************************************************************)
(* main.                                                                   *)
(***************************************************************************)
LEMMA MainStep ==
  ASSUME IInv, Next
  PROVE  MainInv'
  <1> USE DEF IInv
  <1>0. MainInv /\ FlowTypeOK
    BY DEF TypeOK
  <1>1. CASE UNCHANGED flowVars
    BY <1>0, <1>1 DEF MainInv, flowVars
  <1>2. CASE FlowNext
    <2>1. CASE Deadline \/ ProducerConnect \/ ConsumerConnect
      BY <1>0, <2>1 DEF Deadline, ProducerConnect, ConsumerConnect, MainInv, flowVars, prodVars,
                        consVars, mainVars
    <2>2. CASE ProducerPut \/ ProducerCommit \/ ProducerExit
      BY <1>0, <2>2 DEF ProducerPut, ProducerCommit, ProducerExit, MainInv, consVars, mainVars
    <2>3. CASE ProducerRecord
      BY <1>0, <2>3 DEF ProducerRecord, MainInv, consVars, mainVars
    <2>4. CASE ProducerRaise
      BY <1>0, <2>4 DEF ProducerRaise, MainInv, consVars, mainVars
    <2>5. CASE ConsumerGet \/ ConsumerCommit \/ ConsumerExit
      BY <1>0, <2>5 DEF ConsumerGet, ConsumerCommit, ConsumerExit, MainInv, consVars, prodVars,
                        mainVars
    <2>6. CASE ConsumerGetNotDRv1 \/ ConsumerRaise
      BY <1>0, <2>6 DEF ConsumerGetNotDRv1, ConsumerRaise, ConsumerFails, MainInv, prodVars, mainVars
    <2>7. CASE ConsumerRecord
      <3>1. /\ cpc = "record" /\ cpc' = "loop" /\ confirmed' = Add(confirmed, cmsg)
            /\ UNCHANGED <<ppc, mpc, appfile, rc, stop, errors, sent>>
        BY <2>7 DEF ConsumerRecord, prodVars, mainVars
      <3>2. ASSUME NEW k \in Keys
            PROVE  /\ confirmed[k] \in Nat
                   /\ confirmed'[k] = confirmed[k] \/ confirmed'[k] = confirmed[k] + 1
        BY <1>0, <3>1, <3>2 DEF Add, FlowTypeOK
      <3> QED
        BY <1>0, <3>1, <3>2 DEF MainInv
    <2>8. CASE MainStop \/ MainJoin
      BY <1>0, <2>8 DEF MainStop, MainJoin, MainInv, prodVars, consVars
    <2>9. CASE MainWrite
      <3>1. /\ mpc = "write" /\ mpc' = "exit"
            /\ appfile' = [sent |-> sent, confirmed |-> confirmed]
            /\ UNCHANGED <<ppc, cpc, rc, stop, errors, sent, confirmed>>
        BY <2>9 DEF MainWrite, prodVars, consVars
      <3>2. appfile'.sent = sent /\ appfile'.confirmed = confirmed
        BY <3>1
      <3>3. \A k \in Keys : confirmed[k] \in Nat
        BY <1>0 DEF FlowTypeOK
      <3> QED
        BY <1>0, <3>1, <3>2, <3>3 DEF MainInv
    <2>10. CASE MainExit
      BY <1>0, <2>10 DEF MainExit, MainInv, FlowTypeOK, ConsumerFinished, prodVars
    <2> QED
      BY <1>2, <2>1, <2>2, <2>3, <2>4, <2>5, <2>6, <2>7, <2>8, <2>9, <2>10 DEF FlowNext
  <1> QED
    BY <1>1, <1>2 DEF Next

-----------------------------------------------------------------------------
(***************************************************************************)
(* The ledger files.                                                       *)
(***************************************************************************)

\* An append never takes an entry away (Ledger.append).
LEMMA AddGrows ==
  ASSUME NEW f \in [Keys -> Nat], NEW j \in Keys, NEW k \in Keys
  PROVE  f[k] <= Add(f, j)[k] /\ f[k] \in Nat /\ Add(f, j)[k] \in Nat
  BY DEF Add

\* A file stays a past state of its ledger: it changes only to a copy of it, and
\* the ledger only grows.
LEMMA FileStep ==
  ASSUME IInv, Next
  PROVE  FileInv'
  <1> USE DEF IInv
  <1>0. /\ FileInv /\ FlowTypeOK /\ RespTypeOK
        /\ \A k \in Keys : /\ appfile.sent[k] \in Nat /\ appfile.confirmed[k] \in Nat
                          /\ watchfile[k] \in Nat /\ sent[k] \in Nat
                          /\ confirmed[k] \in Nat /\ received[k] \in Nat
    BY DEF TypeOK, FlowTypeOK, RespTypeOK
  <1>1. CASE UNCHANGED <<flowVars, respVars>>
    BY <1>0, <1>1 DEF FileInv, flowVars, respVars
  <1>2. CASE FlowNext /\ UNCHANGED respVars
    <2>0. UNCHANGED <<rpc, watchfile, received>>
      BY <1>2 DEF respVars
    <2>1. CASE UNCHANGED <<appfile, sent, confirmed>>
      BY <1>0, <2>0, <2>1 DEF FileInv
    <2>2. CASE ProducerRecord
      <3>1. /\ sent' = Add(sent, pending) /\ confirmed' = confirmed
            /\ appfile' = appfile \/ appfile' = [sent |-> sent', confirmed |-> confirmed]
        BY <2>2 DEF ProducerRecord
      <3>2. \A k \in Keys : sent[k] <= sent'[k] /\ sent'[k] \in Nat
        BY <1>0, <3>1, AddGrows DEF FlowTypeOK
      <3>3. CASE appfile' = appfile
        <4>1. \A k \in Keys : appfile'.sent[k] <= sent'[k]
          BY <1>0, <3>2, <3>3 DEF FileInv
        <4> QED
          BY <1>0, <2>0, <3>1, <3>3, <4>1 DEF FileInv
      <3>4. CASE appfile' = [sent |-> sent', confirmed |-> confirmed]
        <4>1. appfile'.sent = sent' /\ appfile'.confirmed = confirmed'
          BY <3>1, <3>4
        <4>2. \A k \in Keys : /\ appfile'.sent[k] <= sent'[k]
                             /\ appfile'.confirmed[k] <= confirmed'[k]
          BY <1>0, <3>1, <3>2, <4>1
        <4> QED
          BY <1>0, <2>0, <4>2 DEF FileInv
      <3> QED
        BY <3>1, <3>3, <3>4
    <2>3. CASE ConsumerRecord
      <3>1. confirmed' = Add(confirmed, cmsg) /\ UNCHANGED <<appfile, sent>>
        BY <2>3 DEF ConsumerRecord, mainVars
      <3>2. \A k \in Keys : confirmed[k] <= confirmed'[k] /\ confirmed'[k] \in Nat
        BY <1>0, <3>1, AddGrows DEF FlowTypeOK
      <3>3. \A k \in Keys : appfile.confirmed[k] <= confirmed'[k]
        BY <1>0, <3>2 DEF FileInv
      <3> QED
        BY <1>0, <2>0, <3>1, <3>3 DEF FileInv
    <2>4. CASE MainWrite
      <3>1. appfile' = [sent |-> sent, confirmed |-> confirmed] /\ UNCHANGED <<sent, confirmed>>
        BY <2>4 DEF MainWrite
      <3>2. appfile'.sent = sent' /\ appfile'.confirmed = confirmed'
        BY <3>1
      <3>3. \A k \in Keys : /\ appfile'.sent[k] <= sent'[k]
                           /\ appfile'.confirmed[k] <= confirmed'[k]
        BY <1>0, <3>1, <3>2
      <3> QED
        BY <1>0, <2>0, <3>3 DEF FileInv
    <2>5. \/ UNCHANGED <<appfile, sent, confirmed>>
          \/ ProducerRecord \/ ConsumerRecord \/ MainWrite
      BY <1>2 DEF FlowNext, Deadline, ProducerConnect, ProducerPut, ProducerCommit, ProducerExit,
                  ProducerRaise, ConsumerConnect, ConsumerGet, ConsumerGetNotDRv1, ConsumerCommit,
                  ConsumerExit, ConsumerRaise, ConsumerFails, MainStop, MainJoin, MainExit,
                  flowVars, mainVars
    <2> QED
      BY <2>1, <2>2, <2>3, <2>4, <2>5
  <1>3. CASE RespNext(Unexpected) /\ UNCHANGED flowVars
    <2>0. UNCHANGED <<appfile, sent, confirmed>>
      BY <1>3 DEF flowVars
    <2>1. CASE RespRecord
      <3>1. /\ received' = Add(received, rmsg) /\ rpc' = "loop"
            /\ watchfile' = watchfile \/ watchfile' = received'
        BY <2>1 DEF RespRecord
      <3>2. \A k \in Keys : received[k] <= received'[k] /\ received'[k] \in Nat
        BY <1>0, <3>1, AddGrows DEF RespTypeOK
      <3>3. \A k \in Keys : watchfile'[k] <= received'[k]
        BY <1>0, <3>1, <3>2 DEF FileInv
      <3> QED
        BY <1>0, <2>0, <3>1, <3>3 DEF FileInv
    <2>2. CASE received' = received /\ watchfile' = received
      BY <1>0, <2>0, <2>2 DEF FileInv
    <2>3. CASE UNCHANGED <<received, watchfile>> /\ rpc' \notin {"done", "failed"}
      BY <1>0, <2>0, <2>3 DEF FileInv
    <2>4. CASE UNCHANGED <<received, watchfile, rpc>>
      BY <1>0, <2>0, <2>4 DEF FileInv
    <2> QED
      BY <1>3, <2>1, <2>2, <2>3, <2>4
         DEF RespNext, RespDeadline, RespConnect, RespGet, RespPutReply, PutInUow, PutFails,
             RespDeadLetter, RespCommit, RespExit, RespRaise, respVars
  <1> QED
    BY <1>1, <1>2, <1>3 DEF Next

-----------------------------------------------------------------------------
(***************************************************************************)
(* The invariant and the properties.                                       *)
(***************************************************************************)

\* IInv holds in every reachable state: the units of work, the account of
\* messages, the ledgers and main stay consistent with one another through
\* every interleaving of the clients and the queue manager's failures.
THEOREM Invariance == Spec => []IInv
  <1>1. Init => IInv
    <2> SUFFICES ASSUME Init PROVE IInv
      OBVIOUS
    <2>1. TypeOK
      BY InitType
    <2>2. \A k \in Keys : Nothing[k] = 0
      BY DEF Nothing
    <2>3. UowInv
      BY <2>2, Members DEF Init, QMInit, FlowInit, RespInit, UowInv, UowAt
    <2>4. AccountInv
      BY <2>2, Members DEF Init, QMInit, AccountInv
    <2>5. SendInv
      <3>1. \A k \in Seqs : k \in Keys /\ k > 0
        BY DEF Seqs, Keys
      <3>2. /\ seq = 0 /\ pending = 0 /\ ppc = "loop" /\ downs = 0
            /\ \A k \in Keys : sent[k] = 0 /\ landed[k] = 0
        BY <2>2 DEF Init, QMInit, FlowInit
      <3>3. \A k \in Seqs : ~(k <= 0) /\ k > 0
        BY DEF Seqs
      <3> QED
        BY <3>1, <3>2, <3>3 DEF SendInv
    <2>6. WatcherInv /\ ConfirmInv
      BY <2>2, Members DEF Init, QMInit, FlowInit, RespInit, WatcherInv, ConfirmInv
    <2>7. MainInv
      BY DEF Init, FlowInit, MainInv
    <2>8. FileInv
      BY <2>2 DEF Init, FlowInit, RespInit, FileInv
    <2> QED
      BY <2>1, <2>3, <2>4, <2>5, <2>6, <2>7, <2>8 DEF IInv
  <1>2. IInv /\ [Next]_vars /\ TypeOK' => IInv'
    <2> SUFFICES ASSUME IInv, [Next]_vars, TypeOK' PROVE IInv'
      OBVIOUS
    <2>1. CASE QMNext /\ UNCHANGED <<flowVars, respVars>>
      <3>1. UowInv' /\ AccountInv' /\ SendInv' /\ WatcherInv'
        BY <2>1, UowQM, AccountQM, SendQM, WatcherQM
      <3> QED
        BY <2>1, <3>1, ConfirmStep, MainStep, FileStep DEF IInv, Next
    <2>2. CASE FlowNext /\ UNCHANGED respVars
      <3>1. UowInv' /\ AccountInv' /\ SendInv' /\ WatcherInv'
        BY <2>2, UowFlow, AccountFlow, SendFlow, WatcherFlow
      <3> QED
        BY <2>2, <3>1, ConfirmStep, MainStep, FileStep DEF IInv, Next
    <2>3. CASE RespNext(Unexpected) /\ UNCHANGED flowVars
      <3>1. UowInv' /\ AccountInv' /\ SendInv' /\ WatcherInv'
        BY <2>3, UowResp, AccountResp, SendResp, WatcherResp
      <3> QED
        BY <2>3, <3>1, ConfirmStep, MainStep, FileStep DEF IInv, Next
    <2>4. CASE UNCHANGED vars
      <3>1. UNCHANGED <<qmVars, flowVars, respVars>>
        BY <2>4 DEF vars
      <3>2. UowInv' /\ AccountInv'
        BY <3>1 DEF IInv, UowInv, UowAt, AccountInv, qmVars, flowVars, respVars
      <3>3. SendInv' /\ WatcherInv' /\ ConfirmInv' /\ MainInv' /\ FileInv'
        BY <3>1 DEF IInv, SendInv, WatcherInv, ConfirmInv, MainInv, FileInv,
                    qmVars, flowVars, respVars
      <3> QED
        BY <3>2, <3>3 DEF IInv
    <2> QED
      BY <2>1, <2>2, <2>3, <2>4 DEF Next
  <1> QED
    BY <1>1, <1>2, TypeCorrect, PTL DEF Spec

\* The ledgers never claim more than happened, no seq is skipped or re-keyed,
\* and duplicates, missed RECEIVEDs and swallowed requests stay within the
\* bounds the failures explain.
LEMMA InvImplies ==
  ASSUME IInv
  PROVE  /\ SentLanded /\ NoPhantoms /\ NoSeqSkipped /\ DuplicatesNeedFailures
         /\ WatcherMissesOnlyInDoubt /\ SwallowedOnlyAtDeadline /\ ExitHonest /\ FilesHonest
  <1> USE DEF IInv
  <1>0. /\ \A k \in Seqs : k \in Keys /\ k \in Nat
        /\ \A k \in 1..seq : k \in Seqs
        /\ downs \in Nat /\ seq \in Nat
    BY Members, QMAssumption DEF TypeOK, QMTypeOK, FlowTypeOK, Seqs
  <1>1. SentLanded /\ NoSeqSkipped /\ DuplicatesNeedFailures
    BY <1>0, Counts DEF SendInv, SentLanded, NoSeqSkipped, DuplicatesNeedFailures
  <1>2. ASSUME NEW k \in Seqs
        PROVE  /\ received[k] <= processed[k]
               /\ confirmed[k] <= taken[k]
               /\ taken[k] <= processed[k]
               /\ processed[k] + swallowed[k] <= landed[k]
    <2>1. /\ landed[k] \in Nat /\ reqq[k] \in Nat /\ got["responder"][k] \in Nat
          /\ processed[k] \in Nat /\ swallowed[k] \in Int /\ expired[k] \in Nat
          /\ repq[k] \in Nat /\ got["consumer"][k] \in Nat /\ taken[k] \in Nat
          /\ received[k] \in Nat /\ confirmed[k] \in Nat
      BY <1>0, <1>2, Counts
    <2> QED
      BY <1>2, <2>1 DEF AccountInv, WatcherInv, ConfirmInv
  <1>3. WatcherMissesOnlyInDoubt
    BY <1>0, Counts DEF WatcherInv, WatcherMissesOnlyInDoubt
  <1>4. SwallowedOnlyAtDeadline
    <2>1. \A k \in Keys : swallowed[k] \in {0, 1}
      BY DEF WatcherInv
    <2>2. ASSUME NEW k \in Keys, swallowed[k] > 0
          PROVE  rpc = "done" /\ k = rmsg
      <3>1. swallowed[k] = 1
        BY <2>1, <2>2
      <3> QED
        BY <3>1, <2>2 DEF WatcherInv
    <2> QED
      BY <2>1, <2>2 DEF SwallowedOnlyAtDeadline
  <1>5. ExitHonest
    BY <1>0 DEF MainInv, ExitHonest, TypeOK, FlowTypeOK
  <1>6. FilesHonest
    <2>1. ASSUME NEW k \in Seqs
          PROVE  /\ appfile.sent[k] <= landed[k]
                 /\ appfile.confirmed[k] <= taken[k]
                 /\ watchfile[k] <= processed[k]
      <3>1. /\ appfile.sent[k] \in Nat /\ appfile.confirmed[k] \in Nat /\ watchfile[k] \in Nat
            /\ k \in Keys
        BY <1>0, <2>1 DEF TypeOK, FlowTypeOK, RespTypeOK
      <3>2. /\ appfile.sent[k] <= sent[k] /\ appfile.confirmed[k] <= confirmed[k]
            /\ watchfile[k] <= received[k]
        BY <3>1 DEF FileInv
      <3>3. sent[k] <= landed[k]
        BY <1>1, <2>1 DEF SentLanded
      <3> QED
        BY <1>2, <2>1, <3>1, <3>2, <3>3, Counts
    <2> QED
      BY <2>1 DEF FilesHonest, FileInv
  <1> QED
    BY <1>1, <1>2, <1>3, <1>4, <1>5, <1>6 DEF NoPhantoms

\* SENT only what landed, once (dr_flow.producer).
THEOREM SentLandedAlways == Spec => []SentLanded
  BY Invariance, InvImplies, PTL

\* No phantom RECEIVED or CONFIRMED (dr_responder._serve, dr_flow.consumer).
THEOREM NoPhantomsAlways == Spec => []NoPhantoms
  BY Invariance, InvImplies, PTL

\* The in-flight message is never dropped or re-keyed (dr_flow.producer).
THEOREM NoSeqSkippedAlways == Spec => []NoSeqSkipped
  BY Invariance, InvImplies, PTL

\* A duplicate landing needs a queue manager failure (dr_flow.producer).
THEOREM DuplicatesNeedFailuresAlways == Spec => []DuplicatesNeedFailures
  BY Invariance, InvImplies, PTL

\* The Watcher misses only in-doubt commits (dr_responder._serve).
THEOREM WatcherMissesAlways == Spec => []WatcherMissesOnlyInDoubt
  BY Invariance, InvImplies, PTL

\* Only the deadline's disconnect consumes a request without a reply
\* (dr_responder._run).
THEOREM SwallowedAlways == Spec => []SwallowedOnlyAtDeadline
  BY Invariance, InvImplies, PTL

\* main's return code and ledger file are honest (dr_flow.main).
THEOREM ExitHonestAlways == Spec => []ExitHonest
  BY Invariance, InvImplies, PTL

\* What a killed client leaves on disk never over-claims (Ledger.write_jsonl as
\* dr_flow.producer, dr_flow.main and dr_responder._run call it).
THEOREM FilesHonestAlways == Spec => []FilesHonest
  BY Invariance, InvImplies, PTL

-----------------------------------------------------------------------------
(***************************************************************************)
(* The drill's verdict is sound: it follows from the inductive invariant   *)
(* and the definition of mq-dr-baseline's checks.                          *)
(***************************************************************************)

\* What mq-dr-baseline lets through has a CONFIRMED for every SENT.
LEMMA BaselineConfirms ==
  ASSUME NEW app, NEW svc, BaselineOK(app, svc), NEW k \in sent_seqs(app)
  PROVE  k \in confirmed_seqs(app)
  <1> DEFINE facts == BaselineFacts(app, svc)
  <1>1. k \in DOMAIN facts /\ facts[k].app_confirmed = (k \in confirmed_seqs(app))
    BY DEF BaselineFacts, reconcile
  <1>2. classify(facts[k]) = "confirmed"
    BY <1>1 DEF BaselineOK, self_correctness_violations
  <1> QED
    BY <1>1, <1>2 DEF classify

\* A drill mq-dr-baseline lets through lost no message (dr_baseline.main).
THEOREM VerdictSoundAlways == Spec => []VerdictSound
  <1>1. IInv => VerdictSound
    <2> SUFFICES ASSUME IInv, Collected, Verdict, NEW k \in Seqs, sent[k] > 0
                 PROVE  landed[k] > 0 /\ processed[k] > 0 /\ taken[k] > 0
      BY DEF VerdictSound
    <2>1. k \in Keys /\ sent[k] \in Nat /\ landed[k] \in Nat /\ processed[k] \in Nat
          /\ taken[k] \in Nat /\ confirmed[k] \in Nat /\ appfile.confirmed[k] \in Nat
      BY Members, Counts DEF IInv, TypeOK, FlowTypeOK
    <2>2. appfile.sent = sent
      BY DEF IInv, MainInv, Collected
    <2>3. DOMAIN appfile.sent = Keys /\ DOMAIN appfile.confirmed = Keys
      BY DEF IInv, TypeOK, FlowTypeOK
    <2>4. k \in sent_seqs(appfile)
      BY <2>1, <2>2, <2>3 DEF sent_seqs
    <2>5. appfile.confirmed[k] > 0
      BY <2>4, BaselineConfirms DEF Verdict, confirmed_seqs
    <2>6. /\ confirmed[k] <= taken[k] /\ taken[k] <= processed[k] /\ sent[k] <= landed[k]
      BY InvImplies DEF NoPhantoms, SentLanded
    <2>7. appfile.confirmed[k] <= confirmed[k]
      BY <2>1 DEF IInv, FileInv
    <2> QED
      BY <2>1, <2>5, <2>6, <2>7
  <1> QED
    BY <1>1, Invariance, PTL
-----------------------------------------------------------------------------
(***************************************************************************)
(* DRSystem implements AtLeastOnce: every step of the system is, for the   *)
(* producer's promise, a step of AtLeastOnce or a stutter.                 *)
(***************************************************************************)
\* A step that leaves the producer's own state alone and lands at most the
\* pending message is a delivery or a stutter.
LEMMA LandingRefines ==
  ASSUME IInv, UNCHANGED <<seq, pending, sent>>,
         \A k \in Keys : \/ landed'[k] = landed[k]
                         \/ landed'[k] = landed[k] + 1 /\ k = pending /\ pending # 0
  PROVE  Sender!Next \/ UNCHANGED Sender!vars
  <1> USE DEF IInv
  <1>1. CASE \A k \in Seqs : landed'[k] = landed[k]
    <2>1. [k \in Seqs |-> landed[k]]' = [k \in Seqs |-> landed[k]]
      BY <1>1
    <2>2. [k \in Seqs |-> sent[k]]' = [k \in Seqs |-> sent[k]]
      OBVIOUS
    <2> QED
      BY <2>1, <2>2 DEF Sender!vars
  <1>2. CASE ~(\A k \in Seqs : landed'[k] = landed[k])
    <2>1. PICK j \in Seqs : landed'[j] # landed[j]
      BY <1>2
    <2>2. j = pending /\ pending # 0 /\ landed'[j] = landed[j] + 1
      BY <2>1, Members
    <2>3. \A k \in Seqs : landed'[k] = IF k = pending THEN landed[k] + 1 ELSE landed[k]
      BY <2>2, Members
    <2>4. [k \in Seqs |-> landed[k]]'
            = [[k \in Seqs |-> landed[k]] EXCEPT ![pending] = @ + 1]
      BY <2>1, <2>2, <2>3
    <2>5. [k \in Seqs |-> sent[k]]' = [k \in Seqs |-> sent[k]]
      OBVIOUS
    <2>6. Sender!Deliver
      BY <2>2, <2>4, <2>5 DEF Sender!Deliver
    <2> QED
      BY <2>6 DEF Sender!Next
  <1> QED
    BY <1>1, <1>2

\* What the queue manager and the responder do is a delivery or a stutter: only
\* a failure with the producer's commit in flight lands anything.
LEMMA OthersRefine ==
  ASSUME IInv, QMNext \/ RespNext(Unexpected), UNCHANGED flowVars
  PROVE  Sender!Next \/ UNCHANGED Sender!vars
  <1> USE DEF IInv
  <1>0. UNCHANGED <<seq, pending, sent>>
    BY DEF flowVars
  <1>1. CASE EndMqm \/ QmStart \/ Expire \/ PutForeign
    <2>1. landed' = landed
      BY <1>1 DEF EndMqm, QmStart, Expire, PutForeign, queueVars
    <2> QED
      BY <1>0, <2>1, LandingRefines
  <1>2. CASE QmDown(Committing)
    <2>1. PICK landing \in SUBSET Committing : Resolve(landing, Procs \ landing)
      BY <1>2 DEF QmDown
    <2>2. landing \in SUBSET Procs /\ Procs \ landing \in SUBSET Procs
      BY <2>1 DEF Committing
    <2>3. ASSUME NEW k \in Keys
          PROVE  \/ landed'[k] = landed[k]
                 \/ landed'[k] = landed[k] + 1 /\ k = pending /\ pending # 0
      <3>1. ResolvedAt(landing, Procs \ landing, k)
        BY <2>1, <2>2, <2>3, ResolveAt
      <3>2. UowAt(k)
        BY <2>3 DEF UowInv
      <3>3. ppc = "commit" => pending # 0
        BY DEF SendInv
      <3> QED
        BY <2>3, <3>1, <3>2, <3>3, Counts DEF ResolvedAt, Of, UowAt
    <2> QED
      BY <1>0, <2>3, LandingRefines
  <1>3. CASE RespNext(Unexpected)
    <2>1. Calls("responder") \/ UNCHANGED landed
      BY <1>3 DEF RespNext, Calls, RespDeadline, RespConnect, RespGet, RespPutReply,
             RespDeadLetter, PutInUow, PutFails, RespCommit, RespRecord, RespExit, RespRaise, qmVars
    <2>2. \A k \in Keys : landed'[k] = landed[k]
      BY <2>1, CallHistory, Members
    <2> QED
      BY <1>0, <2>2, LandingRefines
  <1> QED
    BY <1>1, <1>2, <1>3 DEF QMNext

\* The producer makes a message when it builds pending, delivers it with a
\* commit and acknowledges it with SENT; the rest of dr_flow stutters.
LEMMA FlowRefines ==
  ASSUME IInv, FlowNext
  PROVE  Sender!Next \/ UNCHANGED Sender!vars
  <1> USE DEF IInv
  <1>1. CASE Deadline \/ MainStop \/ MainJoin \/ MainWrite \/ ConsumerRecord
    <2>1. UNCHANGED <<seq, pending, sent, landed>>
      BY <1>1 DEF Deadline, MainStop, MainJoin, MainWrite, ConsumerRecord,
                  qmVars, prodVars, mainVars
    <2> QED
      BY <2>1, LandingRefines
  <1>2. CASE ConsumerConnect \/ ConsumerGet \/ ConsumerGetNotDRv1 \/ ConsumerCommit
             \/ ConsumerExit \/ ConsumerRaise \/ MainExit
    <2>1. UNCHANGED <<seq, pending, sent>>
      BY <1>2 DEF ConsumerConnect, ConsumerGet, ConsumerGetNotDRv1, ConsumerCommit, ConsumerExit,
                  ConsumerRaise, ConsumerFails, MainExit, flowVars, prodVars
    <2>2. Calls("consumer") \/ UNCHANGED landed
      BY <1>2 DEF Calls, ConsumerConnect, ConsumerGet, ConsumerGetNotDRv1, ConsumerCommit,
                  ConsumerExit, ConsumerRaise, MainExit, qmVars
    <2>3. \A k \in Keys : landed'[k] = landed[k]
      BY <2>2, CallHistory, Members
    <2> QED
      BY <2>1, <2>3, LandingRefines
  <1>3. CASE ProducerConnect \/ ProducerCommit \/ ProducerExit \/ ProducerRaise
    <2>1. UNCHANGED <<seq, pending, sent>> /\ Calls("producer")
      BY <1>3 DEF ProducerConnect, ProducerCommit, ProducerExit, ProducerRaise, Calls, flowVars
    <2>2. ASSUME NEW k \in Keys
          PROVE  \/ landed'[k] = landed[k]
                 \/ landed'[k] = landed[k] + 1 /\ k = pending /\ pending # 0
      <3>1. UowAt(k)
        BY <2>2 DEF UowInv
      <3>2. landed'[k] = landed[k] \/ landed'[k] = landed[k] + put["producer"][k]
        BY <2>1, <2>2, CallHistory, Members
      <3>3. ppc = "commit" => pending # 0
        BY DEF SendInv
      <3> QED
        BY <2>2, <3>1, <3>2, <3>3, Counts DEF UowAt
    <2> QED
      BY <2>1, <2>2, LandingRefines
  <1>4. CASE ProducerPut
    <2>1. \A k \in Keys : landed'[k] = landed[k]
      <3>1. CASE Interrupted("producer") \/ Broken("producer")
        BY <3>1, CallHistory, Members DEF Calls
      <3>2. CASE Resolve({}, {"producer"})
        <4>1. ASSUME NEW k \in Keys PROVE landed'[k] = landed[k]
          <5>1. ResolvedAt({}, {"producer"}, k)
            BY <3>2, <4>1, ResolveAt, Members
          <5> QED
            BY <4>1, <5>1, Counts DEF ResolvedAt, Of
        <4> QED
          BY <4>1
      <3> QED
        BY <1>4, <3>1, <3>2 DEF ProducerPut
    <2>2. /\ pending # 0 \/ seq < MaxSeq
          /\ seq' = IF pending = 0 THEN seq + 1 ELSE seq
          /\ pending' = IF pending = 0 THEN seq + 1 ELSE pending
          /\ sent' = sent
      BY <1>4 DEF ProducerPut, BuildPending
    <2>3. CASE pending # 0
      BY <2>1, <2>2, <2>3, LandingRefines
    <2>4. CASE pending = 0
      <3>1. [k \in Seqs |-> landed[k]]' = [k \in Seqs |-> landed[k]]
        BY <2>1, Members
      <3>2. [k \in Seqs |-> sent[k]]' = [k \in Seqs |-> sent[k]]
        BY <2>2
      <3>3. Sender!Make
        BY <2>2, <2>4, <3>1, <3>2 DEF Sender!Make
      <3> QED
        BY <3>3 DEF Sender!Next
    <2> QED
      BY <2>3, <2>4
  <1>5. CASE ProducerRecord
    <2>1. /\ sent' = Add(sent, pending) /\ pending' = 0 /\ ppc = "record"
          /\ UNCHANGED <<seq, landed>>
      BY <1>5 DEF ProducerRecord, qmVars
    <2>2. pending \in Seqs /\ pending # 0 /\ landed[pending] >= 1 /\ landed[pending] \in Nat
      <3>1. pending # 0 /\ landed[pending] >= 1 /\ pending \in Keys
        BY <2>1 DEF SendInv, TypeOK, FlowTypeOK
      <3> QED
        BY <3>1, Counts DEF Keys, NotDRv1
    <2>3. \A k \in Seqs : sent'[k] = IF k = pending THEN sent[k] + 1 ELSE sent[k]
      BY <2>1, Members DEF Add, TypeOK, FlowTypeOK
    <2>4. [k \in Seqs |-> sent[k]]' = [[k \in Seqs |-> sent[k]] EXCEPT ![pending] = @ + 1]
      BY <2>2, <2>3
    <2>5. [k \in Seqs |-> landed[k]][pending] > 0
      BY <2>2
    <2>6. [k \in Seqs |-> landed[k]]' = [k \in Seqs |-> landed[k]]
      BY <2>1
    <2>7. Sender!Acknowledge
      BY <2>1, <2>2, <2>4, <2>5, <2>6 DEF Sender!Acknowledge
    <2> QED
      BY <2>7 DEF Sender!Next
  <1> QED
    BY <1>1, <1>2, <1>3, <1>4, <1>5 DEF FlowNext

\* dr_flow's producer keeps the promise of AtLeastOnce, whatever the number of
\* messages and failures.
THEOREM SendRefinesAlways == Spec => SendRefines
  <1>1. Init => Sender!Init
    <2> SUFFICES ASSUME Init PROVE Sender!Init
      OBVIOUS
    <2>1. seq = 0 /\ pending = 0 /\ landed = Nothing /\ sent = Nothing
      BY DEF Init, QMInit, FlowInit
    <2>2. \A k \in Seqs : Nothing[k] = 0
      BY Members DEF Nothing
    <2> QED
      BY <2>1, <2>2 DEF Sender!Init, Sender!Ids, Seqs
  <1>2. IInv /\ [Next]_vars => [Sender!Next]_(Sender!vars)
    <2> SUFFICES ASSUME IInv, [Next]_vars
                 PROVE  Sender!Next \/ UNCHANGED Sender!vars
      OBVIOUS
    <2>1. CASE (QMNext \/ RespNext(Unexpected)) /\ UNCHANGED flowVars
      BY <2>1, OthersRefine
    <2>2. CASE FlowNext
      BY <2>2, FlowRefines
    <2>3. CASE UNCHANGED vars
      BY <2>3 DEF vars, qmVars, flowVars, Sender!vars
    <2> QED
      BY <2>1, <2>2, <2>3 DEF Next
  <1> QED
    BY <1>1, <1>2, Invariance, PTL DEF Spec, SendRefines, Sender!Spec
=============================================================================
