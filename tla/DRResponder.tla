---------------------------- MODULE DRResponder -----------------------------
(***************************************************************************)
(* mq-dr-responder (mqrc/dr_responder.py): one process that gets a request,*)
(* replies and commits, and keeps the Watcher ledger.  RECEIVED and REPLIED*)
(* are always appended together, so one count per seq stands for both.     *)
(***************************************************************************)
EXTENDS QueueManager

VARIABLES
  rpc,        \* "loop", "put", "deadletter", "commit", "record", "done", "failed"
  rmsg,       \* the key of the request _serve got last
  rlate,      \* the responder's deadline has passed
  received,   \* Watcher ledger: copies of RECEIVED (and REPLIED) per seq
  watchfile   \* the Watcher ledger file

respVars == <<rpc, rmsg, rlate, received, watchfile>>

RespTypeOK ==
  /\ rpc \in {"loop", "put", "deadletter", "commit", "record", "done", "failed"}
  /\ rmsg \in Keys /\ rlate \in BOOLEAN
  /\ received \in [Keys -> Nat] /\ watchfile \in [Keys -> Nat]

RespInit ==
  /\ rpc = "loop" /\ rmsg = 0 /\ rlate = FALSE
  /\ received = Nothing /\ watchfile = Nothing

RespDeadline ==
  /\ ~rlate /\ rlate' = TRUE
  /\ UNCHANGED <<qmVars, rpc, rmsg, received, watchfile>>

RespConnect ==
  /\ rpc = "loop" /\ ~rlate
  /\ Connect("responder")
  /\ UNCHANGED respVars

\* Mutant: a broken connection is not dropped and rebuilt.
RespGetNoRebuild ==
  /\ rpc = "loop" /\ ~rlate
  /\ \/ /\ conn["responder"] = "ok" /\ qm = "up"
        /\ \E k \in Keys :
             /\ reqq[k] > 0
             /\ reqq' = Drop(reqq, k)
             /\ got' = [got EXCEPT !["responder"] = Add(@, k)]
             /\ rmsg' = k
             /\ rpc' = IF k = NotDRv1 THEN "deadletter" ELSE "put"
        /\ UNCHANGED <<qm, conn, repq, dlq, put, downs, foreign,
                       landed, expired, processed, swallowed, taken>>
     \/ Interrupted("responder") /\ UNCHANGED <<rpc, rmsg>>
  /\ UNCHANGED <<rlate, received, watchfile>>

\* qin.get: any request on the queue; or interrupted; or the connection is
\* gone and _run drops it to rebuild.
RespGet ==
  /\ rpc = "loop" /\ ~rlate
  /\ \/ /\ conn["responder"] = "ok" /\ qm = "up"
        /\ \E k \in Keys :
             /\ reqq[k] > 0
             /\ reqq' = Drop(reqq, k)
             /\ got' = [got EXCEPT !["responder"] = Add(@, k)]
             /\ rmsg' = k
             /\ rpc' = IF k = NotDRv1 THEN "deadletter" ELSE "put"
        /\ UNCHANGED <<qm, conn, repq, dlq, put, downs, foreign,
                       landed, expired, processed, swallowed, taken>>
     \/ /\ Interrupted("responder") \/ Broken("responder")
        /\ UNCHANGED <<rpc, rmsg>>
  /\ UNCHANGED <<rlate, received, watchfile>>

\* A put under the UOW of the get: the reply, or the dead letter.
PutInUow ==
  /\ conn["responder"] = "ok" /\ qm = "up"
  /\ put' = [put EXCEPT !["responder"] = Add(@, rmsg)]
  /\ rpc' = "commit"
  /\ UNCHANGED <<qm, conn, reqq, repq, dlq, got, downs, foreign,
                 landed, expired, processed, swallowed, taken>>

\* The put failed: 2161 leaves the UOW, and the get in it, open; 2549/2003 and
\* the RECONNECT reasons come after the queue manager has settled it.
PutFails ==
  /\ \/ /\ conn["responder"] = "ok" /\ qm = "quiescing"
        /\ UNCHANGED qmVars
     \/ Interrupted("responder")
     \/ Broken("responder")
  /\ rpc' = "loop"

RespPutReply ==
  /\ rpc = "put"
  /\ PutInUow \/ PutFails
  /\ UNCHANGED <<rmsg, rlate, received, watchfile>>

\* dead_letter: without a DEADQ the unit of work is backed out and the
\* process ends; otherwise the message moves to the DLQ in this UOW.
RespDeadLetter ==
  /\ rpc = "deadletter"
  /\ \/ /\ Deadq
        /\ PutInUow \/ PutFails
        /\ UNCHANGED watchfile
     \/ /\ ~Deadq /\ conn["responder"] = "ok"
        /\ BackoutAndDisconnect("responder")
        /\ rpc' = "failed" /\ watchfile' = received
     \/ /\ ~Deadq
        /\ Interrupted("responder") \/ Broken("responder")
        /\ rpc' = "loop" /\ UNCHANGED watchfile
  /\ UNCHANGED <<rmsg, rlate, received>>

\* Mutant: any commit that returns is recorded.
RespCommitTrusting ==
  /\ rpc = "commit"
  /\ Commit("responder") \/ Interrupted("responder") \/ Broken("responder")
  /\ rpc' = IF rmsg = NotDRv1 THEN "loop" ELSE "record"
  /\ UNCHANGED <<rmsg, rlate, received, watchfile>>

\* Mutant: a clean commit is not recorded.
RespCommitUnrecorded ==
  /\ rpc = "commit"
  /\ Commit("responder") \/ Interrupted("responder") \/ Broken("responder")
  /\ rpc' = "loop"
  /\ UNCHANGED <<rmsg, rlate, received, watchfile>>

\* Only a clean commit of a reply is recorded; in doubt, backed out or broken
\* goes back to the loop and records nothing.
RespCommit ==
  /\ rpc = "commit"
  /\ \/ /\ Commit("responder")
        /\ rpc' = IF rmsg = NotDRv1 THEN "loop" ELSE "record"
     \/ (Interrupted("responder") \/ Broken("responder")) /\ rpc' = "loop"
  /\ UNCHANGED <<rmsg, rlate, received, watchfile>>

\* RECEIVED and REPLIED, then a flush if the last one is old enough.
RespRecord ==
  /\ rpc = "record"
  /\ received' = Add(received, rmsg)
  /\ watchfile' \in {watchfile, received'}
  /\ rpc' = "loop"
  /\ UNCHANGED <<qmVars, rmsg, rlate>>

\* Mutant: the ledger is not written at the end.
RespExitUnwritten ==
  /\ rpc = "loop" /\ rlate
  /\ Disconnect("responder")
  /\ rpc' = "done"
  /\ UNCHANGED <<rmsg, rlate, received, watchfile>>

\* The deadline at the top of the loop: _serve returns, _run disconnects and
\* writes the ledger.
RespExit ==
  /\ rpc = "loop" /\ rlate
  /\ Disconnect("responder")
  /\ rpc' = "done" /\ watchfile' = received
  /\ UNCHANGED <<rmsg, rlate, received>>

\* Mutant: disconnect without the backout.
RespRaiseNoBackout(unexpected) ==
  /\ unexpected
  /\ \/ rpc = "loop" /\ ~rlate
     \/ rpc \in {"put", "deadletter", "commit"}
  /\ Disconnect("responder")
  /\ rpc' = "failed" /\ watchfile' = received
  /\ UNCHANGED <<rmsg, rlate, received>>

\* Any other reason: back out the open UOW, disconnect, write the ledger,
\* re-raise.
RespRaise(unexpected) ==
  /\ unexpected
  /\ \/ rpc = "loop" /\ ~rlate
     \/ rpc \in {"put", "deadletter", "commit"}
  /\ BackoutAndDisconnect("responder")
  /\ rpc' = "failed" /\ watchfile' = received
  /\ UNCHANGED <<rmsg, rlate, received>>

RespNext(unexpected) ==
  \/ RespDeadline \/ RespConnect \/ RespGet \/ RespPutReply \/ RespDeadLetter
  \/ RespCommit \/ RespRecord \/ RespExit \/ RespRaise(unexpected)
=============================================================================
