---------------------------- MODULE RequestReply ----------------------------
(***************************************************************************)
(* The live workload: mq-app-requester puts a persistent request with a    *)
(* ReplyToQ, waits 15 s for the reply whose CorrelId is the request's      *)
(* MsgId, counts the attempt and goes on; mq-svc-responder takes requests  *)
(* under syncpoint, replies (or dead-letters what it cannot answer) and    *)
(* commits.  The two are connected by queue managers and channels that     *)
(* deliver persistent messages exactly once but break connections, refuse  *)
(* calls and leave commits in doubt.  A killed responder is restarted by   *)
(* systemd.                                                                *)
(*                                                                         *)
(* A request is the number of the attempt that put it (its MsgId); a reply *)
(* is the number of the request it answers (its CorrelId).  A stray is a   *)
(* message of another program that cannot be answered: its ReplyToQ is     *)
(* blank, or names a queue the queue manager cannot resolve (2085, 2087).  *)
(***************************************************************************)
EXTENDS Naturals, Sequences, FiniteSets

CONSTANTS
    Count,      \* --count of the requester, > 0
    Strays,     \* messages that cannot be answered, numbers above Count
    Unresolvable,   \* those of them whose ReplyToQ is set and resolves to nothing
    MaxFaults   \* bound on broken connections, refused calls and kills

RequestReplyAssumption ==
    /\ Count \in Nat \ {0} /\ MaxFaults \in Nat
    /\ Strays \cap (0..Count) = {} /\ Strays \subseteq Nat /\ Unresolvable \subseteq Strays

VARIABLES
    req,        \* the requester: program counter, attempt, connection, stats
    resp,       \* the responder: program counter and its unit of work
    transit,    \* messages on their way to SVC.REQUEST
    requests,   \* SVC.REQUEST, a sequence
    replies,    \* APP.REPLY: reply correlation identifiers with repetitions
    answered,   \* number of committed replies of each message
    deadq,      \* the dead-letter queue of the service queue manager
    hasDLQ,     \* whether the service queue manager has a DEADQ
    faults,     \* faults that happened, at most MaxFaults
    landed      \* attempts whose put landed
vars == <<req, resp, transit, requests, replies, answered, deadq, hasDLQ, faults, landed>>

Messages == 1..Count \cup Strays
BlankReplyToQ == Strays \ Unresolvable
None == 0

(* RoundTripStats: every attempt once, and the ones that failed. *)
NewStats == [total |-> 0, failures |-> 0, matched |-> {}]
record_success(st, i) == [st EXCEPT !.total = @ + 1, !.matched = @ \cup {i}]
record_failure(st) == [st EXCEPT !.total = @ + 1, !.failures = @ + 1]

Init ==
    /\ req = [pc |-> "attempt", i |-> 0, conn |-> "none", stats |-> NewStats,
              published |-> NewStats, dead |-> 0]
    /\ resp = [pc |-> "connect", got |-> None, put |-> None]
    /\ transit = Strays
    /\ requests = <<>>
    /\ replies = [m \in Messages |-> 0]
    /\ answered = [m \in Messages |-> 0]
    /\ deadq = {}
    /\ hasDLQ \in BOOLEAN
    /\ faults = 0
    /\ landed = {}

Fault == faults < MaxFaults /\ faults' = faults + 1

----------------------------------------------------------------------------
(* The requester *)

(* _connect when there is no connection; its failure is caught like any
   other MQMIError of the attempt.  The current attempt is i + 1. *)
Connect ==
    /\ req.pc = "attempt" /\ req.i < Count /\ req.conn = "none"
    /\ \/ req' = [req EXCEPT !.conn = "up"] /\ UNCHANGED faults
       \/ Fault /\ \E reason \in {"dead", "other"} : req' = [req EXCEPT !.pc = reason]
    /\ UNCHANGED <<resp, transit, requests, replies, answered, deadq, hasDLQ, landed>>

(* The connection of the requester breaks under it. *)
ConnectionBreaks ==
    /\ Fault /\ req.conn = "up"
    /\ req' = [req EXCEPT !.conn = "broken"]
    /\ UNCHANGED <<resp, transit, requests, replies, answered, deadq, hasDLQ, landed>>

(* qreq.put outside syncpoint.  On a broken connection it fails with a
   reconnectable reason and the request may or may not have landed; on a
   good one it may be refused (a full queue, say). *)
PutRequest ==
    /\ req.pc = "attempt" /\ req.i < Count
    /\ \/ /\ req.conn = "up"
          /\ req' = [req EXCEPT !.pc = "wait"]
          /\ transit' = transit \cup {req.i + 1} /\ landed' = landed \cup {req.i + 1}
          /\ UNCHANGED faults
       \/ /\ req.conn = "up" /\ Fault
          /\ req' = [req EXCEPT !.pc = "other"]
          /\ UNCHANGED <<transit, landed>>
       \/ /\ req.conn = "broken"
          /\ req' = [req EXCEPT !.pc = "dead", !.dead = @ + 1]
          /\ \/ UNCHANGED <<transit, landed>>
             \/ transit' = transit \cup {req.i + 1} /\ landed' = landed \cup {req.i + 1}
          /\ UNCHANGED faults
    /\ UNCHANGED <<resp, requests, replies, answered, deadq, hasDLQ>>

(* The replies a get by CorrelId may return: the ones of this attempt. *)
match_correl_id(i) == {m \in Messages : m = i /\ replies[m] > 0}

(* qrep.get with its wait limit: the reply, MQRC_NO_MSG_AVAILABLE after the
   limit, or a dead connection.  A reply that comes later stays where it is. *)
GetReply ==
    /\ req.pc = "wait"
    /\ \/ /\ req.conn = "up"
          /\ \E m \in match_correl_id(req.i + 1) :
                /\ replies' = [replies EXCEPT ![m] = @ - 1]
                /\ req' = [req EXCEPT !.pc = "publish", !.stats = record_success(@, req.i + 1)]
       \/ /\ req.conn = "up" /\ match_correl_id(req.i + 1) = {}
          /\ req' = [req EXCEPT !.pc = "other"]
          /\ UNCHANGED replies
       \/ /\ req.conn = "broken"
          /\ req' = [req EXCEPT !.pc = "dead", !.dead = @ + 1]
          /\ UNCHANGED replies
    /\ UNCHANGED <<resp, transit, requests, answered, deadq, hasDLQ, faults, landed>>

(* What the handler leaves of the connection: torn down when the reason is
   one of _RECONNECT_REASONS, kept otherwise. *)
after_failure(conn, reason) == IF reason = "dead" THEN "none" ELSE conn

Failed ==
    /\ req.pc \in {"dead", "other"}
    /\ req' = [req EXCEPT !.pc = "publish", !.stats = record_failure(@),
                          !.conn = after_failure(@, req.pc)]
    /\ UNCHANGED <<resp, transit, requests, replies, answered, deadq, hasDLQ, faults, landed>>

(* publish_metrics replaces the text file whole or, on an OSError, leaves
   the earlier one; then the next attempt. *)
Publish ==
    /\ req.pc = "publish"
    /\ \/ req' = [req EXCEPT !.pc = "attempt", !.i = @ + 1, !.published = req.stats]
          /\ UNCHANGED faults
       \/ Fault /\ req' = [req EXCEPT !.pc = "attempt", !.i = @ + 1]
    /\ UNCHANGED <<resp, transit, requests, replies, answered, deadq, hasDLQ, landed>>

ExitStatus(stats) == IF stats.failures = 0 THEN "exit0" ELSE "exit1"

(* The last attempt is over: disconnect, and the exit status. *)
RequesterEnds ==
    /\ req.pc = "attempt" /\ req.i = Count
    /\ req' = [req EXCEPT !.pc = ExitStatus(req.stats), !.conn = "none"]
    /\ UNCHANGED <<resp, transit, requests, replies, answered, deadq, hasDLQ, faults, landed>>

----------------------------------------------------------------------------
(* The channels, and the responder *)

(* A channel delivers a message to SVC.REQUEST, once. *)
Deliver ==
    /\ \E m \in transit : transit' = transit \ {m} /\ requests' = Append(requests, m)
    /\ UNCHANGED <<req, resp, replies, answered, deadq, hasDLQ, faults, landed>>

(* connect_client; a failure ends the process, systemd restarts it. *)
RespConnect ==
    /\ resp.pc = "connect"
    /\ \/ resp' = [resp EXCEPT !.pc = "get"] /\ UNCHANGED faults
       \/ Fault /\ resp' = [resp EXCEPT !.pc = "down"]
    /\ UNCHANGED <<req, transit, requests, replies, answered, deadq, hasDLQ, landed>>

(* qin.get under syncpoint: the oldest request joins the unit of work.  An
   empty wait goes round the loop; a failing get is raised. *)
RespGet ==
    /\ resp.pc = "get"
    /\ \/ /\ requests # <<>>
          /\ resp' = [resp EXCEPT !.pc = IF Head(requests) \in BlankReplyToQ THEN "deadletter" ELSE "put",
                                  !.got = Head(requests)]
          /\ requests' = Tail(requests)
          /\ UNCHANGED faults
       \/ Fault /\ resp' = [resp EXCEPT !.pc = "raise"] /\ UNCHANGED requests
    /\ UNCHANGED <<req, transit, replies, answered, deadq, hasDLQ, landed>>

(* Before dead_letter a stray failed the reply open on every restart. *)
DeadLetterFails ==
    /\ resp.pc = "deadletter"
    /\ resp' = [resp EXCEPT !.pc = "raise"]
    /\ UNCHANGED <<req, transit, requests, replies, answered, deadq, hasDLQ, faults, landed>>

(* dead_letter: NoDeadLetterQueueError without a DEADQ; otherwise a put to it
   in the unit of work. *)
DeadLetter ==
    /\ resp.pc = "deadletter"
    /\ \/ hasDLQ /\ resp' = [resp EXCEPT !.pc = "commit", !.put = resp.got] /\ UNCHANGED faults
       \/ ~hasDLQ /\ resp' = [resp EXCEPT !.pc = "raise"] /\ UNCHANGED faults
       \/ Fault /\ resp' = [resp EXCEPT !.pc = "raise"]
    /\ UNCHANGED <<req, transit, requests, replies, answered, deadq, hasDLQ, landed>>

(* Open the ReplyToQ and put the reply in the unit of work.  An open of a name
   that resolves to nothing fails, now and on every redelivery. *)
PutReply ==
    /\ resp.pc = "put"
    /\ \/ /\ resp.got \notin Unresolvable
          /\ resp' = [resp EXCEPT !.pc = "commit", !.put = resp.got] /\ UNCHANGED faults
       \/ /\ resp.got \in Unresolvable
          /\ resp' = [resp EXCEPT !.pc = "raise"] /\ UNCHANGED faults
       \/ Fault /\ resp' = [resp EXCEPT !.pc = "raise"]
    /\ UNCHANGED <<req, transit, requests, replies, answered, deadq, hasDLQ, landed>>

(* What the queue manager does with a unit of work: apply its get and its
   put, or restore the request to the front of the queue. *)
ApplyUnit ==
    /\ deadq' = IF resp.put \in Strays THEN deadq \cup {resp.put} ELSE deadq
    /\ IF resp.put \in 1..Count
       THEN /\ replies' = [replies EXCEPT ![resp.put] = @ + 1]
            /\ answered' = [answered EXCEPT ![resp.put] = @ + 1]
       ELSE UNCHANGED <<replies, answered>>
    /\ UNCHANGED requests
RestoreUnit ==
    /\ requests' = IF resp.got = None THEN requests ELSE <<resp.got>> \o requests
    /\ UNCHANGED <<deadq, replies, answered>>

Idle(pc) == [pc |-> pc, got |-> None, put |-> None]

(* qmgr.commit.  On a connection that breaks during it the outcome is in
   doubt: the unit was committed or backed out, and the call fails. *)
RespCommit ==
    /\ resp.pc = "commit"
    /\ \/ ApplyUnit /\ resp' = Idle("get") /\ UNCHANGED faults
       \/ Fault /\ (ApplyUnit \/ RestoreUnit) /\ resp' = Idle("raise")
    /\ UNCHANGED <<req, transit, hasDLQ, landed>>

(* Without the backout the normal disconnect commits the unit. *)
RespRaiseNoBackout ==
    /\ resp.pc = "raise"
    /\ ApplyUnit
    /\ resp' = Idle("down")
    /\ UNCHANGED <<req, transit, hasDLQ, faults, landed>>
(* The handler: backout, then disconnect, exit 1.  A backout that fails does
   so on a broken connection, whose unit the queue manager backs out. *)
RespRaise ==
    /\ resp.pc = "raise"
    /\ RestoreUnit
    /\ resp' = Idle("down")
    /\ UNCHANGED <<req, transit, hasDLQ, faults, landed>>

(* The process or its host dies: the queue manager backs the unit out. *)
RespKilled ==
    /\ resp.pc # "down" /\ Fault
    /\ RestoreUnit
    /\ resp' = Idle("down")
    /\ UNCHANGED <<req, transit, hasDLQ, landed>>

(* systemd, Restart=always. *)
RespRestart ==
    /\ resp.pc = "down"
    /\ resp' = Idle("connect")
    /\ UNCHANGED <<req, transit, requests, replies, answered, deadq, hasDLQ, faults, landed>>

Requester == Connect \/ PutRequest \/ GetReply \/ Failed \/ Publish \/ RequesterEnds
Responder == RespConnect \/ RespGet \/ DeadLetter \/ PutReply \/ RespCommit \/ RespRaise \/ RespRestart
Next == Requester \/ ConnectionBreaks \/ Deliver \/ Responder \/ RespKilled

(* The programs are scheduled, the channels deliver and systemd restarts; no
   fault is fair. *)
Spec == Init /\ [][Next]_vars /\ WF_vars(Requester) /\ WF_vars(Responder) /\ WF_vars(Deliver)

----------------------------------------------------------------------------
Stats == [total : Nat, failures : Nat, matched : SUBSET (1..Count)]
RequesterPcs == {"attempt", "wait", "dead", "other", "publish", "exit0", "exit1"}
ResponderPcs == {"connect", "get", "deadletter", "put", "commit", "raise", "down"}

Requesters == [pc : RequesterPcs, i : 0..Count, conn : {"none", "up", "broken"},
               stats : Stats, published : Stats, dead : Nat]

TypeOK ==
    /\ req \in Requesters
    /\ resp \in [pc : ResponderPcs, got : Messages \cup {None}, put : Messages \cup {None}]
    /\ transit \subseteq Messages /\ requests \in Seq(Messages)
    /\ replies \in [Messages -> Nat] /\ answered \in [Messages -> Nat]
    /\ deadq \subseteq Strays /\ hasDLQ \in BOOLEAN
    /\ faults \in 0..MaxFaults /\ landed \subseteq 1..Count

(* Where a message is now. *)
Places(m) ==
    (IF m \in transit THEN 1 ELSE 0) + Cardinality({k \in DOMAIN requests : requests[k] = m})
    + (IF resp.got = m THEN 1 ELSE 0) + answered[m] + (IF m \in deadq THEN 1 ELSE 0)

(* "A crash never loses a request or emits a duplicate reply": through kills,
   refused calls and commits in doubt, a request that landed is in exactly one
   place, and one of those is its single committed reply. *)
NoLossNoDuplicate ==
    \A m \in Messages : Places(m) = IF m \in landed \cup Strays THEN 1 ELSE 0

(* The number of attempts that are over. *)
Over == req.i + (IF req.pc = "publish" THEN 1 ELSE 0)

(* The round-trip counters are the truth: at every point of the loop each
   attempt was counted once, and a success is a reply to that very request,
   so a reply left on APP.REPLY belongs to an attempt counted as failed or
   still waiting.  The exit status says the same. *)
CountersTrue ==
    LET st == req.stats
    IN  /\ st.total = Over
        /\ Cardinality(st.matched) = Over - st.failures
        /\ \A m \in 1..Count : replies[m] > 0 => m \notin st.matched
        /\ \A m \in st.matched : answered[m] = 1
        /\ req.published.total <= st.total /\ req.published.matched \subseteq st.matched
        /\ req.pc = "exit0" => st.matched = 1..Count
        /\ req.pc = "exit1" => st.matched # 1..Count

(* A dead handle is not used again: every broken connection costs at most one
   attempt, because the failure tears it down; any other failed attempt was a
   refused call or a reply that came too late. *)
BreakCostsOneAttempt ==
    LET late == {m \in landed : m \in 1..req.i /\ m \notin req.stats.matched}
    IN  /\ req.dead <= faults
        /\ req.pc = "attempt" => req.stats.failures <= faults + Cardinality(late)

(* Through kills, refused calls, late replies and commits in doubt no request
   is lost or answered twice, the counters are the truth, and a broken
   connection costs at most one attempt. *)
ServiceExact == NoLossNoDuplicate /\ CountersTrue /\ BreakCostsOneAttempt

----------------------------------------------------------------------------
(* The inductive invariant behind ServiceExact. *)

(* What the unit of work of the responder holds at each point of its loop. *)
ResponderInv ==
    /\ resp.put \in {None, resp.got}
    /\ resp.pc = "deadletter" => resp.got \in BlankReplyToQ
    /\ resp.pc = "put" => resp.got \in 1..Count \cup Unresolvable
    /\ resp.pc = "commit" => resp.got # None /\ resp.put = resp.got
    /\ resp.pc \in {"connect", "get", "down"} => resp.got = None

On(queue, m) == \E k \in DOMAIN queue : queue[k] = m
Once(queue) == \A j, k \in DOMAIN queue : queue[j] = queue[k] => j = k

(* A message that landed is in one place, any other in none, and no message
   is on the request queue twice. *)
InOnePlace(m) ==
    /\ answered[m] \in 0..1
    /\ m \in transit => ~On(requests, m) /\ resp.got # m /\ answered[m] = 0 /\ m \notin deadq
    /\ On(requests, m) => resp.got # m /\ answered[m] = 0 /\ m \notin deadq
    /\ resp.got = m => answered[m] = 0 /\ m \notin deadq
    /\ m \in deadq => answered[m] = 0
    /\ m \in landed \cup Strays <=>
          m \in transit \/ On(requests, m) \/ resp.got = m \/ answered[m] = 1 \/ m \in deadq
PlacesInv == Once(requests) /\ \A m \in Messages : InOnePlace(m)

(* The requester's counters against what it has tried: only attempts made so
   far landed, and a committed reply was consumed by its attempt or is still
   on the reply queue. *)
RequesterInv ==
    /\ req.pc \in {"wait", "dead", "other", "publish"} => req.i < Count
    /\ req.pc \in {"exit0", "exit1"} => req.i = Count
    /\ req.pc = "exit0" <=> req.pc \in {"exit0", "exit1"} /\ req.stats.failures = 0
    /\ landed \subseteq IF req.pc \in {"wait", "dead", "other", "publish"}
                        THEN 1..(req.i + 1) ELSE 1..req.i
    /\ req.pc = "wait" => req.i + 1 \in landed
    /\ req.stats.total = Over
    /\ req.stats.matched \subseteq 1..Over
    /\ Cardinality(req.stats.matched) + req.stats.failures = Over
    /\ req.published.total <= req.stats.total
    /\ req.published.matched \subseteq req.stats.matched
    /\ \A m \in 1..Count :
          answered[m] = replies[m] + (IF m \in req.stats.matched THEN 1 ELSE 0)

(* Every fault is spent once: on the break the requester still holds, on the
   attempt it is about to count, or on an attempt that is over and never
   landed. *)
Holding == IF req.conn = "broken" /\ req.pc # "dead" THEN 1 ELSE 0
Failing == IF req.pc \in {"dead", "other"} /\ req.i + 1 \notin landed THEN 1 ELSE 0
FaultsInv ==
    /\ req.pc = "dead" => req.conn # "up"
    /\ req.dead + Holding <= faults
    /\ Cardinality((1..Over) \ landed) + Failing + Holding <= faults

RequestReplyInv == TypeOK /\ ResponderInv /\ PlacesInv /\ RequesterInv /\ FaultsInv

----------------------------------------------------------------------------
(* A message whose ReplyToQ resolves to nothing is backed out to the head of
   the queue for ever: what came to the queue behind it is not served. *)
InFront(m, u) ==
    \/ resp.got = m
    \/ \E j, k \in DOMAIN requests : j < k /\ requests[j] = m /\ requests[k] = u
Blocked(m) == \E u \in Unresolvable : u \notin transit /\ ~InFront(m, u)

(* With a dead-letter queue every request that landed is answered and every
   message without a ReplyToQ dead-lettered, unless one whose ReplyToQ resolves
   to nothing came to the queue before it (svc_responder.serve). *)
Owed(m) == hasDLQ /\ m \in landed \cup BlankReplyToQ
Settled(m) == answered[m] = 1 \/ m \in deadq
Unserved == \E m \in Messages : Owed(m) /\ ~Settled(m) /\ ~Blocked(m)
EveryRequestServed == Unserved ~> ~Unserved

(* Claimed, and not kept by the code.  "A message it cannot answer -- a blank
   ReplyToQ, e.g. ... -- is not a crash", and so no message wedges the service. *)
Waiting == \E m \in Messages : Owed(m) /\ ~Settled(m)
NeverWedged == Waiting ~> ~Waiting
=============================================================================
