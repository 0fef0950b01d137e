---------------------------- MODULE ClientProofs ----------------------------
(***************************************************************************)
(* The clients: the request-reply service (module RequestReply), the       *)
(* probes (Probes) and the console (Console), which is instantiated twice: *)
(* for its opens and for the heals of the relays.                          *)
(*                                                                         *)
(* ServiceExact for any number of attempts, strays and faults.             *)
(* RequestReplyInv is inductive: first the types, then what the responder  *)
(* holds, where each message is, the requester's counters and the account  *)
(* of the faults, each with the help of the parts before it.  The other    *)
(* components are instances over their own variables (the faults are one   *)
(* variable only because no lemma is about two components); the lemmas on  *)
(* them say that their invariants hold initially, are kept by a step and   *)
(* imply what is promised, and SafePartsProofs draws the theorems.         *)
(***************************************************************************)
EXTENDS RequestReply, FiniteSetTheorems, SequenceTheorems, TLAPS

CONSTANTS
    ProbeKinds, ProbeBounds,    \* Probes
    OpenBounds, HealBounds      \* Console, twice

VARIABLES
    auth, up, queue, dlq, retrying, inhibited, probe, held, told, taken, probes, changes,
    foreign, kills,
    setup, role, unit, port, relay, grafana, opening, healing, opens, moves, bounces

Probing == INSTANCE Probes WITH
    Kinds <- ProbeKinds, PUTS <- ProbeBounds.puts, MaxProbes <- ProbeBounds.probes,
    MaxChanges <- ProbeBounds.changes, MaxForeign <- ProbeBounds.foreign,
    MaxKills <- ProbeBounds.kills, p <- probe, n <- probes
Opening == INSTANCE Console WITH
    Terminals <- OpenBounds.terminals, ATTEMPTS <- OpenBounds.attempts,
    RETRIES <- OpenBounds.retries, MaxOpens <- OpenBounds.opens, MaxHeals <- OpenBounds.heals,
    MaxMoves <- OpenBounds.moves, MaxFaults <- OpenBounds.faults,
    MaxBounces <- OpenBounds.bounces, Foreigners <- OpenBounds.foreigners,
    op <- opening, heal <- healing
Relays == INSTANCE Console WITH
    Terminals <- HealBounds.terminals, ATTEMPTS <- HealBounds.attempts,
    RETRIES <- HealBounds.retries, MaxOpens <- HealBounds.opens, MaxHeals <- HealBounds.heals,
    MaxMoves <- HealBounds.moves, MaxFaults <- HealBounds.faults,
    MaxBounces <- HealBounds.bounces, Foreigners <- HealBounds.foreigners,
    op <- opening, heal <- healing

-----------------------------------------------------------------------------
(***************************************************************************)
(* The request-reply service (module RequestReply).                        *)
(***************************************************************************)
USE DEF None

----------------------------------------------------------------------------
(* What a put, a get and a backout do to the messages on a queue. *)

LEMMA PutAtEnd ==
  ASSUME NEW S, NEW q \in Seq(S), NEW x \in S
  PROVE  /\ Append(q, x) \in Seq(S)
         /\ \A m : On(Append(q, x), m) <=> On(q, m) \/ m = x
         /\ Once(q) /\ ~On(q, x) => Once(Append(q, x))
<1> DEFINE a == Append(q, x)
           n == Len(q)
<1>1. /\ a \in Seq(S) /\ Len(a) = n + 1
      /\ \A i \in 1..n : a[i] = q[i]
      /\ a[n + 1] = x
  BY AppendProperties
<1>2. n \in Nat /\ DOMAIN q = 1..n /\ DOMAIN a = 1..(n + 1)
  BY <1>1, LenProperties
<1> HIDE DEF a, n
<1>3. \A m : On(a, m) <=> On(q, m) \/ m = x
  BY <1>1, <1>2 DEF On
<1>4. Once(q) /\ ~On(q, x) => Once(a)
  BY <1>1, <1>2 DEF On, Once
<1> QED BY <1>1, <1>3, <1>4 DEF a

LEMMA GetFromFront ==
  ASSUME NEW S, NEW q \in Seq(S), q # <<>>, Once(q)
  PROVE  /\ Tail(q) \in Seq(S) /\ Head(q) \in S /\ On(q, Head(q)) /\ Once(Tail(q))
         /\ \A m : On(Tail(q), m) <=> On(q, m) /\ m # Head(q)
<1> DEFINE t == Tail(q)
           n == Len(q)
<1>1. /\ t \in Seq(S) /\ Len(t) = n - 1 /\ Head(q) \in S
      /\ \A i \in 1..Len(t) : t[i] = q[i + 1]
  BY HeadTailProperties
<1>2. n \in Nat \ {0} /\ DOMAIN q = 1..n /\ DOMAIN t = 1..(n - 1)
  BY <1>1, LenProperties, EmptySeq
<1>3. Head(q) = q[1]
  OBVIOUS
<1> HIDE DEF t, n
<1>4. On(q, Head(q))
  <2>1. 1 \in 1..n
    BY <1>2
  <2> QED BY <2>1, <1>2, <1>3 DEF On
<1>5. Once(t)
  <2> SUFFICES ASSUME NEW j \in 1..(n - 1), NEW k \in 1..(n - 1), t[j] = t[k]
               PROVE  j = k
    BY <1>2 DEF Once
  <2>1. j + 1 \in 1..n /\ k + 1 \in 1..n /\ q[j + 1] = q[k + 1]
    BY <1>1, <1>2
  <2>2. j + 1 = k + 1
    BY <2>1, <1>2 DEF Once
  <2> QED BY <2>2
<1>6. ASSUME NEW m PROVE On(t, m) <=> On(q, m) /\ m # Head(q)
  <2>1. ASSUME On(t, m) PROVE On(q, m) /\ m # Head(q)
    <3>1. PICK k \in 1..(n - 1) : t[k] = m
      BY <2>1, <1>2 DEF On
    <3>2. q[k + 1] = m /\ k + 1 \in 1..n /\ k + 1 # 1 /\ 1 \in 1..n
      BY <3>1, <1>1, <1>2
    <3> QED BY <3>2, <1>2, <1>3 DEF On, Once
  <2>2. ASSUME On(q, m), m # Head(q) PROVE On(t, m)
    <3>1. PICK k \in 1..n : q[k] = m
      BY <2>2, <1>2 DEF On
    <3>2. k - 1 \in 1..(n - 1) /\ t[k - 1] = m
      BY <2>2, <3>1, <1>1, <1>2, <1>3
    <3> QED BY <3>2, <1>2 DEF On
  <2> QED BY <2>1, <2>2
<1> QED BY <1>1, <1>4, <1>5, <1>6 DEF t

LEMMA BackToFront ==
  ASSUME NEW S, NEW q \in Seq(S), NEW x \in S
  PROVE  /\ <<x>> \o q \in Seq(S)
         /\ \A m : On(<<x>> \o q, m) <=> On(q, m) \/ m = x
         /\ Once(q) /\ ~On(q, x) => Once(<<x>> \o q)
<1> DEFINE h == <<x>>
           c == h \o q
           n == Len(q)
<1>0. h \in Seq(S) /\ Len(h) = 1 /\ h[1] = x
  OBVIOUS
<1> HIDE DEF h
<1>1. /\ c \in Seq(S) /\ Len(c) = Len(h) + n
      /\ \A i \in 1..(Len(h) + n) : c[i] = IF i <= Len(h) THEN h[i] ELSE q[i - Len(h)]
  BY <1>0, ConcatProperties
<1>2. n \in Nat /\ DOMAIN q = 1..n /\ DOMAIN c = 1..(n + 1)
  BY <1>0, <1>1, LenProperties
<1> HIDE DEF c, n
<1>3. c[1] = x /\ \A i \in 1..n : c[i + 1] = q[i]
  BY <1>0, <1>1, <1>2
<1>4. \A k \in 1..(n + 1) : k = 1 \/ (k - 1 \in 1..n /\ c[k] = q[k - 1])
  BY <1>0, <1>1, <1>2
<1>5. ASSUME NEW m PROVE On(c, m) <=> On(q, m) \/ m = x
  <2>1. On(c, m) => On(q, m) \/ m = x
    BY <1>2, <1>3, <1>4 DEF On
  <2>2. On(q, m) => On(c, m)
    <3> SUFFICES ASSUME On(q, m) PROVE On(c, m)
      OBVIOUS
    <3>1. PICK k \in 1..n : q[k] = m
      BY <1>2 DEF On
    <3>2. k + 1 \in 1..(n + 1) /\ c[k + 1] = m
      BY <3>1, <1>2, <1>3
    <3> QED BY <3>2, <1>2 DEF On
  <2>3. m = x => On(c, m)
    <3>1. 1 \in 1..(n + 1)
      BY <1>2
    <3> QED BY <3>1, <1>2, <1>3 DEF On
  <2> QED BY <2>1, <2>2, <2>3
<1>6. Once(q) /\ ~On(q, x) => Once(c)
  <2> SUFFICES ASSUME Once(q), ~On(q, x), NEW j \in 1..(n + 1), NEW k \in 1..(n + 1), c[j] = c[k]
               PROVE  j = k
    BY <1>2 DEF Once
  <2>1. j = 1 \/ (j - 1 \in 1..n /\ c[j] = q[j - 1] /\ q[j - 1] # x)
    BY <1>2, <1>4 DEF On
  <2>2. k = 1 \/ (k - 1 \in 1..n /\ c[k] = q[k - 1] /\ q[k - 1] # x)
    BY <1>2, <1>4 DEF On
  <2>3. (j - 1 \in 1..n /\ k - 1 \in 1..n /\ q[j - 1] = q[k - 1]) => j - 1 = k - 1
    BY <1>2 DEF Once
  <2> QED BY <2>1, <2>2, <2>3, <1>2, <1>3
<1> QED BY <1>1, <1>5, <1>6 DEF c, h

----------------------------------------------------------------------------
LEMMA InitInv == RequestReplyAssumption /\ Init => RequestReplyInv
<1> SUFFICES ASSUME RequestReplyAssumption, Init PROVE RequestReplyInv
  OBVIOUS
<1> USE DEF RequestReplyAssumption, Init, NewStats
<1>1. TypeOK
  <2>1. 0 \in 0..Count /\ 0 \in 0..MaxFaults /\ <<>> \in Seq(Messages) /\ hasDLQ \in BOOLEAN
    OBVIOUS
  <2>2. NewStats \in Stats
    BY DEF Stats
  <2> QED BY <2>1, <2>2 DEF TypeOK, Requesters, RequesterPcs, ResponderPcs, Messages
<1>2. ResponderInv
  BY DEF ResponderInv
<1>3. PlacesInv
  <2>1. DOMAIN requests = {}
    OBVIOUS
  <2>2. Once(requests) /\ \A m : ~On(requests, m)
    BY <2>1 DEF Once, On
  <2>3. ASSUME NEW m \in Messages PROVE InOnePlace(m)
    BY <2>2 DEF InOnePlace, Messages
  <2> QED BY <2>2, <2>3 DEF PlacesInv
<1>4. RequesterInv
  <2>0. req.i = 0 /\ req.pc = "attempt" /\ req.stats.matched = {}
    OBVIOUS
  <2> HIDE DEF Init
  <2>1. Over = 0 /\ Cardinality(req.stats.matched) = 0
    BY <2>0, FS_EmptySet DEF Over
  <2>2. \A m \in 1..Count : m \in Messages
    BY DEF Messages
  <2> QED BY <2>1, <2>2 DEF RequesterInv, Init
<1>5. FaultsInv
  <2>1. Over = 0 /\ (1..Over) \ landed = {} /\ Holding = 0 /\ Failing = 0
    BY DEF Over, Holding, Failing
  <2> QED BY <2>1, FS_EmptySet DEF FaultsInv
<1> QED BY <1>1, <1>2, <1>3, <1>4, <1>5 DEF RequestReplyInv

----------------------------------------------------------------------------
(* Types *)

LEMMA SuccessCounts ==
  ASSUME NEW st \in Stats, NEW k \in 1..Count
  PROVE  /\ record_success(st, k) \in Stats
         /\ record_success(st, k).total = st.total + 1
         /\ record_success(st, k).failures = st.failures
         /\ record_success(st, k).matched = st.matched \cup {k}
<1> DEFINE n == st.total + 1
           ms == st.matched \cup {k}
<1>1. n \in Nat /\ ms \in SUBSET (1..Count)
  BY DEF Stats
<1>2. record_success(st, k) = [st EXCEPT !.total = n, !.matched = ms]
  BY DEF record_success
<1> HIDE DEF n, ms
<1>3. [st EXCEPT !.total = n, !.matched = ms] \in Stats
  BY <1>1 DEF Stats
<1>4. /\ [st EXCEPT !.total = n, !.matched = ms].total = n
      /\ [st EXCEPT !.total = n, !.matched = ms].failures = st.failures
      /\ [st EXCEPT !.total = n, !.matched = ms].matched = ms
  BY DEF Stats
<1> QED BY <1>2, <1>3, <1>4 DEF n, ms

LEMMA FailureCounts ==
  ASSUME NEW st \in Stats
  PROVE  /\ record_failure(st) \in Stats
         /\ record_failure(st).total = st.total + 1
         /\ record_failure(st).failures = st.failures + 1
         /\ record_failure(st).matched = st.matched
<1> DEFINE n == st.total + 1
           f == st.failures + 1
<1>1. n \in Nat /\ f \in Nat
  BY DEF Stats
<1>2. record_failure(st) = [st EXCEPT !.total = n, !.failures = f]
  BY DEF record_failure
<1> HIDE DEF n, f
<1>3. [st EXCEPT !.total = n, !.failures = f] \in Stats
  BY <1>1 DEF Stats
<1>4. /\ [st EXCEPT !.total = n, !.failures = f].total = n
      /\ [st EXCEPT !.total = n, !.failures = f].failures = f
      /\ [st EXCEPT !.total = n, !.failures = f].matched = st.matched
  BY DEF Stats
<1> QED BY <1>2, <1>3, <1>4 DEF n, f

LEMMA ConnectionLost ==
  ASSUME NEW r \in Requesters
  PROVE  LET new == [r EXCEPT !.pc = "dead", !.dead = @ + 1]
         IN  /\ new \in Requesters
             /\ new.pc = "dead" /\ new.dead = r.dead + 1
             /\ new.i = r.i /\ new.conn = r.conn
             /\ new.stats = r.stats /\ new.published = r.published
<1> DEFINE d == r.dead + 1
           new == [r EXCEPT !.pc = "dead", !.dead = d]
<1>1. d \in Nat
  BY DEF Requesters
<1> HIDE DEF d
<1>2. /\ new \in Requesters
      /\ new.pc = "dead" /\ new.dead = d /\ new.i = r.i /\ new.conn = r.conn
      /\ new.stats = r.stats /\ new.published = r.published
  BY <1>1 DEF Requesters, RequesterPcs
<1> QED BY <1>2 DEF d

LEMMA ResponderTypes ==
  ASSUME RequestReplyAssumption, TypeOK, Once(requests),
         Responder \/ RespKilled \/ Deliver
  PROVE  TypeOK'
<1> USE DEF RequestReplyAssumption
<1>0. UNCHANGED <<req, hasDLQ, landed>>
  BY DEF Responder, RespKilled, Deliver, RespConnect, RespGet, DeadLetter, PutReply, RespCommit,
         RespRaise, RespRestart
<1>1. faults' \in 0..MaxFaults
  BY DEF Responder, RespKilled, Deliver, RespConnect, RespGet, DeadLetter, PutReply, RespCommit,
         RespRaise, RespRestart, Fault, TypeOK
<1>2. transit' \subseteq Messages
  BY DEF Responder, RespKilled, Deliver, RespConnect, RespGet, DeadLetter, PutReply, RespCommit,
         RespRaise, RespRestart, TypeOK
<1>3. requests' \in Seq(Messages)
  <2>1. CASE Deliver
    BY <2>1, PutAtEnd DEF Deliver, TypeOK
  <2>2. CASE RespGet
    <3>1. requests # <<>> => Tail(requests) \in Seq(Messages)
      BY GetFromFront DEF TypeOK
    <3> QED BY <2>2, <3>1 DEF RespGet, TypeOK
  <2>3. CASE RestoreUnit
    BY <2>3, BackToFront DEF RestoreUnit, TypeOK
  <2>4. CASE UNCHANGED requests
    BY <2>4 DEF TypeOK
  <2> QED BY <2>1, <2>2, <2>3, <2>4
          DEF Responder, RespKilled, RespConnect, DeadLetter, PutReply, RespCommit, RespRaise,
              RespRestart, ApplyUnit
<1>4. resp' \in [pc : ResponderPcs, got : Messages \cup {None}, put : Messages \cup {None}]
  <2>1. CASE RespGet
    <3>1. requests # <<>> => Head(requests) \in Messages
      BY GetFromFront DEF TypeOK
    <3> QED BY <2>1, <3>1 DEF RespGet, TypeOK, ResponderPcs
  <2>2. CASE RespConnect \/ DeadLetter \/ PutReply
    BY <2>2 DEF RespConnect, DeadLetter, PutReply, TypeOK, ResponderPcs
  <2>3. CASE RespCommit \/ RespRaise \/ RespRestart \/ RespKilled
    BY <2>3 DEF RespCommit, RespRaise, RespRestart, RespKilled, Idle, ResponderPcs
  <2>4. CASE Deliver
    BY <2>4 DEF Deliver, TypeOK
  <2> QED BY <2>1, <2>2, <2>3, <2>4 DEF Responder
<1>5. /\ replies' \in [Messages -> Nat] /\ answered' \in [Messages -> Nat]
      /\ deadq' \subseteq Strays
  <2>1. CASE ApplyUnit
    <3>1. \A m \in 1..Count : m \in Messages
      BY DEF Messages
    <3>2. CASE resp.put \in 1..Count
      <4> DEFINE k == resp.put
      <4>1. k \in Messages /\ deadq' \subseteq Strays
        BY <2>1, <3>1, <3>2 DEF ApplyUnit, TypeOK
      <4>2. /\ replies' = [replies EXCEPT ![k] = @ + 1]
            /\ answered' = [answered EXCEPT ![k] = @ + 1]
        BY <2>1, <3>2 DEF ApplyUnit
      <4> HIDE DEF k
      <4> QED BY <4>1, <4>2 DEF TypeOK
    <3>3. CASE resp.put \notin 1..Count
      BY <2>1, <3>3 DEF ApplyUnit, TypeOK
    <3> QED BY <3>2, <3>3
  <2>2. CASE UNCHANGED <<replies, answered, deadq>>
    BY <2>2 DEF TypeOK
  <2> QED BY <2>1, <2>2
          DEF Responder, RespKilled, Deliver, RespConnect, RespGet, DeadLetter, PutReply, RespCommit,
              RespRaise, RespRestart, RestoreUnit
<1> QED BY <1>0, <1>1, <1>2, <1>3, <1>4, <1>5 DEF TypeOK

LEMMA RequesterTypes ==
  ASSUME RequestReplyAssumption, TypeOK, RequesterInv, Requester \/ ConnectionBreaks
  PROVE  TypeOK'
<1> USE DEF RequestReplyAssumption
<1>0. UNCHANGED <<resp, requests, answered, deadq, hasDLQ>>
  BY DEF Requester, ConnectionBreaks, Connect, PutRequest, GetReply, Failed, Publish, RequesterEnds
<1>1. faults' \in 0..MaxFaults
  BY DEF Requester, ConnectionBreaks, Connect, PutRequest, GetReply, Failed, Publish, RequesterEnds,
         Fault, TypeOK
<1>2. transit' \subseteq Messages /\ landed' \subseteq 1..Count
  <2>1. CASE PutRequest
    BY <2>1 DEF PutRequest, TypeOK, Requesters, Messages
  <2>2. CASE Connect \/ ConnectionBreaks \/ GetReply \/ Failed \/ Publish \/ RequesterEnds
    BY <2>2 DEF ConnectionBreaks, Connect, GetReply, Failed, Publish, RequesterEnds, TypeOK
  <2> QED BY <2>1, <2>2 DEF Requester
<1>3. replies' \in [Messages -> Nat]
  <2>1. CASE GetReply
    <3>1. CASE UNCHANGED replies
      BY <3>1 DEF TypeOK
    <3>2. CASE \E m \in match_correl_id(req.i + 1) : replies' = [replies EXCEPT ![m] = @ - 1]
      <4>1. PICK m \in match_correl_id(req.i + 1) : replies' = [replies EXCEPT ![m] = @ - 1]
        BY <3>2
      <4>2. m \in Messages /\ replies[m] > 0 /\ replies[m] \in Nat
        BY DEF match_correl_id, TypeOK
      <4>3. replies[m] - 1 \in Nat
        BY <4>2
      <4> QED BY <4>1, <4>3 DEF TypeOK
    <3> QED BY <2>1, <3>1, <3>2 DEF GetReply
  <2>2. CASE Connect \/ ConnectionBreaks \/ PutRequest \/ Failed \/ Publish \/ RequesterEnds
    BY <2>2 DEF ConnectionBreaks, Connect, PutRequest, Failed, Publish, RequesterEnds, TypeOK
  <2> QED BY <2>1, <2>2 DEF Requester
<1>4. req' \in Requesters
  <2>0. req \in Requesters /\ req.stats \in Stats
    BY DEF TypeOK, Requesters
  <2>1. CASE Connect
    BY <2>0, <2>1 DEF Connect, Requesters, RequesterPcs
  <2>2. CASE ConnectionBreaks
    BY <2>0, <2>2 DEF ConnectionBreaks, Requesters
  <2>3. CASE PutRequest
    <3>1. \/ req' = [req EXCEPT !.pc = "wait"] \/ req' = [req EXCEPT !.pc = "other"]
          \/ req' = [req EXCEPT !.pc = "dead", !.dead = @ + 1]
      BY <2>3 DEF PutRequest
    <3>2. CASE req' = [req EXCEPT !.pc = "dead", !.dead = @ + 1]
      BY <2>0, <3>2, ConnectionLost
    <3> QED BY <2>0, <3>1, <3>2 DEF Requesters, RequesterPcs
  <2>4. CASE GetReply
    <3>1. req.i + 1 \in 1..Count
      BY <2>4 DEF GetReply, RequesterInv, TypeOK, Requesters
    <3>2. record_success(req.stats, req.i + 1) \in Stats
      BY <2>0, <3>1, SuccessCounts
    <3>3. \/ req' = [req EXCEPT !.pc = "publish", !.stats = record_success(@, req.i + 1)]
          \/ req' = [req EXCEPT !.pc = "other"]
          \/ req' = [req EXCEPT !.pc = "dead", !.dead = @ + 1]
      BY <2>4 DEF GetReply
    <3>4. CASE req' = [req EXCEPT !.pc = "dead", !.dead = @ + 1]
      BY <2>0, <3>4, ConnectionLost
    <3> QED BY <2>0, <3>2, <3>3, <3>4 DEF Requesters, RequesterPcs
  <2>5. CASE Failed
    <3>1. record_failure(req.stats) \in Stats
      BY <2>0, FailureCounts
    <3>2. after_failure(req.conn, req.pc) \in {"none", "up", "broken"}
      BY <2>0 DEF after_failure, Requesters
    <3> QED BY <2>0, <2>5, <3>1, <3>2 DEF Failed, Requesters, RequesterPcs
  <2>6. CASE Publish
    <3>1. req.i + 1 \in 0..Count
      BY <2>6 DEF Publish, RequesterInv, TypeOK, Requesters
    <3> QED BY <2>0, <2>6, <3>1 DEF Publish, Requesters, RequesterPcs
  <2>7. CASE RequesterEnds
    BY <2>0, <2>7 DEF RequesterEnds, ExitStatus, Requesters, RequesterPcs
  <2> QED BY <2>1, <2>2, <2>3, <2>4, <2>5, <2>6, <2>7 DEF Requester
<1> QED BY <1>0, <1>1, <1>2, <1>3, <1>4 DEF TypeOK

----------------------------------------------------------------------------
(* The responder's unit of work *)

LEMMA ResponderStep ==
  ASSUME RequestReplyAssumption, TypeOK, Once(requests), ResponderInv, Responder \/ RespKilled
  PROVE  ResponderInv'
<1> USE DEF ResponderInv, TypeOK, ResponderPcs
<1>1. CASE RespGet
  <2>1. CASE requests # <<>> /\ resp' = [resp EXCEPT
                  !.pc = IF Head(requests) \in BlankReplyToQ THEN "deadletter" ELSE "put",
                  !.got = Head(requests)]
    <3>1. Head(requests) \in Messages
      BY <2>1, GetFromFront
    <3> QED BY <1>1, <2>1, <3>1 DEF RespGet, Messages, BlankReplyToQ
  <2>2. CASE resp' = [resp EXCEPT !.pc = "raise"]
    BY <2>2
  <2> QED BY <1>1, <2>1, <2>2 DEF RespGet
<1>2. CASE DeadLetter \/ PutReply
  <2>1. resp.got # None
    BY <1>2 DEF DeadLetter, PutReply, RequestReplyAssumption, BlankReplyToQ, None
  <2>2. \/ resp' = [resp EXCEPT !.pc = "commit", !.put = resp.got]
        \/ resp' = [resp EXCEPT !.pc = "raise"]
    BY <1>2 DEF DeadLetter, PutReply
  <2>3. CASE resp' = [resp EXCEPT !.pc = "commit", !.put = resp.got]
    <3>1. resp'.pc = "commit" /\ resp'.put = resp.got /\ resp'.got = resp.got
      BY <2>3
    <3> QED BY <2>1, <3>1
  <2>4. CASE resp' = [resp EXCEPT !.pc = "raise"]
    <3>1. resp'.pc = "raise" /\ resp'.put = resp.put /\ resp'.got = resp.got
      BY <2>4
    <3> QED BY <3>1
  <2> QED BY <2>2, <2>3, <2>4
<1>3. CASE RespConnect
  BY <1>3 DEF RespConnect
<1>4. CASE RespCommit \/ RespRaise \/ RespRestart \/ RespKilled
  BY <1>4 DEF RespCommit, RespRaise, RespRestart, RespKilled, Idle
<1> QED BY <1>1, <1>2, <1>3, <1>4 DEF Responder

----------------------------------------------------------------------------
(* Where each message is *)

(* A backed out unit of work moves its request back to the queue. *)
LEMMA RestoreKeeps ==
  ASSUME RequestReplyAssumption, TypeOK, PlacesInv, RestoreUnit, resp'.got = None,
         UNCHANGED <<transit, landed>>
  PROVE  PlacesInv'
<1> USE DEF PlacesInv
<1>1. 0 \notin Messages
  BY DEF Messages, RequestReplyAssumption
<1>2. CASE resp.got = None
  BY <1>1, <1>2 DEF RestoreUnit, InOnePlace
<1>3. CASE resp.got # None
  <2>1. resp.got \in Messages
    BY <1>3 DEF TypeOK
  <2>2. ~On(requests, resp.got)
    BY <2>1 DEF InOnePlace
  <2>3. requests' = <<resp.got>> \o requests /\ UNCHANGED <<deadq, replies, answered>>
    BY <1>3 DEF RestoreUnit
  <2>4. Once(requests') /\ \A m : On(requests', m) <=> On(requests, m) \/ m = resp.got
    BY <2>1, <2>2, <2>3, BackToFront DEF TypeOK
  <2>5. ASSUME NEW m \in Messages PROVE InOnePlace(m)'
    BY <1>1, <2>3, <2>4, <2>5 DEF InOnePlace
  <2> QED BY <2>4, <2>5
<1> QED BY <1>2, <1>3

(* An applied one turns it into the reply or the letter it put. *)
LEMMA ApplyKeeps ==
  ASSUME RequestReplyAssumption, TypeOK, PlacesInv, ApplyUnit, resp'.got = None,
         resp.got # None, resp.put = resp.got, UNCHANGED <<transit, landed>>
  PROVE  PlacesInv'
<1> USE DEF PlacesInv
<1>1. 0 \notin Messages
  BY DEF Messages, RequestReplyAssumption
<1>2. resp.put \in Messages /\ requests' = requests
  BY DEF TypeOK, ApplyUnit
<1>3. ASSUME NEW m \in Messages PROVE InOnePlace(m)'
  <2>0. InOnePlace(m) /\ InOnePlace(resp.put)
    BY <1>2
  <2>1. CASE resp.put \in 1..Count
    <3>1. resp.put \notin Strays /\ deadq' = deadq
      BY <2>1 DEF ApplyUnit, RequestReplyAssumption
    <3>2. answered'[m] = IF m = resp.put THEN answered[m] + 1 ELSE answered[m]
      BY <2>1, <1>2 DEF ApplyUnit, TypeOK
    <3> QED BY <1>1, <1>2, <2>0, <3>1, <3>2 DEF InOnePlace
  <2>2. CASE resp.put \notin 1..Count
    <3>1. resp.put \in Strays /\ deadq' = deadq \cup {resp.put} /\ answered' = answered
      BY <2>2, <1>2 DEF ApplyUnit, Messages
    <3> QED BY <1>1, <1>2, <2>0, <3>1 DEF InOnePlace
  <2> QED BY <2>1, <2>2
<1> QED BY <1>2, <1>3

LEMMA PlacesStep ==
  ASSUME RequestReplyAssumption, TypeOK, ResponderInv, PlacesInv, RequesterInv, Next
  PROVE  PlacesInv'
<1> USE DEF PlacesInv
<1>0. 0 \notin Messages
  BY DEF Messages, RequestReplyAssumption
<1>1. CASE PutRequest
  <2>1. CASE UNCHANGED <<transit, landed>>
    BY <1>1, <2>1 DEF PutRequest, InOnePlace
  <2>2. CASE transit' = transit \cup {req.i + 1} /\ landed' = landed \cup {req.i + 1}
    <3>1. req.i + 1 \in 1..Count /\ req.i + 1 \notin landed
      <4>1. req.pc = "attempt" /\ req.i < Count /\ req.i \in Nat
        BY <1>1 DEF PutRequest, TypeOK, Requesters
      <4>2. landed \subseteq 1..req.i
        BY <4>1 DEF RequesterInv
      <4> QED BY <4>1, <4>2 DEF RequestReplyAssumption
    <3>2. req.i + 1 \in Messages /\ req.i + 1 \notin landed \cup Strays
      BY <3>1 DEF Messages, RequestReplyAssumption
    <3> DEFINE new == req.i + 1
    <3>3. transit' = transit \cup {new} /\ landed' = landed \cup {new}
      BY <2>2
    <3>4. UNCHANGED <<requests, resp, answered, deadq>>
      BY <1>1 DEF PutRequest
    <3>5. new \in Messages /\ new \notin landed \cup Strays
      BY <3>2
    <3> HIDE DEF new
    <3>6. ASSUME NEW m \in Messages PROVE InOnePlace(m)'
      BY <3>3, <3>4, <3>5, <3>6 DEF InOnePlace
    <3> QED BY <3>4, <3>6
  <2> QED BY <1>1, <2>1, <2>2 DEF PutRequest
<1>2. CASE Connect \/ ConnectionBreaks \/ GetReply \/ Failed \/ Publish \/ RequesterEnds
  <2>1. UNCHANGED <<transit, requests, resp, answered, deadq, landed>>
    BY <1>2 DEF Connect, ConnectionBreaks, GetReply, Failed, Publish, RequesterEnds
  <2> QED BY <2>1 DEF InOnePlace
<1>3. CASE Deliver
  <2>1. PICK x \in transit : transit' = transit \ {x} /\ requests' = Append(requests, x)
    BY <1>3 DEF Deliver
  <2>2. x \in Messages /\ ~On(requests, x)
    BY <2>1 DEF InOnePlace, TypeOK
  <2>3. Once(requests') /\ \A m : On(requests', m) <=> On(requests, m) \/ m = x
    BY <2>1, <2>2, PutAtEnd DEF TypeOK
  <2>4. UNCHANGED <<resp, answered, deadq, landed>>
    BY <1>3 DEF Deliver
  <2>5. ASSUME NEW m \in Messages PROVE InOnePlace(m)'
    BY <2>1, <2>2, <2>3, <2>4, <2>5 DEF InOnePlace
  <2> QED BY <2>3, <2>5
<1>4. CASE RespGet
  <2>1. CASE requests # <<>> /\ resp'.got = Head(requests) /\ requests' = Tail(requests)
    <3>1. /\ Head(requests) \in Messages /\ On(requests, Head(requests)) /\ Once(requests')
          /\ \A m : On(requests', m) <=> On(requests, m) /\ m # Head(requests)
      BY <2>1, GetFromFront DEF TypeOK
    <3>2. resp.got = None /\ UNCHANGED <<transit, answered, deadq, landed>>
      BY <1>4 DEF RespGet, ResponderInv
    <3> DEFINE h == Head(requests)
    <3>3. /\ h \in Messages /\ On(requests, h) /\ resp'.got = h
          /\ \A m : On(requests', m) <=> On(requests, m) /\ m # h
      BY <2>1, <3>1
    <3> HIDE DEF h
    <3>4. ASSUME NEW m \in Messages PROVE InOnePlace(m)'
      BY <1>0, <3>2, <3>3, <3>4 DEF InOnePlace
    <3> QED BY <3>1, <3>4
  <2>2. CASE resp' = [resp EXCEPT !.pc = "raise"] /\ requests' = requests
    <3>1. resp'.got = resp.got
      BY <2>2 DEF TypeOK
    <3> QED BY <1>4, <2>2, <3>1 DEF RespGet, InOnePlace
  <2> QED BY <1>4, <2>1, <2>2 DEF RespGet, TypeOK
<1>5. CASE RespConnect \/ DeadLetter \/ PutReply
  <2>1. resp'.got = resp.got /\ UNCHANGED <<transit, requests, answered, deadq, landed>>
    BY <1>5 DEF RespConnect, DeadLetter, PutReply, TypeOK
  <2> QED BY <2>1 DEF InOnePlace
<1>6. CASE RespCommit
  <2>1. resp'.got = None /\ resp.got # None /\ resp.put = resp.got /\ UNCHANGED <<transit, landed>>
    BY <1>6 DEF RespCommit, Idle, ResponderInv
  <2> QED BY <1>6, <2>1, ApplyKeeps, RestoreKeeps DEF RespCommit
<1>7. CASE RespRaise \/ RespKilled
  BY <1>7, RestoreKeeps DEF RespRaise, RespKilled, Idle
<1>8. CASE RespRestart
  <2>1. resp'.got = resp.got /\ UNCHANGED <<transit, requests, answered, deadq, landed>>
    BY <1>8 DEF RespRestart, Idle, ResponderInv
  <2> QED BY <2>1 DEF InOnePlace
<1> QED BY <1>1, <1>2, <1>3, <1>4, <1>5, <1>6, <1>7, <1>8 DEF Next, Requester, Responder

----------------------------------------------------------------------------
(* The requester's counters *)

LEMMA UpTo ==
  ASSUME NEW n \in Nat
  PROVE  IsFiniteSet(1..n) /\ Cardinality(1..n) = n
<1>1. n \in Int /\ 1 \in Int
  OBVIOUS
<1>2. IsFiniteSet(1..n) /\ Cardinality(1..n) = IF 1 > n THEN 0 ELSE n - 1 + 1
  BY <1>1, FS_Interval
<1> QED BY <1>2

LEMMA Fields ==
  ASSUME RequestReplyAssumption, TypeOK
  PROVE  /\ req.pc \in RequesterPcs /\ req.i \in Nat /\ req.i <= Count /\ Count \in Nat
         /\ req.dead \in Nat /\ faults \in Nat /\ Over \in Nat
         /\ req.stats.total \in Nat /\ req.stats.failures \in Nat
         /\ req.stats.matched \subseteq 1..Count /\ landed \subseteq 1..Count
         /\ req.published.total \in Nat
         /\ IsFiniteSet(req.stats.matched) /\ Cardinality(req.stats.matched) \in Nat
         /\ IsFiniteSet((1..Over) \ landed) /\ Cardinality((1..Over) \ landed) \in Nat
<1>1. /\ req.pc \in RequesterPcs /\ req.i \in Nat /\ req.i <= Count /\ Count \in Nat
      /\ req.dead \in Nat /\ faults \in Nat
      /\ req.stats \in Stats /\ req.published \in Stats /\ landed \subseteq 1..Count
  BY DEF TypeOK, Requesters, RequestReplyAssumption
<1>2. /\ req.stats.total \in Nat /\ req.stats.failures \in Nat /\ req.published.total \in Nat
      /\ req.stats.matched \subseteq 1..Count
  BY <1>1 DEF Stats
<1>3. Over \in Nat
  BY <1>1 DEF Over
<1>4. IsFiniteSet(1..Count) /\ IsFiniteSet(1..Over)
  BY <1>1, <1>3, UpTo
<1>5. IsFiniteSet(req.stats.matched) /\ IsFiniteSet((1..Over) \ landed)
  BY <1>2, <1>4, FS_Subset, FS_Difference
<1> QED BY <1>1, <1>2, <1>3, <1>5, FS_CardinalityType

(* The steps of the responder reach the requester only by the reply they put. *)
LEMMA CountersUnderResponder ==
  ASSUME RequestReplyAssumption, TypeOK, RequesterInv, Responder \/ RespKilled \/ Deliver
  PROVE  RequesterInv'
<1>0. UNCHANGED <<req, landed>>
  BY DEF Responder, RespKilled, Deliver, RespConnect, RespGet, DeadLetter, PutReply, RespCommit,
         RespRaise, RespRestart
<1>1. ApplyUnit \/ UNCHANGED <<replies, answered>>
  BY DEF Responder, RespKilled, Deliver, RespConnect, RespGet, DeadLetter, PutReply, RespCommit,
         RespRaise, RespRestart, RestoreUnit
<1>2. ASSUME NEW m \in 1..Count
      PROVE  answered'[m] = replies'[m] + (IF m \in req'.stats.matched THEN 1 ELSE 0)
  <2>0. /\ answered[m] = replies[m] + (IF m \in req.stats.matched THEN 1 ELSE 0)
        /\ answered[m] \in Nat /\ replies[m] \in Nat /\ m \in Messages
    BY DEF RequesterInv, TypeOK, Messages
  <2>1. CASE UNCHANGED <<replies, answered>>
    BY <2>0, <2>1, <1>0
  <2>2. CASE ApplyUnit /\ resp.put \in 1..Count
    <3>1. /\ replies'[m] = IF m = resp.put THEN replies[m] + 1 ELSE replies[m]
          /\ answered'[m] = IF m = resp.put THEN answered[m] + 1 ELSE answered[m]
      BY <2>0, <2>2 DEF ApplyUnit, TypeOK
    <3> QED BY <2>0, <3>1, <1>0
  <2>3. CASE ApplyUnit /\ resp.put \notin 1..Count
    BY <2>0, <2>3, <1>0 DEF ApplyUnit
  <2> QED BY <1>1, <2>1, <2>2, <2>3
<1> QED BY <1>0, <1>2 DEF RequesterInv, Over

LEMMA CountersUnderRequester ==
  ASSUME RequestReplyAssumption, TypeOK, PlacesInv, RequesterInv, Requester \/ ConnectionBreaks
  PROVE  RequesterInv'
<1>0. req \in Requesters
  BY DEF TypeOK
<1>1. /\ req.pc \in RequesterPcs /\ req.i \in Nat /\ req.i <= Count /\ Count \in Nat
      /\ req.stats.total \in Nat /\ req.stats.failures \in Nat
      /\ req.stats.matched \subseteq 1..Count
      /\ req.published.total \in Nat
      /\ IsFiniteSet(req.stats.matched) /\ Cardinality(req.stats.matched) \in Nat
  BY Fields
<1> DEFINE lost == [req EXCEPT !.pc = "dead", !.dead = @ + 1]
<1>8. /\ lost.pc = "dead" /\ lost.i = req.i
      /\ lost.stats = req.stats /\ lost.published = req.published
  BY <1>0, ConnectionLost
<1> HIDE DEF lost
<1>2. CASE Connect \/ ConnectionBreaks
  <2>1. /\ req'.i = req.i /\ req'.stats = req.stats /\ req'.published = req.published
        /\ req'.pc = req.pc \/ (req'.pc \in {"dead", "other"} /\ req.pc = "attempt" /\ req.i < Count)
    BY <1>0, <1>2 DEF Connect, ConnectionBreaks, Requesters
  <2>2. Over' = Over /\ UNCHANGED <<landed, replies, answered>>
    BY <1>2, <2>1 DEF Over, Connect, ConnectionBreaks
  <2> QED BY <1>1, <2>1, <2>2 DEF RequesterInv
<1>3. CASE PutRequest
  <2>1. /\ req'.i = req.i /\ req'.stats = req.stats /\ req'.published = req.published
        /\ req.pc = "attempt" /\ req.i < Count
        /\ \/ req'.pc = "wait" /\ landed' = landed \cup {req.i + 1}
           \/ /\ req'.pc \in {"dead", "other"}
              /\ landed' \in {landed, landed \cup {req.i + 1}}
    <3>1. /\ req.pc = "attempt" /\ req.i < Count
          /\ \/ req' = [req EXCEPT !.pc = "wait"] /\ landed' = landed \cup {req.i + 1}
             \/ req' = [req EXCEPT !.pc = "other"] /\ landed' = landed
             \/ req' = lost /\ landed' \in {landed, landed \cup {req.i + 1}}
      BY <1>3 DEF PutRequest, lost
    <3> QED BY <1>0, <1>8, <3>1 DEF Requesters
  <2>2. Over' = Over /\ UNCHANGED <<replies, answered>>
    BY <1>3, <2>1 DEF Over, PutRequest
  <2>3. landed' \subseteq 1..(req.i + 1)
    <3>1. landed \subseteq 1..req.i
      BY <2>1 DEF RequesterInv
    <3>2. 1..req.i \subseteq 1..(req.i + 1) /\ req.i + 1 \in 1..(req.i + 1)
      BY <1>1
    <3>3. landed' \subseteq landed \cup {req.i + 1}
      BY <2>1
    <3> QED BY <3>1, <3>2, <3>3
  <2> QED BY <1>1, <2>1, <2>2, <2>3 DEF RequesterInv
<1>4. CASE GetReply
  <2>0. req.pc = "wait" /\ req.i < Count /\ req.i + 1 \in 1..Count /\ Over = req.i
    BY <1>1, <1>4 DEF GetReply, RequesterInv, Over
  <2>1. CASE req'.pc # "publish"
    <3>1. /\ req'.i = req.i /\ req'.stats = req.stats /\ req'.published = req.published
          /\ req'.pc \in {"dead", "other"} /\ UNCHANGED <<landed, replies, answered>>
      <4>1. \/ req' = [req EXCEPT !.pc = "publish", !.stats = record_success(@, req.i + 1)]
            \/ (req' = [req EXCEPT !.pc = "other"] \/ req' = lost) /\ replies' = replies
        BY <1>4 DEF GetReply, lost
      <4>2. UNCHANGED <<landed, answered>>
        BY <1>4 DEF GetReply
      <4> QED BY <1>0, <1>8, <2>1, <4>1, <4>2 DEF Requesters
    <3>2. Over' = Over
      BY <2>0, <3>1 DEF Over
    <3> QED BY <1>1, <2>0, <3>1, <3>2 DEF RequesterInv
  <2>2. CASE req'.pc = "publish"
    <3>1. /\ req' = [req EXCEPT !.pc = "publish", !.stats = record_success(@, req.i + 1)]
          /\ replies[req.i + 1] > 0
          /\ replies' = [replies EXCEPT ![req.i + 1] = @ - 1] /\ UNCHANGED <<landed, answered>>
      <4>1. \/ /\ req' = [req EXCEPT !.pc = "publish", !.stats = record_success(@, req.i + 1)]
               /\ replies[req.i + 1] > 0
               /\ replies' = [replies EXCEPT ![req.i + 1] = @ - 1]
            \/ req' = [req EXCEPT !.pc = "other"]
            \/ req' = lost
        BY <1>4 DEF GetReply, lost, match_correl_id
      <4>2. [req EXCEPT !.pc = "other"].pc = "other"
        BY <1>0 DEF Requesters
      <4>3. UNCHANGED <<landed, answered>>
        BY <1>4 DEF GetReply
      <4> QED BY <1>8, <2>2, <4>1, <4>2, <4>3
    <3>2. req'.i = req.i /\ req'.published = req.published
          /\ req'.stats = record_success(req.stats, req.i + 1)
      BY <1>0, <3>1 DEF Requesters
    <3>3. /\ req'.stats.total = req.stats.total + 1 /\ req'.stats.failures = req.stats.failures
          /\ req'.stats.matched = req.stats.matched \cup {req.i + 1}
      BY <1>0, <2>0, <3>2, SuccessCounts DEF Requesters
    <3>4. Over' = Over + 1
      BY <1>1, <2>0, <2>2, <3>2 DEF Over
    <3>5. req.i + 1 \notin req.stats.matched
      BY <1>1, <2>0 DEF RequesterInv
    <3>6. Cardinality(req'.stats.matched) = Cardinality(req.stats.matched) + 1
      <4> DEFINE S == req.stats.matched
                 x == req.i + 1
      <4>1. IsFiniteSet(S) /\ x \notin S /\ req'.stats.matched = S \cup {x}
        BY <1>1, <3>3, <3>5
      <4> HIDE DEF S, x
      <4>2. Cardinality(req'.stats.matched) = Cardinality(S) + 1
        BY <4>1, FS_AddElement
      <4> QED BY <4>2 DEF S
    <3>7. ASSUME NEW m \in 1..Count
          PROVE  answered'[m] = replies'[m] + (IF m \in req'.stats.matched THEN 1 ELSE 0)
      <4>1. /\ answered[m] = replies[m] + (IF m \in req.stats.matched THEN 1 ELSE 0)
            /\ answered[m] \in Nat /\ replies[m] \in Nat /\ m \in Messages
        BY DEF RequesterInv, TypeOK, Messages
      <4>2. replies'[m] = IF m = req.i + 1 THEN replies[m] - 1 ELSE replies[m]
        BY <3>1, <4>1 DEF TypeOK
      <4> QED BY <3>1, <3>3, <3>5, <4>1, <4>2
    <3>8. req'.stats.matched \subseteq 1..(req.i + 1)
      BY <1>1, <2>0, <3>3 DEF RequesterInv
    <3>9. req'.published.total <= req'.stats.total
      BY <1>1, <3>2, <3>3 DEF RequesterInv
    <3> QED BY <1>1, <2>0, <2>2, <3>1, <3>2, <3>3, <3>4, <3>6, <3>7, <3>8, <3>9 DEF RequesterInv
  <2> QED BY <2>1, <2>2
<1>5. CASE Failed
  <2>0. req.pc \in {"dead", "other"} /\ req.i < Count /\ Over = req.i
    BY <1>1, <1>5 DEF Failed, RequesterInv, Over
  <2>1. /\ req'.pc = "publish" /\ req'.i = req.i /\ req'.published = req.published
        /\ req'.stats = record_failure(req.stats) /\ UNCHANGED <<landed, replies, answered>>
    BY <1>0, <1>5 DEF Failed, Requesters
  <2>2. /\ req'.stats.total = req.stats.total + 1 /\ req'.stats.failures = req.stats.failures + 1
        /\ req'.stats.matched = req.stats.matched
    BY <1>0, <2>1, FailureCounts DEF Requesters
  <2>3. Over' = Over + 1
    BY <1>1, <2>0, <2>1 DEF Over
  <2>4. req'.stats.matched \subseteq 1..Over'
    BY <1>1, <2>0, <2>2, <2>3 DEF RequesterInv
  <2> QED BY <1>1, <2>0, <2>1, <2>2, <2>3, <2>4 DEF RequesterInv
<1>6. CASE Publish
  <2>0. req.pc = "publish" /\ req.i < Count
    BY <1>6 DEF Publish, RequesterInv
  <2>1. /\ req'.pc = "attempt" /\ req'.i = req.i + 1 /\ req'.stats = req.stats
        /\ req'.published \in {req.stats, req.published} /\ UNCHANGED <<landed, replies, answered>>
    BY <1>0, <1>6 DEF Publish, Requesters
  <2>2. Over' = Over
    BY <1>1, <2>0, <2>1 DEF Over
  <2> QED BY <1>1, <2>0, <2>1, <2>2 DEF RequesterInv
<1>7. CASE RequesterEnds
  <2>1. /\ req.pc = "attempt" /\ req.i = Count
        /\ req'.pc = ExitStatus(req.stats) /\ req'.i = req.i /\ req'.stats = req.stats
        /\ req'.published = req.published /\ UNCHANGED <<landed, replies, answered>>
    BY <1>0, <1>7 DEF RequesterEnds, Requesters
  <2>2. Over' = Over
    BY <2>1 DEF Over, ExitStatus
  <2> QED BY <1>1, <2>1, <2>2 DEF RequesterInv, ExitStatus
<1> QED BY <1>2, <1>3, <1>4, <1>5, <1>6, <1>7 DEF Requester

----------------------------------------------------------------------------
(* The account of the faults *)

LEMMA Spending ==
  ASSUME NEW u \in Nat, NEW f \in Nat, NEW h \in Nat, NEW n \in Nat,
         NEW f2 \in Nat, NEW h2 \in Nat, NEW n2 \in Nat,
         u + f + h <= n, f2 <= f, h2 <= h, n <= n2
  PROVE  u + f2 + h2 <= n2
OBVIOUS

LEMMA FaultsStep ==
  ASSUME RequestReplyAssumption, TypeOK, RequesterInv, FaultsInv, Next
  PROVE  FaultsInv'
<1>0. req \in Requesters
  BY DEF TypeOK
<1> DEFINE unlanded == Cardinality((1..Over) \ landed)
           spent == unlanded + Failing + Holding
           lost == [req EXCEPT !.pc = "dead", !.dead = @ + 1]
<1>1. /\ req.pc \in RequesterPcs /\ req.i \in Nat /\ req.i <= Count /\ Count \in Nat
      /\ req.dead \in Nat /\ faults \in Nat /\ unlanded \in Nat
      /\ IsFiniteSet((1..Over) \ landed)
  BY Fields
<1>2. Holding \in 0..1 /\ Failing \in 0..1
  BY DEF Holding, Failing
<1>3. /\ lost.pc = "dead" /\ lost.i = req.i /\ lost.dead = req.dead + 1 /\ lost.conn = req.conn
  BY <1>0, ConnectionLost
<1>4. /\ req.pc = "dead" => req.conn # "up"
      /\ req.dead + Holding <= faults
      /\ spent <= faults
  BY DEF FaultsInv
<1> HIDE DEF lost
<1>5. CASE Connect \/ ConnectionBreaks
  <2>1. /\ req'.i = req.i /\ req'.dead = req.dead /\ landed' = landed
        /\ \/ /\ req'.conn = "up" /\ req'.pc = req.pc /\ req.pc = "attempt" /\ faults' = faults
           \/ /\ req'.conn = "none" /\ req.conn = "none" /\ req.pc = "attempt"
              /\ req'.pc \in {"dead", "other"} /\ faults' = faults + 1
           \/ /\ req'.conn = "broken" /\ req'.pc = req.pc /\ req.conn = "up"
              /\ faults' = faults + 1
    BY <1>0, <1>5 DEF Connect, ConnectionBreaks, Fault, Requesters
  <2>2. Over' = Over /\ unlanded' = unlanded
    BY <2>1 DEF Over
  <2>3. Failing' + Holding' <= Failing + Holding + (faults' - faults) /\ Holding' <= Holding + (faults' - faults)
    BY <1>1, <2>1 DEF Holding, Failing
  <2>4. Holding' \in 0..1 /\ Failing' \in 0..1
    BY DEF Holding, Failing
  <2>5. req'.pc = "dead" => req'.conn # "up"
    BY <1>4, <2>1
  <2> HIDE DEF unlanded
  <2>6. unlanded + Failing' + Holding' <= faults' /\ req'.dead + Holding' <= faults'
    BY <1>1, <1>2, <1>4, <2>1, <2>3, <2>4
  <2> QED BY <2>2, <2>5, <2>6 DEF FaultsInv, unlanded
<1>6. CASE PutRequest
  <2>0. req.pc = "attempt" /\ req.i < Count /\ landed \subseteq 1..req.i
    BY <1>6 DEF PutRequest, RequesterInv
  <2>1. /\ req'.i = req.i /\ req'.conn = req.conn
        /\ landed' \in {landed, landed \cup {req.i + 1}}
        /\ \/ req'.pc = "wait" /\ req.conn = "up" /\ req'.dead = req.dead /\ faults' = faults
           \/ req'.pc = "other" /\ req.conn = "up" /\ req'.dead = req.dead /\ faults' = faults + 1
           \/ req'.pc = "dead" /\ req.conn = "broken" /\ req'.dead = req.dead + 1 /\ faults' = faults
    <3>1. \/ /\ req' = [req EXCEPT !.pc = "wait"] /\ landed' = landed \cup {req.i + 1}
             /\ req.conn = "up" /\ faults' = faults
          \/ /\ req' = [req EXCEPT !.pc = "other"] /\ landed' = landed
             /\ req.conn = "up" /\ faults' = faults + 1
          \/ /\ req' = lost /\ landed' \in {landed, landed \cup {req.i + 1}}
             /\ req.conn = "broken" /\ faults' = faults
      BY <1>6 DEF PutRequest, lost, Fault
    <3> QED BY <1>0, <1>3, <3>1 DEF Requesters
  <2>2. Over = req.i /\ Over' = req.i
    BY <1>1, <2>0, <2>1 DEF Over
  <2>3. (1..Over)' \ landed' = (1..Over) \ landed
    BY <1>1, <2>1, <2>2
  <2>4. unlanded' = unlanded
    BY <2>3
  <2>5. /\ Failing = 0 /\ Failing' \in 0..1 /\ Holding' \in 0..1
        /\ req.conn = "broken" => Holding = 1 /\ Holding' = 0
        /\ req.conn = "up" => Holding = 0 /\ Holding' = 0
        /\ req'.pc = "wait" => Failing' = 0
    BY <2>0, <2>1 DEF Holding, Failing
  <2> HIDE DEF unlanded
  <2>6. unlanded + Failing' + Holding' <= faults' /\ req'.dead + Holding' <= faults'
    BY <1>1, <1>2, <1>4, <2>1, <2>5
  <2> QED BY <2>1, <2>4, <2>6 DEF FaultsInv, unlanded
<1>7. CASE GetReply
  <2>0. req.pc = "wait" /\ req.i < Count /\ req.i + 1 \in landed
    BY <1>7 DEF GetReply, RequesterInv
  <2>1. /\ req'.i = req.i /\ req'.conn = req.conn /\ landed' = landed /\ faults' = faults
        /\ \/ req'.pc \in {"publish", "other"} /\ req'.dead = req.dead
           \/ req'.pc = "dead" /\ req.conn = "broken" /\ req'.dead = req.dead + 1
    <3>1. \/ req' = [req EXCEPT !.pc = "publish", !.stats = record_success(@, req.i + 1)]
          \/ req' = [req EXCEPT !.pc = "other"]
          \/ req' = lost /\ req.conn = "broken"
      BY <1>7 DEF GetReply, lost
    <3>2. landed' = landed /\ faults' = faults
      BY <1>7 DEF GetReply
    <3> QED BY <1>0, <1>3, <3>1, <3>2 DEF Requesters
  <2>2. Over = req.i /\ Over' \in {req.i, req.i + 1}
    BY <1>1, <2>0, <2>1 DEF Over
  <2>3. (1..Over)' \ landed' = (1..Over) \ landed
    BY <1>1, <2>0, <2>1, <2>2
  <2>4. unlanded' = unlanded
    BY <2>3
  <2>5. /\ Failing = 0 /\ Failing' = 0 /\ Holding' \in 0..1
        /\ req.conn = "broken" => Holding = 1
        /\ req'.pc = "dead" => Holding' = 0
        /\ req'.pc # "dead" => Holding' = Holding
    BY <2>0, <2>1 DEF Holding, Failing
  <2>6. Holding' <= Holding /\ req'.dead + Holding' <= req.dead + Holding
    BY <1>1, <1>2, <2>1, <2>5
  <2> HIDE DEF unlanded
  <2>7. unlanded + Failing' + Holding' <= faults' /\ req'.dead + Holding' <= faults'
    <3>1. req'.dead \in Nat
      BY <1>1, <2>1
    <3>2. unlanded + Failing + Holding <= faults /\ faults' = faults
      BY <1>4, <2>1
    <3>3. unlanded \in Nat /\ faults \in Nat /\ req.dead \in Nat
      BY <1>1
    <3>4. Failing = 0 /\ Failing' = 0 /\ Holding' \in 0..1
      BY <2>5
    <3>5. unlanded + Failing' + Holding' <= faults'
      <4>1. Failing \in Nat /\ Failing' \in Nat /\ Holding \in Nat /\ Holding' \in Nat
        BY <1>2, <3>4
      <4>2. Failing' <= Failing /\ faults' \in Nat /\ faults <= faults'
        BY <3>2, <3>3, <3>4
      <4> QED BY <2>6, <3>2, <3>3, <4>1, <4>2, Spending
    <3>6. req'.dead + Holding' <= faults'
      BY <1>2, <1>4, <2>6, <3>1, <3>2, <3>3, <3>4
    <3> QED BY <3>5, <3>6
  <2> QED BY <2>1, <2>4, <2>7 DEF FaultsInv, unlanded
<1>8. CASE Failed
  <2>0. req.pc \in {"dead", "other"} /\ req.i < Count
    BY <1>8 DEF Failed, RequesterInv
  <2>1. /\ req'.i = req.i /\ req'.dead = req.dead /\ landed' = landed /\ faults' = faults
        /\ req'.pc = "publish"
        /\ req'.conn = IF req.pc = "dead" THEN "none" ELSE req.conn
    BY <1>0, <1>8 DEF Failed, after_failure, Requesters
  <2>2. Over = req.i /\ Over' = req.i + 1
    BY <1>1, <2>0, <2>1 DEF Over
  <2>3. unlanded' = unlanded + Failing
    <3>1. CASE req.i + 1 \in landed
      <4>1. (1..Over)' \ landed' = (1..Over) \ landed
        BY <1>1, <2>1, <2>2, <3>1
      <4>2. Failing = 0
        BY <3>1 DEF Failing
      <4> QED BY <1>1, <4>1, <4>2
    <3>2. CASE req.i + 1 \notin landed
      <4> DEFINE S == (1..Over) \ landed
                 x == req.i + 1
      <4>1. (1..Over)' \ landed' = S \cup {x}
        BY <1>1, <2>1, <2>2, <3>2
      <4>2. IsFiniteSet(S) /\ x \notin S
        BY <1>1, <2>2
      <4>3. Failing = 1
        BY <2>0, <3>2 DEF Failing
      <4> HIDE DEF S, x
      <4>4. Cardinality(S \cup {x}) = Cardinality(S) + 1
        BY <4>2, FS_AddElement
      <4>5. unlanded' = Cardinality(S) + 1
        BY <4>1, <4>4
      <4> QED BY <4>3, <4>5 DEF S
    <3> QED BY <3>1, <3>2
  <2>4. Failing' = 0 /\ Holding' = Holding
    BY <2>0, <2>1 DEF Holding, Failing
  <2> HIDE DEF unlanded
  <2>5. unlanded' + Failing' + Holding' <= faults' /\ req'.dead + Holding' <= faults'
    BY <1>1, <1>2, <1>4, <2>1, <2>3, <2>4
  <2> QED BY <2>1, <2>5 DEF FaultsInv, unlanded
<1>9. CASE Publish \/ RequesterEnds
  <2>1. /\ req'.dead = req.dead /\ landed' = landed /\ faults' \in {faults, faults + 1}
        /\ \/ /\ req.pc = "publish" /\ req'.pc = "attempt" /\ req'.i = req.i + 1
              /\ req'.conn = req.conn
           \/ /\ req.pc = "attempt" /\ req'.pc \in {"exit0", "exit1"} /\ req'.i = req.i
              /\ req'.conn = "none"
    BY <1>0, <1>9 DEF Publish, RequesterEnds, ExitStatus, Fault, Requesters
  <2>2. Over' = Over /\ unlanded' = unlanded
    BY <1>1, <2>1 DEF Over
  <2>3. Failing = 0 /\ Failing' = 0 /\ Holding' \in 0..1 /\ Holding' <= Holding
    BY <2>1 DEF Holding, Failing
  <2> HIDE DEF unlanded
  <2>4. unlanded + Failing' + Holding' <= faults' /\ req'.dead + Holding' <= faults'
    <3>1. unlanded + Failing + Holding <= faults /\ req.dead + Holding <= faults
      BY <1>4
    <3>2. faults' \in {faults, faults + 1} /\ req'.dead = req.dead
      BY <2>1
    <3>3. unlanded \in Nat /\ faults \in Nat /\ req.dead \in Nat
      BY <1>1
    <3>4. Failing \in Nat /\ Failing' \in Nat /\ Holding \in Nat /\ Holding' \in Nat
      BY <1>2, <2>3
    <3>5. Failing' <= Failing /\ Holding' <= Holding /\ faults' \in Nat /\ faults <= faults'
      BY <2>3, <3>2, <3>3
    <3>6. unlanded + Failing' + Holding' <= faults'
      BY <3>1, <3>3, <3>4, <3>5, Spending
    <3>7. req'.dead + Holding' <= faults'
      BY <3>1, <3>2, <3>3, <3>4, <3>5
    <3> QED BY <3>6, <3>7
  <2> QED BY <2>1, <2>2, <2>4 DEF FaultsInv, unlanded
<1>10. CASE Deliver \/ Responder \/ RespKilled
  <2>1. UNCHANGED <<req, landed>> /\ faults' \in {faults, faults + 1}
    BY <1>10 DEF Responder, RespKilled, Deliver, RespConnect, RespGet, DeadLetter, PutReply,
                 RespCommit, RespRaise, RespRestart, Fault
  <2>2. Over' = Over /\ Failing' = Failing /\ Holding' = Holding /\ unlanded' = unlanded
    BY <2>1 DEF Over, Failing, Holding
  <2> HIDE DEF unlanded
  <2>3. unlanded + Failing + Holding <= faults' /\ req.dead + Holding <= faults'
    BY <1>1, <1>2, <1>4, <2>1
  <2> QED BY <1>4, <2>1, <2>2, <2>3 DEF FaultsInv, unlanded
<1> QED BY <1>5, <1>6, <1>7, <1>8, <1>9, <1>10 DEF Next, Requester

----------------------------------------------------------------------------
LEMMA StepInv ==
  ASSUME RequestReplyAssumption, RequestReplyInv, [Next]_vars
  PROVE  RequestReplyInv'
<1> USE DEF RequestReplyInv
<1>1. CASE UNCHANGED vars
  BY <1>1 DEF vars, TypeOK, ResponderInv, PlacesInv, InOnePlace, RequesterInv, FaultsInv, Over,
              Holding, Failing
<1>2. CASE Next
  <2>0. Once(requests)
    BY DEF PlacesInv
  <2>1. TypeOK'
    BY <1>2, <2>0, ResponderTypes, RequesterTypes DEF Next
  <2>2. ResponderInv'
    <3>1. CASE Responder \/ RespKilled
      BY <2>0, <3>1, ResponderStep
    <3>2. CASE Requester \/ ConnectionBreaks \/ Deliver
      <4>1. resp' = resp
        BY <3>2 DEF Requester, ConnectionBreaks, Deliver, Connect, PutRequest, GetReply, Failed,
                    Publish, RequesterEnds
      <4> QED BY <4>1 DEF ResponderInv
    <3> QED BY <1>2, <3>1, <3>2 DEF Next
  <2>3. PlacesInv'
    BY <1>2, PlacesStep
  <2>4. RequesterInv'
    BY <1>2, CountersUnderResponder, CountersUnderRequester DEF Next
  <2>5. FaultsInv'
    BY <1>2, FaultsStep
  <2> QED BY <2>1, <2>2, <2>3, <2>4, <2>5
<1> QED BY <1>1, <1>2

(* RequestReplyInv, the account of what the responder's unit of work holds,
   where each message is, what the requester has counted and what the faults
   were spent on, is an invariant of the two programs. *)
THEOREM RequestReplyInvariant == RequestReplyAssumption => (Spec => []RequestReplyInv)
<1> SUFFICES ASSUME RequestReplyAssumption PROVE Spec => []RequestReplyInv
  OBVIOUS
<1>1. Init => RequestReplyInv
  BY InitInv
<1>2. RequestReplyInv /\ [Next]_vars => RequestReplyInv'
  BY StepInv
<1> QED BY <1>1, <1>2, PTL DEF Spec

----------------------------------------------------------------------------
(* From the account to the promises *)

LEMMA Occurrences ==
  ASSUME NEW S, NEW q \in Seq(S), Once(q), NEW m
  PROVE  Cardinality({k \in DOMAIN q : q[k] = m}) = IF On(q, m) THEN 1 ELSE 0
<1> DEFINE at == {k \in DOMAIN q : q[k] = m}
<1>1. CASE On(q, m)
  <2>1. PICK k \in DOMAIN q : q[k] = m
    BY <1>1 DEF On
  <2>2. at = {k}
    BY <2>1 DEF Once
  <2> QED BY <1>1, <2>2, FS_Singleton
<1>2. CASE ~On(q, m)
  <2>1. at = {}
    BY <1>2 DEF On
  <2> QED BY <1>2, <2>1, FS_EmptySet
<1> QED BY <1>1, <1>2

LEMMA PlacesCounted ==
  ASSUME TypeOK, PlacesInv
  PROVE  NoLossNoDuplicate
<1> SUFFICES ASSUME NEW m \in Messages
             PROVE  Places(m) = IF m \in landed \cup Strays THEN 1 ELSE 0
  BY DEF NoLossNoDuplicate
<1> DEFINE queued == Cardinality({k \in DOMAIN requests : requests[k] = m})
<1>1. queued = IF On(requests, m) THEN 1 ELSE 0
  BY Occurrences DEF TypeOK, PlacesInv
<1>2. InOnePlace(m)
  BY DEF PlacesInv
<1>3. Places(m) = (IF m \in transit THEN 1 ELSE 0) + queued
                  + (IF resp.got = m THEN 1 ELSE 0) + answered[m] + (IF m \in deadq THEN 1 ELSE 0)
  BY DEF Places
<1> HIDE DEF queued
<1> QED BY <1>1, <1>2, <1>3 DEF InOnePlace

(* The attempts that are over were matched, came too late or never landed. *)
LEMMA AttemptsSplit ==
  ASSUME RequestReplyAssumption, TypeOK, PlacesInv, RequesterInv, req.pc = "attempt"
  PROVE  LET late == {m \in landed : m \in 1..req.i /\ m \notin req.stats.matched}
         IN  /\ Cardinality(late) \in Nat
             /\ req.stats.failures = Cardinality(late) + Cardinality((1..req.i) \ landed)
<1> DEFINE late == {m \in landed : m \in 1..req.i /\ m \notin req.stats.matched}
           matched == req.stats.matched
           never == (1..req.i) \ landed
<1>0. req.i \in Nat /\ req.stats.failures \in Nat /\ Over = req.i
  BY Fields DEF Over
<1>1. matched \subseteq 1..req.i /\ Cardinality(matched) + req.stats.failures = req.i
  BY <1>0 DEF RequesterInv
<1>2. matched \subseteq landed
  <2> SUFFICES ASSUME NEW m \in matched PROVE m \in landed
    OBVIOUS
  <2>1. m \in 1..Count /\ m \in Messages /\ m \notin Strays
    BY Fields DEF Messages, RequestReplyAssumption
  <2>2. answered[m] = replies[m] + 1 /\ replies[m] \in Nat
    BY <2>1 DEF RequesterInv, TypeOK
  <2>3. InOnePlace(m)
    BY <2>1 DEF PlacesInv
  <2> QED BY <2>1, <2>2, <2>3 DEF InOnePlace
<1>3. 1..req.i = (matched \cup late) \cup never
  BY <1>1
<1>4. (matched \cup late) \cap never = {} /\ matched \cap late = {}
  BY <1>2
<1>5. IsFiniteSet(1..req.i) /\ Cardinality(1..req.i) = req.i
  BY <1>0, UpTo
<1>6. matched \in SUBSET (1..req.i) /\ late \in SUBSET (1..req.i) /\ never \in SUBSET (1..req.i)
  BY <1>1
<1> HIDE DEF matched, late, never
<1>7. IsFiniteSet(matched) /\ IsFiniteSet(late) /\ IsFiniteSet(never)
  BY <1>5, <1>6, FS_Subset
<1>8. /\ Cardinality(matched) \in Nat /\ Cardinality(late) \in Nat /\ Cardinality(never) \in Nat
  BY <1>7, FS_CardinalityType
<1>9. /\ IsFiniteSet(matched \cup late)
      /\ Cardinality(matched \cup late) = Cardinality(matched) + Cardinality(late) - Cardinality({})
  BY <1>4, <1>7, FS_Union
<1>10. Cardinality((matched \cup late) \cup never)
       = Cardinality(matched \cup late) + Cardinality(never) - Cardinality({})
  BY <1>4, <1>7, <1>9, FS_Union
<1>11. req.i = Cardinality(matched) + Cardinality(late) + Cardinality(never)
  <2>1. Cardinality({}) = 0
    BY FS_EmptySet
  <2>2. Cardinality(1..req.i) = Cardinality(matched) + Cardinality(late) + Cardinality(never)
    <3>1. Cardinality(1..req.i) = Cardinality(matched \cup late) + Cardinality(never) - 0
      BY <1>3, <1>10, <2>1
    <3>2. Cardinality(matched \cup late) = Cardinality(matched) + Cardinality(late) - 0
      BY <1>9, <2>1
    <3> QED BY <1>8, <3>1, <3>2
  <2> QED BY <1>5, <2>2
<1>12. Cardinality(matched) + req.stats.failures = req.i
  BY <1>1 DEF matched
<1>13. req.stats.failures = Cardinality(late) + Cardinality(never)
  BY <1>0, <1>8, <1>11, <1>12
<1> QED BY <1>8, <1>13 DEF late, never

LEMMA InvImplies == RequestReplyAssumption /\ RequestReplyInv => ServiceExact
<1> SUFFICES ASSUME RequestReplyAssumption, RequestReplyInv PROVE ServiceExact
  OBVIOUS
<1>0. TypeOK /\ PlacesInv /\ RequesterInv /\ FaultsInv
  BY DEF RequestReplyInv
<1>1. NoLossNoDuplicate
  BY <1>0, PlacesCounted
<1>2. CountersTrue
  <2> DEFINE st == req.stats
  <2>0. /\ st.total \in Nat /\ st.failures \in Nat /\ st.matched \subseteq 1..Count /\ Over \in Nat
        /\ IsFiniteSet(st.matched) /\ Cardinality(st.matched) \in Nat /\ Count \in Nat
    BY <1>0, Fields
  <2>1. Cardinality(st.matched) = Over - st.failures /\ st.total = Over
    BY <1>0, <2>0 DEF RequesterInv
  <2>2. ASSUME NEW m \in 1..Count
        PROVE  (replies[m] > 0 => m \notin st.matched) /\ (m \in st.matched => answered[m] = 1)
    <3>1. /\ answered[m] = replies[m] + (IF m \in st.matched THEN 1 ELSE 0)
          /\ replies[m] \in Nat /\ m \in Messages
      BY <1>0 DEF RequesterInv, TypeOK, Messages
    <3>2. answered[m] \in 0..1
      BY <1>0, <3>1 DEF PlacesInv, InOnePlace
    <3> QED BY <3>1, <3>2
  <2>3. req.pc \in {"exit0", "exit1"} => (st.matched = 1..Count <=> st.failures = 0)
    <3> SUFFICES ASSUME req.pc \in {"exit0", "exit1"} PROVE st.matched = 1..Count <=> st.failures = 0
      OBVIOUS
    <3>1. Over = Count
      BY <1>0, <2>0 DEF RequesterInv, Over
    <3>2. IsFiniteSet(1..Count) /\ Cardinality(1..Count) = Count
      BY <2>0, UpTo
    <3>3. st.matched \in SUBSET (1..Count)
      BY <2>0
    <3>4. Cardinality(1..Count) = Cardinality(st.matched) => 1..Count = st.matched
      BY <3>2, <3>3, FS_Subset
    <3> HIDE DEF st
    <3> QED BY <2>0, <2>1, <3>1, <3>2, <3>4
  <2>4. req.published.total <= st.total /\ req.published.matched \subseteq st.matched
    BY <1>0 DEF RequesterInv
  <2>5. (req.pc = "exit0" => st.failures = 0) /\ (req.pc = "exit1" => st.failures # 0)
    BY <1>0 DEF RequesterInv
  <2> QED BY <2>0, <2>1, <2>2, <2>3, <2>4, <2>5 DEF CountersTrue
<1>3. BreakCostsOneAttempt
  <2>0. req.dead \in Nat /\ faults \in Nat /\ req.i \in Nat /\ Cardinality((1..Over) \ landed) \in Nat
    BY <1>0, Fields
  <2>1. Holding \in Nat /\ Failing \in Nat
    BY DEF Holding, Failing
  <2>2. req.dead <= faults /\ Cardinality((1..Over) \ landed) <= faults
    BY <1>0, <2>0, <2>1 DEF FaultsInv
  <2>3. ASSUME req.pc = "attempt"
        PROVE  req.stats.failures <= faults +
                 Cardinality({m \in landed : m \in 1..req.i /\ m \notin req.stats.matched})
    <3>1. Over = req.i
      BY <2>0, <2>3 DEF Over
    <3>2. Cardinality((1..req.i) \ landed) <= faults /\ Cardinality((1..req.i) \ landed) \in Nat
      BY <2>0, <2>2, <3>1
    <3> QED BY <1>0, <2>0, <2>3, <3>2, AttemptsSplit
  <2> QED BY <2>2, <2>3 DEF BreakCostsOneAttempt
<1> QED BY <1>1, <1>2, <1>3 DEF ServiceExact

(* ServiceExact: through kills, refused calls, late replies and commits in
   doubt no request is lost or answered twice, the requester's counters and
   exit status are the truth, and a broken connection costs at most one
   attempt, for any number of attempts, strays and faults. *)
THEOREM ServiceIsExact == RequestReplyAssumption => (Spec => []ServiceExact)
<1> SUFFICES ASSUME RequestReplyAssumption PROVE Spec => []ServiceExact
  OBVIOUS
<1>1. Spec => []RequestReplyInv
  BY RequestReplyInvariant
<1>2. RequestReplyInv => ServiceExact
  BY InvImplies
<1> QED BY <1>1, <1>2, PTL

-----------------------------------------------------------------------------
(***************************************************************************)
(* The probe clients and the dead-letter drill (module Probes).  ShapeInv  *)
(* carries both invariants: a permitted put is told from the message of an *)
(* earlier probe by the probe's number (PuttingInv), and so is the letter  *)
(* a drill induced from those of other drills and applications, wherever   *)
(* the drill or the retries of the application were cut (LettersInv).      *)
(***************************************************************************)
LEMMA ProbesInit == Probing!Init => Probing!ProbesInv /\ Probing!DrillInv
<1> SUFFICES ASSUME Probing!Init PROVE Probing!ProbesInv /\ Probing!DrillInv
  OBVIOUS
<1>1. Probing!ShapeInv
  BY DEF Probing!Init, Probing!ShapeInv, Probing!None, Probing!Contexts, Probing!Probe, Probing!Letters
<1>2. Probing!PuttingInv
  BY DEF Probing!Init, Probing!PuttingInv, Probing!None, Probing!DenialTrue, Probing!PermitTrue,
     Probing!OkLanded, Probing!Ended
<1>3. Probing!LettersInv
  BY DEF Probing!Init, Probing!LettersInv, Probing!None
<1>4. Probing!OwnInv
  BY DEF Probing!Init, Probing!OwnInv, Probing!None, Probing!InducedPasses, Probing!DrillCleans,
     Probing!Ended
<1> QED BY <1>1, <1>2, <1>3, <1>4 DEF Probing!ProbesInv, Probing!DrillInv

\* What the steps do to the running probe.
SameProbe(q) == q \in Probing!Probe /\ q.kind = probe.kind /\ q.op = probe.op /\
  q.ctx = probe.ctx /\ q.expect = probe.expect

LEMMA ProbeMoves ==
  ASSUME probe \in Probing!Probe, NEW c \in {"open", "op", "wait", "enable", "drain", "done"},
           probe' = [probe EXCEPT !.pc = c]
  PROVE  SameProbe(probe') /\ probe'.pc = c /\ probe'.observed = probe.observed /\
           probe'.pass = probe.pass
BY DEF SameProbe, Probing!Probe

LEMMA ProbeObserves ==
  ASSUME probe \in Probing!Probe, NEW r \in Nat, Probing!Observe(r)
  PROVE  SameProbe(probe') /\ probe'.pc = "done" /\ probe'.observed = r
BY DEF SameProbe, Probing!Probe, Probing!Observe

LEMMA ProbeNextPut ==
  ASSUME probe \in Probing!Probe, probe' = Probing!NextPut
  PROVE  SameProbe(probe') /\ probe'.pc \in {"put", "done"}
<1>1. CASE probe.put = ProbeBounds.puts
  BY <1>1 DEF SameProbe, Probing!Probe, Probing!NextPut
<1>2. CASE probe.put # ProbeBounds.puts
  <2>1. probe' = [probe EXCEPT !.pc = "put", !.put = probe.put + 1, !.uow = FALSE, !.lost = FALSE]
    BY <1>2 DEF Probing!NextPut
  <2>2. probe.put + 1 \in Nat
    BY DEF Probing!Probe
  <2> QED BY <2>1, <2>2 DEF SameProbe, Probing!Probe
<1> QED BY <1>1, <1>2

LEMMA ProbePuts ==
  ASSUME probe \in Probing!Probe, probe' = [probe EXCEPT !.pc = "commit", !.uow = TRUE]
  PROVE  SameProbe(probe') /\ probe'.pc = "commit"
BY DEF SameProbe, Probing!Probe

LEMMA ProbeInspects ==
  ASSUME probe \in Probing!Probe, NEW r \in Nat, NEW b \in BOOLEAN,
         probe' = [probe EXCEPT !.pc = "enable", !.observed = r, !.pass = b]
  PROVE  SameProbe(probe') /\ probe'.pc = "enable" /\ probe'.pass = b
BY DEF SameProbe, Probing!Probe

LEMMA ProbeKilled ==
  ASSUME probe \in Probing!Probe, probe' = [probe EXCEPT !.pc = "done", !.kind = "killed"]
  PROVE  probe' \in Probing!Probe /\ probe'.pc = "done" /\ probe'.kind = "killed"
BY DEF Probing!Probe

LEMMA ProbeBroken ==
  ASSUME probe \in Probing!Probe, probe' = [probe EXCEPT !.lost = probe.uow]
  PROVE  SameProbe(probe') /\ probe'.pc = probe.pc /\ probe'.observed = probe.observed /\
           probe'.pass = probe.pass
BY DEF SameProbe, Probing!Probe

ProbeBegins(k, c) ==
  /\ probe' \in Probing!Probe /\ probe'.kind = k /\ probe'.pc = c
  /\ probe.pc = "done" /\ probes' = probes + 1 /\ held' = auth /\ taken' = <<>>
  /\ UNCHANGED <<auth, queue, dlq, retrying>>

LEMMA AuthzBegins == Probing!AuthzStart => ProbeBegins("authz", "connect")
<1> SUFFICES ASSUME Probing!AuthzStart PROVE ProbeBegins("authz", "connect")
  OBVIOUS
<1>1. PICK op \in {"put", "get"}, ctx \in Probing!Contexts,
     expect \in {Probing!OK, Probing!NOT_AUTHORIZED} :
          probe' = [Probing!None EXCEPT !.kind = "authz", !.pc = "connect", !.op = op, !.ctx = ctx, !.expect = expect]
  BY DEF Probing!AuthzStart, Probing!Start
<1>2. Probing!None \in Probing!Probe
  BY DEF Probing!None, Probing!Probe, Probing!Contexts
<1>3. expect \in Nat
  BY DEF Probing!OK, Probing!NOT_AUTHORIZED
<1>4. probe' \in Probing!Probe /\ probe'.kind = "authz" /\ probe'.pc = "connect"
  BY <1>1, <1>2, <1>3 DEF Probing!Probe
<1> QED BY <1>4 DEF ProbeBegins, Probing!AuthzStart, Probing!Start

LEMMA DrillBegins == Probing!DrillStart => ProbeBegins("drill", "induced") /\
  probe'.expect = Probing!PUT_INHIBITED
<1>1. Probing!None \in Probing!Probe
  BY DEF Probing!None, Probing!Probe, Probing!Contexts
<1>2. Probing!PUT_INHIBITED \in Nat
  BY DEF Probing!PUT_INHIBITED
<1>3. Probing!DrillStart => probe' \in Probing!Probe /\ probe'.kind = "drill" /\
     probe'.pc = "induced" /\ probe'.expect = Probing!PUT_INHIBITED
  BY <1>1, <1>2 DEF Probing!Probe, Probing!DrillStart, Probing!Start
<1> QED BY <1>3 DEF ProbeBegins, Probing!DrillStart, Probing!Start

LEMMA ReconnectBegins == Probing!ReconnectStart => ProbeBegins("reconnect", "put") /\ told' = {}
<1>1. Probing!None \in Probing!Probe
  BY DEF Probing!None, Probing!Probe, Probing!Contexts
<1>2. Probing!ReconnectStart =>
     probe' = [Probing!None EXCEPT !.kind = "reconnect", !.pc = "put", !.put = 1]
  BY DEF Probing!ReconnectStart, Probing!Start
<1>3. ASSUME Probing!ReconnectStart PROVE probe' \in Probing!Probe /\ probe'.kind = "reconnect" /\
     probe'.pc = "put"
  <2>1. probe' = [Probing!None EXCEPT !.kind = "reconnect", !.pc = "put", !.put = 1]
    BY <1>2, <1>3
  <2>2. 1 \in Nat
    OBVIOUS
  <2> QED BY <1>1, <2>1, <2>2 DEF Probing!Probe
<1> QED BY <1>3 DEF ProbeBegins, Probing!ReconnectStart, Probing!Start

LEMMA DrillTakes ==
  ASSUME dlq \in Seq(Probing!Letters), taken \in Seq(Probing!Letters), dlq # <<>>, Probing!Take
  PROVE  /\ dlq' \in Seq(Probing!Letters) /\ taken' \in Seq(Probing!Letters) /\ Len(dlq') = Len(dlq) - 1
         /\ \A i \in 1..Len(dlq') : i + 1 \in 1..Len(dlq) /\ dlq'[i] = dlq[i + 1]
         /\ Head(dlq) = dlq[1] /\ 1 \in 1..Len(dlq)
         /\ Len(taken') = Len(taken) + 1 /\ taken'[Len(taken')] = Head(dlq)
         /\ taken = <<>> => taken'[1] = Head(dlq)
BY DEF Probing!Take

LEMMA LettersNumbered ==
  ASSUME dlq \in Seq(Probing!Letters) PROVE \A i \in 1..Len(dlq) : dlq[i].drill \in Nat
<1>1. \A l \in Probing!Letters : l.drill \in Nat
  BY DEF Probing!Letters
<1> QED BY <1>1

LEMMA LetterTyped ==
  ASSUME NEW d \in Nat, NEW len \in Nat, NEW o \in {"little", "big"}
  PROVE  Probing!Letter(d, len, o) \in Probing!Letters /\ Probing!Letter(d, len, o).drill = d
BY DEF Probing!Letter, Probing!Letters, Probing!PUT_INHIBITED

LEMMA DrillAppends ==
  ASSUME dlq \in Seq(Probing!Letters), NEW l \in Probing!Letters, dlq' = Append(dlq, l)
  PROVE  /\ dlq' \in Seq(Probing!Letters) /\ Len(dlq') = Len(dlq) + 1
         /\ dlq'[Len(dlq')] = l /\ \A i \in 1..Len(dlq') : i # Len(dlq') => i \in 1..Len(dlq) /\
              dlq'[i] = dlq[i]
OBVIOUS

\* The oldest letter is compared, whatever it is.
LEMMA InspectReads ==
  ASSUME probe \in Probing!Probe, dlq \in Seq(Probing!Letters), Probing!Inspect
  PROVE  SameProbe(probe') /\ probe'.pc = "enable" /\
         (dlq # <<>> /\ Head(dlq).drill # 0 /\ Head(dlq) = Probing!Letter(Head(dlq).drill, 108, "little")
            /\ probe.expect = Probing!PUT_INHIBITED => probe'.pass)
<1>1. CASE dlq = <<>>
  BY <1>1, ProbeMoves DEF Probing!Inspect
<1>2. CASE dlq # <<>>
  <2> DEFINE l == Head(dlq)
             h == Probing!parse_mqdlh(l)
             b == h.reason = probe.expect /\ h.dest = "testq"
  <2>1. probe' = [probe EXCEPT !.pc = "enable", !.observed = h.reason, !.pass = b]
    BY <1>2 DEF Probing!Inspect
  <2>2. l \in Probing!Letters
    BY <1>2
  <2>3. l.reason \in Nat /\ Probing!Swapped(l.reason) \in Nat
    <3>1. l.reason \in Nat
      BY <2>2 DEF Probing!Letters
    <3>2. l.reason % 256 \in Nat /\ l.reason \div 256 \in Nat
      BY <3>1
    <3>3. 2^24 \in Nat /\ 2^16 \in Nat
      OBVIOUS
    <3> HIDE DEF l
    <3> QED BY <3>1, <3>2, <3>3 DEF Probing!Swapped
  <2>4. h.reason \in Nat /\ b \in BOOLEAN
    BY <2>3 DEF Probing!parse_mqdlh, Probing!NoHeader
  <2>5. SameProbe(probe') /\ probe'.pc = "enable" /\ probe'.pass = b
    BY <2>1, <2>4, ProbeInspects
  <2>6. l.drill # 0 /\ l = Probing!Letter(l.drill, 108, "little") /\
       probe.expect = Probing!PUT_INHIBITED => b
    BY DEF Probing!Letter, Probing!parse_mqdlh
  <2> QED BY <2>5, <2>6, <1>2
<1> QED BY <1>1, <1>2

\* An operation in doubt ends the probe with a broken connection.
LEMMA AuthzDoubted ==
  ASSUME Probing!ShapeInv, Probing!AuthzOpInDoubt
  PROVE  SameProbe(probe') /\ probe'.pc = "done" /\ probe'.observed = Probing!BROKEN /\ probe.kind = "authz"
<1>1. Probing!BROKEN \in Nat /\ probe \in Probing!Probe /\ Probing!Observe(Probing!BROKEN) /\ probe.kind = "authz"
  BY DEF Probing!BROKEN, Probing!AuthzOpInDoubt, Probing!ShapeInv
<1> QED BY <1>1, ProbeObserves

\* The shape is kept: one clause of Next after another.
LEMMA ProbesShape ==
  ASSUME Probing!ShapeInv, [Probing!Next]_(Probing!vars)
  PROVE  Probing!ShapeInv'
<1> USE DEF Probing!ShapeInv
<1>1. CASE UNCHANGED Probing!vars
  BY <1>1 DEF Probing!vars
<1>2. CASE Probing!AuthzStart
  BY <1>2, AuthzBegins DEF ProbeBegins
<1>3. CASE Probing!DrillStart
  BY <1>3, DrillBegins DEF ProbeBegins
<1>4. CASE Probing!ReconnectStart
  BY <1>4, ReconnectBegins DEF ProbeBegins
<1>5. CASE Probing!AuthzConnect
  <2>1. Probing!Observe(Probing!BROKEN) \/ Probing!Observe(Probing!NOT_AUTHORIZED) \/ probe' = [probe EXCEPT !.pc = "open"]
    BY <1>5 DEF Probing!AuthzConnect
  <2>2. Probing!BROKEN \in Nat /\ Probing!NOT_AUTHORIZED \in Nat
    BY DEF Probing!BROKEN, Probing!NOT_AUTHORIZED
  <2>3. SameProbe(probe') /\ probe'.pc \in {"done", "open"}
    BY <2>1, <2>2, ProbeObserves, ProbeMoves
  <2> QED BY <1>5, <2>3 DEF Probing!AuthzConnect, Probing!env, SameProbe
<1>6. CASE Probing!AuthzOpen
  <2>1. Probing!Observe(Probing!BROKEN) \/ Probing!Observe(Probing!NOT_AUTHORIZED) \/ probe' = [probe EXCEPT !.pc = "op"]
    BY <1>6 DEF Probing!AuthzOpen
  <2>2. Probing!BROKEN \in Nat /\ Probing!NOT_AUTHORIZED \in Nat
    BY DEF Probing!BROKEN, Probing!NOT_AUTHORIZED
  <2>3. SameProbe(probe') /\ probe'.pc \in {"done", "op"}
    BY <2>1, <2>2, ProbeObserves, ProbeMoves
  <2> QED BY <1>6, <2>3 DEF Probing!AuthzOpen, Probing!env, SameProbe
<1>7. CASE Probing!AuthzOp
  <2>1. Probing!Observe(Probing!BROKEN) \/ Probing!Observe(Probing!OK) \/ Probing!Observe(Probing!NO_MSG)
    BY <1>7 DEF Probing!AuthzOp
  <2>2. Probing!BROKEN \in Nat /\ Probing!OK \in Nat /\ Probing!NO_MSG \in Nat
    BY DEF Probing!BROKEN, Probing!OK, Probing!NO_MSG
  <2>3. SameProbe(probe') /\ probe'.pc = "done"
    BY <2>1, <2>2, ProbeObserves
  <2> QED BY <1>7, <2>3 DEF Probing!AuthzOp, Probing!env, SameProbe
<1>8. CASE Probing!Induce
  BY <1>8, ProbeMoves DEF Probing!Induce, SameProbe
<1>9. CASE Probing!Channel
  <2>1. CASE inhibited
    <3>0. retrying \in Nat
      OBVIOUS
    <3>1. Probing!Letter(retrying, 108, "little") \in Probing!Letters /\
         Probing!Letter(retrying, 108, "little").drill = retrying
      BY ONLY <3>0, LetterTyped
    <3>2. dlq' = Append(dlq, Probing!Letter(retrying, 108, "little"))
      BY <1>9, <2>1 DEF Probing!Channel
    <3> QED BY <1>9, <3>1, <3>2, DrillAppends DEF Probing!Channel
  <2>2. CASE ~inhibited
    BY <1>9, <2>2 DEF Probing!Channel
  <2> QED BY <2>1, <2>2
<1>10. CASE Probing!Inspect
  <2>1. SameProbe(probe') /\ probe'.pc = "enable"
    BY <1>10, InspectReads
  <2>2. CASE dlq = <<>>
    BY <1>10, <2>1, <2>2 DEF Probing!Inspect, SameProbe
  <2>3. CASE dlq # <<>>
    BY <1>10, <2>1, <2>3, DrillTakes DEF Probing!Inspect, SameProbe
  <2> QED BY <2>2, <2>3
<1>11. CASE Probing!Enable
  BY <1>11, ProbeMoves DEF Probing!Enable, SameProbe
<1>12. CASE Probing!Drain
  <2>1. SameProbe(probe') /\ probe'.pc = "done"
    BY <1>12, ProbeMoves DEF Probing!Drain
  <2>2. CASE dlq = <<>>
    BY <1>12, <2>1, <2>2 DEF Probing!Drain, SameProbe
  <2>3. CASE dlq # <<>>
    BY <1>12, <2>1, <2>3, DrillTakes DEF Probing!Drain, SameProbe
  <2> QED BY <2>2, <2>3
<1>13. CASE Probing!Put
  <2>1. SameProbe(probe') /\ probe'.pc \in {"commit", "put", "done"}
    BY <1>13, ProbePuts, ProbeNextPut DEF Probing!Put
  <2> QED BY <1>13, <2>1 DEF Probing!Put, Probing!env, SameProbe
<1>14. CASE Probing!Commit
  BY <1>14, ProbeNextPut DEF Probing!Commit, Probing!env, SameProbe
<1>15. CASE Probing!KillDrill
  BY <1>15, ProbeKilled DEF Probing!KillDrill
<1>16. CASE Probing!CommitInDoubt
  BY <1>16, ProbeNextPut DEF Probing!CommitInDoubt, SameProbe
<1>17. CASE \E a \in Probing!Authorities : Probing!Change(a)
  BY <1>17 DEF Probing!Change
<1>18. CASE Probing!Stop
  BY <1>18, ProbeBroken DEF Probing!Stop, SameProbe
<1>19. CASE Probing!Restart
  BY <1>19 DEF Probing!Restart
<1>20. CASE Probing!Foreign
  <2>1. PICK l \in {Probing!Letter(0, 59, "little"), Probing!Letter(0, 60, "big"), Probing!Letter(0, 108, "little")} : dlq' = Append(dlq, l)
    BY <1>20 DEF Probing!Foreign
  <2>2. l \in Probing!Letters /\ l.drill = 0
    BY ONLY <2>1, LetterTyped
  <2> QED BY <1>20, <2>1, <2>2, DrillAppends DEF Probing!Foreign
<1>21. CASE Probing!AuthzOpInDoubt
  BY <1>21, AuthzDoubted DEF Probing!AuthzOpInDoubt, SameProbe
<1> QED BY <1>1, <1>2, <1>3, <1>4, <1>5, <1>6, <1>7, <1>8, <1>9, <1>10, <1>11, <1>12,
           <1>13, <1>14, <1>15, <1>16, <1>17, <1>18, <1>19, <1>20, <1>21 DEF Probing!Next,
             Probing!Running

\* A denial is the queue manager's, and a put is the running probe's.
LEMMA ProbesPutting ==
  ASSUME Probing!ShapeInv, Probing!PuttingInv, [Probing!Next]_(Probing!vars)
  PROVE  Probing!PuttingInv'
<1> USE DEF Probing!ShapeInv, Probing!PuttingInv, Probing!DenialTrue, Probing!PermitTrue,
  Probing!OkLanded, Probing!Ended
<1>1. CASE UNCHANGED Probing!vars
  BY <1>1 DEF Probing!vars
<1>2. CASE Probing!AuthzStart
  BY <1>2, AuthzBegins DEF ProbeBegins
<1>3. CASE Probing!DrillStart
  BY <1>3, DrillBegins DEF ProbeBegins
<1>4. CASE Probing!ReconnectStart
  BY <1>4, ReconnectBegins DEF ProbeBegins
<1>5. CASE Probing!AuthzConnect
  <2>1. CASE Probing!Observe(Probing!BROKEN)
    <3>1. Probing!BROKEN \in Nat
      BY DEF Probing!BROKEN
    <3>2. SameProbe(probe') /\ probe'.pc = "done" /\ probe'.observed = Probing!BROKEN
      BY <2>1, <3>1, ProbeObserves
    <3> QED BY <1>5, <3>2 DEF Probing!AuthzConnect, Probing!env, SameProbe, Probing!BROKEN,
      Probing!NOT_AUTHORIZED, Probing!OK
  <2>2. CASE Probing!Observe(Probing!NOT_AUTHORIZED) /\
       ~(Probing!Needed(probe.op, probe.ctx) \subseteq auth)
    <3>1. Probing!NOT_AUTHORIZED \in Nat
      BY DEF Probing!NOT_AUTHORIZED
    <3>2. SameProbe(probe') /\ probe'.pc = "done" /\ probe'.observed = Probing!NOT_AUTHORIZED
      BY <2>2, <3>1, ProbeObserves
    <3>3. ~(Probing!Needed(probe'.op, probe'.ctx) \subseteq held')
      BY <1>5, <2>2, <3>2 DEF Probing!AuthzConnect, Probing!env, SameProbe
    <3> QED BY <1>5, <3>2, <3>3 DEF Probing!AuthzConnect, Probing!env, SameProbe,
      Probing!NOT_AUTHORIZED, Probing!OK
  <2>3. CASE probe' = [probe EXCEPT !.pc = "open"]
    <3>1. SameProbe(probe') /\ probe'.pc = "open"
      BY <2>3, ProbeMoves
    <3> QED BY <1>5, <3>1 DEF Probing!AuthzConnect, Probing!env, SameProbe
  <2> QED BY <1>5, <2>1, <2>2, <2>3 DEF Probing!AuthzConnect, Probing!Needed
<1>6. CASE Probing!AuthzOpen
  <2>1. CASE Probing!Observe(Probing!BROKEN)
    <3>1. Probing!BROKEN \in Nat
      BY DEF Probing!BROKEN
    <3>2. SameProbe(probe') /\ probe'.pc = "done" /\ probe'.observed = Probing!BROKEN
      BY <2>1, <3>1, ProbeObserves
    <3> QED BY <1>6, <3>2 DEF Probing!AuthzOpen, Probing!env, SameProbe, Probing!BROKEN,
      Probing!NOT_AUTHORIZED, Probing!OK
  <2>2. CASE Probing!Observe(Probing!NOT_AUTHORIZED) /\
       ~(Probing!Needed(probe.op, probe.ctx) \subseteq auth)
    <3>1. Probing!NOT_AUTHORIZED \in Nat
      BY DEF Probing!NOT_AUTHORIZED
    <3>2. SameProbe(probe') /\ probe'.pc = "done" /\ probe'.observed = Probing!NOT_AUTHORIZED
      BY <2>2, <3>1, ProbeObserves
    <3>3. ~(Probing!Needed(probe'.op, probe'.ctx) \subseteq held')
      BY <1>6, <2>2, <3>2 DEF Probing!AuthzOpen, Probing!env, SameProbe
    <3> QED BY <1>6, <3>2, <3>3 DEF Probing!AuthzOpen, Probing!env, SameProbe,
      Probing!NOT_AUTHORIZED, Probing!OK
  <2>3. CASE probe' = [probe EXCEPT !.pc = "op"]
    <3>1. SameProbe(probe') /\ probe'.pc = "op"
      BY <2>3, ProbeMoves
    <3> QED BY <1>6, <3>1 DEF Probing!AuthzOpen, Probing!env, SameProbe
  <2> QED BY <1>6, <2>1, <2>2, <2>3 DEF Probing!AuthzOpen, Probing!Needed, Probing!open_opts,
    Probing!Contexts, Probing!Probe
<1>7. CASE Probing!AuthzOp
  <2>1. Probing!BROKEN \in Nat /\ Probing!OK \in Nat /\ Probing!NO_MSG \in Nat
    BY DEF Probing!BROKEN, Probing!OK, Probing!NO_MSG
  <2>2. Probing!BROKEN # Probing!OK /\ Probing!NO_MSG # Probing!OK /\
       Probing!NOT_AUTHORIZED \notin {Probing!OK, Probing!BROKEN, Probing!NO_MSG}
    BY DEF Probing!BROKEN, Probing!OK, Probing!NO_MSG, Probing!NOT_AUTHORIZED
  <2>3. CASE ~up /\ Probing!Observe(Probing!BROKEN) /\ UNCHANGED queue
    <3>1. SameProbe(probe') /\ probe'.pc = "done" /\ probe'.observed = Probing!BROKEN
      BY <2>1, <2>3, ProbeObserves
    <3> QED BY <1>7, <2>2, <2>3, <3>1 DEF Probing!AuthzOp, Probing!env, SameProbe
  <2>4. CASE probe.op = "put" /\ Probing!Observe(Probing!OK) /\ queue' = queue \cup {<<probes, 1>>}
    <3>1. SameProbe(probe') /\ probe'.pc = "done" /\ probe'.observed = Probing!OK
      BY <2>1, <2>4, ProbeObserves
    <3> QED BY <1>7, <2>2, <2>4, <3>1 DEF Probing!AuthzOp, Probing!env, SameProbe
  <2>5. CASE probe.op = "get" /\ (Probing!Observe(Probing!OK) \/ Probing!Observe(Probing!NO_MSG)) /\
       queue' \subseteq queue
    <3>1. SameProbe(probe') /\ probe'.pc = "done" /\ probe'.observed \in {Probing!OK, Probing!NO_MSG}
      BY <2>1, <2>5, ProbeObserves
    <3> QED BY <1>7, <2>2, <2>5, <3>1 DEF Probing!AuthzOp, Probing!env, SameProbe
  <2> QED BY <1>7, <2>3, <2>4, <2>5 DEF Probing!AuthzOp
<1>8. CASE Probing!Induce
  BY <1>8, ProbeMoves DEF Probing!Induce, SameProbe
<1>9. CASE Probing!Channel
  BY <1>9 DEF Probing!Channel
<1>10. CASE Probing!Inspect
  <2>1. SameProbe(probe') /\ probe'.pc = "enable"
    BY <1>10, InspectReads
  <2> QED BY <1>10, <2>1 DEF Probing!Inspect, SameProbe
<1>11. CASE Probing!Enable
  BY <1>11, ProbeMoves DEF Probing!Enable, SameProbe
<1>12. CASE Probing!Drain
  BY <1>12, ProbeMoves DEF Probing!Drain, SameProbe
<1>13. CASE Probing!Put
  <2>1. SameProbe(probe') /\ probe'.pc \in {"commit", "put", "done"}
    BY <1>13, ProbePuts, ProbeNextPut DEF Probing!Put
  <2> QED BY <1>13, <2>1 DEF Probing!Put, Probing!env, SameProbe
<1>14. CASE Probing!Commit
  <2>1. SameProbe(probe') /\ probe'.pc \in {"put", "done"}
    BY <1>14, ProbeNextPut DEF Probing!Commit
  <2>2. probe.put \in Nat
    BY DEF Probing!Probe
  <2>3. probe.kind = "reconnect" /\ probes # 0
    BY <1>14 DEF Probing!Commit
  <2> QED BY <1>14, <2>1, <2>2, <2>3 DEF Probing!Commit, Probing!env, SameProbe
<1>15. CASE Probing!KillDrill
  BY <1>15, ProbeKilled DEF Probing!KillDrill
<1>16. CASE Probing!CommitInDoubt
  <2>1. SameProbe(probe') /\ probe'.pc \in {"put", "done"}
    BY <1>16, ProbeNextPut DEF Probing!CommitInDoubt
  <2>2. probe.put \in Nat
    BY DEF Probing!Probe
  <2>3. probe.kind = "reconnect" /\ probes # 0
    BY <1>16 DEF Probing!CommitInDoubt
  <2> QED BY <1>16, <2>1, <2>2, <2>3 DEF Probing!CommitInDoubt, Probing!env, SameProbe
<1>17. CASE \E a \in Probing!Authorities : Probing!Change(a)
  BY <1>17 DEF Probing!Change
<1>18. CASE Probing!Stop
  BY <1>18, ProbeBroken DEF Probing!Stop, SameProbe
<1>19. CASE Probing!Restart
  BY <1>19 DEF Probing!Restart
<1>20. CASE Probing!Foreign
  BY <1>20 DEF Probing!Foreign
<1>21. CASE Probing!AuthzOpInDoubt
  <2>1. Probing!BROKEN \notin {Probing!OK, Probing!NOT_AUTHORIZED}
    BY DEF Probing!BROKEN, Probing!OK, Probing!NOT_AUTHORIZED
  <2>2. SameProbe(probe') /\ probe'.pc = "done" /\ probe'.observed = Probing!BROKEN /\ probe.kind = "authz"
    BY <1>21, AuthzDoubted
  <2>3. queue' \subseteq queue \cup {<<probes, 1>>}
    BY <1>21 DEF Probing!AuthzOpInDoubt
  <2>4. probes \in 0..probes
    OBVIOUS
  <2> QED BY <1>21, <2>1, <2>2, <2>3, <2>4 DEF Probing!AuthzOpInDoubt, SameProbe
<1> QED BY <1>1, <1>2, <1>3, <1>4, <1>5, <1>6, <1>7, <1>8, <1>9, <1>10, <1>11, <1>12,
           <1>13, <1>14, <1>15, <1>16, <1>17, <1>18, <1>19, <1>20, <1>21 DEF Probing!Next,
             Probing!Running

\* A letter carries the number of its drill and comes once.
LEMMA DrillLetters ==
  ASSUME Probing!ShapeInv, Probing!LettersInv, [Probing!Next]_(Probing!vars)
  PROVE  Probing!LettersInv'
<1> USE DEF Probing!ShapeInv, Probing!LettersInv
<1>1. CASE UNCHANGED Probing!vars
  BY <1>1 DEF Probing!vars
<1>2. CASE Probing!AuthzStart
  <2>1. \A i \in 1..Len(dlq) : dlq[i].drill \in Nat
    BY LettersNumbered
  <2>2. probes' = probes + 1 /\ UNCHANGED <<dlq, retrying>>
    BY <1>2, AuthzBegins DEF ProbeBegins
  <2>3. (\A i \in 1..Len(dlq) : dlq[i].drill # probes' /\ dlq[i].drill <= probes') /\ retrying # probes'
    BY <2>1, <2>2
  <2> QED BY <2>2, <2>3
<1>3. CASE Probing!DrillStart
  <2>1. \A i \in 1..Len(dlq) : dlq[i].drill \in Nat
    BY LettersNumbered
  <2>2. probes' = probes + 1 /\ UNCHANGED <<dlq, retrying>>
    BY <1>3, DrillBegins DEF ProbeBegins
  <2>3. (\A i \in 1..Len(dlq) : dlq[i].drill # probes' /\ dlq[i].drill <= probes') /\ retrying # probes'
    BY <2>1, <2>2
  <2> QED BY <2>2, <2>3
<1>4. CASE Probing!ReconnectStart
  <2>1. \A i \in 1..Len(dlq) : dlq[i].drill \in Nat
    BY LettersNumbered
  <2>2. probes' = probes + 1 /\ UNCHANGED <<dlq, retrying>>
    BY <1>4, ReconnectBegins DEF ProbeBegins
  <2>3. (\A i \in 1..Len(dlq) : dlq[i].drill # probes' /\ dlq[i].drill <= probes') /\ retrying # probes'
    BY <2>1, <2>2
  <2> QED BY <2>2, <2>3
<1>5. CASE Probing!AuthzConnect
  <2>1. Probing!Observe(Probing!BROKEN) \/ Probing!Observe(Probing!NOT_AUTHORIZED) \/ probe' = [probe EXCEPT !.pc = "open"]
    BY <1>5 DEF Probing!AuthzConnect
  <2>2. Probing!BROKEN \in Nat /\ Probing!NOT_AUTHORIZED \in Nat
    BY DEF Probing!BROKEN, Probing!NOT_AUTHORIZED
  <2>3. SameProbe(probe') /\ probe'.pc \in {"done", "open"}
    BY <2>1, <2>2, ProbeObserves, ProbeMoves
  <2> QED BY <1>5, <2>3 DEF Probing!AuthzConnect, Probing!env, SameProbe
<1>6. CASE Probing!AuthzOpen
  <2>1. Probing!Observe(Probing!BROKEN) \/ Probing!Observe(Probing!NOT_AUTHORIZED) \/ probe' = [probe EXCEPT !.pc = "op"]
    BY <1>6 DEF Probing!AuthzOpen
  <2>2. Probing!BROKEN \in Nat /\ Probing!NOT_AUTHORIZED \in Nat
    BY DEF Probing!BROKEN, Probing!NOT_AUTHORIZED
  <2>3. SameProbe(probe') /\ probe'.pc \in {"done", "op"}
    BY <2>1, <2>2, ProbeObserves, ProbeMoves
  <2> QED BY <1>6, <2>3 DEF Probing!AuthzOpen, Probing!env, SameProbe
<1>7. CASE Probing!AuthzOp
  <2>1. Probing!Observe(Probing!BROKEN) \/ Probing!Observe(Probing!OK) \/ Probing!Observe(Probing!NO_MSG)
    BY <1>7 DEF Probing!AuthzOp
  <2>2. Probing!BROKEN \in Nat /\ Probing!OK \in Nat /\ Probing!NO_MSG \in Nat
    BY DEF Probing!BROKEN, Probing!OK, Probing!NO_MSG
  <2>3. SameProbe(probe') /\ probe'.pc = "done"
    BY <2>1, <2>2, ProbeObserves
  <2> QED BY <1>7, <2>3 DEF Probing!AuthzOp, Probing!env, SameProbe
<1>8. CASE Probing!Induce
  BY <1>8, ProbeMoves DEF Probing!Induce, SameProbe
<1>9. CASE Probing!Channel
  <2>1. CASE inhibited
    <3>0. retrying \in Nat
      OBVIOUS
    <3>1. Probing!Letter(retrying, 108, "little") \in Probing!Letters /\
         Probing!Letter(retrying, 108, "little").drill = retrying
      BY ONLY <3>0, LetterTyped
    <3>2. dlq' = Append(dlq, Probing!Letter(retrying, 108, "little"))
      BY <1>9, <2>1 DEF Probing!Channel
    <3>3. /\ dlq' \in Seq(Probing!Letters) /\ Len(dlq') = Len(dlq) + 1
          /\ dlq'[Len(dlq')] = Probing!Letter(retrying, 108, "little")
          /\ \A i \in 1..Len(dlq') : i # Len(dlq') => i \in 1..Len(dlq) /\ dlq'[i] = dlq[i]
      BY <3>1, <3>2, DrillAppends
    <3>4. UNCHANGED <<probes, probe>> /\ retrying' = 0 /\ retrying # 0
      BY <1>9 DEF Probing!Channel
    <3>5. dlq'[Len(dlq')].drill = retrying
      BY <3>1, <3>3
    <3> HIDE DEF Probing!ShapeInv
    <3>6. \A i \in 1..Len(dlq') : dlq'[i].drill # 0 =>
         dlq'[i] = Probing!Letter(dlq'[i].drill, 108, "little")
      BY <3>3, <3>5
    <3>7. \A i \in 1..Len(dlq') : dlq'[i].drill <= probes'
      BY <3>3, <3>4, <3>5 DEF Probing!ShapeInv
    <3>8. probe.pc = "induced" => retrying # probes
      OBVIOUS
    <3>9. probes # 0 => ~(retrying' = probes')
      BY <3>4
    <3>10. probe.pc = "induced" /\ probes # 0 => \A i \in 1..Len(dlq') : dlq'[i].drill # probes
      BY <3>3, <3>5, <3>8
    <3>11. ASSUME probes # 0, NEW i \in 1..Len(dlq'), NEW j \in 1..Len(dlq'),
         dlq'[i].drill = probes, dlq'[j].drill = probes
           PROVE  i = j
      <4>1. CASE retrying = probes
        BY <3>3, <3>11, <4>1
      <4>2. CASE retrying # probes
        BY <3>3, <3>5, <3>11, <4>2
      <4> QED BY <4>1, <4>2
    <3>12. probe.pc = "induced" => probes # 0
      BY DEF Probing!ShapeInv
    <3> HIDE DEF Probing!LettersInv
    <3> QED BY <3>12, <3>4, <3>6, <3>7, <3>9, <3>10, <3>11 DEF Probing!LettersInv
  <2>2. CASE ~inhibited
    BY <1>9, <2>2 DEF Probing!Channel
  <2> QED BY <2>1, <2>2
<1>10. CASE Probing!Inspect
  <2>1. SameProbe(probe') /\ probe'.pc = "enable"
    BY <1>10, InspectReads
  <2>2. CASE dlq = <<>>
    BY <1>10, <2>1, <2>2 DEF Probing!Inspect, SameProbe
  <2>3. CASE dlq # <<>>
    BY <1>10, <2>1, <2>3, DrillTakes DEF Probing!Inspect, SameProbe
  <2> QED BY <2>2, <2>3
<1>11. CASE Probing!Enable
  BY <1>11, ProbeMoves DEF Probing!Enable, SameProbe
<1>12. CASE Probing!Drain
  <2>1. SameProbe(probe') /\ probe'.pc = "done"
    BY <1>12, ProbeMoves DEF Probing!Drain
  <2>2. CASE dlq = <<>>
    BY <1>12, <2>1, <2>2 DEF Probing!Drain, SameProbe
  <2>3. CASE dlq # <<>>
    BY <1>12, <2>1, <2>3, DrillTakes DEF Probing!Drain, SameProbe
  <2> QED BY <2>2, <2>3
<1>13. CASE Probing!Put
  <2>1. SameProbe(probe') /\ probe'.pc \in {"commit", "put", "done"}
    BY <1>13, ProbePuts, ProbeNextPut DEF Probing!Put
  <2> QED BY <1>13, <2>1 DEF Probing!Put, Probing!env, SameProbe
<1>14. CASE Probing!Commit
  BY <1>14, ProbeNextPut DEF Probing!Commit, Probing!env, SameProbe
<1>15. CASE Probing!KillDrill
  BY <1>15, ProbeKilled DEF Probing!KillDrill
<1>16. CASE Probing!CommitInDoubt
  BY <1>16, ProbeNextPut DEF Probing!CommitInDoubt, SameProbe
<1>17. CASE \E a \in Probing!Authorities : Probing!Change(a)
  BY <1>17 DEF Probing!Change
<1>18. CASE Probing!Stop
  BY <1>18, ProbeBroken DEF Probing!Stop, SameProbe
<1>19. CASE Probing!Restart
  BY <1>19 DEF Probing!Restart
<1>20. CASE Probing!Foreign
  <2>1. PICK l \in {Probing!Letter(0, 59, "little"), Probing!Letter(0, 60, "big"), Probing!Letter(0, 108, "little")} : dlq' = Append(dlq, l)
    BY <1>20 DEF Probing!Foreign
  <2>2. l \in Probing!Letters /\ l.drill = 0
    BY ONLY <2>1, LetterTyped
  <2> QED BY <1>20, <2>1, <2>2, DrillAppends DEF Probing!Foreign
<1>21. CASE Probing!AuthzOpInDoubt
  BY <1>21, AuthzDoubted DEF Probing!AuthzOpInDoubt, SameProbe
<1> QED BY <1>1, <1>2, <1>3, <1>4, <1>5, <1>6, <1>7, <1>8, <1>9, <1>10, <1>11, <1>12,
           <1>13, <1>14, <1>15, <1>16, <1>17, <1>18, <1>19, <1>20, <1>21 DEF Probing!Next,
             Probing!Running

\* A drill that passes took what it induced, and cleaned it away.
LEMMA DrillOwn ==
  ASSUME Probing!ShapeInv, Probing!LettersInv, Probing!OwnInv, [Probing!Next]_(Probing!vars)
  PROVE  Probing!OwnInv'
<1> USE DEF Probing!ShapeInv, Probing!LettersInv, Probing!OwnInv, Probing!InducedPasses,
  Probing!DrillCleans, Probing!Ended
<1>1. CASE UNCHANGED Probing!vars
  BY <1>1 DEF Probing!vars
<1>2. CASE Probing!AuthzStart
  BY <1>2, AuthzBegins DEF ProbeBegins
<1>3. CASE Probing!DrillStart
  BY <1>3, DrillBegins DEF ProbeBegins
<1>4. CASE Probing!ReconnectStart
  BY <1>4, ReconnectBegins DEF ProbeBegins
<1>5. CASE Probing!AuthzConnect
  <2>1. Probing!Observe(Probing!BROKEN) \/ Probing!Observe(Probing!NOT_AUTHORIZED) \/ probe' = [probe EXCEPT !.pc = "open"]
    BY <1>5 DEF Probing!AuthzConnect
  <2>2. Probing!BROKEN \in Nat /\ Probing!NOT_AUTHORIZED \in Nat
    BY DEF Probing!BROKEN, Probing!NOT_AUTHORIZED
  <2>3. SameProbe(probe') /\ probe'.pc \in {"done", "open"}
    BY <2>1, <2>2, ProbeObserves, ProbeMoves
  <2> QED BY <1>5, <2>3 DEF Probing!AuthzConnect, Probing!env, SameProbe
<1>6. CASE Probing!AuthzOpen
  <2>1. Probing!Observe(Probing!BROKEN) \/ Probing!Observe(Probing!NOT_AUTHORIZED) \/ probe' = [probe EXCEPT !.pc = "op"]
    BY <1>6 DEF Probing!AuthzOpen
  <2>2. Probing!BROKEN \in Nat /\ Probing!NOT_AUTHORIZED \in Nat
    BY DEF Probing!BROKEN, Probing!NOT_AUTHORIZED
  <2>3. SameProbe(probe') /\ probe'.pc \in {"done", "op"}
    BY <2>1, <2>2, ProbeObserves, ProbeMoves
  <2> QED BY <1>6, <2>3 DEF Probing!AuthzOpen, Probing!env, SameProbe
<1>7. CASE Probing!AuthzOp
  <2>1. Probing!Observe(Probing!BROKEN) \/ Probing!Observe(Probing!OK) \/ Probing!Observe(Probing!NO_MSG)
    BY <1>7 DEF Probing!AuthzOp
  <2>2. Probing!BROKEN \in Nat /\ Probing!OK \in Nat /\ Probing!NO_MSG \in Nat
    BY DEF Probing!BROKEN, Probing!OK, Probing!NO_MSG
  <2>3. SameProbe(probe') /\ probe'.pc = "done"
    BY <2>1, <2>2, ProbeObserves
  <2> QED BY <1>7, <2>3 DEF Probing!AuthzOp, Probing!env, SameProbe
<1>8. CASE Probing!Induce
  BY <1>8, ProbeMoves DEF Probing!Induce, SameProbe
<1>9. CASE Probing!Channel
  BY <1>9 DEF Probing!Channel
<1>10. CASE Probing!Inspect
  <2>1. CASE dlq = <<>>
    BY <1>10, <2>1, InspectReads DEF Probing!Inspect, SameProbe
  <2>2. CASE dlq # <<>>
    <3>1. probe.kind = "drill" /\ probe.expect = Probing!PUT_INHIBITED /\ taken = <<>>
      BY <1>10 DEF Probing!Inspect
    <3>2. Probing!Take
      BY <1>10, <2>2 DEF Probing!Inspect
    <3>3. taken'[1] = Head(dlq) /\ Head(dlq) = dlq[1] /\ 1 \in 1..Len(dlq)
      BY <3>1, <3>2, <2>2, DrillTakes
    <3>4. Head(dlq).drill # 0 => probe'.pass
      BY <1>10, <2>2, <3>1, <3>3, InspectReads
    <3>5. SameProbe(probe') /\ probe'.pc = "enable"
      BY <1>10, InspectReads
    <3> QED BY <1>10, <3>3, <3>4, <3>5 DEF Probing!Inspect, SameProbe
  <2> QED BY <2>1, <2>2
<1>11. CASE Probing!Enable
  BY <1>11, ProbeMoves DEF Probing!Enable, SameProbe
<1>12. CASE Probing!Drain
  <2>1. SameProbe(probe') /\ probe'.pc = "done" /\ retrying' = 0
    BY <1>12, ProbeMoves DEF Probing!Drain
  <2>2. \A m \in queue' : m[1] # probes'
    BY <1>12 DEF Probing!Drain
  <2>3. (\E i \in 1..Len(dlq') : dlq'[i].drill = probes') =>
       \E i \in 1..Len(taken') : taken'[i].drill # probes'
    <3>1. CASE dlq = <<>>
      BY <1>12, <3>1 DEF Probing!Drain
    <3>2. CASE dlq # <<>>
      <4>1. SUFFICES ASSUME NEW i \in 1..Len(dlq'), dlq'[i].drill = probes
                     PROVE  \E k \in 1..Len(taken') : taken'[k].drill # probes
        BY <1>12 DEF Probing!Drain
      <4>0. Probing!Take
        BY <1>12, <3>2 DEF Probing!Drain
      <4>2. i + 1 \in 1..Len(dlq) /\ 1 \in 1..Len(dlq) /\ dlq[i + 1].drill = probes /\ i + 1 # 1
        BY <4>0, <4>1, <3>2, DrillTakes
      <4>3. dlq[1].drill # probes
        BY <1>12, <4>2 DEF Probing!Drain
      <4>4. taken'[Len(taken')] = dlq[1] /\ Len(taken') \in 1..Len(taken')
        BY <1>12, <3>2, DrillTakes DEF Probing!Drain
      <4> QED BY <4>3, <4>4
    <3> QED BY <3>1, <3>2
  <2> QED BY <2>1, <2>2, <2>3 DEF SameProbe
<1>13. CASE Probing!Put
  <2>1. SameProbe(probe') /\ probe'.pc \in {"commit", "put", "done"}
    BY <1>13, ProbePuts, ProbeNextPut DEF Probing!Put
  <2> QED BY <1>13, <2>1 DEF Probing!Put, Probing!env, SameProbe
<1>14. CASE Probing!Commit
  BY <1>14, ProbeNextPut DEF Probing!Commit, Probing!env, SameProbe
<1>15. CASE Probing!KillDrill
  BY <1>15, ProbeKilled DEF Probing!KillDrill
<1>16. CASE Probing!CommitInDoubt
  BY <1>16, ProbeNextPut DEF Probing!CommitInDoubt, SameProbe
<1>17. CASE \E a \in Probing!Authorities : Probing!Change(a)
  BY <1>17 DEF Probing!Change
<1>18. CASE Probing!Stop
  BY <1>18, ProbeBroken DEF Probing!Stop, SameProbe
<1>19. CASE Probing!Restart
  BY <1>19 DEF Probing!Restart
<1>20. CASE Probing!Foreign
  <2>1. PICK l \in {Probing!Letter(0, 59, "little"), Probing!Letter(0, 60, "big"), Probing!Letter(0, 108, "little")} : dlq' = Append(dlq, l)
    BY <1>20 DEF Probing!Foreign
  <2>2. l \in Probing!Letters /\ l.drill = 0
    BY ONLY <2>1, LetterTyped
  <2> QED BY <1>20, <2>1, <2>2, DrillAppends DEF Probing!Foreign
<1>21. CASE Probing!AuthzOpInDoubt
  BY <1>21, AuthzDoubted DEF Probing!AuthzOpInDoubt, SameProbe
<1> QED BY <1>1, <1>2, <1>3, <1>4, <1>5, <1>6, <1>7, <1>8, <1>9, <1>10, <1>11, <1>12,
           <1>13, <1>14, <1>15, <1>16, <1>17, <1>18, <1>19, <1>20, <1>21 DEF Probing!Next,
             Probing!Running

-----------------------------------------------------------------------------
(***************************************************************************)
(* console open (module Console), from one terminal whose port nobody else *)
(* takes.  Where the open is in its sequence says which instances it has   *)
(* ruled out, which answer it found and whose the unit and the port are.   *)
(***************************************************************************)
\* What a step makes of the record of an open.
SameOpen(r, o) == r \in Opening!Opens /\ r.stack = o.stack /\ r.site = o.site /\ r.was = o.was /\
  r.moved = o.moved /\ r.hit = o.hit

LEMMA RecordMoves ==
  ASSUME NEW o \in Opening!Opens, NEW c \in {"state", "stop", "start", "wait"}, NEW r,
           r = [o EXCEPT !.pc = c]
  PROVE  SameOpen(r, o) /\ r.pc = c /\ r.live = o.live
BY DEF SameOpen, Opening!Opens

OpenFound(o, url) == [o EXCEPT !.pc = "access", !.live = url]
LEMMA RecordFinds ==
  ASSUME NEW o \in Opening!Opens, NEW url \in Opening!Instances
  PROVE  SameOpen(OpenFound(o, url), o) /\ OpenFound(o, url).pc = "access" /\
           OpenFound(o, url).live = url
BY DEF SameOpen, Opening!Opens, OpenFound

OpenExited(o, how) == [o EXCEPT !.pc = "idle", !.end = how]
LEMMA RecordExits ==
  ASSUME NEW o \in Opening!Opens, NEW how \in Opening!Ends
  PROVE  /\ SameOpen(OpenExited(o, how), o) /\ OpenExited(o, how).pc = "idle" /\ OpenExited(o, how).end = how
         /\ OpenExited(o, how).live = o.live
BY DEF SameOpen, Opening!Opens, OpenExited

LEMMA RecordSkips ==
  ASSUME NEW o \in Opening!Opens, o.left # <<>>, NEW r, r = [o EXCEPT !.left = Tail(@)]
  PROVE  SameOpen(r, o) /\ r.pc = o.pc /\ r.left = Tail(o.left)
<1>1. Tail(o.left) \in Seq(Opening!Instances)
  BY DEF Opening!Opens
<1>2. r = [o EXCEPT !.left = Tail(o.left)]
  OBVIOUS
<1> QED BY <1>1, <1>2 DEF SameOpen, Opening!Opens

LEMMA RecordRetries ==
  ASSUME NEW o \in Opening!Opens, NEW r, r = [o EXCEPT !.try = @ + 1]
  PROVE  SameOpen(r, o) /\ r.pc = o.pc /\ r.live = o.live
<1>1. o.try + 1 \in Nat
  BY DEF Opening!Opens
<1>2. r = [o EXCEPT !.try = o.try + 1]
  OBVIOUS
<1> QED BY <1>1, <1>2 DEF SameOpen, Opening!Opens

LEMMA RecordHit ==
  ASSUME NEW o \in Opening!Opens, NEW r, r = [o EXCEPT !.hit = TRUE]
  PROVE  /\ r \in Opening!Opens /\ r.stack = o.stack /\ r.site = o.site /\ r.was = o.was /\ r.moved = o.moved /\ r.hit
         /\ r.pc = o.pc /\ r.live = o.live /\ r.left = o.left /\ r.end = o.end
BY DEF Opening!Opens

LEMMA RecordMoved ==
  ASSUME NEW o \in Opening!Opens, NEW r, r = [o EXCEPT !.moved = TRUE]
  PROVE  /\ r \in Opening!Opens /\ r.stack = o.stack /\ r.site = o.site /\ r.was = o.was /\ r.moved /\ r.hit = o.hit
         /\ r.pc = o.pc /\ r.live = o.live /\ r.left = o.left /\ r.end = o.end
BY DEF Opening!Opens

LEMMA EndpointsTyped ==
  ASSUME NEW stack \in Opening!Stacks, NEW side \in {"a", "b"}
  PROVE  Opening!mqweb_endpoints(stack, side) \in Seq(Opening!Instances)
<1>1. <<"va">> \in Seq(Opening!Instances) /\ <<"vb">> \in Seq(Opening!Instances) /\
     <<"a1", "a2">> \in Seq(Opening!Instances)
  BY DEF Opening!Instances
<1>2. <<"b1">> \in Seq(Opening!Instances) /\ <<"s">> \in Seq(Opening!Instances) /\
     <<>> \in Seq(Opening!Instances)
  BY DEF Opening!Instances
<1>3. Opening!Groups.nha = <<"a1", "a2">> /\ Opening!Groups.svc = <<"s">> /\ Opening!GroupsB = <<"b1">>
  BY DEF Opening!Groups, Opening!GroupsB
<1>4. stack = "vip" \/ stack = "nha" \/ stack = "svc-sim"
  BY DEF Opening!Stacks
<1> QED BY <1>1, <1>2, <1>3, <1>4 DEF Opening!mqweb_endpoints

LEMMA RecordBegins ==
  ASSUME NEW stack \in Opening!Stacks, NEW side \in {"a", "b"}, NEW c \in {"probe", "idle"},
           NEW how \in Opening!Ends, Opening!PortInv,
         NEW r, r = [pc |-> c, stack |-> stack, site |-> side, left |-> Opening!mqweb_endpoints(stack, side), live |-> Opening!Nobody,
                     try |-> 0, was |-> unit, moved |-> FALSE, hit |-> FALSE, end |-> how]
  PROVE  r \in Opening!Opens
<1>1. Opening!mqweb_endpoints(stack, side) \in Seq(Opening!Instances)
  BY EndpointsTyped
<1> QED BY <1>1 DEF Opening!Opens, Opening!PortInv

\* One terminal: the record that changes is every record there is.
LEMMA OnlyRecord ==
  ASSUME Opening!OneOpener, Opening!PortInv, NEW t \in OpenBounds.terminals,
           NEW r \in Opening!Opens, Opening!Step(t, r),
         NEW u \in OpenBounds.terminals
  PROVE  opening' \in [OpenBounds.terminals -> Opening!Opens] /\ opening'[u] = r /\ u = t
BY DEF Opening!OneOpener, Opening!PortInv, Opening!Step

LEMMA ListedTail ==
  ASSUME NEW s \in Seq(Opening!Instances), s # <<>>, NEW i \in Opening!Listed(s), i # Head(s)
  PROVE  i \in Opening!Listed(Tail(s))
<1>1. PICK k \in 1..Len(s) : s[k] = i
  BY DEF Opening!Listed
<1>2. k # 1 /\ k - 1 \in 1..Len(Tail(s)) /\ Tail(s)[k - 1] = i
  BY <1>1
<1> QED BY <1>2 DEF Opening!Listed

LEMMA ListedNone == Opening!Listed(<<>>) = {}
<1>1. 1..Len(<<>>) = {}
  OBVIOUS
<1> QED BY <1>1 DEF Opening!Listed

LEMMA ConsoleInit == Opening!Init => Opening!ConsoleInv
<1> SUFFICES ASSUME Opening!Init PROVE Opening!ConsoleInv
  OBVIOUS
<1>1. Opening!NoOpen \in Opening!Opens /\ Opening!NoOpen.pc = "idle" /\ Opening!NoOpen.end = "none"
  BY DEF Opening!NoOpen, Opening!Opens, Opening!Stacks, Opening!Ends
<1>2. opening \in [OpenBounds.terminals -> Opening!Opens] /\
     \A t \in OpenBounds.terminals : opening[t] = Opening!NoOpen
  BY <1>1 DEF Opening!Init
<1>3. role \in [Opening!Instances -> Opening!Answers]
  <2>1. PICK x \in {<<"running", "replica", "recoveryGroupLeader">>, <<"unreachable", "running", "recoveryGroupLeader">>,
                    <<"recoveryGroupLeader", "replica", "running">>} :
        role = [va |-> "running", vb |-> "unreachable", a1 |-> x[1], a2 |-> x[2], b1 |-> x[3], s |-> "running"]
    BY DEF Opening!Init
  <2>2. x[1] \in Opening!Answers /\ x[2] \in Opening!Answers /\ x[3] \in Opening!Answers /\
       "running" \in Opening!Answers /\ "unreachable" \in Opening!Answers
    BY DEF Opening!Answers, Opening!Members
  <2> QED BY <2>1, <2>2 DEF Opening!Instances
<1>4. Opening!PortInv
  BY <1>2, <1>3 DEF Opening!Init, Opening!PortInv, Opening!Instances, Opening!Nobody
<1> QED BY <1>1, <1>2, <1>4 DEF Opening!ConsoleInv, Opening!SearchInv, Opening!UnitInv, Opening!EndInv

LEMMA ConsoleOpen ==
  ASSUME Opening!OneOpener, Opening!ConsoleInv, NEW t \in OpenBounds.terminals,
           NEW stack \in Opening!Stacks, NEW side \in {"a", "b"}, Opening!Open(t, stack, side)
  PROVE  Opening!ConsoleInv'
<1> DEFINE new(c, how) == [pc |-> c, stack |-> stack, site |-> side, left |-> Opening!mqweb_endpoints(stack, side), live |-> Opening!Nobody,
                           try |-> 0, was |-> unit, moved |-> FALSE, hit |-> FALSE, end |-> how]
<1>1. \E c \in {"probe", "idle"}, how \in {"none", "endpoints", "site", "CA"} :
         Opening!Step(t, new(c, how)) /\ (how = "none" <=> c = "probe")
  <2>1. Opening!Step(t, new("idle", "endpoints")) \/ Opening!Step(t, new("idle", "site")) \/ Opening!Step(t, new("idle", "CA")) \/ Opening!Step(t, new("probe", "none"))
    BY DEF Opening!Open, Opening!NoOpen
  <2> HIDE DEF new
  <2> QED BY <2>1
<1>2. PICK c \in {"probe", "idle"}, how \in {"none", "endpoints", "site", "CA"} :
         Opening!Step(t, new(c, how)) /\ (how = "none" <=> c = "probe")
  BY <1>1
<1>3. Opening!PortInv
  BY DEF Opening!ConsoleInv
<1>4. new(c, how) \in Opening!Opens
  <2>1. how \in Opening!Ends
    BY DEF Opening!Ends
  <2> QED BY <1>3, <2>1, RecordBegins
<1>5. UNCHANGED <<role, unit, port>>
  BY DEF Opening!Open, Opening!lab
<1>6. \A u \in OpenBounds.terminals : opening' \in [OpenBounds.terminals -> Opening!Opens] /\
     opening'[u] = new(c, how)
  BY <1>2, <1>3, <1>4, OnlyRecord
<1>7. Opening!PortInv'
  BY <1>3, <1>5, <1>6 DEF Opening!PortInv
<1> DEFINE r == new(c, how)
<1>8. /\ r.pc = c /\ r.end = how /\ r.was = unit /\ r.stack = stack /\ r.site = side
      /\ r.left = Opening!mqweb_endpoints(stack, side)
  OBVIOUS
<1> HIDE DEF r
<1>9. ASSUME NEW u \in OpenBounds.terminals PROVE Opening!SearchInv(opening[u])' /\
     Opening!UnitInv(opening[u])' /\ Opening!EndInv(opening[u])'
  <2>1. opening'[u] = r
    BY <1>6 DEF r
  <2>2. c = "probe" \/ (c = "idle" /\ how \in {"endpoints", "site", "CA"})
    BY <1>2
  <2> HIDE DEF new
  <2> QED BY <1>5, <1>8, <2>1, <2>2 DEF Opening!SearchInv, Opening!UnitInv, Opening!EndInv
<1> QED BY <1>7, <1>9 DEF Opening!ConsoleInv

\* A verb that exits and leaves the forwarder alone.
LEMMA ConsoleExit ==
  ASSUME Opening!OneOpener, Opening!ConsoleInv, NEW t \in OpenBounds.terminals,
           NEW how \in Opening!Ends, Opening!Exit(t, how), UNCHANGED <<role, unit, port>>,
         opening[t].pc # "idle",
         how = "banner" => opening[t].pc = "wait",
         how = "none live" => opening[t].pc = "probe" /\ opening[t].left = <<>>,
         how \in {"stop failed", "start failed"} => opening[t].hit,
         how \in {"endpoints", "site", "CA", "none live", "login", "no relay"} =>
           opening[t].pc \in {"probe", "access"}
  PROVE  Opening!ConsoleInv'
<1> DEFINE r == OpenExited(opening[t], how)
<1>1. Opening!PortInv /\ Opening!SearchInv(opening[t]) /\ Opening!UnitInv(opening[t]) /\
     opening[t] \in Opening!Opens
  BY DEF Opening!ConsoleInv, Opening!PortInv
<1>2. SameOpen(r, opening[t]) /\ r.pc = "idle" /\ r.end = how /\ r.live = opening[t].live
  BY <1>1, RecordExits
<1>3. Opening!Step(t, r)
  BY DEF Opening!Exit, OpenExited
<1> HIDE DEF r
<1>4. \A u \in OpenBounds.terminals : opening' \in [OpenBounds.terminals -> Opening!Opens] /\
     opening'[u] = r
  BY <1>1, <1>2, <1>3, OnlyRecord DEF SameOpen
<1>5. Opening!PortInv'
  BY <1>1, <1>4 DEF Opening!PortInv
<1>6. how = "none live" => Opening!Listed(opening[t].left) = {}
  BY ListedNone
<1>7. ASSUME NEW u \in OpenBounds.terminals PROVE Opening!SearchInv(opening[u])' /\
     Opening!UnitInv(opening[u])' /\ Opening!EndInv(opening[u])'
  BY <1>1, <1>2, <1>4, <1>6 DEF Opening!SearchInv, Opening!UnitInv, Opening!EndInv, SameOpen
<1> QED BY <1>5, <1>7 DEF Opening!ConsoleInv

LEMMA ConsoleProbe ==
  ASSUME Opening!OneOpener, Opening!ConsoleInv, NEW t \in OpenBounds.terminals, Opening!Probe(t)
  PROVE  Opening!ConsoleInv'
<1>0. UNCHANGED <<role, unit, port>> /\ opening[t].pc = "probe"
  BY DEF Opening!Probe, Opening!lab
<1>1. Opening!PortInv /\ Opening!SearchInv(opening[t]) /\ Opening!UnitInv(opening[t]) /\
     opening[t] \in Opening!Opens
  BY DEF Opening!ConsoleInv, Opening!PortInv
<1> DEFINE o == opening[t]
<1>2. CASE o.left = <<>>
  BY <1>0, <1>2, ConsoleExit DEF Opening!Probe, Opening!Ends
<1>3. CASE o.left # <<>>
  <2> DEFINE url == Head(o.left)
  <2>1. url \in Opening!Instances /\ o.left \in Seq(Opening!Instances)
    BY <1>1, <1>3 DEF Opening!Opens
  <2>2. CASE role[url] = "denied"
    BY <1>0, <1>3, <2>2, ConsoleExit DEF Opening!Probe, Opening!Ends
  <2>3. CASE role[url] # "denied" /\ Opening!classify(role[url]) = "live"
    <3> DEFINE r == OpenFound(o, url)
    <3>1. Opening!Step(t, r)
      BY <1>3, <2>3 DEF Opening!Probe, OpenFound
    <3>2. role[url] = "running"
      BY <2>3 DEF Opening!classify
    <3> HIDE DEF url
    <3>3. SameOpen(r, o) /\ r.pc = "access" /\ r.live = url
      BY <1>1, <2>1, RecordFinds
    <3> HIDE DEF r
    <3>4. \A u \in OpenBounds.terminals : opening' \in [OpenBounds.terminals -> Opening!Opens] /\
         opening'[u] = r
      BY <1>1, <3>1, <3>3, OnlyRecord DEF SameOpen
    <3>5. Opening!PortInv'
      BY <1>0, <1>1, <3>4 DEF Opening!PortInv
    <3>6. ASSUME NEW u \in OpenBounds.terminals PROVE Opening!SearchInv(opening[u])' /\
         Opening!UnitInv(opening[u])' /\ Opening!EndInv(opening[u])'
      BY <1>0, <1>1, <2>1, <3>2, <3>3, <3>4
         DEF Opening!SearchInv, Opening!UnitInv, Opening!EndInv, SameOpen
    <3> QED BY <3>5, <3>6 DEF Opening!ConsoleInv
  <2>4. CASE role[url] # "denied" /\ Opening!classify(role[url]) # "live"
    <3> DEFINE r == [o EXCEPT !.left = Tail(@)]
    <3>1. Opening!Step(t, r)
      BY <1>3, <2>4 DEF Opening!Probe
    <3>2. role[url] # "running"
      BY <2>4 DEF Opening!classify, Opening!Members
    <3>3. SameOpen(r, o) /\ r.pc = o.pc /\ r.left = Tail(o.left)
      BY <1>1, <1>3, RecordSkips
    <3>4. \A i \in Opening!Listed(o.left) : role[i] = "running" => i \in Opening!Listed(Tail(o.left))
      BY <1>3, <2>1, <3>2, ListedTail
    <3> HIDE DEF r, url
    <3>5. \A u \in OpenBounds.terminals : opening' \in [OpenBounds.terminals -> Opening!Opens] /\
         opening'[u] = r
      BY <1>1, <3>1, <3>3, OnlyRecord DEF SameOpen
    <3>6. Opening!PortInv'
      BY <1>0, <1>1, <3>5 DEF Opening!PortInv
    <3>7. ASSUME NEW u \in OpenBounds.terminals PROVE Opening!SearchInv(opening[u])' /\
         Opening!UnitInv(opening[u])' /\ Opening!EndInv(opening[u])'
      BY <1>0, <1>1, <3>3, <3>4, <3>5 DEF Opening!SearchInv, Opening!UnitInv, Opening!EndInv, SameOpen
    <3> QED BY <3>6, <3>7 DEF Opening!ConsoleInv
  <2> QED BY <2>2, <2>3, <2>4
<1> QED BY <1>2, <1>3

\* A verb that goes on past its search.
LEMMA ConsoleGoesOn ==
  ASSUME Opening!OneOpener, Opening!ConsoleInv, NEW t \in OpenBounds.terminals, NEW r,
           Opening!Step(t, r), UNCHANGED role,
         SameOpen(r, opening[t]), r.live = opening[t].live,
         opening[t].pc \in {"access", "state", "stop", "start", "wait"},
         r.pc \in {"state", "stop", "start", "wait"},
         r.pc = "state" /\ ~r.hit => unit' = opening[t].was,
         r.pc = "stop" /\ ~r.hit => unit' # Opening!Nobody,
         r.pc = "start" /\ ~r.hit => unit' = Opening!Nobody,
         r.pc = "wait" /\ unit' # Opening!Nobody => unit' = opening[t].live,
         unit' \in Opening!Instances \cup {Opening!Nobody}, port' \in {Opening!Nobody, "unit"},
           port' = "unit" => unit' # Opening!Nobody
  PROVE  Opening!ConsoleInv'
<1>1. Opening!PortInv /\ Opening!SearchInv(opening[t]) /\ opening[t] \in Opening!Opens
  BY DEF Opening!ConsoleInv, Opening!PortInv
<1>2. \A u \in OpenBounds.terminals : opening' \in [OpenBounds.terminals -> Opening!Opens] /\
     opening'[u] = r
  BY <1>1, OnlyRecord DEF SameOpen
<1>3. Opening!PortInv'
  BY <1>1, <1>2 DEF Opening!PortInv
<1>4. ASSUME NEW u \in OpenBounds.terminals PROVE Opening!SearchInv(opening[u])' /\
     Opening!UnitInv(opening[u])' /\ Opening!EndInv(opening[u])'
  BY <1>1, <1>2 DEF Opening!SearchInv, Opening!UnitInv, Opening!EndInv, SameOpen
<1> QED BY <1>3, <1>4 DEF Opening!ConsoleInv

LEMMA ConsoleVerb ==
  ASSUME Opening!OneOpener, Opening!ConsoleInv, NEW t \in OpenBounds.terminals, Opening!Verb(t)
  PROVE  Opening!ConsoleInv'
<1>1. Opening!PortInv /\ Opening!SearchInv(opening[t]) /\ Opening!UnitInv(opening[t]) /\
     opening[t] \in Opening!Opens
  BY DEF Opening!ConsoleInv, Opening!PortInv
<1>2. CASE Opening!Probe(t)
  BY <1>2, ConsoleProbe
<1>3. CASE Opening!Access(t)
  <2>1. UNCHANGED <<role, unit, port>> /\ opening[t].pc = "access"
    BY <1>3 DEF Opening!Access, Opening!lab
  <2>2. CASE Opening!Exit(t, "no relay")
    BY <2>1, <2>2, ConsoleExit DEF Opening!Ends
  <2>3. CASE Opening!Step(t, [opening[t] EXCEPT !.pc = "state"])
    BY <1>1, <2>1, <2>3, RecordMoves, ConsoleGoesOn DEF Opening!PortInv, Opening!UnitInv, SameOpen
  <2> QED BY <1>3, <2>2, <2>3 DEF Opening!Access
<1>4. CASE Opening!LoadState(t)
  <2>1. UNCHANGED <<role, unit, port>> /\ opening[t].pc = "state"
    BY <1>4 DEF Opening!LoadState, Opening!lab
  <2>2. CASE unit = Opening!Nobody
    <3>1. Opening!Step(t, [opening[t] EXCEPT !.pc = "start"])
      BY <1>4, <2>2 DEF Opening!LoadState
    <3> QED BY <1>1, <2>1, <2>2, <3>1, RecordMoves, ConsoleGoesOn DEF Opening!PortInv
  <2>3. CASE unit # Opening!Nobody
    <3>1. Opening!Step(t, [opening[t] EXCEPT !.pc = "stop"])
      BY <1>4, <2>3 DEF Opening!LoadState
    <3> QED BY <1>1, <2>1, <2>3, <3>1, RecordMoves, ConsoleGoesOn DEF Opening!PortInv
  <2> QED BY <2>2, <2>3
<1>5. CASE Opening!StopForward(t)
  <2>1. UNCHANGED role /\ opening[t].pc = "stop"
    BY <1>5 DEF Opening!StopForward, Opening!lab
  <2>2. CASE unit = Opening!Nobody
    <3>1. Opening!Exit(t, "stop failed") /\ UNCHANGED <<unit, port>> /\ opening[t].hit
      BY <1>1, <1>5, <2>1, <2>2 DEF Opening!StopForward, Opening!UnitInv, Opening!Opens
    <3> QED BY <2>1, <3>1, ConsoleExit DEF Opening!Ends
  <2>3. CASE unit # Opening!Nobody
    <3>1. Opening!Gone /\ Opening!Step(t, [opening[t] EXCEPT !.pc = "start"])
      BY <1>5, <2>3 DEF Opening!StopForward
    <3>2. unit' = Opening!Nobody /\ port' = Opening!Nobody
      BY <1>1, <3>1 DEF Opening!Gone, Opening!PortInv, Opening!Nobody
    <3> QED BY <1>1, <2>1, <3>1, <3>2, RecordMoves, ConsoleGoesOn DEF Opening!Nobody
  <2> QED BY <2>2, <2>3
<1>6. CASE Opening!StartForward(t)
  <2>1. UNCHANGED <<role, port>> /\ opening[t].pc = "start" /\ opening[t].live \in Opening!Instances
    BY <1>1, <1>6 DEF Opening!StartForward, Opening!lab, Opening!SearchInv
  <2>2. CASE unit # Opening!Nobody
    <3>1. Opening!Exit(t, "start failed") /\ UNCHANGED unit /\ opening[t].hit
      BY <1>1, <1>6, <2>1, <2>2 DEF Opening!StartForward, Opening!UnitInv, Opening!Opens
    <3> QED BY <2>1, <3>1, ConsoleExit DEF Opening!Ends
  <2>3. CASE unit = Opening!Nobody
    <3>1. unit' = opening[t].live /\ Opening!Step(t, [opening[t] EXCEPT !.pc = "wait"])
      BY <1>6, <2>3 DEF Opening!StartForward
    <3>2. unit' # Opening!Nobody
      BY <2>1, <3>1 DEF Opening!Instances, Opening!Nobody
    <3> QED BY <1>1, <2>1, <3>1, <3>2, RecordMoves, ConsoleGoesOn DEF Opening!PortInv
  <2> QED BY <2>2, <2>3
<1>7. CASE Opening!Wait(t)
  <2>1. UNCHANGED <<role, unit, port>> /\ opening[t].pc = "wait"
    BY <1>7 DEF Opening!Wait, Opening!lab
  <2>2. CASE Opening!Exit(t, "banner") \/ Opening!Exit(t, "deaf")
    BY <2>1, <2>2, ConsoleExit DEF Opening!Ends
  <2>3. CASE Opening!Step(t, [opening[t] EXCEPT !.try = @ + 1])
    <3> DEFINE r == [opening[t] EXCEPT !.try = @ + 1]
    <3>1. SameOpen(r, opening[t]) /\ r.pc = "wait" /\ r.live = opening[t].live
      BY <1>1, <2>1, RecordRetries
    <3> HIDE DEF r
    <3>2. Opening!Step(t, r)
      BY <2>3 DEF r
    <3> QED BY <1>1, <2>1, <3>1, <3>2, ConsoleGoesOn DEF Opening!PortInv, Opening!UnitInv
  <2> QED BY <1>7, <2>2, <2>3 DEF Opening!Wait
<1> QED BY <1>2, <1>3, <1>4, <1>5, <1>6, <1>7 DEF Opening!Verb

LEMMA ConsoleStep == Opening!OneOpener /\ Opening!ConsoleInv /\ [Opening!Next]_(Opening!vars) =>
  Opening!ConsoleInv'
<1> SUFFICES ASSUME Opening!OneOpener, Opening!ConsoleInv,
  [Opening!Next]_(Opening!vars) PROVE Opening!ConsoleInv'
  OBVIOUS
<1>0. Opening!PortInv
  BY DEF Opening!ConsoleInv
<1>1. CASE UNCHANGED <<role, unit, port, opening>>
  BY <1>1 DEF Opening!ConsoleInv, Opening!PortInv, Opening!SearchInv, Opening!UnitInv, Opening!EndInv
<1>2. CASE \E t \in OpenBounds.terminals, stack \in Opening!Stacks,
     side \in {"a", "b"} : Opening!Open(t, stack, side)
  BY <1>2, ConsoleOpen
<1>3. CASE \E t \in OpenBounds.terminals : Opening!Verb(t)
  BY <1>3, ConsoleVerb
<1>4. CASE \E t \in OpenBounds.terminals : Opening!KillOpen(t)
  BY <1>4, ConsoleExit DEF Opening!KillOpen, Opening!Ends
<1>5. CASE Opening!Bind
  <2>1. UNCHANGED <<role, opening, unit>> /\ port' = "unit" /\ unit # Opening!Nobody
    BY <1>0, <1>5 DEF Opening!Bind, Opening!lab, Opening!PortInv, Opening!Nobody
  <2> QED BY <2>1 DEF Opening!ConsoleInv, Opening!PortInv, Opening!SearchInv, Opening!UnitInv,
    Opening!EndInv
<1>6. CASE Opening!Death
  <2>1. UNCHANGED role /\ unit' = Opening!Nobody /\ port' = Opening!Nobody
    BY <1>0, <1>6 DEF Opening!Death, Opening!Gone, Opening!PortInv, Opening!Nobody
  <2>2. opening' = [t \in OpenBounds.terminals |-> [opening[t] EXCEPT !.hit = TRUE]]
    BY <1>6 DEF Opening!Death, Opening!Hit
  <2>3. ASSUME NEW u \in OpenBounds.terminals
        PROVE  /\ opening'[u] \in Opening!Opens /\ Opening!SearchInv(opening[u])' /\ Opening!UnitInv(opening[u])' /\ Opening!EndInv(opening[u])'
    <3>1. opening[u] \in Opening!Opens /\ Opening!SearchInv(opening[u]) /\ Opening!EndInv(opening[u])
      BY <1>0 DEF Opening!ConsoleInv, Opening!PortInv
    <3>2. opening'[u] = [opening[u] EXCEPT !.hit = TRUE]
      BY <2>2
    <3>3. /\ opening'[u] \in Opening!Opens /\ opening'[u].stack = opening[u].stack /\ opening'[u].site = opening[u].site /\ opening'[u].was = opening[u].was
          /\ opening'[u].moved = opening[u].moved /\ opening'[u].hit /\
               opening'[u].pc = opening[u].pc /\ opening'[u].live = opening[u].live
          /\ opening'[u].left = opening[u].left /\ opening'[u].end = opening[u].end
      BY <3>1, <3>2, RecordHit
    <3> QED BY <2>1, <3>1, <3>3 DEF Opening!SearchInv, Opening!UnitInv, Opening!EndInv
  <2>4. Opening!PortInv'
    BY <1>0, <2>1, <2>2, <2>3 DEF Opening!PortInv, Opening!Nobody
  <2> QED BY <2>3, <2>4 DEF Opening!ConsoleInv
<1>7. CASE \E i \in Opening!Instances, s \in Opening!Answers : Opening!Move(i, s)
  <2>1. UNCHANGED <<unit, port>> /\ role' \in [Opening!Instances -> Opening!Answers]
    BY <1>0, <1>7 DEF Opening!Move, Opening!PortInv
  <2>2. opening' = [t \in OpenBounds.terminals |-> [opening[t] EXCEPT !.moved = TRUE]]
    BY <1>7 DEF Opening!Move
  <2>3. ASSUME NEW u \in OpenBounds.terminals
        PROVE  /\ opening'[u] \in Opening!Opens /\ Opening!SearchInv(opening[u])' /\ Opening!UnitInv(opening[u])' /\ Opening!EndInv(opening[u])'
    <3>1. opening[u] \in Opening!Opens /\ Opening!SearchInv(opening[u]) /\
         Opening!UnitInv(opening[u]) /\ Opening!EndInv(opening[u])
      BY <1>0 DEF Opening!ConsoleInv, Opening!PortInv
    <3>2. opening'[u] = [opening[u] EXCEPT !.moved = TRUE]
      BY <2>2
    <3>3. /\ opening'[u] \in Opening!Opens /\ opening'[u].stack = opening[u].stack /\ opening'[u].site = opening[u].site /\ opening'[u].was = opening[u].was
          /\ opening'[u].moved /\ opening'[u].hit = opening[u].hit /\
               opening'[u].pc = opening[u].pc /\ opening'[u].live = opening[u].live
          /\ opening'[u].left = opening[u].left /\ opening'[u].end = opening[u].end
      BY <3>1, <3>2, RecordMoved
    <3> QED BY <2>1, <3>1, <3>3 DEF Opening!SearchInv, Opening!UnitInv, Opening!EndInv
  <2>4. Opening!PortInv'
    BY <1>0, <2>1, <2>2, <2>3 DEF Opening!PortInv
  <2> QED BY <2>3, <2>4 DEF Opening!ConsoleInv
<1>8. CASE Opening!HealStart \/ Opening!Healing \/ Opening!Bounce \/ Opening!GrafanaBack \/ \E u \in Opening!Units : Opening!RelayBinds(u)
  BY <1>1, <1>8 DEF Opening!HealStart, Opening!Healing, Opening!HealRestart, Opening!HealVerify,
     Opening!Bounce, Opening!GrafanaBack, Opening!RelayBinds
<1>9. ~Opening!Foreign
  BY DEF Opening!Foreign, Opening!OneOpener
<1> QED BY <1>1, <1>2, <1>3, <1>4, <1>5, <1>6, <1>7, <1>8, <1>9 DEF Opening!Next, Opening!vars

LEMMA ConsoleImplies ==
  Opening!ConsoleInv => Opening!AnnouncedLive /\ Opening!MissesNone /\ Opening!NeverTrips /\
    Opening!FailureKeepsForward
BY DEF Opening!ConsoleInv, Opening!EndInv, Opening!AnnouncedLive, Opening!MissesNone,
   Opening!NeverTrips, Opening!FailureKeepsForward, Opening!Ended

\* The banner is printed by the wait alone, when the forwarder listens.
LEMMA ConsoleBanner ==
  ASSUME Opening!OneOpener, Opening!ConsoleInv, [Opening!Next]_(Opening!vars)
  PROVE  Opening!BannerTrueStep
<1>0. Opening!PortInv
  BY DEF Opening!ConsoleInv
<1> SUFFICES ASSUME NEW t \in OpenBounds.terminals, Opening!Ended(t, "banner")',
  ~Opening!Ended(t, "banner")
             PROVE  port' = "unit" /\ unit' = opening'[t].live
  BY DEF Opening!BannerTrueStep
<1>1. opening[t] \in Opening!Opens /\ Opening!UnitInv(opening[t])
  BY <1>0 DEF Opening!PortInv, Opening!ConsoleInv
<1>2. opening'[t] # opening[t]
  BY DEF Opening!Ended
<1>3. ASSUME NEW how \in Opening!Ends, Opening!Exit(t, how) PROVE how = "banner" /\
     opening'[t].live = opening[t].live
  <2>1. opening'[t] = OpenExited(opening[t], how)
    BY <1>0, <1>3 DEF Opening!Exit, Opening!Step, Opening!PortInv, OpenExited
  <2> QED BY <1>1, <2>1, RecordExits DEF Opening!Ended
<1>4. ASSUME NEW r, Opening!Step(t, r), r.pc = "idle" => r.end # "banner" PROVE FALSE
  BY <1>0, <1>4 DEF Opening!Step, Opening!PortInv, Opening!Ended
<1>5. ASSUME NEW c \in {"state", "stop", "start", "wait"},
     Opening!Step(t, [opening[t] EXCEPT !.pc = c]) PROVE FALSE
  BY <1>1, <1>4, <1>5, RecordMoves
<1>6. CASE Opening!Wait(t)
  <2>1. UNCHANGED <<unit, port>> /\ opening[t].pc = "wait"
    BY <1>6 DEF Opening!Wait, Opening!lab
  <2>2. CASE port # Opening!Nobody
    <3>1. Opening!Exit(t, "banner") /\ opening'[t].live = opening[t].live
      BY <1>3, <1>6, <2>2 DEF Opening!Wait, Opening!Ends
    <3> QED BY <1>0, <1>1, <2>1, <2>2, <3>1 DEF Opening!PortInv, Opening!UnitInv
  <2>3. CASE port = Opening!Nobody
    <3>1. ~Opening!Exit(t, "deaf")
      BY <1>3 DEF Opening!Ends
    <3> DEFINE r == [opening[t] EXCEPT !.try = @ + 1]
    <3>2. Opening!Step(t, r)
      BY <1>6, <2>3, <3>1 DEF Opening!Wait
    <3>3. r.pc = "wait"
      BY <1>1, <2>1, RecordRetries
    <3> HIDE DEF r
    <3> QED BY <1>4, <3>2, <3>3
  <2> QED BY <2>2, <2>3
<1>7. ASSUME NEW how \in Opening!Ends \ {"banner"}, Opening!Exit(t, how) PROVE FALSE
  BY <1>3, <1>7
<1>8. CASE Opening!Probe(t)
  <2> DEFINE url == Head(opening[t].left)
  <2>1. CASE opening[t].left = <<>>
    BY <1>7, <1>8, <2>1 DEF Opening!Probe, Opening!Ends
  <2>2. CASE opening[t].left # <<>>
    <3>1. url \in Opening!Instances
      BY <1>1, <2>2 DEF Opening!Opens
    <3>2. opening[t].pc = "probe"
      BY <1>8 DEF Opening!Probe
    <3>3. \/ Opening!Exit(t, "login") \/ Opening!Step(t, OpenFound(opening[t], url)) \/ Opening!Step(t, [opening[t] EXCEPT !.left = Tail(@)])
      BY <1>8, <2>2 DEF Opening!Probe, OpenFound
    <3>4. ~Opening!Exit(t, "login")
      BY <1>7 DEF Opening!Ends
    <3>5. ~Opening!Step(t, OpenFound(opening[t], url))
      BY <1>1, <1>4, <3>1, RecordFinds
    <3> DEFINE r == [opening[t] EXCEPT !.left = Tail(@)]
    <3>6. r.pc = "probe"
      BY <1>1, <2>2, <3>2, RecordSkips
    <3>7. Opening!Step(t, r)
      BY <3>3, <3>4, <3>5
    <3> HIDE DEF r
    <3> QED BY <1>4, <3>6, <3>7
  <2> QED BY <2>1, <2>2
<1>9. CASE Opening!Access(t) \/ Opening!LoadState(t) \/ Opening!StopForward(t) \/ Opening!StartForward(t) \/ Opening!KillOpen(t)
  BY <1>5, <1>7, <1>9
     DEF Opening!Access, Opening!LoadState, Opening!StopForward, Opening!StartForward,
         Opening!KillOpen, Opening!Ends
<1>10. CASE \E stack \in Opening!Stacks, side \in {"a", "b"} : Opening!Open(t, stack, side)
  <2>1. PICK stack \in Opening!Stacks, side \in {"a", "b"} : Opening!Open(t, stack, side)
    BY <1>10
  <2> DEFINE new(c, how) == [pc |-> c, stack |-> stack, site |-> side, left |-> Opening!mqweb_endpoints(stack, side), live |-> Opening!Nobody,
                             try |-> 0, was |-> unit, moved |-> FALSE, hit |-> FALSE, end |-> how]
  <2>2. \/ Opening!Step(t, new("idle", "endpoints")) \/ Opening!Step(t, new("idle", "site"))
        \/ Opening!Step(t, new("idle", "CA")) \/ Opening!Step(t, new("probe", "none"))
    BY <2>1 DEF Opening!Open, Opening!NoOpen
  <2>3. \A c, how : new(c, how).end = how
    OBVIOUS
  <2> HIDE DEF new
  <2> QED BY <1>4, <2>2, <2>3
<1>11. CASE UNCHANGED opening
  BY <1>2, <1>11
<1>12. CASE Opening!Hit
  <2>1. opening'[t] = [opening[t] EXCEPT !.hit = TRUE]
    BY <1>12 DEF Opening!Hit
  <2>2. opening'[t].pc = opening[t].pc /\ opening'[t].end = opening[t].end
    BY <1>1, <2>1, RecordHit
  <2> QED BY <2>2 DEF Opening!Ended
<1>13. CASE opening' = [u \in OpenBounds.terminals |-> [opening[u] EXCEPT !.moved = TRUE]]
  <2>1. opening'[t] = [opening[t] EXCEPT !.moved = TRUE]
    BY <1>13
  <2>2. opening'[t].pc = opening[t].pc /\ opening'[t].end = opening[t].end
    BY <1>1, <2>1, RecordMoved
  <2> QED BY <2>2 DEF Opening!Ended
<1>14. \A u \in OpenBounds.terminals : u = t
  BY DEF Opening!OneOpener
<1>15. CASE \E u \in OpenBounds.terminals :
              (\E stack \in Opening!Stacks, side \in {"a", "b"} : Opening!Open(u, stack, side)) \/ Opening!Verb(u) \/ Opening!KillOpen(u)
  BY <1>6, <1>8, <1>9, <1>10, <1>14, <1>15 DEF Opening!Verb
<1> QED
  BY <1>11, <1>12, <1>13, <1>15
  DEF Opening!Next, Opening!vars, Opening!lab, Opening!HealStart, Opening!Healing,
      Opening!HealRestart, Opening!HealVerify, Opening!Bind, Opening!Death, Opening!Foreign,
        Opening!Bounce, Opening!GrafanaBack, Opening!Move, Opening!RelayBinds

-----------------------------------------------------------------------------
(***************************************************************************)
(* relay-heal (module Console): a relay that the heal has verified serves, *)
(* and none is stale since the restart, unless Grafana bounced meanwhile.  *)
(***************************************************************************)
LEMMA HealInit == Relays!Init => Relays!HealInv
<1> SUFFICES ASSUME Relays!Init PROVE Relays!HealInv
  OBVIOUS
<1>1. relay \in [Relays!Units -> {"absent", "unreadable", "serving", "stale", "binding"}]
  <2>1. PICK x \in {<<"serving", "serving", "serving">>, <<"serving", "absent", "serving">>,
                    <<"serving", "unreadable", "serving">>, <<"absent", "absent", "serving">>,
                    <<"serving", "serving", "absent">>} : relay = [g1 |-> x[1], g2 |-> x[2],
                      c1 |-> x[3]]
    BY DEF Relays!Init
  <2>2. {x[1], x[2], x[3]} \subseteq {"absent", "unreadable", "serving", "stale", "binding"}
    OBVIOUS
  <2> QED BY <2>1, <2>2 DEF Relays!Units, Relays!GrafanaRelays, Relays!ConsoleRelays
<1> QED BY <1>1 DEF Relays!Init, Relays!HealInv

\* A bounce of Grafana ends the calm; a restart leaves nothing stale.
LEMMA HealStep == Relays!HealInv /\ [Relays!Next]_(Relays!vars) => Relays!HealInv'
<1> SUFFICES ASSUME Relays!HealInv, [Relays!Next]_(Relays!vars) PROVE Relays!HealInv'
  OBVIOUS
<1>0. Relays!GrafanaRelays \subseteq Relays!Units
  BY DEF Relays!Units
<1>1. CASE UNCHANGED <<relay, healing>>
  BY <1>1 DEF Relays!HealInv, Relays!relays_to
<1>2. CASE Relays!HealStart
  BY <1>0, <1>2 DEF Relays!HealStart, Relays!HealInv, Relays!relays_to
<1>3. CASE Relays!HealRestart
  BY <1>0, <1>3 DEF Relays!HealRestart, Relays!HealInv, Relays!relays_to
<1>4. CASE Relays!HealVerify
  <2> DEFINE u == CHOOSE x \in healing.todo : TRUE
  <2>1. u \in healing.todo
    BY <1>4 DEF Relays!HealVerify, Relays!HealInv
  <2> HIDE DEF u
  <2>2. UNCHANGED relay /\ healing.pc = "verify"
    BY <1>4 DEF Relays!HealVerify
  <2>3. CASE relay[u] = "serving" /\ healing' = [healing EXCEPT !.todo = @ \ {u}, !.try = 0,
                                  !.pc = IF healing.todo = {u} THEN "ok" ELSE @]
    <3>1. healing' = [healing EXCEPT !.todo = healing.todo \ {u}, !.try = 0, !.pc = IF healing.todo = {u} THEN "ok" ELSE "verify"]
      BY <2>2, <2>3
    <3>2. healing'.todo = healing.todo \ {u} /\ healing'.calm = healing.calm /\
         healing'.pc = IF healing.todo = {u} THEN "ok" ELSE "verify"
      BY <3>1 DEF Relays!HealInv
    <3>3. healing' \in [pc : {"idle", "restart", "verify", "ok", "failed", "error"}, todo : SUBSET Relays!GrafanaRelays,
                 try : Nat, calm : BOOLEAN, n : Nat]
      BY <3>1 DEF Relays!HealInv
    <3>4. healing'.pc = "ok" => healing'.todo = {}
      BY <3>2
    <3>5. healing'.pc = "verify" => healing'.todo # {}
      BY <2>1, <3>2
    <3>6. healing'.calm =>
         \A v \in Relays!relays_to(Relays!GrafanaRelays) \ healing'.todo : relay[v] = "serving"
      BY <2>2, <2>3, <3>2 DEF Relays!HealInv
    <3>7. healing'.calm => \A v \in Relays!GrafanaRelays : relay[v] # "stale"
      BY <2>2, <3>2 DEF Relays!HealInv
    <3>8. Relays!relays_to(Relays!GrafanaRelays)' = Relays!relays_to(Relays!GrafanaRelays)
      BY <2>2 DEF Relays!relays_to
    <3>9. healing'.pc \in {"ok", "verify"}
      BY <3>2
    <3>10. relay' = relay /\
         relay \in [Relays!Units -> {"absent", "unreadable", "serving", "stale", "binding"}]
      BY <2>2 DEF Relays!HealInv
    <3> QED BY <3>3, <3>4, <3>5, <3>6, <3>7, <3>8, <3>9, <3>10 DEF Relays!HealInv
  <2>4. CASE healing' = [healing EXCEPT !.pc = "failed"]
    BY <2>2, <2>4 DEF Relays!HealInv, Relays!relays_to
  <2>5. CASE healing' = [healing EXCEPT !.try = @ + 1]
    BY <2>2, <2>5 DEF Relays!HealInv, Relays!relays_to
  <2> QED BY <1>4, <2>3, <2>4, <2>5 DEF Relays!HealVerify, u
<1>5. CASE Relays!Bounce
  BY <1>0, <1>5 DEF Relays!Bounce, Relays!HealInv, Relays!relays_to
<1>6. CASE \E u \in Relays!Units : Relays!RelayBinds(u)
  BY <1>0, <1>6 DEF Relays!RelayBinds, Relays!HealInv, Relays!relays_to
<1> QED
  BY <1>1, <1>2, <1>3, <1>4, <1>5, <1>6
  DEF Relays!Next, Relays!vars, Relays!lab, Relays!Open, Relays!Verb, Relays!Probe, Relays!Access,
      Relays!LoadState, Relays!StopForward, Relays!StartForward, Relays!Wait, Relays!KillOpen,
        Relays!Healing, Relays!Bind,
      Relays!Death, Relays!Foreign, Relays!GrafanaBack, Relays!Move

LEMMA HealImplies == Relays!HealInv => Relays!HealTrue /\ Relays!HealMends
BY DEF Relays!HealInv, Relays!HealTrue, Relays!HealMends, Relays!relays_to
=============================================================================
