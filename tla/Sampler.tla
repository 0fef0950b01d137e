------------------------------- MODULE Sampler -------------------------------
(***************************************************************************)
(* The host-contention sampler of a bootstrap (src/mqlab/perfsampler.py):  *)
(* the daemon thread of Sampler with its probe pool, RealSource with its   *)
(* multiplexed ssh connections, and the main thread that stops it.         *)
(*                                                                         *)
(* A tick probes the host, then the guests, concurrently, then applies the *)
(* results to the failure tracking, drains the source's notes and adds a   *)
(* sample.  stop() joins with a timeout: a thread that is abandoned goes   *)
(* on while the main thread clears the tracking and closes the source, so  *)
(* the dictionary operations of both are steps of their own.               *)
(*                                                                         *)
(* Readings, percentages and the wording of notes are left out; what a     *)
(* note says of a probe (unavailable, recovered, still) is kept.           *)
(***************************************************************************)
EXTENDS Naturals, FiniteSets

CONSTANTS
  Guests,    \* the guests sampled
  Errors,    \* the messages a probe can fail with
  MaxTicks   \* bound: ticks taken

Host == "host"
Keys == Guests \cup {Host}

SamplerAssumption ==
  /\ IsFiniteSet(Guests) /\ Host \notin Guests
  /\ Errors # {} /\ "ok" \notin Errors /\ "none" \notin Errors
  /\ MaxTicks \in Nat \ {0}

VARIABLES
  \* the sampler thread and its pool
  spc, ticks, gpc, result, todo, key,
  \* Sampler's tracking, _fail_count (0 if absent) and _last_error ("none")
  fails, error,
  \* RealSource: _mux_ok, queued notes, _masters
  muxOk, queued, masters,
  \* the main thread in stop(), and what it found
  mpc, stopping, abandoned, snapshot, closing,
  \* the record's notes: the last one of each probe, and those on the mux
  noted, muxNotes, leftNoted,
  \* history: consecutive failures, live ssh masters, the untracked ones
  run, alive, untracked

thread == <<spc, ticks, gpc, result, todo, key>>
tracking == <<fails, error>>
source == <<muxOk, queued, masters>>
main == <<mpc, stopping, abandoned, snapshot, closing>>
notes == <<noted, muxNotes, leftNoted>>
history == <<run, alive, untracked>>
vars == <<thread, tracking, source, main, notes, history>>

TypeOK ==
  /\ spc \in {"host", "probe", "apply", "error", "del", "pop", "drain", "wait", "dead"}
  /\ ticks \in 0..MaxTicks
  /\ gpc \in [Guests -> {"idle", "mux", "plain", "track", "done"}]
  /\ result \in [Keys -> Errors \cup {"ok", "none"}]
  /\ todo \subseteq Guests /\ key \in Keys
  /\ fails \in [Keys -> 0..MaxTicks] /\ error \in [Keys -> Errors \cup {"none"}]
  /\ muxOk \in BOOLEAN /\ queued \in Nat /\ masters \subseteq Guests
  /\ mpc \in {"run", "join", "clear", "close", "closing", "end"}
  /\ stopping \in BOOLEAN /\ abandoned \in BOOLEAN
  /\ snapshot \subseteq Keys /\ closing \subseteq Guests
  /\ noted \in [Keys -> {"none", "unavailable", "recovered", "still"}]
  /\ muxNotes \in Nat /\ leftNoted \subseteq Guests
  /\ run \in [Keys -> 0..MaxTicks] /\ alive \subseteq Guests /\ untracked \subseteq Guests

Init ==
  /\ spc = "host" /\ ticks = 0 /\ key = Host /\ todo = {}
  /\ gpc = [g \in Guests |-> "idle"] /\ result = [k \in Keys |-> "none"]
  /\ fails = [k \in Keys |-> 0] /\ error = [k \in Keys |-> "none"]
  /\ muxOk = TRUE /\ queued = 0 /\ masters = {}
  /\ mpc = "run" /\ stopping = FALSE /\ abandoned = FALSE /\ snapshot = {} /\ closing = {}
  /\ noted = [k \in Keys |-> "none"] /\ muxNotes = 0 /\ leftNoted = {}
  /\ run = [k \in Keys |-> 0] /\ alive = {} /\ untracked = {}

-----------------------------------------------------------------------------
(***************************************************************************)
(* Applying the result of one probe: the failing path counts, then         *)
(* compares the message; the other one looks the key up, deletes it and    *)
(* pops the count.  Either lookup raises KeyError once the main thread has *)
(* cleared the dictionaries, which ends the tick (_loop notes it).         *)
(***************************************************************************)
AfterApply(k) ==
  IF k = Host THEN "probe" ELSE IF todo \ {k} = {} THEN "drain" ELSE "apply"

Applied(k) ==
  /\ spc' = AfterApply(k) /\ todo' = todo \ {k}
  /\ result' = [result EXCEPT ![k] = "none"] /\ key' = Host

CountFailure(k) ==
  /\ result[k] \in Errors
  /\ fails' = [fails EXCEPT ![k] = @ + 1]
  /\ run' = [run EXCEPT ![k] = @ + 1]
  /\ spc' = "error" /\ key' = k
  /\ UNCHANGED <<ticks, gpc, result, todo, error, source, main, notes, alive, untracked>>

NoteFailure ==
  /\ spc = "error"
  /\ IF error[key] # result[key]
     THEN /\ error' = [error EXCEPT ![key] = result[key]]
          /\ noted' = [noted EXCEPT ![key] = "unavailable"]
     ELSE UNCHANGED <<error, noted>>
  /\ Applied(key)
  /\ UNCHANGED <<ticks, gpc, fails, source, main, muxNotes, leftNoted, history>>

SucceededBefore(k) ==
  /\ result[k] = "ok"
  /\ run' = [run EXCEPT ![k] = 0]
  /\ IF error[k] # "none"
     THEN spc' = "del" /\ key' = k /\ UNCHANGED <<todo, result>>
     ELSE Applied(k)
  /\ UNCHANGED <<ticks, gpc, tracking, source, main, notes, alive, untracked>>

DelError ==
  /\ spc = "del"
  /\ spc' = IF error[key] = "none" THEN "wait" ELSE "pop"
  /\ error' = [error EXCEPT ![key] = "none"]
  /\ UNCHANGED <<ticks, gpc, result, todo, key, fails, source, main, notes, history>>

PopCount ==
  /\ spc = "pop"
  /\ IF fails[key] = 0
     THEN spc' = "wait" /\ UNCHANGED <<noted, todo, result, key>>
     ELSE noted' = [noted EXCEPT ![key] = "recovered"] /\ Applied(key)
  /\ fails' = [fails EXCEPT ![key] = 0]
  /\ UNCHANGED <<ticks, gpc, error, source, main, muxNotes, leftNoted, history>>

Apply(k) == CountFailure(k) \/ SucceededBefore(k)

(***************************************************************************)
(* The tick.                                                               *)
(***************************************************************************)
ProbeHost ==
  /\ spc = "host" /\ result[Host] = "none"
  /\ \E r \in Errors \cup {"ok"} : result' = [result EXCEPT ![Host] = r]
  /\ UNCHANGED <<spc, ticks, gpc, todo, key, tracking, source, main, notes, history>>

ApplyHost == spc = "host" /\ Apply(Host)

StartPool ==
  /\ spc = "probe" /\ todo = {}
  /\ todo' = Guests
  /\ gpc' = [g \in Guests |-> IF muxOk THEN "mux" ELSE "plain"]
  /\ UNCHANGED <<spc, ticks, result, key, tracking, source, main, notes, history>>

PoolDone ==
  /\ spc = "probe" /\ todo # {} /\ \A g \in Guests : gpc[g] = "done"
  /\ spc' = "apply"
  /\ gpc' = [g \in Guests |-> "idle"]
  /\ UNCHANGED <<ticks, result, todo, key, tracking, source, main, notes, history>>

ApplyGuest(g) == spc = "apply" /\ g \in todo /\ Apply(g)

drain_source_notes ==
  /\ spc = "drain"
  /\ queued' = 0 /\ muxNotes' = muxNotes + queued
  /\ spc' = "wait"
  /\ UNCHANGED <<ticks, gpc, result, todo, key, tracking, muxOk, masters, main, noted, leftNoted, history>>

(***************************************************************************)
(* After the sample, the thread waits for the interval or the stop event.  *)
(***************************************************************************)
NextTick ==
  /\ spc = "wait"
  /\ \/ stopping /\ spc' = "dead" /\ UNCHANGED ticks
     \/ ~stopping /\ ticks < MaxTicks - 1 /\ spc' = "host" /\ ticks' = ticks + 1
  /\ result' = [k \in Keys |-> "none"] /\ todo' = {} /\ key' = Host
  /\ UNCHANGED <<gpc, tracking, source, main, notes, history>>

-----------------------------------------------------------------------------
(***************************************************************************)
(* RealSource._probe, one per guest, in parallel.                          *)
(***************************************************************************)
GuestProbe(g, next, r) ==
  /\ gpc' = [gpc EXCEPT ![g] = next]
  /\ result' = [result EXCEPT ![g] = r]
  /\ UNCHANGED <<spc, ticks, todo, key, tracking, main, notes, run>>

disable_mux ==
  /\ muxOk' = FALSE
  /\ queued' = IF muxOk THEN queued + 1 ELSE queued

(***************************************************************************)
(* The control directory or socket cannot be set up: noted once, and this  *)
(* probe goes on without multiplexing.                                     *)
(***************************************************************************)
MuxUnavailable(g) ==
  /\ gpc[g] = "mux"
  /\ disable_mux
  /\ GuestProbe(g, "plain", result[g])
  /\ UNCHANGED <<masters, alive, untracked>>

(***************************************************************************)
(* The multiplexed ssh succeeds, and the guest has a master; or it fails,  *)
(* and if that was a timeout after the login the master stays as well.     *)
(***************************************************************************)
MuxOk(g) ==
  /\ gpc[g] = "mux"
  /\ alive' = alive \cup {g}
  /\ GuestProbe(g, "track", "ok")
  /\ UNCHANGED <<source, untracked>>

\* Mutant: the master is not remembered.
TrackNothing(g) ==
  /\ gpc[g] = "track"
  /\ GuestProbe(g, "done", result[g])
  /\ untracked' = untracked \ {g}
  /\ UNCHANGED <<source, alive>>

TrackMaster(g) ==
  /\ gpc[g] = "track"
  /\ masters' = masters \cup {g}
  /\ untracked' = untracked \ {g}
  /\ GuestProbe(g, "done", result[g])
  /\ UNCHANGED <<muxOk, queued, alive>>

MuxFails(g) ==
  /\ gpc[g] = "mux"
  /\ \/ UNCHANGED <<alive, untracked>>
     \/ /\ alive' = alive \cup {g}
        /\ untracked' = IF g \in masters THEN untracked ELSE untracked \cup {g}
  /\ \E e \in Errors : GuestProbe(g, "done", e)
  /\ UNCHANGED source

PlainProbe(g) ==
  /\ gpc[g] = "plain"
  /\ \E r \in Errors \cup {"ok"} : GuestProbe(g, "done", r)
  /\ UNCHANGED <<source, alive, untracked>>

-----------------------------------------------------------------------------
(***************************************************************************)
(* Sampler.stop in the main thread.                                        *)
(***************************************************************************)
Stop ==
  /\ mpc = "run"
  /\ stopping' = TRUE /\ mpc' = "join"
  /\ UNCHANGED <<thread, tracking, source, abandoned, snapshot, closing, notes, history>>

Join ==
  /\ mpc = "join"
  /\ abandoned' = (spc # "dead")
  /\ snapshot' = {k \in Keys : fails[k] > 0}
  /\ mpc' = "clear"
  /\ UNCHANGED <<thread, tracking, source, stopping, closing, notes, history>>

Clear ==
  /\ mpc = "clear"
  /\ fails' = [k \in Keys |-> 0] /\ error' = [k \in Keys |-> "none"]
  /\ noted' = [k \in Keys |-> IF k \in snapshot THEN "still" ELSE noted[k]]
  /\ mpc' = "close"
  /\ UNCHANGED <<thread, source, stopping, abandoned, snapshot, closing, muxNotes, leftNoted, history>>

(***************************************************************************)
(* RealSource.close: ssh -O exit on every tracked master; one that does    *)
(* not close is noted.                                                     *)
(***************************************************************************)
Close ==
  /\ mpc = "close"
  /\ closing' = masters /\ masters' = {}
  /\ mpc' = "closing"
  /\ UNCHANGED <<thread, tracking, muxOk, queued, stopping, abandoned, snapshot, notes, history>>

CloseMaster(g) ==
  /\ mpc = "closing" /\ g \in closing
  /\ closing' = closing \ {g}
  /\ \/ alive' = alive \ {g} /\ UNCHANGED leftNoted
     \/ leftNoted' = leftNoted \cup {g} /\ UNCHANGED alive
  /\ UNCHANGED <<thread, tracking, source, mpc, stopping, abandoned, snapshot, noted, muxNotes, run, untracked>>

Closed ==
  /\ mpc = "closing" /\ closing = {}
  /\ mpc' = "end"
  /\ UNCHANGED <<thread, tracking, source, stopping, abandoned, snapshot, closing, notes, history>>

-----------------------------------------------------------------------------
Tick ==
  \/ ProbeHost \/ ApplyHost \/ StartPool \/ PoolDone \/ drain_source_notes \/ NextTick
  \/ NoteFailure \/ DelError \/ PopCount
  \/ \E g \in Guests : ApplyGuest(g)

Probe(g) ==
  MuxUnavailable(g) \/ MuxOk(g) \/ TrackMaster(g) \/ MuxFails(g) \/ PlainProbe(g)

Main == Stop \/ Join \/ Clear \/ Close \/ Closed \/ \E g \in Guests : CloseMaster(g)

Next == Tick \/ (\E g \in Guests : Probe(g)) \/ Main

(***************************************************************************)
(* Only the main thread is sure to get on: a probe may hang.               *)
(***************************************************************************)
Spec == Init /\ [][Next]_vars /\ WF_vars(Main)

-----------------------------------------------------------------------------
(***************************************************************************)
(* Between two ticks the notes say of every probe whether it works: the    *)
(* last note is "unavailable" just when the last probe failed, and the     *)
(* count that a recovery or the stop will report is the true one ("non-    *)
(* fatal, never silent").                                                  *)
(***************************************************************************)
NeverSilent ==
  spc \in {"wait", "dead"} /\ mpc \in {"run", "join"} =>
    \A k \in Keys :
      /\ fails[k] = run[k]
      /\ noted[k] = "unavailable" <=> run[k] > 0

(***************************************************************************)
(* In the report of a sampler that stopped in time, no probe is left       *)
(* "unavailable": it recovered, or still failed at the stop.               *)
(***************************************************************************)
NotesClosed ==
  mpc \in {"close", "closing", "end"} /\ ~abandoned =>
    \A k \in Keys : noted[k] # "unavailable"

(***************************************************************************)
(* However many probes run into it at once, the loss of multiplexing is    *)
(* noted once per run (#1228).                                             *)
(***************************************************************************)
MuxNotedOnce == muxNotes + queued \leq 1

(***************************************************************************)
(* After a stop in time the ssh masters left are those that did not close, *)
(* which are noted, and those of a login whose probe timed out.            *)
(***************************************************************************)
MastersClosed ==
  mpc = "end" /\ ~abandoned => alive \subseteq leftNoted \cup untracked

(* Claimed, and not kept by the code.  "`close()` exits every master a probe
   may have opened" (the docstring of RealSource): only those that would not
   close are left. *)
EveryMasterClosed ==
  mpc = "end" /\ ~abandoned => alive \subseteq leftNoted

(***************************************************************************)
(* stop() returns, also when a probe hangs and the thread never ends.      *)
(***************************************************************************)
Joining == mpc \notin {"run", "end"}
Returned == mpc = "end"
StopReturns == Joining ~> Returned
=============================================================================
