-------------------------------- MODULE Ring --------------------------------
(***************************************************************************)
(* Ringing the callee: the retry loop of module Retry with the steps of    *)
(* ringOnce as its attempt.  A call is requested, answered, connected,     *)
(* streamed to and hung up; gotd's callbacks report the connection and its *)
(* loss from a goroutine of their own, so they interleave with             *)
(* waitConnected, which registers them one after the other.                *)
(*                                                                         *)
(* What gotd does is modelled from how the code uses it: Request blocks    *)
(* until the callee accepts and leaves nothing to hang up when it fails;   *)
(* OnConnected replays a connect that has already happened, OnDisconnected *)
(* does not replay a disconnect.                                           *)
(***************************************************************************)
EXTENDS RetryParams

VARIABLES ctx, loop, n, timer, err, flood, owed, late,  \* as in Retry
          step,      \* where the attempt is, "none" outside of one
          call,      \* the call at Telegram: "none", "ringing", "accepted",
                     \* "connected" or "dropped"
          linked,    \* whether a connect has been reported on this connection
          watched,   \* the callbacks registered on the connection
          res,       \* waitConnected's channel of one: "empty", "nil", "error"
          verdict,   \* the outcome a deferred hangup holds up: an error class,
                     \* or "nil"
          orphaned,  \* history: a Discard failed and left its call up
          streamed   \* history: the last attempt streamed its audio to the end
                     \* on a call that had connected

retry == <<ctx, loop, n, timer, err, flood, owed, late>>
attempt == <<step, call, linked, watched, res, verdict>>
vars == <<retry, attempt, orphaned, streamed>>

R == INSTANCE Retry

TypeOK == /\ R!TypeOK
          /\ step \in {"none", "request", "connected?", "disconnected?", "wait",
                       "stream", "hangup"}
          /\ call \in {"none", "ringing", "accepted", "connected", "dropped"}
          /\ linked \in BOOLEAN
          /\ watched \subseteq {"connect", "disconnect"}
          /\ res \in {"empty", "nil", "error"}
          /\ verdict \in R!Outcomes
          /\ orphaned \in BOOLEAN
          /\ streamed \in BOOLEAN
          /\ step # "none" => loop = "attempt"

Init == /\ R!Init
        /\ step = "none"
        /\ call = "none"
        /\ linked = FALSE
        /\ watched = {}
        /\ res = "empty"
        /\ verdict = "nil"
        /\ orphaned = FALSE
        /\ streamed = FALSE

-----------------------------------------------------------------------------
(* ringOnce, step by step.                                                 *)

\* placeCall: the call is requested, on a connection without callbacks yet.
Request ==
  /\ loop = "attempt"
  /\ step = "none"
  /\ step' = "request"
  /\ call' = "ringing"
  /\ linked' = FALSE
  /\ watched' = {}
  /\ res' = "empty"
  /\ streamed' = FALSE
  /\ UNCHANGED <<retry, verdict, orphaned>>

\* Request fails: refused, declined, not answered within ring_timeout, or
\* canceled.  ringOnce has nothing to hang up.
RequestFails ==
  /\ step = "request"
  /\ \/ \E e \in {"transient", "permanent"} : R!AttemptEnds(e, 0)
     \/ \E f \in Floods : R!AttemptEnds("transient", f)
  /\ step' = "none"
  /\ call' = "none"
  /\ UNCHANGED <<linked, watched, res, verdict, orphaned, streamed>>

\* The callee accepts.
Answered ==
  /\ step = "request"
  /\ step' = "connected?"
  /\ call' = "accepted"
  /\ UNCHANGED <<retry, linked, watched, res, verdict, orphaned, streamed>>

\* trySend: the first report stays, later ones are dropped.
TrySend(r) == res' = IF res = "empty" THEN r ELSE res

\* OnConnected is registered; a connect in the past is replayed, even of a
\* call that has dropped since.
WatchConnect ==
  /\ step = "connected?"
  /\ step' = "disconnected?"
  /\ watched' = watched \cup {"connect"}
  /\ IF linked THEN TrySend("nil") ELSE UNCHANGED res
  /\ UNCHANGED <<retry, call, linked, verdict, orphaned, streamed>>

\* OnDisconnected is registered; a disconnect in the past is not replayed.
WatchDisconnect ==
  /\ step = "disconnected?"
  /\ step' = "wait"
  /\ watched' = watched \cup {"disconnect"}
  /\ UNCHANGED <<retry, call, linked, res, verdict, orphaned, streamed>>

\* waitConnected returns what it was told...
Connected ==
  /\ step = "wait"
  /\ res = "nil"
  /\ step' = "stream"
  /\ UNCHANGED <<retry, call, linked, watched, res, verdict, orphaned, streamed>>

\* A faulty variant: a disconnect reads as a connect.
NotConnectedStreams ==
  /\ step = "wait"
  /\ res = "error"
  /\ step' = "stream"
  /\ UNCHANGED <<retry, call, linked, watched, res, verdict, orphaned, streamed>>

NotConnected ==
  /\ step = "wait"
  /\ res = "error"
  /\ step' = "hangup"
  /\ verdict' = "transient"
  /\ UNCHANGED <<retry, call, linked, watched, res, orphaned, streamed>>

\* A faulty variant: without connect_timeout, only ctx ends the wait.
NoConnectTimeout ==
  /\ step = "wait"
  /\ ctx = "done"
  /\ step' = "hangup"
  /\ verdict' = "transient"
  /\ UNCHANGED <<retry, call, linked, watched, res, orphaned, streamed>>

\* ...or connect_timeout or ctx ends the wait, whatever res holds.
ConnectTimeout ==
  /\ step = "wait"
  /\ step' = "hangup"
  /\ verdict' = "transient"
  /\ UNCHANGED <<retry, call, linked, watched, res, orphaned, streamed>>

\* fn: the audio is streamed to the end, or fails.  After a drop it may do
\* either: nothing tells the streamer that the callee is gone.
StreamEnds ==
  /\ step = "stream"
  /\ step' = "hangup"
  /\ verdict' \in {"nil", "transient"}
  /\ streamed' = (linked /\ verdict' = "nil")
  /\ UNCHANGED <<retry, call, linked, watched, res, orphaned>>

\* A faulty variant: the hangup runs under ctx and does nothing once that is
\* done.
HangupCanceled ==
  /\ step = "hangup"
  /\ R!AttemptEnds(verdict, 0)
  /\ step' = "none"
  /\ call' = IF ctx = "done" THEN call ELSE "none"
  /\ UNCHANGED <<linked, watched, res, verdict, orphaned, streamed>>

\* The deferred hangup, under a ctx that cannot be canceled, ends the attempt
\* with the outcome already settled.  When Discard fails the error is only
\* logged and the call stays as it is.
Hangup ==
  /\ step = "hangup"
  /\ R!AttemptEnds(verdict, 0)
  /\ step' = "none"
  /\ \/ call' = "none" /\ UNCHANGED orphaned
     \/ orphaned' = TRUE /\ UNCHANGED call
  /\ UNCHANGED <<linked, watched, res, verdict, streamed>>

RingOnce == Request \/ RequestFails \/ Answered \/ WatchConnect
              \/ WatchDisconnect \/ Connected \/ NotConnected \/ ConnectTimeout
              \/ StreamEnds \/ Hangup

-----------------------------------------------------------------------------
(* gotd's events.                                                          *)

\* ICE and DTLS are up.
CallConnects ==
  /\ call = "accepted"
  /\ call' = "connected"
  /\ linked' = TRUE
  /\ IF "connect" \in watched THEN TrySend("nil") ELSE UNCHANGED res
  /\ UNCHANGED <<retry, step, watched, verdict, orphaned, streamed>>

\* The callee hangs up or the connection is lost.
CallDrops ==
  /\ call \in {"accepted", "connected"}
  /\ call' = "dropped"
  /\ IF "disconnect" \in watched THEN TrySend("error") ELSE UNCHANGED res
  /\ UNCHANGED <<retry, step, linked, watched, verdict, orphaned, streamed>>

Loop == R!Loop /\ UNCHANGED <<attempt, orphaned, streamed>>

Cancel == R!Cancel /\ UNCHANGED <<attempt, orphaned, streamed>>

Returned == loop = "returned" /\ UNCHANGED vars

Next == RingOnce \/ CallConnects \/ CallDrops \/ Loop \/ Cancel \/ Returned

Spec == Init /\ [][Next]_vars

-----------------------------------------------------------------------------

\* Seen from the loop, ringing is a retried attempt like any other: one outcome
\* per attempt, a pause before the next, and what Retry shows of the loop holds.
RetrySpec == R!Spec

\* No call the callee accepted is left up behind an attempt, however it ended
\* (declined stream, timeout, canceled ctx), unless Discard itself failed.
NoCallLeftUp ==
  step = "none" /\ ~orphaned => call \notin {"accepted", "connected"}

\* Ring reports success only of an attempt whose audio was streamed to its end
\* on a connection that had come up, never of one that dropped or timed out
\* before.
SuccessIsStreamed == loop = "returned" /\ err = "nil" => streamed
=============================================================================
