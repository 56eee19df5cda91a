------------------------------- MODULE Retry -------------------------------
(***************************************************************************)
(* The retry loop of internal/tgcall, under which a page is rung, a voice  *)
(* message is sent and a text is sent.  An attempt is opaque here: it ends *)
(* without an error, or with one that is permanent, transient, or          *)
(* transient with a FLOOD_WAIT that says how long Telegram wants to be     *)
(* left alone.  Ring and Message put the steps of a call and of a message  *)
(* in its place.                                                           *)
(*                                                                         *)
(* Time passes only in the pause between attempts.  That is the hardest    *)
(* case for what is claimed of the pause: an attempt that takes time only  *)
(* lets more of the FLOOD_WAIT pass.                                       *)
(***************************************************************************)
EXTENDS RetryParams

VARIABLES ctx,    \* "live" or "done"
          loop,   \* "pause", "attempt", "judge" or "returned"
          n,      \* number of the attempt
          timer,  \* what is left of the pause
          err,    \* how the last attempt ended
          flood,  \* the FLOOD_WAIT of err, 0 without one
          owed,   \* history: ticks until Telegram's FLOOD_WAIT is over
          late    \* history: attempts begun after ctx was done

vars == <<ctx, loop, n, timer, err, flood, owed, late>>

Outcomes == {"nil", "transient", "permanent"}

TypeOK == /\ ctx \in {"live", "done"}
          /\ loop \in {"pause", "attempt", "judge", "returned"}
          /\ n \in 1..Attempts
          /\ timer \in Nat
          /\ err \in Outcomes
          /\ flood \in Floods \cup {0}
          /\ owed \in Nat
          /\ late \in Nat

\* The first attempt is made at once, without a look at ctx.
Init == /\ ctx \in {"live", "done"}
        /\ loop = "attempt"
        /\ n = 1
        /\ timer = 0
        /\ err = "nil"
        /\ flood = 0
        /\ owed = 0
        /\ late = IF ctx = "done" THEN 1 ELSE 0

Longer(a, b) == IF a <= b THEN b ELSE a

-----------------------------------------------------------------------------

\* A faulty variant: a FLOOD_WAIT is not heeded.
RetryWaitDeaf(f) == RetryDelay

\* retryWait.
RetryWait(f) == Longer(f, RetryDelay)

\* The attempt ends; Telegram counts its FLOOD_WAIT from here.
AttemptEnds(e, f) ==
  /\ loop = "attempt"
  /\ loop' = "judge"
  /\ err' = e
  /\ flood' = f
  /\ owed' = Longer(f, owed)
  /\ UNCHANGED <<ctx, n, timer, late>>

Outcome == \/ \E e \in Outcomes : AttemptEnds(e, 0)
           \/ \E f \in Floods : AttemptEnds("transient", f)

\* Success, a canceled ctx, a permanent error and the last attempt end the
\* loop.
Return ==
  /\ loop = "judge"
  /\ err = "nil" \/ ctx = "done" \/ err = "permanent" \/ n = Attempts
  /\ loop' = "returned"
  /\ UNCHANGED <<ctx, n, timer, err, flood, owed, late>>

\* A faulty variant: a canceled ctx does not end the loop here.
PauseCanceled ==
  /\ loop = "judge"
  /\ err = "transient"
  /\ n < Attempts
  /\ loop' = "pause"
  /\ n' = n + 1
  /\ timer' = RetryWait(flood)
  /\ UNCHANGED <<ctx, err, flood, owed, late>>

\* Any other error: pause before the next attempt.
Pause ==
  /\ loop = "judge"
  /\ err = "transient"
  /\ ctx = "live"
  /\ n < Attempts
  /\ loop' = "pause"
  /\ n' = n + 1
  /\ timer' = RetryWait(flood)
  /\ UNCHANGED <<ctx, err, flood, owed, late>>

Tick ==
  /\ loop = "pause"
  /\ timer > 0
  /\ timer' = timer - 1
  /\ owed' = IF owed > 0 THEN owed - 1 ELSE 0
  /\ UNCHANGED <<ctx, loop, n, err, flood, late>>

\* The two branches of the select in the pause; when the timer has fired and
\* ctx is done, either is taken.
NextAttempt ==
  /\ loop = "pause"
  /\ timer = 0
  /\ loop' = "attempt"
  /\ late' = IF ctx = "done" THEN late + 1 ELSE late
  /\ UNCHANGED <<ctx, n, timer, err, flood, owed>>

PauseCut ==
  /\ loop = "pause"
  /\ ctx = "done"
  /\ loop' = "returned"
  /\ UNCHANGED <<ctx, n, timer, err, flood, owed, late>>

\* Shutdown, a lost client or, for messages, voice.timeout.
Cancel ==
  /\ ctx = "live"
  /\ ctx' = "done"
  /\ UNCHANGED <<loop, n, timer, err, flood, owed, late>>

Loop == Return \/ Pause \/ Tick \/ NextAttempt \/ PauseCut

Returned == loop = "returned" /\ UNCHANGED vars

Next == Outcome \/ Loop \/ Cancel \/ Returned

Spec == Init /\ [][Next]_vars

-----------------------------------------------------------------------------

\* No attempt is made while Telegram still wants to be left alone: whatever
\* FLOOD_WAITs earlier attempts met, they are over when the next one begins.
FloodHonored == loop = "attempt" => owed = 0

\* A canceled ctx costs at most one attempt more (the one that the select lets
\* through, or the first), not all that remain.
CancelCostsOne == late <= 1
=============================================================================
