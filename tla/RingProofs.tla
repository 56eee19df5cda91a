----------------------------- MODULE RingProofs -----------------------------
(***************************************************************************)
(* For any number of attempts, any pause and any FLOOD_WAITs.  Of the      *)
(* retry loop by itself: its types, that a FLOOD_WAIT is sat out, and what *)
(* a canceled ctx costs.  Of Ring: that it is such a loop, that no call is *)
(* left up, and that success is the success of an attempt that connected.  *)
(***************************************************************************)
EXTENDS Ring, TLAPS

(* The loop, with opaque attempts.                                         *)

\* The states of Retry are well typed; in particular no more than Attempts
\* attempts are made.
THEOREM RetryTypeCorrect == R!Spec => []R!TypeOK
<1> USE AttemptsAssumption, RetryDelayAssumption, FloodsAssumption
<1>1. R!Init => R!TypeOK
  BY DEF R!Init, R!TypeOK, R!Outcomes
<1>2. R!TypeOK /\ [R!Next]_(R!vars) => R!TypeOK'
  <2> SUFFICES ASSUME R!TypeOK, [R!Next]_(R!vars) PROVE R!TypeOK'
    OBVIOUS
  <2> USE DEF R!TypeOK, R!Outcomes
  <2>1. ASSUME NEW e \in R!Outcomes, NEW f \in Floods \cup {0}, R!AttemptEnds(e, f)
        PROVE  R!TypeOK'
    BY <2>1 DEF R!AttemptEnds, R!Longer
  <2>2. CASE R!Return
    BY <2>2 DEF R!Return
  <2>3. CASE R!Pause
    BY <2>3 DEF R!Pause, R!RetryWait, R!Longer
  <2>4. CASE R!Tick
    BY <2>4 DEF R!Tick
  <2>5. CASE R!NextAttempt
    BY <2>5 DEF R!NextAttempt
  <2>6. CASE R!PauseCut \/ R!Cancel
    BY <2>6 DEF R!PauseCut, R!Cancel
  <2>7. CASE UNCHANGED R!vars
    BY <2>7 DEF R!vars
  <2>8. QED
    BY <2>1, <2>2, <2>3, <2>4, <2>5, <2>6, <2>7
       DEF R!Next, R!Outcome, R!Loop, R!Returned
<1>3. QED
  BY <1>1, <1>2, PTL DEF R!Spec

\* What Telegram is owed is what the last error asked for, and the pause covers
\* it.
PauseCovers == /\ loop = "attempt" => owed = 0
               /\ loop = "judge" => owed = flood
               /\ loop = "pause" => owed <= timer

\* A retry never begins before the FLOOD_WAIT of the error it retries is over.
THEOREM RetryFloodHonoredCorrect == R!Spec => []R!FloodHonored
<1> USE AttemptsAssumption, RetryDelayAssumption, FloodsAssumption
<1>1. R!Init => PauseCovers
  BY DEF R!Init, PauseCovers
<1>2. R!TypeOK /\ PauseCovers /\ [R!Next]_(R!vars) => PauseCovers'
  <2> SUFFICES ASSUME R!TypeOK, PauseCovers, [R!Next]_(R!vars) PROVE PauseCovers'
    OBVIOUS
  <2> USE DEF R!TypeOK, PauseCovers
  <2>1. ASSUME NEW e \in R!Outcomes, NEW f \in Floods \cup {0}, R!AttemptEnds(e, f)
        PROVE  PauseCovers'
    BY <2>1 DEF R!AttemptEnds, R!Longer
  <2>2. CASE R!Pause
    BY <2>2 DEF R!Pause, R!RetryWait, R!Longer
  <2>3. CASE R!Tick
    BY <2>3 DEF R!Tick
  <2>4. CASE R!NextAttempt
    BY <2>4 DEF R!NextAttempt
  <2>5. CASE R!Return \/ R!PauseCut \/ R!Cancel \/ UNCHANGED R!vars
    BY <2>5 DEF R!Return, R!PauseCut, R!Cancel, R!vars
  <2>6. QED
    BY <2>1, <2>2, <2>3, <2>4, <2>5
       DEF R!Next, R!Outcome, R!Outcomes, R!Loop, R!Returned
<1>3. PauseCovers => R!FloodHonored
  BY DEF PauseCovers, R!FloodHonored
<1>4. QED
  BY <1>1, <1>2, <1>3, RetryTypeCorrect, PTL DEF R!Spec

\* The loop does not go on to a pause once an attempt has begun late.
NoPauseWhenLate == /\ late <= 1
                   /\ late = 1 => ctx = "done" /\ loop # "pause"

\* A canceled ctx costs at most one attempt more, however many remain.
THEOREM RetryCancelCostsOneCorrect == R!Spec => []R!CancelCostsOne
<1>1. R!Init => NoPauseWhenLate
  BY DEF R!Init, NoPauseWhenLate
<1>2. R!TypeOK /\ NoPauseWhenLate /\ [R!Next]_(R!vars) => NoPauseWhenLate'
  BY DEF R!TypeOK, NoPauseWhenLate, R!Next, R!Outcome, R!AttemptEnds, R!Loop, R!Return,
         R!Pause, R!Tick, R!NextAttempt, R!PauseCut, R!Cancel, R!Returned, R!vars
<1>3. NoPauseWhenLate => R!CancelCostsOne
  BY DEF NoPauseWhenLate, R!CancelCostsOne
<1>4. QED
  BY <1>1, <1>2, <1>3, RetryTypeCorrect, PTL DEF R!Spec

-----------------------------------------------------------------------------
(* Ring.                                                                   *)

\* No call the callee accepted is left up behind an attempt, unless Discard
\* failed.
THEOREM NoCallLeftUpCorrect == Spec => []NoCallLeftUp
<1>1. Init => NoCallLeftUp
  BY DEF Init, NoCallLeftUp
<1>2. NoCallLeftUp /\ [Next]_vars => NoCallLeftUp'
  <2> SUFFICES ASSUME NoCallLeftUp, [Next]_vars PROVE NoCallLeftUp'
    OBVIOUS
  <2> USE DEF NoCallLeftUp
  <2>1. CASE RequestFails \/ Hangup
    BY <2>1 DEF RequestFails, Hangup
  <2>2. CASE CallConnects \/ CallDrops
    BY <2>2 DEF CallConnects, CallDrops
  <2>3. CASE Request \/ Answered \/ WatchConnect \/ WatchDisconnect \/ Connected
               \/ NotConnected \/ ConnectTimeout \/ StreamEnds
    BY <2>3 DEF Request, Answered, WatchConnect, WatchDisconnect, Connected,
                NotConnected, ConnectTimeout, StreamEnds
  <2>4. CASE UNCHANGED <<attempt, orphaned>>
    BY <2>4 DEF attempt
  <2>5. QED
    BY <2>1, <2>2, <2>3, <2>4
       DEF Next, RingOnce, Loop, Cancel, Returned, vars
<1>3. QED
  BY <1>1, <1>2, PTL DEF Spec

-----------------------------------------------------------------------------

\* A report of a connect is believed only of a connection that has connected;
\* an attempt and the loop are without an error only after a stream.
ReportsHold ==
  /\ res = "nil" => linked
  /\ step = "stream" => linked
  /\ step = "hangup" /\ verdict = "nil" => streamed
  /\ loop \in {"judge", "returned"} /\ err = "nil" => streamed
  /\ loop = "pause" => err # "nil"
  /\ step # "none" => loop = "attempt"

LEMMA ReportsHoldCorrect == Spec => []ReportsHold
<1>1. Init => ReportsHold
  BY DEF Init, R!Init, ReportsHold
<1>2. ReportsHold /\ [Next]_vars => ReportsHold'
  <2> SUFFICES ASSUME ReportsHold, [Next]_vars PROVE ReportsHold'
    OBVIOUS
  <2> USE DEF ReportsHold, retry
  <2>1. CASE Request
    BY <2>1 DEF Request
  <2>2. CASE RequestFails
    BY <2>2 DEF RequestFails, R!AttemptEnds
  <2>3. CASE Answered
    BY <2>3 DEF Answered
  <2>4. CASE WatchConnect
    BY <2>4 DEF WatchConnect, TrySend
  <2>5. CASE WatchDisconnect
    BY <2>5 DEF WatchDisconnect
  <2>6. CASE Connected
    BY <2>6 DEF Connected
  <2>7. CASE NotConnected \/ ConnectTimeout
    BY <2>7 DEF NotConnected, ConnectTimeout
  <2>8. CASE StreamEnds
    BY <2>8 DEF StreamEnds
  <2>9. CASE Hangup
    BY <2>9 DEF Hangup, R!AttemptEnds
  <2>10. CASE CallConnects
    BY <2>10 DEF CallConnects, TrySend
  <2>11. CASE CallDrops
    BY <2>11 DEF CallDrops, TrySend
  <2>12. CASE Loop
    BY <2>12 DEF Loop, attempt, R!Loop, R!Return, R!Pause, R!Tick,
                 R!NextAttempt, R!PauseCut
  <2>13. CASE Cancel
    BY <2>13 DEF Cancel, attempt, R!Cancel
  <2>14. CASE UNCHANGED vars
    BY <2>14 DEF vars, attempt
  <2>15. QED
    BY <2>1, <2>2, <2>3, <2>4, <2>5, <2>6, <2>7, <2>8, <2>9, <2>10, <2>11,
       <2>12, <2>13, <2>14 DEF Next, RingOnce, Returned
<1>3. QED
  BY <1>1, <1>2, PTL DEF Spec

\* Ring succeeds only when the last attempt streamed to the end on a connection
\* that had come up.
THEOREM SuccessIsStreamedCorrect == Spec => []SuccessIsStreamed
<1>1. ReportsHold => SuccessIsStreamed
  BY DEF ReportsHold, SuccessIsStreamed
<1>2. QED
  BY <1>1, ReportsHoldCorrect, PTL

-----------------------------------------------------------------------------

\* The outcome a hangup holds up is one of an attempt.
VerdictOK == verdict \in {"nil", "transient"}

\* Ringing is a retried attempt like any other: what Retry shows of the number
\* of attempts, the pauses and a canceled ctx holds of it.
THEOREM RetryRefinement == Spec => RetrySpec
<1>1. Init => R!Init /\ VerdictOK
  BY DEF Init, VerdictOK
<1>2. VerdictOK /\ [Next]_vars => VerdictOK'
  BY DEF VerdictOK, Next, RingOnce, Request, RequestFails, Answered, WatchConnect,
         WatchDisconnect, Connected, NotConnected, ConnectTimeout, StreamEnds,
         Hangup, CallConnects, CallDrops, Loop, Cancel, Returned, attempt, vars
<1>3. VerdictOK /\ [Next]_vars => [R!Next]_(R!vars)
  <2> SUFFICES ASSUME VerdictOK, [Next]_vars PROVE [R!Next]_(R!vars)
    OBVIOUS
  <2>1. CASE RequestFails
    BY <2>1 DEF RequestFails, R!Next, R!Outcome, R!Outcomes
  <2>2. CASE Hangup
    BY <2>2 DEF Hangup, VerdictOK, R!Next, R!Outcome, R!Outcomes
  <2>3. CASE Loop \/ Cancel
    BY <2>3 DEF Loop, Cancel, R!Next
  <2>4. CASE UNCHANGED retry
    BY <2>4 DEF retry, R!vars
  <2>5. QED
    BY <2>1, <2>2, <2>3, <2>4
       DEF Next, RingOnce, Request, Answered, WatchConnect, WatchDisconnect,
           Connected, NotConnected, ConnectTimeout, StreamEnds, CallConnects,
           CallDrops, Returned, vars
<1>4. QED
  BY <1>1, <1>2, <1>3, PTL DEF Spec, R!Spec, RetrySpec

\* So a call is not tried again before its FLOOD_WAITs are over, and a canceled
\* ctx costs at most one ring more.
THEOREM RingRetriesCorrect == Spec => [](R!FloodHonored /\ R!CancelCostsOne)
BY RetryRefinement, RetryFloodHonoredCorrect, RetryCancelCostsOneCorrect, PTL
   DEF RetrySpec
=============================================================================
