---------------------------- MODULE StreamProofs ----------------------------
(***************************************************************************)
(* For any number of packets: Stream leaves no ffmpeg behind, and when it  *)
(* succeeds nothing that was waiting in the socket has been cut off.       *)
(***************************************************************************)
EXTENDS Stream, TLAPS

\* The order in which the process, the goroutine that waits for it and the
\* loop come to their ends.
Ends ==
  /\ step = "start" => ffmpeg = "none" /\ waiter = "none"
  /\ waiter = "done" => Exited
  /\ step = "finish" => Exited
  /\ step = "returned" => ffmpeg = "none" \/ Exited \/ signaled

LEMMA EndsCorrect == Spec => []Ends
<1>1. Init => Ends
  BY DEF Init, Ends
<1>2. Ends /\ [Next]_vars => Ends'
  <2> SUFFICES ASSUME Ends, [Next]_vars PROVE Ends'
    OBVIOUS
  <2> USE DEF Ends, Exited
  <2>1. CASE StartFails \/ Start
    BY <2>1 DEF StartFails, Start, Return, process, packets, goroutines
  <2>2. CASE Forward \/ Timeout \/ SelectContinue
    BY <2>2 DEF Forward, Timeout, SelectContinue, process, packets, goroutines
  <2>3. CASE SelectCanceled \/ SelectExited \/ Finish \/ Break
    BY <2>3 DEF SelectCanceled, SelectExited, Finish, Break, Return, process,
                packets, goroutines
  <2>4. CASE Goroutine
    BY <2>4 DEF Goroutine, ReadStderr, StderrEnds, WaitReturns, process
  <2>5. CASE ContextKills \/ Exit \/ Complain
    BY <2>5 DEF ContextKills, Exit, Complain, packets, goroutines
  <2>6. CASE Send \/ Cancel \/ Returned \/ UNCHANGED vars
    BY <2>6 DEF Send, Cancel, Returned, vars, process, packets, goroutines
  <2>7. QED
    BY <2>1, <2>2, <2>3, <2>4, <2>5, <2>6 DEF Next, Loop
<1>3. QED
  BY <1>1, <1>2, PTL DEF Spec

\* Whichever way Stream returns, its ffmpeg was never started, has exited or is
\* killed.
THEOREM FfmpegEndsCorrect == Spec => []FfmpegEnds
<1>1. Ends => FfmpegEnds
  BY DEF Ends, FfmpegEnds
<1>2. QED
  BY <1>1, EndsCorrect, PTL

\* The loop has caught up with the socket whenever it looks at ffmpeg's end,
\* but for what came since.
CaughtUp ==
  /\ sent \in Nat /\ written \in Nat /\ late \in Nat
  /\ step \in {"select", "finish"} => written + late >= sent
  /\ (step = "returned") = (result # "none")
  /\ PlayedToTheEnd

LEMMA CaughtUpCorrect == Spec => []CaughtUp
<1>1. Init => CaughtUp
  BY DEF Init, CaughtUp, PlayedToTheEnd
<1>2. CaughtUp /\ [Next]_vars => CaughtUp'
  <2> SUFFICES ASSUME CaughtUp, [Next]_vars PROVE CaughtUp'
    OBVIOUS
  <2> USE DEF CaughtUp, PlayedToTheEnd
  <2>1. CASE StartFails \/ Start
    BY <2>1 DEF StartFails, Start, Return, packets
  <2>2. CASE Forward
    BY <2>2 DEF Forward, process
  <2>3. CASE Timeout
    BY <2>3 DEF Timeout, process
  <2>4. CASE SelectCanceled \/ SelectExited \/ SelectContinue \/ Break
    BY <2>4 DEF SelectCanceled, SelectExited, SelectContinue, Break, Return,
                packets
  <2>5. CASE Finish
    BY <2>5 DEF Finish, Return, process, packets
  <2>6. CASE Goroutine \/ ContextKills \/ Cancel
    BY <2>6 DEF Goroutine, ReadStderr, StderrEnds, WaitReturns, ContextKills,
                Cancel, process, packets
  <2>7. CASE Send
    BY <2>7 DEF Send, process
  <2>8. CASE Complain \/ Exit
    <3>1. result # "nil" \/ ffmpeg' = ffmpeg
      BY <2>8 DEF Complain, Exit
    <3>2. QED
      BY <2>8, <3>1 DEF Complain, Exit, packets
  <2>9. CASE Returned \/ UNCHANGED vars
    BY <2>9 DEF Returned, vars, process, packets
  <2>10. QED
    BY <2>1, <2>2, <2>3, <2>4, <2>5, <2>6, <2>7, <2>8, <2>9 DEF Next, Loop
<1>3. QED
  BY <1>1, <1>2, PTL DEF Spec

\* Stream reports success only of an ffmpeg that succeeded and whose packets
\* have been written, those aside that came after the last read timed out.
THEOREM PlayedToTheEndCorrect == Spec => []PlayedToTheEnd
<1>1. CaughtUp => PlayedToTheEnd
  BY DEF CaughtUp
<1>2. QED
  BY <1>1, CaughtUpCorrect, PTL

-----------------------------------------------------------------------------

\* One more packet, where there is room for it, keeps the counts in their ranges.
LEMMA OneMore ==
  ASSUME NEW n \in 0..MaxPackets, NEW w \in 0..n, NEW l \in 0..n, n < MaxPackets
  PROVE  n + 1 \in 0..MaxPackets /\ w \in 0..(n + 1) /\ l + 1 \in 0..(n + 1)
  BY MaxPacketsAssumption

\* The states of Stream are well typed; no more is written to the call than has
\* reached the socket.
THEOREM TypeCorrect == Spec => []TypeOK
<1> USE MaxPacketsAssumption
<1>1. Init => TypeOK
  <2>1. Init => signaled \in BOOLEAN
    BY Zenon DEF Init
  <2>2. QED
    BY <2>1 DEF Init, TypeOK
<1>2. TypeOK /\ [Next]_vars => TypeOK'
  <2> SUFFICES ASSUME TypeOK, [Next]_vars PROVE TypeOK'
    OBVIOUS
  <2> USE DEF TypeOK
  <2>1. CASE StartFails \/ Start
    BY <2>1 DEF StartFails, Start, Return, process, packets, goroutines
  <2>2. CASE Forward
    <3>1. written' \in 0..sent' /\ sent' = sent /\ late' = late
      BY <2>2 DEF Forward
    <3>2. QED
      BY <2>2, <3>1 DEF Forward, process, goroutines
  <2>3. CASE Timeout
    BY <2>3 DEF Timeout, process, goroutines
  <2>4. CASE SelectCanceled \/ SelectExited \/ SelectContinue
    BY <2>4 DEF SelectCanceled, SelectExited, SelectContinue, Return, process, packets,
                goroutines
  <2>5. CASE Finish \/ Break
    BY <2>5 DEF Finish, Break, Return, process, packets, goroutines
  <2>6. CASE Goroutine \/ ContextKills \/ Complain \/ Exit \/ Cancel
    BY <2>6 DEF Goroutine, ReadStderr, StderrEnds, WaitReturns, ContextKills, Complain,
                Exit, Cancel, process, packets, goroutines
  <2>7. CASE Send
    <3>1. sent < MaxPackets /\ sent' = sent + 1 /\ late' = late + 1 /\ written' = written
      BY <2>7 DEF Send
    <3>2. sent \in 0..MaxPackets /\ written \in 0..sent /\ late \in 0..sent
      OBVIOUS
    <3>3. sent' \in 0..MaxPackets /\ written' \in 0..sent' /\ late' \in 0..sent'
      BY <3>1, <3>2, OneMore
    <3>4. QED
      BY <2>7, <3>3 DEF Send, process, goroutines
  <2>8. CASE Returned \/ UNCHANGED vars
    BY <2>8 DEF Returned, vars, process, packets, goroutines
  <2>9. QED
    BY <2>1, <2>2, <2>3, <2>4, <2>5, <2>6, <2>7, <2>8 DEF Next, Loop
<1>3. QED
  BY <1>1, <1>2, PTL DEF Spec
=============================================================================
