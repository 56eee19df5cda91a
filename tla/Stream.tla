------------------------------- MODULE Stream -------------------------------
(***************************************************************************)
(* internal/audio: streaming into a call.  ffmpeg is a process that sends  *)
(* RTP packets to a local UDP socket; a loop reads them with a deadline    *)
(* and writes them to the call, and looks at ctx and at ffmpeg's end only  *)
(* when a read times out.  Two goroutines stand by: one reads ffmpeg's     *)
(* standard error to its end, one waits for the process.  Wait closes the  *)
(* pipe of the standard error as soon as the process has exited.           *)
(***************************************************************************)
EXTENDS Naturals

CONSTANT MaxPackets  \* bound: packets ffmpeg gets into the socket

ASSUME MaxPacketsAssumption == MaxPackets \in Nat

VARIABLES ctx,      \* "live" or "done"
          ffmpeg,   \* "none", "running", "failing" (it has said why on standard
                    \* error), or its exit: "ok" or "failed"
          signaled, \* whether it has been sent a kill signal
          sent,     \* packets that have reached the socket
          written,  \* packets written to the call
          late,     \* history: packets that came since the last read timed out
          pipe,     \* what is in the pipe unread: "nothing" or "cause"
          stderr,   \* what the reader has read of it
          reader,   \* "none", "reading" or "done" (it has filled stderrCh)
          waiter,   \* "none", "waiting" or "done" (it has filled waitCh)
          step,     \* where the loop is
          result    \* what Stream returned, "none" before: "nil", "canceled",
                    \* "error", or ffmpeg's exit with or without the reason

process == <<ffmpeg, signaled>>
packets == <<sent, written, late>>
goroutines == <<pipe, stderr, reader, waiter>>
vars == <<ctx, process, packets, goroutines, step, result>>

TypeOK == /\ ctx \in {"live", "done"}
          /\ ffmpeg \in {"none", "running", "failing", "ok", "failed"}
          /\ signaled \in BOOLEAN
          /\ sent \in 0..MaxPackets
          /\ written \in 0..sent
          /\ late \in 0..sent
          /\ pipe \in {"nothing", "cause"}
          /\ stderr \in {"nothing", "cause"}
          /\ reader \in {"none", "reading", "done"}
          /\ waiter \in {"none", "waiting", "done"}
          /\ step \in {"start", "read", "select", "finish", "returned"}
          /\ result \in {"none", "nil", "canceled", "error", "exit", "exit: cause"}
          /\ result # "none" <=> step = "returned"

Init == /\ ctx \in {"live", "done"}
        /\ ffmpeg = "none"
        /\ signaled = FALSE
        /\ sent = 0 /\ written = 0 /\ late = 0
        /\ pipe = "nothing" /\ stderr = "nothing"
        /\ reader = "none" /\ waiter = "none"
        /\ step = "start"
        /\ result = "none"

Exited == ffmpeg \in {"ok", "failed"}

-----------------------------------------------------------------------------
(* The loop.                                                               *)

Return(r) == step' = "returned" /\ result' = r

\* Nothing to play, no socket, no pipe or no ffmpeg.
StartFails ==
  /\ step = "start"
  /\ Return("error")
  /\ UNCHANGED <<ctx, process, packets, goroutines>>

Start ==
  /\ step = "start"
  /\ ctx = "live"
  /\ ffmpeg' = "running"
  /\ reader' = "reading"
  /\ waiter' = "waiting"
  /\ step' = "read"
  /\ UNCHANGED <<ctx, signaled, packets, pipe, stderr, result>>

\* A faulty variant: a read that times out writes the last packet again.
ForwardAgain ==
  /\ step = "read"
  /\ written' = written + 1
  /\ UNCHANGED <<ctx, process, sent, late, goroutines, step, result>>

\* A packet is read and written to the call.
Forward ==
  /\ step = "read"
  /\ written < sent
  /\ written' = written + 1
  /\ UNCHANGED <<ctx, process, sent, late, goroutines, step, result>>

\* A faulty variant: a failed write returns without a kill.
BreakOff ==
  /\ step = "read"
  /\ Return("error")
  /\ UNCHANGED <<ctx, process, packets, goroutines>>

\* The deadline cannot be set or the read fails, the packet is not RTP, or the
\* call does not take it.
Break ==
  /\ step = "read"
  /\ signaled' = TRUE
  /\ Return("error")
  /\ UNCHANGED <<ctx, ffmpeg, packets, goroutines>>

\* A faulty variant: the read has no deadline.
TimeoutNever == step = "read" /\ UNCHANGED vars

\* A faulty variant: ctx and waitCh are looked at before every read.
TimeoutAnyway ==
  /\ step = "read"
  /\ step' = "select"
  /\ late' = 0
  /\ UNCHANGED <<ctx, process, sent, written, goroutines, result>>

\* Nothing has come for as long as the deadline.  (The loop is assumed not to
\* be held up for so long that the deadline passes before the read begins.)
Timeout ==
  /\ step = "read"
  /\ written = sent
  /\ step' = "select"
  /\ late' = 0
  /\ UNCHANGED <<ctx, process, sent, written, goroutines, result>>

\* The branches of the select; when ctx is done and ffmpeg has exited as well,
\* either is taken.
SelectCanceled ==
  /\ step = "select"
  /\ ctx = "done"
  /\ signaled' = TRUE
  /\ Return("canceled")
  /\ UNCHANGED <<ctx, ffmpeg, packets, goroutines>>

SelectExited ==
  /\ step = "select"
  /\ waiter = "done"
  /\ step' = "finish"
  /\ UNCHANGED <<ctx, process, packets, goroutines, result>>

SelectContinue ==
  /\ step = "select"
  /\ ctx = "live" /\ waiter # "done"
  /\ step' = "read"
  /\ UNCHANGED <<ctx, process, packets, goroutines, result>>

\* finishFFmpeg, once stderrCh has been filled: a failed exit carries the last
\* lines of standard error, if there are any.
Finish ==
  /\ step = "finish"
  /\ reader = "done"
  /\ Return(IF ffmpeg = "ok" THEN "nil"
            ELSE IF stderr = "cause" THEN "exit: cause" ELSE "exit")
  /\ UNCHANGED <<ctx, process, packets, goroutines>>

Loop == \/ StartFails \/ Start \/ Forward \/ Timeout
        \/ SelectCanceled \/ SelectExited \/ SelectContinue \/ Finish

-----------------------------------------------------------------------------
(* The two goroutines.                                                     *)

\* io.ReadAll takes what is in the pipe...
ReadStderr ==
  /\ reader = "reading"
  /\ waiter # "done"
  /\ pipe = "cause"
  /\ stderr' = "cause"
  /\ pipe' = "nothing"
  /\ UNCHANGED <<ctx, process, packets, reader, waiter, step, result>>

\* ...until the end of it, or until it finds the pipe closed by Wait.
StderrEnds ==
  /\ reader = "reading"
  /\ (Exited /\ pipe = "nothing") \/ waiter = "done"
  /\ reader' = "done"
  /\ UNCHANGED <<ctx, process, packets, pipe, stderr, waiter, step, result>>

\* A faulty variant: waitCh has no buffer, so only the loop can take from it.
WaitUnbuffered ==
  /\ waiter = "waiting"
  /\ Exited
  /\ step = "select"
  /\ waiter' = "done"
  /\ UNCHANGED <<ctx, process, packets, pipe, stderr, reader, step, result>>

\* cmd.Wait: the process has exited, the pipe is closed, what is left in it is
\* lost.
WaitReturns ==
  /\ waiter = "waiting"
  /\ Exited
  /\ waiter' = "done"
  /\ UNCHANGED <<ctx, process, packets, pipe, stderr, reader, step, result>>

Goroutine == ReadStderr \/ StderrEnds \/ WaitReturns

\* exec.CommandContext kills the process when ctx is done.
ContextKills ==
  /\ ctx = "done"
  /\ ffmpeg \in {"running", "failing"}
  /\ ~signaled
  /\ signaled' = TRUE
  /\ UNCHANGED <<ctx, ffmpeg, packets, goroutines, step, result>>

-----------------------------------------------------------------------------
(* ffmpeg and the rest of the pager.                                       *)

\* A packet reaches the socket.  A packet that the socket has no room for
\* is as good as not sent.
Send ==
  /\ ffmpeg = "running"
  /\ step # "returned"
  /\ sent < MaxPackets
  /\ sent' = sent + 1
  /\ late' = late + 1
  /\ UNCHANGED <<ctx, process, written, goroutines, step, result>>

Complain ==
  /\ ffmpeg = "running"
  /\ ffmpeg' = "failing"
  /\ pipe' = "cause"
  /\ UNCHANGED <<ctx, signaled, packets, stderr, reader, waiter, step, result>>

Exit ==
  /\ \/ ffmpeg = "running" /\ ffmpeg' = "ok"
     \/ ffmpeg = "failing" /\ ffmpeg' = "failed"
     \/ ffmpeg \in {"running", "failing"} /\ signaled /\ ffmpeg' = "failed"
  /\ UNCHANGED <<ctx, signaled, packets, goroutines, step, result>>

\* Shutdown, or the Telegram client is lost.
Cancel ==
  /\ ctx = "live"
  /\ ctx' = "done"
  /\ UNCHANGED <<process, packets, goroutines, step, result>>

Returned == step = "returned" /\ UNCHANGED vars

Next == Loop \/ Break \/ Goroutine \/ ContextKills
          \/ Send \/ Complain \/ Exit \/ Cancel \/ Returned

Spec == Init /\ [][Next]_vars

\* Goroutines that can run do run, and a process that was killed dies.  That
\* ffmpeg ends by itself is not assumed, and nothing makes ctx be done.
FairSpec == /\ Spec
            /\ WF_vars(Loop)
            /\ WF_vars(ReadStderr \/ StderrEnds)
            /\ WF_vars(WaitReturns)
            /\ WF_vars(ContextKills)
            /\ WF_vars(signaled /\ Exit)

-----------------------------------------------------------------------------

\* Stream succeeds only when ffmpeg did, and then every packet has been written
\* to the call: what was in the socket when ffmpeg exited is not cut off,
\* except for packets that came after the last read had timed out.
PlayedToTheEnd == result = "nil" => ffmpeg = "ok" /\ written + late >= sent

\* No ffmpeg is left streaming to a socket that nobody reads: whichever way
\* Stream returns, the process was never started, has exited or is killed.
FfmpegEnds == step = "returned" => ffmpeg = "none" \/ Exited \/ signaled

\* Neither goroutine is left behind by Stream's return.
GoroutinesEnd ==
  step = "returned" ~> reader \in {"none", "done"} /\ waiter \in {"none", "done"}

\* Stream returns soon after its context is done, whatever ffmpeg does: the
\* hangup waits for it.
CancelReturns == ctx = "done" ~> step = "returned"

\* finishFFmpeg: "ffmpeg reports the actual cause on stderr and only an opaque
\* status code to Wait, so carry the tail of it into the error".
CauseIsCarried ==
  result = "exit" => stderr = "nothing" /\ pipe = "nothing"
=============================================================================
