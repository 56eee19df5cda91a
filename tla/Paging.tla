------------------------------- MODULE Paging -------------------------------
(***************************************************************************)
(* A page with everything under it: processPage (module Page) places the   *)
(* call of module Ring and sends the messages of module Message, one after *)
(* the other, while gotd's callbacks, voice.timeout and a shutdown fall    *)
(* between any two of their steps.                                         *)
(*                                                                         *)
(* The operations share the variables of the retry loop, since only one of *)
(* them runs at a time.  ctx is the context of the one that runs: the      *)
(* client's for a call, one with a timeout of its own for each message.    *)
(***************************************************************************)
EXTENDS RetryParams

CONSTANTS VoiceAttempts, VoiceDelay  \* voice.attempts and voice.retry_delay

ASSUME VoiceAttemptsAssumption == VoiceAttempts \in Nat \ {0}
ASSUME VoiceDelayAssumption == VoiceDelay \in Nat

VARIABLES
  mode, text, page, callErr, voiceErr, temp, spilled, reached, log, \* as in Page
  top,                                              \* the client's context
  ctx, loop, n, timer, err, flood, owed, late,      \* as in Retry
  ring, call, linked, watched, res, verdict, orphaned, streamed,    \* as in Ring
  kind, send, file, uploads, copies, lost           \* as in Message

pageVars == <<mode, text, page, callErr, voiceErr, temp, spilled, reached, log>>
retry == <<ctx, loop, n, timer, err, flood, owed, late>>
ringVars == <<ring, call, linked, watched, res, verdict, orphaned, streamed>>
message == <<kind, send, file, uploads, copies, lost>>
vars == <<pageVars, top, retry, ringVars, message>>

P == INSTANCE Page WITH step <- page
C == INSTANCE Ring WITH step <- ring
M == INSTANCE Message WITH step <- send, Attempts <- VoiceAttempts,
                           RetryDelay <- VoiceDelay

TypeOK == /\ P!TypeOK
          /\ top \in {"live", "done"}
          /\ top = "done" => ctx = "done"
          /\ page = "call" => C!TypeOK
          /\ send # "idle" => M!TypeOK
          /\ ring # "none" => page = "call"
          /\ send # "idle" => page \in {"send", "text"}

\* No loop runs before the page is taken.
Init == /\ P!Init
        /\ top = "live"
        /\ ctx = "live"
        /\ loop = "returned"
        /\ n = 1 /\ timer = 0 /\ err = "nil" /\ flood = 0 /\ owed = 0 /\ late = 0
        /\ ring = "none" /\ call = "none" /\ linked = FALSE /\ watched = {}
        /\ res = "empty" /\ verdict = "nil" /\ orphaned = FALSE /\ streamed = FALSE
        /\ kind = "voice" /\ send = "idle" /\ file = FALSE /\ uploads = 0
        /\ copies = [k \in M!Kinds |-> 0]
        /\ lost = [k \in M!Kinds |-> 0]

-----------------------------------------------------------------------------

\* A retry loop is entered; Telegram's FLOOD_WAITs are for one method.
LoopBegins == /\ loop' = "attempt"
              /\ n' = 1
              /\ timer' = 0
              /\ err' = "nil"
              /\ flood' = 0
              /\ owed' = 0
              /\ late' = IF ctx = "done" THEN 1 ELSE 0

\* Its locals go with it.
LoopOver == UNCHANGED ctx /\ loop' = "returned"
            /\ n' = 1 /\ timer' = 0 /\ err' = "nil" /\ flood' = 0 /\ owed' = 0 /\ late' = 0

CallOver == UNCHANGED <<ring, call, orphaned>>
            /\ linked' = FALSE /\ watched' = {} /\ res' = "empty"
            /\ verdict' = "nil" /\ streamed' = FALSE

MessageBegins(k) == /\ kind' = k
                    /\ send' = "check"
                    /\ file' = FALSE
                    /\ uploads' = 0
                    /\ UNCHANGED <<copies, lost>>

MessageOver == UNCHANGED <<kind, copies, lost>>
               /\ send' = "idle" /\ file' = FALSE /\ uploads' = 0

\* A context with voice.timeout is derived from the client's.
WithTimeout == ctx' = top

Speak ==
  /\ P!Speak
  /\ IF page' = "call" THEN LoopBegins ELSE UNCHANGED <<loop, n, timer, err, flood, owed, late>>
  /\ UNCHANGED <<top, ctx, ringVars, message>>

\* client.Ring.
Ring ==
  /\ page = "call"
  /\ C!RingOnce \/ C!Loop
  /\ UNCHANGED <<pageVars, top, message>>

\* A faulty variant: the error of the last attempt is lost on the way out.
CallEndsWell ==
  /\ page = "call"
  /\ loop = "returned"
  /\ page' = "voice?"
  /\ reached' = IF streamed THEN reached \cup {"call"} ELSE reached
  /\ log' = log \cup {"info"}
  /\ LoopOver /\ CallOver
  /\ UNCHANGED <<mode, text, callErr, voiceErr, temp, spilled, top, message>>

\* placeCall returns what Ring does.
CallEnds ==
  /\ page = "call"
  /\ loop = "returned"
  /\ page' = "voice?"
  /\ reached' = IF streamed THEN reached \cup {"call"} ELSE reached
  /\ IF err = "nil"
     THEN log' = log \cup {"info"} /\ UNCHANGED callErr
     ELSE log' = log \cup {"failed page"} /\ callErr' = "failed"
  /\ LoopOver /\ CallOver
  /\ UNCHANGED <<mode, text, voiceErr, temp, spilled, top, message>>

Voice ==
  /\ P!Voice
  /\ IF page' = "create" THEN WithTimeout ELSE UNCHANGED ctx
  /\ UNCHANGED <<top, loop, n, timer, err, flood, owed, late, ringVars, message>>

\* The steps of sendVoice before SendVoice; ffmpeg does not run under a context
\* that is over.
Prepare ==
  /\ P!Create \/ P!RenderFails \/ (ctx = "live" /\ P!Render)
  /\ UNCHANGED <<top, retry, ringVars, message>>

Duration ==
  /\ P!Duration
  /\ IF page' = "send"
     THEN LoopBegins /\ MessageBegins("voice")
     ELSE UNCHANGED <<loop, n, timer, err, flood, owed, late, message>>
  /\ UNCHANGED <<top, ctx, ringVars>>

\* client.SendVoice and client.SendText.
Send ==
  /\ page \in {"send", "text"}
  /\ send # "idle"
  /\ M!Send \/ M!Loop
  /\ UNCHANGED <<pageVars, top, ringVars>>

SendDone == send = "none" /\ loop = "returned"

Arrived(k) == IF copies[k] > 0 THEN reached \cup {k} ELSE reached

VoiceSent ==
  /\ page = "send"
  /\ SendDone
  /\ page' = "remove"
  /\ voiceErr' = IF err = "nil" THEN "nil" ELSE "failed"
  /\ reached' = Arrived("voice")
  /\ LoopOver /\ MessageOver
  /\ UNCHANGED <<mode, text, callErr, temp, spilled, log, top, ringVars>>

Remove ==
  /\ P!Remove
  /\ UNCHANGED <<top, retry, ringVars, message>>

VoiceDone ==
  /\ P!VoiceDone
  /\ WithTimeout
  /\ UNCHANGED <<top, loop, n, timer, err, flood, owed, late, ringVars, message>>

\* sendText: no text is wanted, the template fails, or it is sent.
TextSkipped ==
  /\ page = "text"
  /\ send = "idle"
  /\ page' = "verdict"
  /\ IF P!TextSends(voiceErr # "nil") THEN log' = log \cup {"warn"} ELSE UNCHANGED log
  /\ UNCHANGED <<mode, text, callErr, voiceErr, temp, spilled, reached>>
  /\ UNCHANGED <<top, retry, ringVars, message>>

TextBegins ==
  /\ page = "text"
  /\ send = "idle"
  /\ P!TextSends(voiceErr # "nil")
  /\ LoopBegins
  /\ MessageBegins("text")
  /\ UNCHANGED <<pageVars, top, ctx, ringVars>>

\* A faulty variant: sendText says that it sent what it failed to send.
TextEndsTrue ==
  /\ page = "text"
  /\ SendDone
  /\ reached' = Arrived("text")
  /\ page' = "returned"
  /\ log' = log \cup {IF err = "nil" THEN "info" ELSE "warn"}
  /\ LoopOver /\ MessageOver
  /\ UNCHANGED <<mode, text, callErr, voiceErr, temp, spilled, top, ringVars>>

TextEnds ==
  /\ page = "text"
  /\ SendDone
  /\ reached' = Arrived("text")
  /\ IF err = "nil"
     THEN page' = "returned" /\ log' = log \cup {"info"}
     ELSE page' = "verdict" /\ log' = log \cup {"warn"}
  /\ LoopOver /\ MessageOver
  /\ UNCHANGED <<mode, text, callErr, voiceErr, temp, spilled, top, ringVars>>

Verdict ==
  /\ P!Verdict
  /\ UNCHANGED <<top, retry, ringVars, message>>

Program == \/ Speak \/ Ring \/ CallEnds \/ Voice \/ Prepare \/ Duration
           \/ Send \/ VoiceSent \/ Remove \/ VoiceDone
           \/ TextSkipped \/ TextBegins \/ TextEnds \/ Verdict

-----------------------------------------------------------------------------

\* gotd's callbacks, also of a call that could not be hung up.
Events ==
  /\ C!CallConnects \/ C!CallDrops
  /\ UNCHANGED <<pageVars, top, message>>

\* voice.timeout.
TimesOut ==
  /\ page \in {"create", "render", "duration", "send", "text"}
  /\ C!Cancel
  /\ UNCHANGED <<pageVars, top, message>>

\* The process is told to stop, or the client's connection is lost for good.
Shutdown ==
  /\ top = "live"
  /\ page # "returned"
  /\ top' = "done"
  /\ ctx' = "done"
  /\ UNCHANGED <<pageVars, loop, n, timer, err, flood, owed, late, ringVars, message>>

Returned == page = "returned" /\ UNCHANGED vars

Next == Program \/ Events \/ TimesOut \/ Shutdown \/ Returned

Spec == Init /\ [][Next]_vars

\* The pager's goroutine runs: Telegram answers or a timeout does, timers fire,
\* a stream and ffmpeg end.
FairSpec == Spec /\ WF_vars(Program)

-----------------------------------------------------------------------------
(* What is claimed of the parts, now of the page they make.                *)

\* No attempt is made before the FLOOD_WAITs met so far are over.
FloodHonored == C!R!FloodHonored

\* A shutdown or voice.timeout costs at most one attempt more of each operation.
CancelCostsOne == C!R!CancelCostsOne

\* No accepted call is up while the messages are sent or once the page is over,
\* unless Discard failed.
NoCallLeftUp == C!NoCallLeftUp

\* Ring reports success only of a call that was streamed to its end.
SuccessIsStreamed == page = "call" => C!SuccessIsStreamed

\* A page that reached nobody is logged at error as a failed page, whatever
\* timeouts and a shutdown made of its operations.
FailureIsLoud == P!FailureIsLoud

\* A call that was heard is never turned into a failed page.
CallIsNotUndone == P!CallIsNotUndone

\* The rendered message is gone once sendVoice is over.
TempRemoved == P!TempRemoved

\* A message arrives again only for an answer that was lost.
AnsweredOnce == M!AnsweredOnce

\* A retried send does not upload again.
UploadedOnce == M!UploadedOnce

\* As a fallback the text stands in for the voice message: the callee gets both,
\* or one of them twice, only for answers that were lost.
FallbackStandsIn ==
  text = "fallback" =>
    copies["voice"] + copies["text"] <= lost["voice"] + lost["text"] + 1

\* The page with its operations opened up is the page of module Page.
PageSpec == P!Spec

\* The page ends, whatever Telegram answers and whenever a call drops.
PageEnds == <>(page = "returned")
=============================================================================
