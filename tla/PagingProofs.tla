---------------------------- MODULE PagingProofs ----------------------------
(***************************************************************************)
(* For any number of attempts, any pauses and any FLOOD_WAITs: the page    *)
(* with its call and its messages opened up is the page of module Page,    *)
(* and what that promises holds of it.                                     *)
(***************************************************************************)
EXTENDS Paging, TLAPS

\* What the call tells the page: an attempt without an error is one that was
\* streamed, and nothing else was.
CallInv ==
  /\ ring # "none" => page = "call" /\ loop = "attempt"
  /\ res = "nil" => linked
  /\ ring = "stream" => linked
  /\ ring = "hangup" => verdict \in {"nil", "transient"}
  /\ ring = "hangup" /\ verdict = "nil" => streamed
  /\ page = "call" /\ loop \in {"judge", "returned"} /\ err = "nil" => streamed
  /\ page = "call" /\ loop = "pause" => err # "nil"
  /\ streamed => /\ page = "call"
                 /\ \/ ring = "hangup" /\ verdict = "nil"
                    \/ ring = "none" /\ loop \in {"judge", "returned"} /\ err = "nil"

LEMMA CallStep == CallInv /\ [Next]_vars => CallInv'
<1> SUFFICES ASSUME CallInv, [Next]_vars PROVE CallInv'
  OBVIOUS
<1> USE DEF CallInv, ringVars
<1>1. CASE Speak
  BY <1>1 DEF Speak, P!Speak, LoopBegins
<1>2. CASE Ring
  <2> USE DEF C!retry, C!attempt
  <2>1. CASE C!Request
    BY <2>1, <1>2 DEF Ring, C!Request, pageVars
  <2>2. CASE C!RequestFails
    BY <2>2, <1>2 DEF Ring, C!RequestFails, C!R!AttemptEnds, pageVars
  <2>3. CASE C!Answered
    BY <2>3, <1>2 DEF Ring, C!Answered, pageVars
  <2>4. CASE C!WatchConnect
    BY <2>4, <1>2 DEF Ring, C!WatchConnect, C!TrySend, pageVars
  <2>5. CASE C!WatchDisconnect
    BY <2>5, <1>2 DEF Ring, C!WatchDisconnect, pageVars
  <2>6. CASE C!Connected \/ C!NotConnected \/ C!ConnectTimeout
    BY <2>6, <1>2 DEF Ring, C!Connected, C!NotConnected, C!ConnectTimeout, pageVars
  <2>7. CASE C!StreamEnds
    BY <2>7, <1>2 DEF Ring, C!StreamEnds, pageVars
  <2>8. CASE C!Hangup
    BY <2>8, <1>2 DEF Ring, C!Hangup, C!R!AttemptEnds, pageVars
  <2>9. CASE C!Loop
    BY <2>9, <1>2 DEF Ring, C!Loop, C!R!Loop, C!R!Return, C!R!Pause, C!R!Tick,
                      C!R!NextAttempt, C!R!PauseCut, pageVars
  <2>10. QED
    BY <1>2, <2>1, <2>2, <2>3, <2>4, <2>5, <2>6, <2>7, <2>8, <2>9 DEF Ring, C!RingOnce
<1>3. CASE CallEnds
  BY <1>3 DEF CallEnds, LoopOver, CallOver
<1>4. CASE Events
  BY <1>4 DEF Events, C!CallConnects, C!CallDrops, C!TrySend, C!retry, pageVars
<1>5. CASE Send
  BY <1>5 DEF Send, pageVars
<1>6. CASE Duration \/ TextBegins \/ VoiceSent \/ TextEnds
  BY <1>6 DEF Duration, P!Duration, TextBegins, VoiceSent, TextEnds, LoopBegins,
              LoopOver, pageVars
<1>7. CASE Voice \/ Prepare \/ Remove \/ VoiceDone \/ TextSkipped \/ Verdict
  <2>1. page # "call" /\ page' # "call"
    BY <1>7 DEF Voice, P!Voice, Prepare, P!Create, P!RenderFails, P!Render, Remove,
                P!Remove, VoiceDone, P!VoiceDone, TextSkipped, Verdict, P!Verdict
  <2>2. UNCHANGED ringVars
    BY <1>7 DEF Voice, Prepare, Remove, VoiceDone, TextSkipped, Verdict
  <2>3. QED
    BY <2>1, <2>2
<1>8. CASE TimesOut \/ Shutdown \/ UNCHANGED vars
  BY <1>8 DEF TimesOut, C!Cancel, C!R!Cancel, C!attempt, Shutdown, pageVars, retry, vars
<1>9. QED
  BY <1>1, <1>2, <1>3, <1>4, <1>5, <1>6, <1>7, <1>8 DEF Next, Program, Returned
-----------------------------------------------------------------------------

Before == {"speak", "call", "voice?", "create", "render", "duration"}
After == {"remove", "voice done", "text", "verdict", "returned"}

\* Every message of a kind that arrived has lost its answer, or all but one have.
Even(k) == copies[k] = lost[k]
Ahead(k) == copies[k] = lost[k] + 1

\* A send that was answered, until the page has heard of it.
Won == send = "none" /\ loop \in {"judge", "returned"} /\ err = "nil"

\* A message that is being sent has as many copies as lost answers, and one more
\* once an answer came back; the file is uploaded once.
SendInv ==
  /\ page \in Before \cup {"send"} \cup After
  /\ send # "idle" => page \in {"send", "text"}
  /\ page = "send" => send # "idle" /\ kind = "voice"
  /\ page = "text" /\ send # "idle" => kind = "text"
  /\ send \in {"check", "upload", "send"} => loop = "attempt"
  /\ send = "none" /\ loop = "pause" => err # "nil"
  /\ file \in BOOLEAN
  /\ file => uploads = 1
  /\ ~file => uploads = 0
  /\ send = "upload" => ~file

VoiceInv ==
  /\ page \in Before => Even("voice")
  /\ page = "send" => IF Won THEN Ahead("voice") ELSE Even("voice")
  /\ page \in After => Even("voice") \/ (Ahead("voice") /\ voiceErr = "nil")
  /\ page \in {"remove", "voice done", "text", "verdict"} /\ voiceErr = "nil" => Ahead("voice")

TextInv ==
  /\ page \in Before \cup {"send", "remove", "voice done", "verdict"} => Even("text")
  /\ page = "text" /\ send = "idle" => Even("text")
  /\ page = "text" /\ send # "idle" => /\ P!TextSends(voiceErr # "nil")
                                       /\ IF Won THEN Ahead("text") ELSE Even("text")
  /\ page = "returned" =>
       Even("text") \/ (Ahead("text") /\ P!TextSends(voiceErr # "nil"))

CopiesType == copies \in [M!Kinds -> Nat] /\ lost \in [M!Kinds -> Nat]

MessageInv == CopiesType /\ SendInv /\ VoiceInv /\ TextInv

\* What the steps of a message do to the copies: an answered send makes one more
\* of its kind, a send whose answer is lost makes one more of both.
LEMMA SendKeepsScore ==
  ASSUME MessageInv, Send
  PROVE  /\ CopiesType'
         /\ UNCHANGED <<page, text, voiceErr, kind>>
         /\ \A k \in M!Kinds \ {kind} : copies'[k] = copies[k] /\ lost'[k] = lost[k]
         /\ send # "idle" /\ send' # "idle"
         /\ Won' => \/ Won /\ (Even(kind)' <=> Even(kind)) /\ (Ahead(kind)' <=> Ahead(kind))
                    \/ ~Won /\ (Even(kind) => Ahead(kind)')
         /\ ~Won' => ~Won /\ (Even(kind) => Even(kind)')
<1> USE DEF MessageInv, CopiesType, SendInv, Even, Ahead, Won, M!Kinds, pageVars
<1>1. CASE M!CheckFails \/ M!CheckPasses \/ M!Begin \/ M!Upload
  BY <1>1 DEF Send, M!CheckFails, M!CheckPasses, M!Begin, M!Upload, M!retry
<1>2. CASE M!UploadFails \/ M!Refused
  BY <1>2 DEF Send, M!UploadFails, M!Refused, M!FailsTransiently, M!R!AttemptEnds
<1>3. CASE M!Answered
  BY <1>3 DEF Send, M!Answered, M!Arrives, M!R!AttemptEnds
<1>4. CASE M!AnswerLost
  BY <1>4 DEF Send, M!AnswerLost, M!Arrives, M!R!AttemptEnds
<1>5. CASE M!Loop
  BY <1>5 DEF Send, M!Loop, M!message, M!R!Loop, M!R!Return, M!R!Pause,
              M!R!Tick, M!R!NextAttempt, M!R!PauseCut
<1>6. QED
  BY <1>1, <1>2, <1>3, <1>4, <1>5 DEF Send, M!Send

LEMMA SendStep == ASSUME MessageInv, Send PROVE SendInv'
<1> USE DEF MessageInv, SendInv, pageVars
<1>1. CASE M!CheckFails \/ M!CheckPasses
  BY <1>1 DEF Send, M!CheckFails, M!CheckPasses, M!retry
<1>2. CASE M!Begin
  BY <1>2 DEF Send, M!Begin, M!retry
<1>3. CASE M!Upload
  <2>1. uploads' = 1 /\ file' = TRUE /\ send' = "send"
    BY <1>3 DEF M!Upload
  <2>2. QED
    BY <1>3, <2>1 DEF Send, M!Upload, M!retry
<1>4. CASE M!UploadFails \/ M!Refused
  BY <1>4 DEF Send, M!UploadFails, M!Refused, M!FailsTransiently, M!R!AttemptEnds
<1>5. CASE M!Answered \/ M!AnswerLost
  BY <1>5 DEF Send, M!Answered, M!AnswerLost, M!R!AttemptEnds
<1>6. CASE M!Loop
  BY <1>6 DEF Send, M!Loop, M!message, M!R!Loop, M!R!Return, M!R!Pause,
              M!R!Tick, M!R!NextAttempt, M!R!PauseCut
<1>7. QED
  BY <1>1, <1>2, <1>3, <1>4, <1>5, <1>6 DEF Send, M!Send

LEMMA MessageStep == MessageInv /\ [Next]_vars => MessageInv'
<1> SUFFICES ASSUME MessageInv, [Next]_vars PROVE MessageInv'
  OBVIOUS
<1> USE DEF MessageInv, CopiesType, SendInv, VoiceInv, TextInv, Before, After
<1>1. CASE Send
  <2>1. CopiesType' /\ UNCHANGED <<page, text, voiceErr, kind>>
          /\ send # "idle" /\ send' # "idle"
    BY <1>1, SendKeepsScore
  <2>2. page \in {"send", "text"} /\ (page = "send" => kind = "voice")
          /\ (page = "text" => kind = "text")
    BY <2>1
  <2>3. \A k \in {"voice", "text"} \ {kind} : copies'[k] = copies[k] /\ lost'[k] = lost[k]
    BY <1>1, SendKeepsScore DEF M!Kinds
  <2>4. /\ Won' => \/ Won /\ (Even(kind)' <=> Even(kind)) /\ (Ahead(kind)' <=> Ahead(kind))
                   \/ ~Won /\ (Even(kind) => Ahead(kind)')
        /\ ~Won' => ~Won /\ (Even(kind) => Even(kind)')
    BY <1>1, SendKeepsScore
  <2>5. CASE page = "send"
    <3>1. Even("text") /\ Even("text")'
      BY <2>1, <2>2, <2>3, <2>5 DEF Even
    <3>2. VoiceInv'
      BY <2>1, <2>2, <2>4, <2>5 DEF Even, Ahead
    <3>3. TextInv'
      BY <2>1, <2>5, <3>1
    <3>4. QED
      BY <1>1, <2>1, <3>2, <3>3, SendStep
  <2>6. CASE page = "text"
    <3>1. VoiceInv'
      BY <2>1, <2>2, <2>3, <2>6 DEF Even, Ahead
    <3>2. P!TextSends(voiceErr # "nil") /\ P!TextSends(voiceErr # "nil")'
      BY <2>1, <2>6 DEF P!TextSends
    <3>3. TextInv'
      BY <2>1, <2>2, <2>4, <2>6, <3>2 DEF Even, Ahead
    <3>4. QED
      BY <1>1, <2>1, <3>1, <3>3, SendStep
  <2>7. QED
    BY <2>2, <2>5, <2>6
<1>2. CASE UNCHANGED <<message, page, text, voiceErr>> /\ (send = "idle" \/ UNCHANGED <<loop, err>>)
  <2>1. P!TextSends(voiceErr # "nil")' <=> P!TextSends(voiceErr # "nil")
    BY <1>2 DEF P!TextSends
  <2>2. \A k \in {"voice", "text"} : ((Even(k))' <=> Even(k)) /\ ((Ahead(k))' <=> Ahead(k))
    BY <1>2 DEF Even, Ahead, message
  <2>3. QED
    BY <1>2, <2>1, <2>2 DEF message, Won
<1>3. CASE Speak \/ Ring \/ CallEnds \/ Voice \/ Prepare
  <2>1. /\ page \in Before
        /\ page' \in Before \cup {"remove", "voice done", "returned"}
        /\ page' \in {"remove", "voice done"} => voiceErr' # "nil"
        /\ UNCHANGED message
    BY <1>3 DEF Speak, P!Speak, Ring, CallEnds, Voice, P!Voice, Prepare, P!Create,
                P!RenderFails, P!Render, pageVars
  <2>2. send = "idle" /\ send' = "idle"
    BY <2>1 DEF message
  <2>3. Even("voice")' /\ Even("text")'
    BY <2>1 DEF message, Even
  <2>4. SendInv' /\ CopiesType'
    BY <2>1, <2>2 DEF message
  <2>5. VoiceInv' /\ TextInv'
    BY <2>1, <2>2, <2>3
  <2>6. QED
    BY <2>4, <2>5
<1>4. CASE Duration
  <2>1. /\ page = "duration"
        /\ \/ page' = "send" /\ LoopBegins /\ MessageBegins("voice")
           \/ page' = "remove" /\ voiceErr' = "failed" /\ UNCHANGED message
        /\ send = "idle" /\ UNCHANGED <<copies, lost>>
    BY <1>4 DEF Duration, P!Duration, MessageBegins, message
  <2>2. Even("voice")' /\ Even("text")'
    BY <2>1 DEF Even
  <2>3. VoiceInv' /\ TextInv'
    BY <2>1, <2>2 DEF Won, LoopBegins
  <2>4. CopiesType'
    BY <2>1
  <2>5. CASE page' = "send"
    BY <2>1, <2>3, <2>4, <2>5 DEF MessageBegins, LoopBegins
  <2>6. CASE page' = "remove" /\ UNCHANGED message
    <3>1. SendInv'
      BY <2>1, <2>6 DEF message
    <3>2. QED
      BY <2>3, <2>4, <3>1
  <2>7. QED
    BY <2>1, <2>5, <2>6
<1>5. CASE VoiceSent
  <2>1. /\ page = "send" /\ page' = "remove" /\ send = "none" /\ send' = "idle"
        /\ file' = FALSE /\ uploads' = 0
        /\ UNCHANGED <<copies, lost>>
        /\ loop = "returned"
        /\ voiceErr' = "nil" <=> err = "nil"
    BY <1>5 DEF VoiceSent, SendDone, MessageOver
  <2>2. Even("text")'
    BY <2>1 DEF Even
  <2>3. IF voiceErr' = "nil" THEN Ahead("voice")' ELSE Even("voice")'
    BY <2>1 DEF Even, Ahead, Won
  <2>4. QED
    BY <2>1, <2>2, <2>3
<1>6. CASE Remove \/ VoiceDone \/ TextSkipped \/ Verdict
  <2>1. /\ \/ page = "remove" /\ page' = "voice done"
           \/ page = "voice done" /\ page' = "text"
           \/ page = "text" /\ page' = "verdict" /\ send = "idle"
           \/ page = "verdict" /\ page' = "returned"
        /\ UNCHANGED <<message, voiceErr>>
    BY <1>6 DEF Remove, P!Remove, VoiceDone, P!VoiceDone, TextSkipped, Verdict, P!Verdict
  <2>2. send = "idle" /\ send' = "idle"
    BY <2>1 DEF message
  <2>3. (Even("voice")' <=> Even("voice")) /\ (Ahead("voice")' <=> Ahead("voice"))
    BY <2>1 DEF Even, Ahead, message
  <2>4. Even("text")'
    BY <2>1, <2>2 DEF Even, message
  <2>5. SendInv' /\ CopiesType'
    BY <2>1, <2>2 DEF message
  <2>6. VoiceInv' /\ TextInv'
    BY <2>1, <2>2, <2>3, <2>4
  <2>7. QED
    BY <2>5, <2>6
<1>7. CASE TextBegins
  <2>1. /\ page = "text" /\ send = "idle"
        /\ LoopBegins /\ MessageBegins("text")
        /\ UNCHANGED <<page, text, voiceErr>>
        /\ P!TextSends(voiceErr # "nil")
    BY <1>7 DEF TextBegins, pageVars
  <2>2. /\ (Even("voice")' <=> Even("voice")) /\ (Ahead("voice")' <=> Ahead("voice"))
        /\ Even("text")'
    BY <2>1 DEF Even, Ahead, MessageBegins
  <2>3. P!TextSends(voiceErr # "nil")'
    BY <2>1 DEF P!TextSends
  <2>4. SendInv' /\ CopiesType'
    BY <2>1 DEF MessageBegins, LoopBegins
  <2>5. ~Won'
    BY <2>1 DEF Won, LoopBegins
  <2>6. VoiceInv' /\ TextInv'
    BY <2>1, <2>2, <2>3, <2>5
  <2>7. QED
    BY <2>4, <2>6
<1>8. CASE TextEnds
  <2>1. /\ page = "text" /\ send = "none" /\ send' = "idle" /\ loop = "returned"
        /\ page' \in {"returned", "verdict"}
        /\ page' = "returned" <=> err = "nil"
        /\ file' = FALSE /\ uploads' = 0
        /\ UNCHANGED <<copies, lost, text, voiceErr>>
    BY <1>8 DEF TextEnds, SendDone, MessageOver
  <2>2. (Even("voice")' <=> Even("voice")) /\ (Ahead("voice")' <=> Ahead("voice"))
    BY <2>1 DEF Even, Ahead
  <2>3. P!TextSends(voiceErr # "nil")'
    BY <2>1 DEF P!TextSends
  <2>4. IF err = "nil" THEN Ahead("text")' ELSE Even("text")'
    BY <2>1 DEF Even, Ahead, Won
  <2>5. QED
    BY <2>1, <2>2, <2>3, <2>4
<1>9. CASE Events \/ TimesOut \/ Shutdown \/ UNCHANGED vars
  BY <1>2, <1>9 DEF Events, C!CallConnects, C!CallDrops, C!retry, TimesOut, C!Cancel,
                    C!R!Cancel, Shutdown, pageVars, retry, message, vars
<1>10. QED
  BY <1>1, <1>3, <1>4, <1>5, <1>6, <1>7, <1>8, <1>9 DEF Next, Program, Returned

LEMMA MessageAlways == Spec => []MessageInv
<1>1. Init => MessageInv
  <2> SUFFICES ASSUME Init PROVE MessageInv
    OBVIOUS
  <2>1. page = "speak" /\ send = "idle" /\ file = FALSE /\ uploads = 0
    BY DEF Init, P!Init
  <2>2. CopiesType /\ Even("voice") /\ Even("text")
    BY DEF Init, CopiesType, Even, M!Kinds
  <2>3. QED
    BY <2>1, <2>2 DEF MessageInv, SendInv, VoiceInv, TextInv, Before, After
<1>2. QED
  BY <1>1, MessageStep, PTL DEF Spec

LEMMA CallAlways == Spec => []CallInv
<1>1. Init => CallInv
  BY DEF Init, P!Init, CallInv
<1>2. QED
  BY <1>1, CallStep, PTL DEF Spec

\* The callee gets a message again only for an answer of Telegram that was lost,
\* however often voice.attempts lets it be sent.
THEOREM AnsweredOnceCorrect == Spec => []AnsweredOnce
<1>1. MessageInv => AnsweredOnce
  <2> SUFFICES ASSUME MessageInv PROVE AnsweredOnce
    OBVIOUS
  <2> USE DEF MessageInv, CopiesType, SendInv, M!Kinds
  <2>1. copies["voice"] \in Nat /\ copies["text"] \in Nat
          /\ lost["voice"] \in Nat /\ lost["text"] \in Nat
    OBVIOUS
  <2>2. Even("voice") \/ Ahead("voice")
    BY DEF VoiceInv, Before, After
  <2>3. Even("text") \/ Ahead("text")
    BY DEF TextInv, Before, After
  <2>4. QED
    BY <2>1, <2>2, <2>3 DEF Even, Ahead, AnsweredOnce, M!AnsweredOnce
<1>2. QED
  BY <1>1, MessageAlways, PTL

\* The promise of SendVoice uploads the rendered message once, however often it
\* is sent.
THEOREM UploadedOnceCorrect == Spec => []UploadedOnce
<1>1. MessageInv => UploadedOnce
  BY DEF MessageInv, SendInv, UploadedOnce, M!UploadedOnce
<1>2. QED
  BY <1>1, MessageAlways, PTL

\* With voice.text at fallback the callee gets the voice message and the text both
\* only for an answer that was lost: sendText asks whether the voice message failed.
THEOREM FallbackStandsInCorrect == Spec => []FallbackStandsIn
<1>1. MessageInv => FallbackStandsIn
  <2> SUFFICES ASSUME MessageInv, text = "fallback" 
               PROVE  copies["voice"] + copies["text"] <= lost["voice"] + lost["text"] + 1
    BY DEF FallbackStandsIn
  <2> USE DEF MessageInv, CopiesType, SendInv, M!Kinds
  <2>1. copies["voice"] \in Nat /\ copies["text"] \in Nat
          /\ lost["voice"] \in Nat /\ lost["text"] \in Nat
    OBVIOUS
  <2>2. P!TextSends(voiceErr # "nil") => voiceErr # "nil"
    BY DEF P!TextSends
  <2>3. \/ Even("voice") /\ (Even("text") \/ Ahead("text"))
        \/ Ahead("voice") /\ Even("text")
    BY <2>2 DEF VoiceInv, TextInv, Before, After
  <2>4. QED
    BY <2>1, <2>3 DEF Even, Ahead
<1>2. QED
  BY <1>1, MessageAlways, PTL

-----------------------------------------------------------------------------

\* The call's promises survive the composition.  A call that was accepted is up
\* only while Ring has an attempt for it, or for a Discard that failed.
THEOREM NoCallLeftUpCorrect == Spec => []NoCallLeftUp
<1> USE DEF NoCallLeftUp, C!NoCallLeftUp, ringVars
<1>1. Init => NoCallLeftUp
  BY DEF Init
<1>2. NoCallLeftUp /\ [Next]_vars => NoCallLeftUp'
  <2> SUFFICES ASSUME NoCallLeftUp, [Next]_vars PROVE NoCallLeftUp'
    OBVIOUS
  <2>1. CASE Ring
    BY <2>1 DEF Ring, C!RingOnce, C!Request, C!RequestFails, C!Answered, C!WatchConnect,
                C!WatchDisconnect, C!Connected, C!NotConnected, C!ConnectTimeout,
                C!StreamEnds, C!Hangup, C!Loop, C!attempt
  <2>2. CASE CallEnds
    BY <2>2 DEF CallEnds, CallOver
  <2>3. CASE Events
    BY <2>3 DEF Events, C!CallConnects, C!CallDrops
  <2>4. CASE UNCHANGED ringVars
    BY <2>4
  <2>5. QED
    BY <2>1, <2>2, <2>3, <2>4
       DEF Next, Program, Speak, Voice, Prepare, Duration, Send, VoiceSent, Remove,
           VoiceDone, TextSkipped, TextBegins, TextEnds, Verdict, TimesOut, C!Cancel,
           C!attempt, Shutdown, Returned, vars
<1>3. QED
  BY <1>1, <1>2, PTL DEF Spec

\* Ring tells the page of success only when the audio was streamed to its end.
THEOREM SuccessIsStreamedCorrect == Spec => []SuccessIsStreamed
<1>1. CallInv => SuccessIsStreamed
  BY DEF CallInv, SuccessIsStreamed, C!SuccessIsStreamed
<1>2. QED
  BY <1>1, CallAlways, PTL

-----------------------------------------------------------------------------

\* A step of the page that is done with an operation is the step of module Page
\* with the operation's outcome.
LEMMA PageStep ==
  ASSUME CallInv, MessageInv, [Next]_vars
  PROVE  [P!Next]_(P!vars)
<1> USE DEF P!Next, P!vars, P!config
<1>1. CASE Speak \/ Voice \/ Prepare \/ Duration \/ Remove \/ VoiceDone \/ Verdict
  BY <1>1 DEF Speak, Voice, Prepare, Duration, Remove, VoiceDone, Verdict
<1>2. CASE CallEnds
  <2>1. IF err = "nil" THEN streamed ELSE ~streamed
    BY <1>2 DEF CallInv, CallEnds
  <2>2. CASE err = "nil"
    BY <1>2, <2>1, <2>2 DEF CallEnds, P!CallSucceeds
  <2>3. CASE err # "nil"
    BY <1>2, <2>1, <2>3 DEF CallEnds, P!CallFails
  <2>4. QED
    BY <2>2, <2>3
<1>3. CASE VoiceSent
  <2>1. err = "nil" => copies["voice"] > 0
    BY <1>3 DEF VoiceSent, SendDone, MessageInv, CopiesType, VoiceInv, Won, Ahead, M!Kinds
  <2>2. QED
    BY <1>3, <2>1 DEF VoiceSent, Arrived, P!SendVoice
<1>4. CASE TextSkipped
  BY <1>4 DEF TextSkipped, P!TextNotSent
<1>5. CASE TextEnds
  <2>1. /\ P!TextSends(voiceErr # "nil")
        /\ err = "nil" => copies["text"] > 0
    BY <1>5 DEF TextEnds, SendDone, MessageInv, CopiesType, TextInv, Won, Ahead, M!Kinds
  <2>2. CASE err = "nil"
    BY <1>5, <2>1, <2>2 DEF TextEnds, Arrived, P!TextSent
  <2>3. CASE err # "nil"
    BY <1>5, <2>1, <2>3 DEF TextEnds, Arrived, P!TextNotSent
  <2>4. QED
    BY <2>2, <2>3
<1>6. CASE Ring \/ Send \/ TextBegins \/ Events \/ TimesOut \/ Shutdown \/ UNCHANGED vars
  BY <1>6 DEF Ring, Send, TextBegins, Events, TimesOut, Shutdown, pageVars, vars
<1>7. QED
  BY <1>1, <1>2, <1>3, <1>4, <1>5, <1>6 DEF Next, Program, Returned

\* The page with its operations opened up implements the page of module Page, in
\* which each is one step: retries, timeouts and gotd's events add nothing to
\* what processPage can make of a page.
THEOREM PageRefinement == Spec => PageSpec
<1>1. Init => P!Init
  BY DEF Init
<1>2. QED
  BY <1>1, PageStep, CallAlways, MessageAlways, PTL DEF Spec, PageSpec, P!Spec

\* What module Page knows of a page that is under way.
PageInv ==
  /\ mode \in P!VoiceModes
  /\ page \in {"speak", "call"} => reached = {} /\ log = {}
  /\ mode = "only" => page # "call" /\ "call" \notin reached
  /\ mode # "only" /\ page \notin {"speak", "call"} =>
       "call" \in reached \/ "failed page" \in log
  /\ mode # "only" /\ "call" \in reached => "failed page" \notin log
  /\ page \in {"remove", "voice done", "text", "verdict"} /\ voiceErr = "nil" =>
       "voice" \in reached
  /\ mode = "only" /\ page = "returned" => reached # {} \/ "failed page" \in log

LEMMA PageAlways == P!Spec => []PageInv
<1>1. P!Init => PageInv
  BY DEF P!Init, PageInv
<1>2. PageInv /\ [P!Next]_(P!vars) => PageInv'
  <2> SUFFICES ASSUME PageInv, [P!Next]_(P!vars) PROVE PageInv'
    OBVIOUS
  <2> USE DEF PageInv, P!VoiceModes, P!config
  <2>1. CASE P!Speak
    BY <2>1 DEF P!Speak, P!Calls
  <2>2. CASE P!CallFails \/ P!CallSucceeds
    BY <2>2 DEF P!CallFails, P!CallSucceeds
  <2>3. CASE P!Voice
    BY <2>3 DEF P!Voice, P!VoiceSends
  <2>4. CASE P!Create
    BY <2>4 DEF P!Create
  <2>5. CASE P!RenderFails \/ P!Render \/ P!Duration
    BY <2>5 DEF P!RenderFails, P!Render, P!Duration
  <2>6. CASE P!SendVoice
    BY <2>6 DEF P!SendVoice
  <2>7. CASE P!Remove \/ P!VoiceDone
    BY <2>7 DEF P!Remove, P!VoiceDone
  <2>8. CASE P!TextSent
    BY <2>8 DEF P!TextSent
  <2>9. CASE P!TextNotSent
    BY <2>9 DEF P!TextNotSent
  <2>10. CASE P!Verdict
    BY <2>10 DEF P!Verdict
  <2>11. CASE UNCHANGED P!vars
    BY <2>11 DEF P!vars
  <2>12. QED
    BY <2>1, <2>2, <2>3, <2>4, <2>5, <2>6, <2>7, <2>8, <2>9, <2>10, <2>11
       DEF P!Next, P!Returned
<1>3. QED
  BY <1>1, <1>2, PTL DEF P!Spec

\* A page that reached the callee by no channel is logged at error as a failed
\* page: processPage's verdict covers the mode that does not call.
THEOREM FailureIsLoudCorrect == Spec => []FailureIsLoud
<1>1. PageInv => FailureIsLoud
  BY DEF PageInv, FailureIsLoud, P!FailureIsLoud
<1>2. QED
  BY <1>1, PageRefinement, PageAlways, PTL DEF PageSpec

\* A call that was heard is not made a failed page by a message that fails.
THEOREM CallIsNotUndoneCorrect == Spec => []CallIsNotUndone
<1>1. PageInv => CallIsNotUndone
  BY DEF PageInv, CallIsNotUndone, P!CallIsNotUndone
<1>2. QED
  BY <1>1, PageRefinement, PageAlways, PTL DEF PageSpec

\* sendVoice leaves no rendered message behind on any of its paths, unless the
\* file system refused to close or remove it.
THEOREM TempRemovedCorrect == Spec => []TempRemoved
<1>1. P!Init => P!TempRemoved
  BY DEF P!Init, P!TempRemoved
<1>2. P!TempRemoved /\ [P!Next]_(P!vars) => P!TempRemoved'
  BY DEF P!TempRemoved, P!Next, P!vars, P!Speak, P!CallFails, P!CallSucceeds, P!Voice,
         P!Create, P!RenderFails, P!Render, P!Duration, P!SendVoice, P!Remove,
         P!VoiceDone, P!TextSent, P!TextNotSent, P!Verdict, P!Returned
<1>3. QED
  BY <1>1, <1>2, PageRefinement, PTL DEF P!Spec, PageSpec, TempRemoved

-----------------------------------------------------------------------------

\* What Telegram is owed is what the last error asked for, and the pause covers
\* it; the loop does not go on to a pause once an attempt has begun late.
LoopInv == /\ owed \in Nat /\ timer \in Nat /\ flood \in Nat
           /\ loop = "attempt" => owed = 0
           /\ loop = "judge" => owed = flood
           /\ loop = "pause" => owed <= timer
           /\ late \in {0, 1}
           /\ late = 1 => ctx = "done" /\ loop # "pause"

\* Between two operations the loop is over.
Idle == page # "call" /\ send = "idle" => loop = "returned" /\ late = 0

LEMMA LoopAlways == Spec => [](LoopInv /\ Idle)
<1> USE RetryDelayAssumption, FloodsAssumption, VoiceDelayAssumption
<1>1. Init => LoopInv /\ Idle
  BY DEF Init, LoopInv, Idle
<1>2. LoopInv /\ Idle /\ MessageInv /\ [Next]_vars => LoopInv' /\ Idle'
  <2> SUFFICES ASSUME LoopInv, Idle, MessageInv, [Next]_vars PROVE LoopInv' /\ Idle'
    OBVIOUS
  <2>1. ASSUME NEW e, NEW f \in Floods \cup {0}, C!R!AttemptEnds(e, f) PROVE LoopInv'
    BY <2>1 DEF LoopInv, C!R!AttemptEnds, C!R!Longer
  <2>2. ASSUME NEW e, NEW f \in Floods \cup {0}, M!R!AttemptEnds(e, f) PROVE LoopInv'
    BY <2>2 DEF LoopInv, M!R!AttemptEnds, M!R!Longer
  <2>3. CASE Ring
    <3>1. page = "call" /\ page' = "call"
      BY <2>3 DEF Ring, pageVars
    <3>2. CASE C!Loop
      BY <3>1, <3>2 DEF C!Loop, C!R!Loop, C!R!Return, C!R!Pause, C!R!RetryWait, C!R!Longer,
                        C!R!Tick, C!R!NextAttempt, C!R!PauseCut, LoopInv, Idle
    <3>3. CASE C!RequestFails \/ C!Hangup
      BY <2>1, <3>1, <3>3 DEF C!RequestFails, C!Hangup, Idle
    <3>4. CASE UNCHANGED C!retry
      BY <3>1, <3>4 DEF C!retry, LoopInv, Idle
    <3>5. QED
      BY <2>3, <3>2, <3>3, <3>4
         DEF Ring, C!RingOnce, C!Request, C!Answered, C!WatchConnect, C!WatchDisconnect,
             C!Connected, C!NotConnected, C!ConnectTimeout, C!StreamEnds
  <2>4. CASE Send
    <3>1. page # "call" /\ send' # "idle"
      BY <2>4, SendKeepsScore DEF Send
    <3>2. CASE M!Loop
      BY <3>1, <3>2 DEF M!Loop, M!R!Loop, M!R!Return, M!R!Pause, M!R!RetryWait, M!R!Longer,
                        M!R!Tick, M!R!NextAttempt, M!R!PauseCut, LoopInv, Idle
    <3>3. CASE M!UploadFails \/ M!Answered \/ M!Refused \/ M!AnswerLost
      BY <2>2, <3>1, <3>3 DEF M!UploadFails, M!Answered, M!Refused, M!AnswerLost,
                              M!FailsTransiently, Idle
    <3>4. CASE M!CheckFails
      BY <3>1, <3>4 DEF M!CheckFails, LoopInv, Idle
    <3>5. CASE UNCHANGED M!retry
      BY <3>1, <3>5 DEF M!retry, LoopInv, Idle
    <3>6. QED
      BY <2>4, <3>2, <3>3, <3>4, <3>5
         DEF Send, M!Send, M!CheckPasses, M!Begin, M!Upload
  <2>5. CASE Speak
    BY <2>5 DEF Speak, P!Speak, LoopBegins, LoopInv, Idle, message
  <2>6. CASE Duration
    <3>1. page' # "call" /\ page # "call" /\ send = "idle"
      BY <2>6 DEF Duration, P!Duration, MessageInv, SendInv
    <3>2. CASE page' = "send"
      BY <2>6, <3>2 DEF Duration, LoopBegins, MessageBegins, LoopInv, Idle
    <3>3. CASE page' # "send"
      BY <2>6, <3>1, <3>3 DEF Duration, message, LoopInv, Idle
    <3>4. QED
      BY <3>2, <3>3
  <2>7. CASE TextBegins
    BY <2>7 DEF TextBegins, LoopBegins, MessageBegins, LoopInv, Idle
  <2>8. CASE CallEnds \/ VoiceSent \/ TextEnds
    <3>1. LoopOver
      BY <2>8 DEF CallEnds, VoiceSent, TextEnds
    <3>2. QED
      BY <3>1 DEF LoopOver, LoopInv, Idle
  <2>9. CASE Voice \/ Prepare \/ Remove \/ VoiceDone \/ TextSkipped \/ Verdict
    <3>1. /\ page # "call" /\ page' # "call" /\ send = "idle" /\ send' = "idle"
          /\ UNCHANGED <<loop, n, timer, err, flood, owed, late>>
      BY <2>9 DEF Voice, P!Voice, Prepare, P!Create, P!RenderFails, P!Render, Remove,
                  P!Remove, VoiceDone, P!VoiceDone, TextSkipped, Verdict, P!Verdict,
                  MessageInv, SendInv, message, retry
    <3>2. QED
      BY <3>1 DEF LoopInv, Idle
  <2>10. CASE Events \/ TimesOut \/ Shutdown \/ UNCHANGED vars
    BY <2>10 DEF Events, C!CallConnects, C!CallDrops, C!retry, TimesOut, C!Cancel,
                 C!R!Cancel, Shutdown, pageVars, retry, message, vars, LoopInv, Idle
  <2>11. QED
    BY <2>3, <2>4, <2>5, <2>6, <2>7, <2>8, <2>9, <2>10 DEF Next, Program, Returned
<1>3. QED
  BY <1>1, <1>2, MessageAlways, PTL DEF Spec

\* No attempt of a call or a message is made before the FLOOD_WAITs it met are
\* over, for any call.retry_delay, voice.retry_delay and FLOOD_WAITs.
THEOREM FloodHonoredCorrect == Spec => []FloodHonored
<1>1. LoopInv => FloodHonored
  BY DEF LoopInv, FloodHonored, C!R!FloodHonored
<1>2. QED
  BY <1>1, LoopAlways, PTL

\* A shutdown or voice.timeout costs each operation one attempt more at most.
THEOREM CancelCostsOneCorrect == Spec => []CancelCostsOne
<1>1. LoopInv => CancelCostsOne
  BY DEF LoopInv, CancelCostsOne, C!R!CancelCostsOne
<1>2. QED
  BY <1>1, LoopAlways, PTL

-----------------------------------------------------------------------------
(* Types.                                                                  *)

\* The page's own variables are typed by module Page; mode "only" does not call,
\* mode "off" sends nothing.
PageTyped == /\ P!TypeOK
             /\ mode = "only" => page # "call"
             /\ mode = "off" => page \in {"speak", "call", "voice?", "returned"}

LEMMA PageTypes == P!Spec => []PageTyped
<1> USE DEF PageTyped, P!TypeOK, P!VoiceModes, P!TextModes, P!Logs, P!config
<1>1. P!Init => PageTyped
  BY DEF P!Init
<1>2. PageTyped /\ [P!Next]_(P!vars) => PageTyped'
  <2> SUFFICES ASSUME PageTyped, [P!Next]_(P!vars) PROVE PageTyped'
    OBVIOUS
  <2>1. CASE P!Speak \/ P!CallFails \/ P!CallSucceeds
    BY <2>1 DEF P!Speak, P!Calls, P!CallFails, P!CallSucceeds
  <2>2. CASE P!Voice \/ P!Create
    BY <2>2 DEF P!Voice, P!VoiceSends, P!Create
  <2>3. CASE P!RenderFails \/ P!Render \/ P!Duration
    BY <2>3 DEF P!RenderFails, P!Render, P!Duration
  <2>4. CASE P!SendVoice
    BY <2>4 DEF P!SendVoice
  <2>5. CASE P!Remove \/ P!VoiceDone
    BY <2>5 DEF P!Remove, P!VoiceDone
  <2>6. CASE P!TextSent \/ P!TextNotSent \/ P!Verdict
    BY <2>6 DEF P!TextSent, P!TextNotSent, P!Verdict
  <2>7. CASE UNCHANGED P!vars
    BY <2>7 DEF P!vars
  <2>8. QED
    BY <2>1, <2>2, <2>3, <2>4, <2>5, <2>6, <2>7 DEF P!Next, P!Returned
<1>3. QED
  BY <1>1, <1>2, PTL DEF P!Spec

LoopTypes == /\ top \in {"live", "done"} /\ ctx \in {"live", "done"}
             /\ top = "done" => ctx = "done"
             /\ loop \in {"pause", "attempt", "judge", "returned"}
             /\ timer \in Nat
             /\ err \in {"nil", "transient", "permanent"}
             /\ flood \in Floods \cup {0}
             /\ owed \in Nat
             /\ late \in Nat

\* Each operation counts its own attempts.
Numbered == /\ page = "call" => n \in 1..Attempts
            /\ send # "idle" => n \in 1..VoiceAttempts

CallTypes == /\ ring \in {"none", "request", "connected?", "disconnected?", "wait",
                          "stream", "hangup"}
             /\ call \in {"none", "ringing", "accepted", "connected", "dropped"}
             /\ linked \in BOOLEAN
             /\ watched \subseteq {"connect", "disconnect"}
             /\ res \in {"empty", "nil", "error"}
             /\ verdict \in {"nil", "transient", "permanent"}
             /\ orphaned \in BOOLEAN
             /\ streamed \in BOOLEAN

MessageTypes == /\ kind \in M!Kinds
                /\ send \in {"idle", "check", "none", "upload", "send"}

Types == LoopTypes /\ Numbered /\ CallTypes /\ MessageTypes

LEMMA CallTypesStep == CallTypes /\ [Next]_vars => CallTypes'
<1> SUFFICES ASSUME CallTypes, [Next]_vars PROVE CallTypes'
  OBVIOUS
<1> USE DEF CallTypes, ringVars
<1>1. CASE Ring
  <2>1. CASE C!Request \/ C!Answered
    BY <2>1 DEF C!Request, C!Answered
  <2>2. CASE C!WatchConnect \/ C!WatchDisconnect
    BY <2>2 DEF C!WatchConnect, C!WatchDisconnect, C!TrySend
  <2>3. CASE C!Connected \/ C!NotConnected \/ C!ConnectTimeout \/ C!StreamEnds
    BY <2>3 DEF C!Connected, C!NotConnected, C!ConnectTimeout, C!StreamEnds
  <2>4. CASE C!RequestFails \/ C!Hangup
    BY <2>4 DEF C!RequestFails, C!Hangup
  <2>5. CASE C!Loop
    BY <2>5 DEF C!Loop, C!attempt
  <2>6. QED
    BY <1>1, <2>1, <2>2, <2>3, <2>4, <2>5 DEF Ring, C!RingOnce
<1>2. CASE CallEnds
  BY <1>2 DEF CallEnds, CallOver
<1>3. CASE Events
  BY <1>3 DEF Events, C!CallConnects, C!CallDrops, C!TrySend
<1>4. CASE UNCHANGED ringVars
  BY <1>4
<1>5. QED
  BY <1>1, <1>2, <1>3, <1>4
     DEF Next, Program, Speak, Voice, Prepare, Duration, Send, VoiceSent, Remove,
         VoiceDone, TextSkipped, TextBegins, TextEnds, Verdict, TimesOut, C!Cancel,
         C!attempt, Shutdown, Returned, vars

LEMMA MessageTypesStep == MessageTypes /\ [Next]_vars => MessageTypes'
<1> SUFFICES ASSUME MessageTypes, [Next]_vars PROVE MessageTypes'
  OBVIOUS
<1> USE DEF MessageTypes, M!Kinds
<1>1. CASE Send
  <2>1. CASE M!CheckFails \/ M!CheckPasses \/ M!Begin \/ M!Upload
    BY <2>1 DEF M!CheckFails, M!CheckPasses, M!Begin, M!Upload
  <2>2. CASE M!UploadFails \/ M!Answered \/ M!Refused \/ M!AnswerLost
    BY <2>2 DEF M!UploadFails, M!Answered, M!Refused, M!AnswerLost
  <2>3. CASE M!Loop
    BY <2>3 DEF M!Loop, M!message
  <2>4. QED
    BY <1>1, <2>1, <2>2, <2>3 DEF Send, M!Send
<1>2. CASE Duration \/ TextBegins
  BY <1>2 DEF Duration, TextBegins, MessageBegins, message
<1>3. CASE VoiceSent \/ TextEnds
  BY <1>3 DEF VoiceSent, TextEnds, MessageOver
<1>4. CASE UNCHANGED message
  BY <1>4 DEF message
<1>5. QED
  BY <1>1, <1>2, <1>3, <1>4
     DEF Next, Program, Speak, Ring, CallEnds, Voice, Prepare, Remove, VoiceDone,
         TextSkipped, Verdict, Events, TimesOut, Shutdown, Returned, vars

\* The loop's variables, and the number of the attempt for the operation whose
\* loop it is.
LEMMA LoopTypesStep ==
  ASSUME LoopTypes, Numbered, CallTypes, CallInv, MessageInv, [Next]_vars
  PROVE  LoopTypes' /\ Numbered'
<1> USE RetryDelayAssumption, VoiceDelayAssumption, FloodsAssumption,
        AttemptsAssumption, VoiceAttemptsAssumption
<1> USE DEF LoopTypes, Numbered
<1>0. page = "call" => send = "idle"
  BY DEF MessageInv, SendInv
<1>1. CASE Ring
  <2>1. page = "call" /\ page' = "call" /\ send = "idle" /\ send' = "idle" /\ top' = top
    BY <1>0, <1>1 DEF Ring, pageVars, message
  <2>2. ASSUME NEW e \in {"nil", "transient", "permanent"}, NEW f \in Floods \cup {0},
               C!R!AttemptEnds(e, f)
        PROVE  LoopTypes' /\ Numbered'
    BY <2>1, <2>2 DEF C!R!AttemptEnds, C!R!Longer
  <2>3. CASE C!RequestFails
    BY <2>2, <2>3 DEF C!RequestFails
  <2>4. CASE C!Hangup
    BY <2>2, <2>4 DEF C!Hangup, CallTypes
  <2>5. CASE C!Loop
    <3>1. CASE C!R!Pause
      BY <2>1, <3>1 DEF C!R!Pause, C!R!RetryWait, C!R!Longer
    <3>2. CASE C!R!Tick
      BY <2>1, <3>2 DEF C!R!Tick
    <3>3. CASE C!R!Return \/ C!R!NextAttempt \/ C!R!PauseCut
      BY <2>1, <3>3 DEF C!R!Return, C!R!NextAttempt, C!R!PauseCut
    <3>4. QED
      BY <2>5, <3>1, <3>2, <3>3 DEF C!Loop, C!R!Loop
  <2>6. CASE UNCHANGED C!retry
    BY <2>1, <2>6 DEF C!retry
  <2>7. QED
    BY <1>1, <2>3, <2>4, <2>5, <2>6
       DEF Ring, C!RingOnce, C!Request, C!Answered, C!WatchConnect, C!WatchDisconnect,
           C!Connected, C!NotConnected, C!ConnectTimeout, C!StreamEnds
<1>2. CASE Send
  <2>1. page # "call" /\ page' # "call" /\ send # "idle" /\ top' = top
    BY <1>2 DEF Send, pageVars
  <2>2. ASSUME NEW e \in {"nil", "transient", "permanent"}, NEW f \in Floods \cup {0},
               M!R!AttemptEnds(e, f)
        PROVE  LoopTypes' /\ Numbered'
    BY <2>1, <2>2 DEF M!R!AttemptEnds, M!R!Longer
  <2>3. CASE M!UploadFails \/ M!Answered \/ M!Refused \/ M!AnswerLost
    BY <2>2, <2>3 DEF M!UploadFails, M!Answered, M!Refused, M!AnswerLost,
                      M!FailsTransiently
  <2>4. CASE M!CheckFails
    BY <2>1, <2>4 DEF M!CheckFails
  <2>5. CASE M!Loop
    <3>1. CASE M!R!Pause
      BY <2>1, <3>1 DEF M!R!Pause, M!R!RetryWait, M!R!Longer
    <3>2. CASE M!R!Tick
      BY <2>1, <3>2 DEF M!R!Tick
    <3>3. CASE M!R!Return \/ M!R!NextAttempt \/ M!R!PauseCut
      BY <2>1, <3>3 DEF M!R!Return, M!R!NextAttempt, M!R!PauseCut
    <3>4. QED
      BY <2>5, <3>1, <3>2, <3>3 DEF M!Loop, M!R!Loop
  <2>6. CASE UNCHANGED M!retry
    BY <2>1, <2>6 DEF M!retry
  <2>7. QED
    BY <1>2, <2>3, <2>4, <2>5, <2>6 DEF Send, M!Send, M!CheckPasses, M!Begin, M!Upload
<1>3. CASE Speak \/ Duration \/ TextBegins
  <2>1. /\ UNCHANGED <<top, ctx>>
        /\ LoopBegins \/ UNCHANGED <<loop, n, timer, err, flood, owed, late>>
    BY <1>3 DEF Speak, Duration, TextBegins
  <2>2. LoopTypes'
    BY <2>1 DEF LoopBegins
  <2>3. CASE LoopBegins
    BY <2>2, <2>3 DEF LoopBegins
  <2>4. CASE ~LoopBegins
    <3>1. page' # "call" /\ send' = send /\ n' = n
      BY <1>3, <2>4 DEF Speak, Duration, P!Duration, TextBegins, message
    <3>2. QED
      BY <2>2, <3>1
  <2>5. QED
    BY <2>3, <2>4
<1>4. CASE CallEnds \/ VoiceSent \/ TextEnds
  <2>1. LoopOver /\ top' = top /\ n' = 1
    BY <1>4 DEF CallEnds, VoiceSent, TextEnds, LoopOver
  <2>2. QED
    BY <2>1 DEF LoopOver
<1>5. CASE Voice \/ Prepare \/ Remove \/ VoiceDone \/ TextSkipped \/ Verdict
  <2>1. /\ page' # "call" /\ send' = send
        /\ UNCHANGED <<top, loop, n, timer, err, flood, owed, late>>
        /\ ctx' \in {ctx, top}
    BY <1>5 DEF Voice, P!Voice, Prepare, P!Create, P!RenderFails, P!Render, Remove,
                P!Remove, VoiceDone, P!VoiceDone, TextSkipped, Verdict, P!Verdict,
                message, retry, WithTimeout
  <2>2. QED
    BY <2>1
<1>6. CASE Events \/ TimesOut \/ Shutdown \/ UNCHANGED vars
  BY <1>6 DEF Events, C!CallConnects, C!CallDrops, C!retry, TimesOut, C!Cancel,
              C!R!Cancel, Shutdown, pageVars, retry, message, vars
<1>7. QED
  BY <1>1, <1>2, <1>3, <1>4, <1>5, <1>6 DEF Next, Program, Returned

LEMMA TypesAlways == Spec => []Types
<1>1. Init => Types
  <2> SUFFICES ASSUME Init PROVE Types
    OBVIOUS
  <2>1. LoopTypes /\ Numbered
    BY AttemptsAssumption DEF Init, P!Init, LoopTypes, Numbered
  <2>2. CallTypes
    BY DEF Init, CallTypes
  <2>3. MessageTypes
    BY DEF Init, MessageTypes, M!Kinds
  <2>4. QED
    BY <2>1, <2>2, <2>3 DEF Types
<1>2. Types /\ CallInv /\ MessageInv /\ [Next]_vars => Types'
  BY CallTypesStep, MessageTypesStep, LoopTypesStep DEF Types
<1>3. QED
  BY <1>1, <1>2, CallAlways, MessageAlways, PTL DEF Spec

\* The states of Paging are well typed: no operation makes more attempts than it
\* may, although they share the counter, and each runs only in its place.
THEOREM TypeCorrect == Spec => []TypeOK
<1>1. Types /\ CallInv /\ MessageInv /\ PageTyped => TypeOK
  <2> SUFFICES ASSUME Types, CallInv, MessageInv, PageTyped PROVE TypeOK
    OBVIOUS
  <2> USE DEF Types, LoopTypes, Numbered
  <2>1. page = "call" => C!TypeOK
    BY DEF CallTypes, CallInv, C!TypeOK, C!R!TypeOK, C!R!Outcomes
  <2>2. send # "idle" => M!TypeOK
    <3>1. uploads \in Nat /\ file \in BOOLEAN
      BY DEF MessageInv, SendInv
    <3>2. QED
      BY <3>1 DEF MessageTypes, MessageInv, CopiesType, M!TypeOK, M!R!TypeOK, M!R!Outcomes
  <2>3. (ring # "none" => page = "call") /\ (send # "idle" => page \in {"send", "text"})
    BY DEF CallInv, MessageInv, SendInv
  <2>4. QED
    BY <2>1, <2>2, <2>3 DEF TypeOK, PageTyped
<1>2. Spec => []PageTyped
  BY PageRefinement, PageTypes, PTL DEF PageSpec
<1>3. QED
  BY <1>1, <1>2, TypesAlways, CallAlways, MessageAlways, PTL
=============================================================================
