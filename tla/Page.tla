-------------------------------- MODULE Page --------------------------------
(***************************************************************************)
(* One page, from the moment the pager loop takes it: cmd/tgpager's        *)
(* processPage and the helpers it calls, for every voice.mode and          *)
(* voice.text.  The call and the messages are single steps here, with any  *)
(* outcome their retry loops can have; module Paging opens them.           *)
(***************************************************************************)
EXTENDS Naturals

VARIABLES mode,     \* voice.mode
          text,     \* voice.text
          step,     \* where processPage is
          callErr,  \* the call's error: "nil" or "failed"
          voiceErr, \* the voice message's: "nil" or "failed", privacy settings
                    \* that refuse it included (their warning is worded apart)
          temp,     \* the temporary file: "none", "reserved" or "rendered"
          spilled,  \* history: the file system refused to close or remove it
          reached,  \* history: the channels that reached the callee
          log       \* what has been logged about the outcome

config == <<mode, text>>
vars == <<config, step, callErr, voiceErr, temp, spilled, reached, log>>

VoiceModes == {"off", "fallback", "always", "only"}
TextModes == {"off", "fallback", "always"}

\* "failed page" is the log line at level error that says the page failed;
\* "warn" and "info" are other lines about an outcome that is bad or good.
Logs == {"failed page", "warn", "info"}

TypeOK == /\ mode \in VoiceModes
          /\ text \in TextModes
          /\ step \in {"speak", "call", "voice?", "create", "render", "duration",
                       "send", "remove", "voice done", "text", "verdict", "returned"}
          /\ callErr \in {"nil", "failed"}
          /\ voiceErr \in {"nil", "failed"}
          /\ temp \in {"none", "reserved", "rendered"}
          /\ spilled \in BOOLEAN
          /\ reached \subseteq {"call", "voice", "text"}
          /\ log \subseteq Logs
          /\ mode = "only" => callErr = "nil" /\ "call" \notin reached
          /\ mode = "off" => voiceErr = "nil" /\ reached \subseteq {"call"}

Init == /\ mode \in VoiceModes
        /\ text \in TextModes
        /\ step = "speak"
        /\ callErr = "nil"
        /\ voiceErr = "nil"
        /\ temp = "none"
        /\ spilled = FALSE
        /\ reached = {}
        /\ log = {}

-----------------------------------------------------------------------------
(* What the modes ask for.                                                 *)

Calls == mode # "only"
VoiceSends(callFailed) == mode \in {"always", "only"} \/ (mode = "fallback" /\ callFailed)
TextSends(voiceFailed) == text = "always" \/ (text = "fallback" /\ voiceFailed)

-----------------------------------------------------------------------------

\* A faulty variant: the call does not depend on the mode.
SpeakAndCall ==
  /\ step = "speak"
  /\ step' = "call"
  /\ UNCHANGED <<config, callErr, voiceErr, temp, spilled, reached, log>>

\* Speak never fails: the tone stands in for speech.
Speak ==
  /\ step = "speak"
  /\ step' = IF Calls THEN "call" ELSE "voice?"
  /\ UNCHANGED <<config, callErr, voiceErr, temp, spilled, reached, log>>

CallFails ==
  /\ step = "call"
  /\ callErr' = "failed"
  /\ log' = log \cup {"failed page"}
  /\ step' = "voice?"
  /\ UNCHANGED <<config, voiceErr, temp, spilled, reached>>

CallSucceeds ==
  /\ step = "call"
  /\ reached' = reached \cup {"call"}
  /\ log' = log \cup {"info"}
  /\ step' = "voice?"
  /\ UNCHANGED <<config, callErr, voiceErr, temp, spilled>>

\* The page ends here unless the mode sends a voice message.
Voice ==
  /\ step = "voice?"
  /\ step' = IF VoiceSends(callErr # "nil") THEN "create" ELSE "returned"
  /\ UNCHANGED <<config, callErr, voiceErr, temp, spilled, reached, log>>

-----------------------------------------------------------------------------
(* sendVoice, under voice.timeout: any step can fail, by itself or because  *)
(* the context is over.                                                    *)

\* The name is reserved and the handle closed.  A handle that cannot be
\* closed returns before the removal is deferred.
Create ==
  /\ step = "create"
  /\ \/ step' = "render" /\ temp' = "reserved" /\ UNCHANGED <<voiceErr, spilled>>
     \/ step' = "voice done" /\ voiceErr' = "failed" /\ UNCHANGED <<temp, spilled>>
     \/ /\ step' = "voice done" /\ voiceErr' = "failed"
        /\ temp' = "reserved" /\ spilled' = TRUE
  /\ UNCHANGED <<config, callErr, reached, log>>

\* A faulty variant: a failed render returns past the removal.
RenderFailsAndLeaves ==
  /\ step = "render"
  /\ voiceErr' = "failed"
  /\ step' = "voice done"
  /\ UNCHANGED <<config, callErr, temp, spilled, reached, log>>

RenderFails ==
  /\ step = "render"
  /\ voiceErr' = "failed"
  /\ step' = "remove"
  /\ UNCHANGED <<config, callErr, temp, spilled, reached, log>>

Render ==
  /\ step = "render"
  /\ temp' = "rendered"
  /\ step' = "duration"
  /\ UNCHANGED <<config, callErr, voiceErr, spilled, reached, log>>

Duration ==
  /\ step = "duration"
  /\ \/ step' = "send" /\ UNCHANGED voiceErr
     \/ step' = "remove" /\ voiceErr' = "failed"
  /\ UNCHANGED <<config, callErr, temp, spilled, reached, log>>

\* SendVoice: delivered; failed or refused; or delivered while the answer was
\* lost or came after the timeout.
SendVoice ==
  /\ step = "send"
  /\ \/ reached' = reached \cup {"voice"} /\ voiceErr' \in {"nil", "failed"}
     \/ UNCHANGED reached /\ voiceErr' = "failed"
  /\ step' = "remove"
  /\ UNCHANGED <<config, callErr, temp, spilled, log>>

\* A faulty variant: the error of the removal becomes that of sendVoice.
RemoveFails ==
  /\ step = "remove"
  /\ \/ temp' = "none" /\ UNCHANGED <<spilled, voiceErr>>
     \/ spilled' = TRUE /\ voiceErr' = "failed" /\ UNCHANGED temp
  /\ step' = "voice done"
  /\ UNCHANGED <<config, callErr, reached, log>>

\* The deferred removal; its error is only logged.
Remove ==
  /\ step = "remove"
  /\ \/ temp' = "none" /\ UNCHANGED spilled
     \/ spilled' = TRUE /\ UNCHANGED temp
  /\ step' = "voice done"
  /\ UNCHANGED <<config, callErr, voiceErr, reached, log>>

VoiceDone ==
  /\ step = "voice done"
  /\ log' = log \cup {IF voiceErr = "nil" THEN "info" ELSE "warn"}
  /\ step' = "text"
  /\ UNCHANGED <<config, callErr, voiceErr, temp, spilled, reached>>

-----------------------------------------------------------------------------

\* sendText reports that it sent the text...
TextSent ==
  /\ step = "text"
  /\ TextSends(voiceErr # "nil")
  /\ reached' = reached \cup {"text"}
  /\ log' = log \cup {"info"}
  /\ step' = "returned"
  /\ UNCHANGED <<config, callErr, voiceErr, temp, spilled>>

\* ...or that it did not: it should not, the template fails, or SendText does,
\* perhaps after the text arrived.
TextNotSent ==
  /\ step = "text"
  /\ \/ ~TextSends(voiceErr # "nil") /\ UNCHANGED <<reached, log>>
     \/ /\ TextSends(voiceErr # "nil")
        /\ log' = log \cup {"warn"}
        /\ reached' \in {reached, reached \cup {"text"}}
  /\ step' = "verdict"
  /\ UNCHANGED <<config, callErr, voiceErr, temp, spilled>>

\* A faulty variant: any voice message that fails is a failed page.
VerdictAnyMode ==
  /\ step = "verdict"
  /\ log' = IF voiceErr # "nil" THEN log \cup {"failed page"} ELSE log
  /\ step' = "returned"
  /\ UNCHANGED <<config, callErr, voiceErr, temp, spilled, reached>>

\* Without a text, a voice message that failed in mode "only" is the page
\* failing.
Verdict ==
  /\ step = "verdict"
  /\ log' = IF mode = "only" /\ voiceErr # "nil" THEN log \cup {"failed page"} ELSE log
  /\ step' = "returned"
  /\ UNCHANGED <<config, callErr, voiceErr, temp, spilled, reached>>

Returned == step = "returned" /\ UNCHANGED vars

Next == \/ Speak \/ CallFails \/ CallSucceeds \/ Voice
        \/ Create \/ RenderFails \/ Render \/ Duration \/ SendVoice \/ Remove \/ VoiceDone
        \/ TextSent \/ TextNotSent \/ Verdict
        \/ Returned

Spec == Init /\ [][Next]_vars

-----------------------------------------------------------------------------

\* A page that reached the callee by no channel at all is never a silent one:
\* it is logged at error as a failed page, in every mode.
FailureIsLoud == step = "returned" /\ reached = {} => "failed page" \in log

\* docs/voice.md: "a send that fails does not turn a successful call into a
\* failed page".
CallIsNotUndone == "call" \in reached => "failed page" \notin log

\* The rendered message is gone once sendVoice returns, whichever of its steps
\* failed, unless the file system refused to close or remove it.
TempRemoved ==
  step \notin {"render", "duration", "send", "remove"} /\ ~spilled => temp = "none"
=============================================================================
