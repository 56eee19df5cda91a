------------------------------ MODULE Message ------------------------------
(***************************************************************************)
(* SendVoice and SendText: the checks, then the retry loop of module Retry *)
(* with an upload and a send, or a send alone, as its attempt.             *)
(*                                                                         *)
(* Telegram is modelled by what an attempt can see of it: a send is        *)
(* answered, or refused, or arrives while its answer does not; the last is *)
(* an error like any other to the loop.  The upload's promise keeps the    *)
(* uploaded file once it has one.                                          *)
(***************************************************************************)
EXTENDS RetryParams

VARIABLES ctx, loop, n, timer, err, flood, owed, late,  \* as in Retry
          kind,     \* "voice" or "text"
          step,     \* "idle" before and after, "check" before the loop, "none"
                    \* in the loop outside of an attempt, "upload" or "send"
          file,     \* whether the promise holds the uploaded file
          uploads,  \* history: how often the file was uploaded
          copies,   \* history: how often a message of each kind arrived
          lost      \* history: the copies whose answer did not come back

retry == <<ctx, loop, n, timer, err, flood, owed, late>>
message == <<kind, step, file, uploads, copies, lost>>
vars == <<retry, message>>

Kinds == {"voice", "text"}

R == INSTANCE Retry

TypeOK == /\ R!TypeOK
          /\ kind \in Kinds
          /\ step \in {"idle", "check", "none", "upload", "send"}
          /\ file \in BOOLEAN
          /\ uploads \in Nat
          /\ copies \in [Kinds -> Nat]
          /\ lost \in [Kinds -> Nat]

Init == /\ R!Init
        /\ kind \in Kinds
        /\ step = "check"
        /\ file = FALSE
        /\ uploads = 0
        /\ copies = [k \in Kinds |-> 0]
        /\ lost = [k \in Kinds |-> 0]

-----------------------------------------------------------------------------

\* An empty text, a file that is gone or too large to be a voice message: the
\* loop is not entered.
CheckFails ==
  /\ step = "check"
  /\ step' = "none"
  /\ loop' = "returned"
  /\ err' = "permanent"
  /\ UNCHANGED <<ctx, n, timer, flood, owed, late, kind, file, uploads, copies, lost>>

CheckPasses ==
  /\ step = "check"
  /\ step' = "none"
  /\ UNCHANGED <<retry, kind, file, uploads, copies, lost>>

\* A faulty variant: the promise is built anew for every attempt.
BeginAnew ==
  /\ loop = "attempt"
  /\ step = "none"
  /\ step' = IF kind = "voice" THEN "upload" ELSE "send"
  /\ UNCHANGED <<retry, kind, file, uploads, copies, lost>>

\* The promise is asked for the file: it uploads unless it has it.
Begin ==
  /\ loop = "attempt"
  /\ step = "none"
  /\ step' = IF kind = "voice" /\ ~file THEN "upload" ELSE "send"
  /\ UNCHANGED <<retry, kind, file, uploads, copies, lost>>

Upload ==
  /\ step = "upload"
  /\ step' = "send"
  /\ file' = TRUE
  /\ uploads' = uploads + 1
  /\ UNCHANGED <<retry, kind, copies, lost>>

\* An attempt that fails for a reason a further one might not meet.
FailsTransiently == \/ R!AttemptEnds("transient", 0)
                    \/ \E f \in Floods : R!AttemptEnds("transient", f)

UploadFails ==
  /\ step = "upload"
  /\ FailsTransiently
  /\ step' = "none"
  /\ UNCHANGED <<kind, file, uploads, copies, lost>>

Arrives == copies' = [copies EXCEPT ![kind] = @ + 1]

\* A faulty variant: an answer without the sent message in it is an error.
AnsweredOddly ==
  /\ step = "send"
  /\ \E e \in {"nil", "transient"} : R!AttemptEnds(e, 0)
  /\ Arrives
  /\ step' = "none"
  /\ UNCHANGED <<kind, file, uploads, lost>>

Answered ==
  /\ step = "send"
  /\ R!AttemptEnds("nil", 0)
  /\ Arrives
  /\ step' = "none"
  /\ UNCHANGED <<kind, file, uploads, lost>>

\* Refused for good (by the callee's privacy settings, by a block) or for now,
\* or never sent.
Refused ==
  /\ step = "send"
  /\ R!AttemptEnds("permanent", 0) \/ FailsTransiently
  /\ step' = "none"
  /\ UNCHANGED <<kind, file, uploads, copies, lost>>

AnswerLost ==
  /\ step = "send"
  /\ R!AttemptEnds("transient", 0)
  /\ Arrives
  /\ lost' = [lost EXCEPT ![kind] = @ + 1]
  /\ step' = "none"
  /\ UNCHANGED <<kind, file, uploads>>

Send == CheckFails \/ CheckPasses \/ Begin \/ Upload \/ UploadFails
          \/ Answered \/ Refused \/ AnswerLost

Loop == step = "none" /\ R!Loop /\ UNCHANGED message

Cancel == R!Cancel /\ UNCHANGED message

Returned == step = "none" /\ loop = "returned" /\ UNCHANGED vars

Next == Send \/ Loop \/ Cancel \/ Returned

Spec == Init /\ [][Next]_vars

-----------------------------------------------------------------------------

\* The callee gets a message more than once only for answers that were lost:
\* every other send that arrives ends the loop.
AnsweredOnce == \A k \in Kinds : copies[k] <= lost[k] + 1

\* voice_test.go: "a retried send must not re-upload the file".
UploadedOnce == uploads <= 1
=============================================================================
