------------------------------ MODULE Provider ------------------------------
(***************************************************************************)
(* One Synthesize of a speech provider: a local command that is run to its *)
(* end, or a request to an OpenAI-compatible endpoint.                     *)
(*                                                                         *)
(* A command may start processes of its own, as the pipeline of a shell    *)
(* script does.  They inherit its output, and exec.Cmd waits not only for  *)
(* the command but for every process that holds that; the deadline kills   *)
(* the command alone.                                                      *)
(***************************************************************************)
EXTENDS Naturals

CONSTANTS MaxAudio,  \* maxAudioBytes, in chunks: what is read of a response
          MaxSize    \* the longest audio a provider has for a sentence

ASSUME MaxAudioAssumption == MaxAudio \in Nat \ {0}
ASSUME MaxSizeAssumption == MaxSize \in Nat

VARIABLES
  kind,     \* "command" or "openai"
  size,     \* the length of the audio the provider has for the sentence
  ctx,      \* "live" or "done": the deadline, or the caller gave up
  step,     \* where Synthesize is
  child,    \* the command: "none", "running", "ok", "failed" or "killed"
  heirs,    \* whether processes it started still hold its output
  made,     \* how much audio the provider has put out
  got,      \* how much of it Synthesize has read
  dir,      \* whether the temporary directory is there
  refused,  \* history: the file system refused to remove it
  res       \* what Synthesize returns: "none", "audio" or "error"

process == <<child, heirs>>
files == <<dir, refused>>
vars == <<kind, size, ctx, step, process, made, got, files, res>>

TypeOK == /\ kind \in {"command", "openai"}
          /\ size \in 0..MaxSize
          /\ ctx \in {"live", "done"}
          /\ step \in {"begin", "start", "run", "output", "asked", "body",
                       "remove", "returned"}
          /\ child \in {"none", "running", "ok", "failed", "killed"}
          /\ heirs \in BOOLEAN
          /\ made \in 0..size
          /\ got \in 0..made
          /\ dir \in BOOLEAN
          /\ refused \in BOOLEAN
          /\ res \in {"none", "audio", "error"}
          /\ kind = "openai" => child = "none" /\ ~dir /\ got <= MaxAudio
          /\ res # "none" <=> step \in {"remove", "returned"}

Init == /\ kind \in {"command", "openai"}
        /\ size \in 0..MaxSize
        /\ ctx \in {"live", "done"}
        /\ step = "begin"
        /\ child = "none"
        /\ heirs = FALSE
        /\ made = 0
        /\ got = 0
        /\ dir = FALSE
        /\ refused = FALSE
        /\ res = "none"

\* The result of what was read: Audio.validate refuses audio that is empty.
Validated(data) == IF data > 0 THEN "audio" ELSE "error"

-----------------------------------------------------------------------------
(* Command.Synthesize.                                                     *)

MkdirTemp ==
  /\ step = "begin"
  /\ kind = "command"
  /\ \/ step' = "start" /\ dir' = TRUE /\ UNCHANGED res
     \/ step' = "returned" /\ res' = "error" /\ UNCHANGED dir
  /\ UNCHANGED <<kind, size, ctx, process, made, got, refused>>

\* A faulty variant: the removal is not deferred but follows the run.
StartFailsAndLeaves ==
  /\ step = "start"
  /\ step' = "returned"
  /\ res' = "error"
  /\ UNCHANGED <<kind, size, ctx, process, made, got, files>>

\* No such command, or no time left to start it.
StartFails ==
  /\ step = "start"
  /\ step' = "remove"
  /\ res' = "error"
  /\ UNCHANGED <<kind, size, ctx, process, made, got, files>>

Start ==
  /\ step = "start"
  /\ ctx = "live"
  /\ step' = "run"
  /\ child' = "running"
  /\ UNCHANGED <<kind, size, ctx, heirs, made, got, files, res>>

\* A faulty variant: the run ends with the command, whoever still writes.
WaitForChildOnly ==
  /\ step = "run"
  /\ child # "running"
  /\ \/ child = "ok" /\ step' = "output" /\ UNCHANGED res
     \/ child # "ok" /\ step' = "remove" /\ res' = "error"
  /\ UNCHANGED <<kind, size, ctx, process, made, got, files>>

\* cmd.Run: the command has exited and its output is closed on all sides.  A
\* deadline that passed meanwhile may be noticed although the command succeeded.
WaitEnds ==
  /\ step = "run"
  /\ child # "running"
  /\ ~heirs
  /\ \/ child = "ok" /\ step' = "output" /\ UNCHANGED res
     \/ /\ child # "ok" \/ ctx = "done"
        /\ step' = "remove"
        /\ res' = "error"
  /\ UNCHANGED <<kind, size, ctx, process, made, got, files>>

\* The output is what was collected, or the file the command should have
\* written; reading that may fail.
Output ==
  /\ step = "output"
  /\ step' = "remove"
  /\ \/ got' = made /\ res' = Validated(made)
     \/ res' = "error" /\ UNCHANGED got
  /\ UNCHANGED <<kind, size, ctx, process, made, files>>

\* The deferred removal, whose error is ignored.
RemoveAll ==
  /\ step = "remove"
  /\ \/ dir' = FALSE /\ UNCHANGED refused
     \/ refused' = TRUE /\ UNCHANGED dir
  /\ step' = "returned"
  /\ UNCHANGED <<kind, size, ctx, process, made, got, res>>

\* exec.CommandContext: the deadline kills the command, and nothing else.
Kill ==
  /\ child = "running"
  /\ ctx = "done"
  /\ child' = "killed"
  /\ UNCHANGED <<kind, size, ctx, step, heirs, made, got, files, res>>

-----------------------------------------------------------------------------
(* OpenAI.Synthesize.                                                      *)

Post ==
  /\ step = "begin"
  /\ kind = "openai"
  /\ step' = "asked"
  /\ UNCHANGED <<kind, size, ctx, process, made, got, files, res>>

\* A faulty variant: the context covers the request but not the body.
AbandonAsked ==
  /\ step = "asked"
  /\ ctx = "done"
  /\ step' = "returned"
  /\ res' = "error"
  /\ UNCHANGED <<kind, size, ctx, process, made, got, files>>

\* The request and the reading of the response end with the context.
Abandon ==
  /\ step \in {"asked", "body"}
  /\ ctx = "done"
  /\ step' = "returned"
  /\ res' = "error"
  /\ UNCHANGED <<kind, size, ctx, process, made, got, files>>

\* io.LimitReader ends the body at maxAudioBytes as the body's end would.
LimitReached ==
  /\ step = "body"
  /\ got = MaxAudio
  /\ step' = "returned"
  /\ res' = Validated(got)
  /\ UNCHANGED <<kind, size, ctx, process, made, got, files>>

Program == \/ MkdirTemp \/ StartFails \/ Start \/ WaitEnds \/ Output \/ RemoveAll
           \/ Kill \/ Post \/ Abandon \/ LimitReached

-----------------------------------------------------------------------------
(* The provider.  An exit status of 0 is taken at its word: the audio is   *)
(* complete, or a process the command started completes it.                *)

Fork ==
  /\ child = "running"
  /\ ~heirs
  /\ heirs' = TRUE
  /\ UNCHANGED <<kind, size, ctx, step, child, made, got, files, res>>

Write ==
  /\ child = "running" \/ heirs
  /\ made < size
  /\ made' = made + 1
  /\ UNCHANGED <<kind, size, ctx, step, process, got, files, res>>

ChildExits ==
  /\ child = "running"
  /\ \/ child' = "ok" /\ (made = size \/ heirs)
     \/ child' = "failed"
  /\ UNCHANGED <<kind, size, ctx, step, heirs, made, got, files, res>>

HeirsEnd ==
  /\ heirs
  /\ child = "ok" => made = size
  /\ heirs' = FALSE
  /\ UNCHANGED <<kind, size, ctx, step, child, made, got, files, res>>

Respond ==
  /\ step = "asked"
  /\ step' = "body"
  /\ UNCHANGED <<kind, size, ctx, process, made, got, files, res>>

\* A faulty variant: the body is read without a limit.
ReceiveAll ==
  /\ step = "body"
  /\ made < size
  /\ made' = made + 1
  /\ got' = got + 1
  /\ UNCHANGED <<kind, size, ctx, step, process, files, res>>

Receive ==
  /\ step = "body"
  /\ made < size
  /\ got < MaxAudio
  /\ made' = made + 1
  /\ got' = got + 1
  /\ UNCHANGED <<kind, size, ctx, step, process, files, res>>

BodyEnds ==
  /\ step = "body"
  /\ made = size
  /\ step' = "returned"
  /\ res' = Validated(got)
  /\ UNCHANGED <<kind, size, ctx, process, made, got, files>>

\* No connection, another status than 200, or a body that breaks off.
ServerFails ==
  /\ step \in {"asked", "body"}
  /\ step' = "returned"
  /\ res' = "error"
  /\ UNCHANGED <<kind, size, ctx, process, made, got, files>>

World == Fork \/ Write \/ ChildExits \/ HeirsEnd
           \/ Respond \/ Receive \/ BodyEnds \/ ServerFails

\* tts.timeout, or a shutdown.
Deadline ==
  /\ ctx = "live"
  /\ ctx' = "done"
  /\ UNCHANGED <<kind, size, step, process, made, got, files, res>>

Returned == step = "returned" /\ UNCHANGED vars

Next == Program \/ World \/ Deadline \/ Returned

Spec == Init /\ [][Next]_vars

\* Synthesize runs, the deadline comes, a killed process dies.  No server has to
\* answer and no process to end by itself.
FairSpec == Spec /\ WF_vars(Program) /\ WF_vars(Deadline)

-----------------------------------------------------------------------------

\* Audio that is handed on, to be cached and played, is all the provider had,
\* unless it is a response longer than maxAudioBytes, of which the head is taken.
WholeAudio ==
  res = "audio" => got = size \/ (kind = "openai" /\ size > MaxAudio /\ got = MaxAudio)

\* The temporary directory is gone however Synthesize ended, unless the file
\* system refused.
DirRemoved == step = "returned" /\ ~refused => ~dir

\* Synthesize returns after its timeout at the latest, whatever the endpoint or
\* the command does, unless a process that the command started stays.
ReturnsUnlessHeld == <>(step = "returned") \/ <>[]heirs

\* command_test.go: "a wedged binary must not hang the page".
TimesOut == (ctx = "done") ~> (step = "returned")
=============================================================================
