--------------------------- MODULE ProviderProofs ---------------------------
(***************************************************************************)
(* For any length of audio and any limit on a response: what Synthesize    *)
(* hands on is all there was, and it leaves no directory behind.           *)
(***************************************************************************)
EXTENDS Provider, TLAPS

\* The audio by its length, and the rest of what TypeOK says.
Lengths == /\ size \in 0..MaxSize
           /\ made \in 0..size
           /\ got \in 0..made
           /\ kind = "openai" => got <= MaxAudio

Places == /\ kind \in {"command", "openai"}
          /\ ctx \in {"live", "done"}
          /\ step \in {"begin", "start", "run", "output", "asked", "body",
                       "remove", "returned"}
          /\ child \in {"none", "running", "ok", "failed", "killed"}
          /\ heirs \in BOOLEAN
          /\ dir \in BOOLEAN
          /\ refused \in BOOLEAN
          /\ res \in {"none", "audio", "error"}
          /\ kind = "openai" => child = "none" /\ ~dir
          /\ step \in {"start", "run", "output", "remove"} => kind = "command"
          /\ res # "none" <=> step \in {"remove", "returned"}

LEMMA LengthsStep == Lengths /\ Places /\ [Next]_vars => Lengths'
<1> SUFFICES ASSUME Lengths, Places, [Next]_vars PROVE Lengths'
  OBVIOUS
<1> USE MaxAudioAssumption, MaxSizeAssumption DEF Lengths
<1>1. CASE Output
  BY <1>1 DEF Output, Places
<1>2. CASE Write
  <2>1. made < size /\ made' = made + 1 /\ UNCHANGED <<kind, size, got>>
    BY <1>2 DEF Write
  <2>2. QED
    BY <2>1
<1>3. CASE Receive
  <2>1. /\ made < size /\ made' = made + 1 /\ got < MaxAudio /\ got' = got + 1
        /\ UNCHANGED <<kind, size>>
    BY <1>3 DEF Receive
  <2>2. QED
    BY <2>1
<1>4. CASE UNCHANGED <<kind, size, made, got>>
  BY <1>4
<1>5. QED
  BY <1>1, <1>2, <1>3, <1>4
     DEF Next, Program, World, MkdirTemp, StartFails, Start, WaitEnds, RemoveAll, Kill,
         Post, Abandon, LimitReached, Fork, ChildExits, HeirsEnd, Respond, BodyEnds,
         ServerFails, Deadline, Returned, vars

LEMMA PlacesStep == Places /\ [Next]_vars => Places'
<1> SUFFICES ASSUME Places, [Next]_vars PROVE Places'
  OBVIOUS
<1> USE DEF Places, process, files
<1>1. CASE MkdirTemp
  BY <1>1 DEF MkdirTemp
<1>2. CASE StartFails \/ Start \/ WaitEnds \/ Kill
  BY <1>2 DEF StartFails, Start, WaitEnds, Kill
<1>3. CASE Output \/ RemoveAll
  BY <1>3 DEF Output, RemoveAll, Validated
<1>4. CASE Post \/ Abandon \/ LimitReached
  BY <1>4 DEF Post, Abandon, LimitReached, Validated
<1>5. CASE Fork \/ Write \/ ChildExits \/ HeirsEnd
  <2>1. /\ child' = child \/ (child # "none" /\ child' \in {"ok", "failed"})
        /\ heirs' \in BOOLEAN
        /\ UNCHANGED <<kind, ctx, step, dir, refused, res>>
    BY <1>5 DEF Fork, Write, ChildExits, HeirsEnd
  <2>2. QED
    BY <2>1
<1>6. CASE Respond \/ Receive \/ BodyEnds \/ ServerFails
  BY <1>6 DEF Respond, Receive, BodyEnds, ServerFails, Validated
<1>7. CASE Deadline \/ Returned \/ UNCHANGED vars
  BY <1>7 DEF Deadline, Returned, vars
<1>8. QED
  BY <1>1, <1>2, <1>3, <1>4, <1>5, <1>6, <1>7 DEF Next, Program, World

LEMMA TypesCorrect == Spec => [](Lengths /\ Places)
<1>1. Init => Lengths /\ Places
  <2>1. Init => Lengths
    BY MaxAudioAssumption, MaxSizeAssumption DEF Init, Lengths
  <2>2. Init => Places
    BY DEF Init, Places
  <2>3. QED
    BY <2>1, <2>2
<1>2. QED
  BY <1>1, LengthsStep, PlacesStep, PTL DEF Spec

\* The states of Provider are well typed: no more is read than the provider has
\* put out, and no more of a response than maxAudioBytes.
THEOREM TypeCorrect == Spec => []TypeOK
<1>1. Lengths /\ Places => TypeOK
  BY DEF Lengths, Places, TypeOK
<1>2. QED
  BY <1>1, TypesCorrect, PTL

-----------------------------------------------------------------------------

\* A command that succeeded has put out all the audio, or the processes it left
\* behind are still at it; Synthesize looks at the output when both have ended.
Complete ==
  /\ child = "ok" /\ ~heirs => made = size
  /\ child # "none" => kind = "command"
  /\ step \in {"start", "run", "output", "remove"} => kind = "command"
  /\ step \in {"asked", "body"} => kind = "openai"
  /\ step \in {"begin", "start"} => child = "none"
  /\ heirs => child # "none"
  /\ step = "output" => child = "ok" /\ ~heirs
  /\ kind = "openai" => got = made
  /\ WholeAudio

LEMMA CompleteCorrect == Spec => []Complete
<1> USE MaxAudioAssumption, MaxSizeAssumption
<1>1. Init => Complete
  BY DEF Init, Complete, WholeAudio
<1>2. Lengths /\ Places /\ Complete /\ [Next]_vars => Complete'
  <2> SUFFICES ASSUME Lengths, Places, Complete, [Next]_vars PROVE Complete'
    OBVIOUS
  <2> USE DEF Lengths, Places, Complete, WholeAudio, process, files
  <2>1. CASE MkdirTemp
    BY <2>1 DEF MkdirTemp
  <2>2. CASE StartFails \/ Start \/ WaitEnds
    BY <2>2 DEF StartFails, Start, WaitEnds
  <2>3. CASE Kill \/ Fork \/ ChildExits \/ HeirsEnd
    BY <2>3 DEF Kill, Fork, ChildExits, HeirsEnd
  <2>4. CASE Output
    BY <2>4 DEF Output, Validated
  <2>5. CASE RemoveAll
    BY <2>5 DEF RemoveAll
  <2>6. CASE Post \/ Respond
    BY <2>6 DEF Post, Respond
  <2>7. CASE Abandon \/ ServerFails
    BY <2>7 DEF Abandon, ServerFails
  <2>8. CASE LimitReached
    BY <2>8 DEF LimitReached, Validated
  <2>9. CASE BodyEnds
    BY <2>9 DEF BodyEnds, Validated
  <2>10. CASE Write
    BY <2>10 DEF Write
  <2>11. CASE Receive
    BY <2>11 DEF Receive
  <2>12. CASE Deadline \/ Returned \/ UNCHANGED vars
    BY <2>12 DEF Deadline, Returned, vars
  <2>13. QED
    BY <2>1, <2>2, <2>3, <2>4, <2>5, <2>6, <2>7, <2>8, <2>9, <2>10, <2>11, <2>12
       DEF Next, Program, World
<1>3. QED
  BY <1>1, <1>2, TypesCorrect, PTL DEF Spec

\* Audio that Synthesize hands on is never the beginning of what the provider
\* had, unless maxAudioBytes cut a response: cmd.Run waits for every process that
\* can still write, and a body that breaks off is an error.
THEOREM WholeAudioCorrect == Spec => []WholeAudio
<1>1. Complete => WholeAudio
  BY DEF Complete
<1>2. QED
  BY <1>1, CompleteCorrect, PTL

-----------------------------------------------------------------------------

\* The directory is there only on the way to its removal.
DirInv == /\ dir => step \in {"start", "run", "output", "remove"} \/ refused
          /\ DirRemoved

\* Command.Synthesize leaves no temporary directory behind, whichever step
\* failed, unless the file system refused to remove it.
THEOREM DirRemovedCorrect == Spec => []DirRemoved
<1>1. Init => DirInv
  BY DEF Init, DirInv, DirRemoved
<1>2. Complete /\ DirInv /\ [Next]_vars => DirInv'
  BY DEF Complete, DirInv, DirRemoved, Next, Program, World, MkdirTemp, StartFails, Start,
         WaitEnds, Output, RemoveAll, Kill, Post, Abandon, LimitReached, Fork, Write,
         ChildExits, HeirsEnd, Respond, Receive, BodyEnds, ServerFails, Deadline, Returned,
         vars, process, files
<1>3. DirInv => DirRemoved
  BY DEF DirInv
<1>4. QED
  BY <1>1, <1>2, <1>3, CompleteCorrect, PTL DEF Spec
=============================================================================
