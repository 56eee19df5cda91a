---------------------------- MODULE OggDuration ----------------------------
(***************************************************************************)
(* internal/audio: the length of a rendered voice message, read back from  *)
(* the Ogg/Opus file.  The tail of the file is scanned backwards for the   *)
(* last page that completes a packet; its granule position, less the       *)
(* pre-skip, is a count of samples that is scaled to a duration in signed  *)
(* machine integers.                                                       *)
(*                                                                         *)
(* The tail is a sequence of the positions where a page header would fit.  *)
(***************************************************************************)
EXTENDS Integers, Sequences

CONSTANTS MaxInt,      \* the largest signed machine integer, 2^63 - 1 in Go
          Second,      \* units of a duration in a second, 10^9 in Go
          SampleRate,  \* 48000 in Go
          MaxTail,     \* bound: positions in a tail
          PreSkips     \* pre-skips an OpusHead may give

ASSUME ScaleAssumption ==
  /\ MaxInt \in Nat /\ Second \in Nat \ {0} /\ SampleRate \in Nat \ {0}
  /\ SampleRate * Second <= MaxInt
ASSUME TailAssumption == MaxTail \in Nat
ASSUME PreSkipsAssumption == PreSkips \subseteq 0..MaxInt

VARIABLES tail,     \* what is found at each position
          preSkip,  \* from OpusHead
          pos,      \* the position being scanned
          granule,  \* the granule position found, -1 before
          state,    \* "scan", "convert", "ok" or "error"
          dur       \* the duration

vars == <<tail, preSkip, pos, granule, state, dur>>

\* A position holds the header of a page with its granule position, -1 when no
\* packet completes on the page; or no header: payload, or the magic in a
\* payload with another byte where the version is.
NoPacket == -1
NoHeader == -2
Position == {NoHeader, NoPacket} \cup (0..MaxInt)

Init == /\ tail \in UNION {[1..l -> Position] : l \in 0..MaxTail}
        /\ preSkip \in PreSkips
        /\ pos = Len(tail)
        /\ granule = NoPacket
        /\ state = "scan"
        /\ dur = 0

-----------------------------------------------------------------------------
(* lastGranule.                                                            *)

\* A faulty variant: a page on which no packet completes ends the scan.
SkipNoHeader ==
  /\ state = "scan" /\ pos > 0
  /\ tail[pos] < 0
  /\ pos' = IF tail[pos] = NoHeader THEN pos - 1 ELSE 0
  /\ UNCHANGED <<tail, preSkip, granule, state, dur>>

\* One position back, past pages on which no packet completes.
Skip == /\ state = "scan" /\ pos > 0
        /\ tail[pos] < 0
        /\ pos' = pos - 1
        /\ UNCHANGED <<tail, preSkip, granule, state, dur>>

Find == /\ state = "scan" /\ pos > 0
        /\ tail[pos] >= 0
        /\ granule' = tail[pos]
        /\ state' = "convert"
        /\ UNCHANGED <<tail, preSkip, pos, dur>>

\* No page has a granule position.
Miss == /\ state = "scan" /\ pos = 0
        /\ state' = "error"
        /\ UNCHANGED <<tail, preSkip, pos, granule, dur>>

-----------------------------------------------------------------------------
(* The arithmetic, at the machine's width.                                 *)

\* A faulty variant: integers without a width.
Unbounded(x) == x

Wrap(x) == ((x + MaxInt + 1) % (2 * (MaxInt + 1))) - (MaxInt + 1)

\* A faulty variant: samples are scaled before they are divided.
ScaleAtOnce(samples) == Wrap(samples * Second) \div SampleRate

\* samplesDuration: whole seconds and the rest are scaled apart, so that
\* neither product overflows; their sum may.
Scale(samples) ==
  Wrap(Wrap((samples \div SampleRate) * Second)
         + Wrap((samples % SampleRate) * Second) \div SampleRate)

Implausible(samples) == samples \div SampleRate > MaxInt \div Second

\* OggDuration after the scan: nothing but pre-skip is no error.
Convert ==
  LET samples == granule - preSkip IN
  /\ state = "convert"
  /\ IF samples <= 0 THEN state' = "ok" /\ dur' = 0
     ELSE IF Implausible(samples) THEN state' = "error" /\ UNCHANGED dur
     ELSE state' = "ok" /\ dur' = Scale(samples)
  /\ UNCHANGED <<tail, preSkip, pos, granule>>

Finished == state \in {"ok", "error"} /\ UNCHANGED vars

Next == Skip \/ Find \/ Miss \/ Convert \/ Finished

Spec == Init /\ [][Next]_vars

-----------------------------------------------------------------------------

\* Types: a duration is a machine integer, and the scan stays in the tail.
TypeOK == /\ pos \in 0..Len(tail)
          /\ \A p \in 1..Len(tail) : tail[p] \in Position
          /\ preSkip \in PreSkips
          /\ granule \in -1..MaxInt
          /\ state \in {"scan", "convert", "ok", "error"}
          /\ dur \in -(MaxInt + 1)..MaxInt

\* The pages on which a packet completes.
Complete == {p \in 1..Len(tail) : tail[p] >= 0}

\* The granule position is that of the last page on which a packet completes,
\* and only a file without such a page is refused for want of one.
LastCompletePage ==
  /\ state = "convert" =>
       \E p \in Complete : tail[p] = granule /\ \A q \in Complete : q <= p
  /\ state = "error" /\ granule = NoPacket => Complete = {}

\* A length that a duration can hold comes out exact, to the unit below, and is
\* never refused.
ExactWhenItFits ==
  LET exact == ((granule - preSkip) * Second) \div SampleRate IN
  state \in {"ok", "error"} /\ granule > preSkip /\ exact <= MaxInt
    => state = "ok" /\ dur = exact

\* samplesDuration "converts a 48kHz sample count without overflowing", and
\* FuzzOggDuration requires of every file: a duration is not negative.
NeverNegative == state = "ok" => dur >= 0
=============================================================================
