------------------------- MODULE OggDurationProofs -------------------------
(***************************************************************************)
(* For any width of integers, sample rate and tail: the granule position   *)
(* found is that of the last page that completes a packet, and a length    *)
(* that a duration can hold is computed exactly.                           *)
(***************************************************************************)
EXTENDS OggDuration, SequenceTheorems, TLAPS

\* What the scan has passed holds no granule position, and what it stopped at
\* does.
Scanned ==
  /\ tail \in Seq(Int)
  /\ pos \in 0..Len(tail)
  /\ \A p \in 1..Len(tail) : p > pos => tail[p] < 0
  /\ state = "scan" => granule = NoPacket
  /\ state = "convert" => pos > 0 /\ tail[pos] >= 0 /\ granule = tail[pos]
  /\ state = "error" /\ granule = NoPacket => pos = 0
  /\ granule \in Int
  /\ granule # NoPacket => granule >= 0

LEMMA ScannedCorrect == Spec => []Scanned
<1>1. Init => Scanned
  <2> SUFFICES ASSUME Init PROVE Scanned
    OBVIOUS
  <2>1. PICK l \in 0..MaxTail : tail \in [1..l -> Position]
    <3>1. tail \in UNION {[1..l -> Position] : l \in 0..MaxTail}
      BY DEF Init
    <3>2. QED
      BY <3>1
  <2>2. Position \subseteq Int
    BY ScaleAssumption DEF Position, NoHeader, NoPacket
  <2>3. l \in Nat /\ tail \in [1..l -> Int]
    <3>1. l \in Nat
      BY TailAssumption
    <3>2. tail \in [1..l -> Int]
      BY <2>1, <2>2
    <3>3. QED
      BY <3>1, <3>2
  <2>4. tail \in Seq(Int) /\ Len(tail) = l
    BY <2>3, SeqDef, LenProperties
  <2>5. pos = l
    BY <2>4 DEF Init
  <2>6. QED
    BY <2>3, <2>4, <2>5 DEF Init, Scanned, NoPacket
<1>2. Scanned /\ [Next]_vars => Scanned'
  <2> SUFFICES ASSUME Scanned, [Next]_vars PROVE Scanned'
    OBVIOUS
  <2> USE DEF Scanned, NoPacket
  <2>1. Len(tail) \in Nat
    OBVIOUS
  <2>2. CASE Skip
    BY <2>1, <2>2 DEF Skip
  <2>3. CASE Find
    BY <2>1, <2>3 DEF Find
  <2>4. CASE Miss
    BY <2>1, <2>4 DEF Miss
  <2>5. CASE Convert
    BY <2>1, <2>5 DEF Convert
  <2>6. CASE Finished \/ UNCHANGED vars
    BY <2>6 DEF Finished, vars
  <2>7. QED
    BY <2>2, <2>3, <2>4, <2>5, <2>6 DEF Next
<1>3. QED
  BY <1>1, <1>2, PTL DEF Spec

\* lastGranule finds the last page on which a packet completes, whatever pages
\* and payload follow it, and fails only without one.
THEOREM LastCompletePageCorrect == Spec => []LastCompletePage
<1>1. Scanned => LastCompletePage
  BY DEF Scanned, LastCompletePage, Complete, NoPacket
<1>2. QED
  BY <1>1, ScannedCorrect, PTL

-----------------------------------------------------------------------------
(* The arithmetic.                                                         *)

\* Whole parts and rest.
LEMMA DivMod ==
  ASSUME NEW a \in Int, NEW b \in Nat \ {0}
  PROVE  a \div b \in Int /\ a % b \in 0..(b - 1) /\ a = b * (a \div b) + (a % b)
OBVIOUS

LEMMA DivUnique ==
  ASSUME NEW a \in Int, NEW b \in Nat \ {0}, NEW q \in Int, NEW r \in 0..(b - 1),
         a = b * q + r
  PROVE  a \div b = q
OBVIOUS

\* A machine integer is one whatever it was made of...
LEMMA WrapType == ASSUME NEW x \in Int PROVE Wrap(x) \in -(MaxInt + 1)..MaxInt
BY ScaleAssumption DEF Wrap

\* ...and is what it was made of when that fits.
LEMMA WrapFits == ASSUME NEW x \in 0..MaxInt PROVE Wrap(x) = x
BY ScaleAssumption DEF Wrap

\* Samples scale to whole seconds and the rest of one.
LEMMA ExactParts ==
  ASSUME NEW s \in Nat
  PROVE  LET q == s \div SampleRate
             r == s % SampleRate
             t == (r * Second) \div SampleRate
         IN  /\ q \in Nat /\ r \in 0..(SampleRate - 1) /\ t \in Nat
             /\ r * Second \in 0..MaxInt
             /\ q * Second \in Nat
             /\ (s * Second) \div SampleRate = q * Second + t
<1> DEFINE q == s \div SampleRate
           r == s % SampleRate
           t == (r * Second) \div SampleRate
           u == (r * Second) % SampleRate
<1> USE ScaleAssumption
<1>1. q \in Int /\ r \in 0..(SampleRate - 1) /\ s = SampleRate * q + r
  BY DivMod
<1>2. q \in Nat
  BY <1>1
<1>3. r * Second \in Nat /\ r * Second <= SampleRate * Second
  BY <1>1
<1>4. t \in Int /\ u \in 0..(SampleRate - 1) /\ r * Second = SampleRate * t + u
  BY <1>3, DivMod
<1>5. t \in Nat
  BY <1>3, <1>4
<1>6. s * Second = SampleRate * (q * Second + t) + u
  <2> HIDE DEF q, r, t, u
  <2>1. s * Second = SampleRate * (q * Second) + r * Second
    BY <1>1
  <2>2. QED
    BY <1>1, <1>4, <2>1
<1>7. (s * Second) \div SampleRate = q * Second + t
  <2> HIDE DEF q, r, t, u
  <2>1. s * Second \in Int /\ q * Second + t \in Int
    BY <1>1, <1>4
  <2>2. QED
    BY <1>4, <1>6, <2>1, DivUnique
<1>8. q * Second \in Nat
  BY <1>2
<1>9. SampleRate * Second \in Nat /\ r * Second \in 0..MaxInt
  BY <1>1, <1>3
<1>10. QED
  BY <1>1, <1>2, <1>5, <1>7, <1>8, <1>9

\* samplesDuration neither refuses nor spoils a length that a duration can hold.
LEMMA ScaleExact ==
  ASSUME NEW s \in Nat, (s * Second) \div SampleRate <= MaxInt
  PROVE  ~Implausible(s) /\ Scale(s) = (s * Second) \div SampleRate
<1> DEFINE q == s \div SampleRate
           r == s % SampleRate
           t == (r * Second) \div SampleRate
<1> USE ScaleAssumption
<1>1. /\ q \in Nat /\ t \in Nat /\ r * Second \in 0..MaxInt /\ q * Second \in Nat
      /\ (s * Second) \div SampleRate = q * Second + t
  BY ExactParts
<1>2. q * Second + t <= MaxInt
  BY <1>1
<1>3. q * Second \in 0..MaxInt /\ q * Second + t \in 0..MaxInt
  BY <1>1, <1>2
<1>4. Scale(s) = q * Second + t
  <2>1. Wrap(q * Second) = q * Second /\ Wrap(r * Second) = r * Second
          /\ Wrap(q * Second + t) = q * Second + t
    BY <1>1, <1>3, WrapFits
  <2>2. QED
    BY <2>1 DEF Scale
<1>5. q <= MaxInt \div Second
  <2> HIDE DEF q
  <2> DEFINE d == MaxInt \div Second
             e == MaxInt % Second
  <2>1. d \in Int /\ e \in 0..(Second - 1) /\ MaxInt = Second * d + e
    BY DivMod
  <2> HIDE DEF d, e
  <2>2. q >= d + 1 => q * Second >= Second * d + Second
    BY <1>1, <2>1
  <2>3. q <= d
    BY <1>1, <1>3, <2>1, <2>2
  <2>4. QED
    BY <2>3 DEF d
<1>6. QED
  BY <1>1, <1>4, <1>5 DEF Implausible

-----------------------------------------------------------------------------

LEMMA TypesCorrect == Spec => []TypeOK
<1> USE ScaleAssumption, PreSkipsAssumption DEF NoPacket
<1>1. Init /\ Scanned => TypeOK
  <2> SUFFICES ASSUME Init, Scanned PROVE TypeOK
    OBVIOUS
  <2>1. PICK l \in 0..MaxTail : tail \in [1..l -> Position]
    <3>1. tail \in UNION {[1..l -> Position] : l \in 0..MaxTail}
      BY DEF Init
    <3>2. QED
      BY <3>1
  <2>2. 1..Len(tail) = 1..l
    BY <2>1 DEF Scanned
  <2>3. \A p \in 1..Len(tail) : tail[p] \in Position
    BY <2>1, <2>2
  <2>4. QED
    BY <2>3 DEF Init, Scanned, TypeOK
<1>2. Scanned /\ TypeOK /\ [Next]_vars => TypeOK'
  <2> SUFFICES ASSUME Scanned, TypeOK, [Next]_vars PROVE TypeOK'
    OBVIOUS
  <2>0. Len(tail) \in Nat
    BY DEF Scanned
  <2>1. CASE Skip \/ Miss
    BY <2>0, <2>1 DEF Skip, Miss, TypeOK
  <2>2. CASE Find
    <3>1. pos \in 1..Len(tail) /\ tail[pos] >= 0
      BY <2>0, <2>2 DEF Find, TypeOK
    <3>2. tail[pos] \in 0..MaxInt
      BY <3>1 DEF TypeOK, Position, NoHeader
    <3>3. QED
      BY <2>2, <3>2 DEF Find, TypeOK
  <2>3. CASE Convert
    <3> DEFINE samples == granule - preSkip
    <3>1. samples \in Int
      BY DEF TypeOK
    <3>2. dur' \in {0, dur, Scale(samples)} /\ state' \in {"ok", "error"}
            /\ UNCHANGED <<tail, preSkip, pos, granule>>
      BY <2>3 DEF Convert
    <3>3. Scale(samples) \in -(MaxInt + 1)..MaxInt
      <4>1. samples \div SampleRate \in Int /\ samples % SampleRate \in Int
        BY <3>1
      <4> DEFINE a == (samples \div SampleRate) * Second
                 b == (samples % SampleRate) * Second
      <4>2. a \in Int /\ b \in Int
        BY <4>1
      <4>3. Wrap(a) \in Int /\ Wrap(b) \in Int
        BY <4>2, WrapType
      <4>4. Wrap(a) + Wrap(b) \div SampleRate \in Int
        BY <4>3
      <4>5. Scale(samples) = Wrap(Wrap(a) + Wrap(b) \div SampleRate)
        BY DEF Scale
      <4> HIDE DEF a, b
      <4>6. QED
        BY <4>4, <4>5, WrapType
    <3> HIDE DEF samples
    <3>4. dur' \in -(MaxInt + 1)..MaxInt
      BY <3>2, <3>3 DEF TypeOK
    <3>5. QED
      BY <3>2, <3>4 DEF TypeOK
  <2>4. CASE Finished \/ UNCHANGED vars
    BY <2>4 DEF Finished, vars, TypeOK
  <2>5. QED
    BY <2>1, <2>2, <2>3, <2>4 DEF Next
<1>3. QED
  BY <1>1, <1>2, ScannedCorrect, PTL DEF Spec

\* The states of OggDuration are well typed: a duration is a machine integer,
\* however far its parts overflow.
THEOREM TypeCorrect == Spec => []TypeOK
BY TypesCorrect

\* A length that a duration can hold is never refused and comes out exact, to the
\* unit below, at any width: the quotient is checked, and scaling the rest of a
\* second cannot overflow.
THEOREM ExactWhenItFitsCorrect == Spec => []ExactWhenItFits
<1> USE ScaleAssumption, PreSkipsAssumption
<1>1. Init => ExactWhenItFits
  BY DEF Init, ExactWhenItFits
<1>2. Scanned /\ TypeOK /\ ExactWhenItFits /\ [Next]_vars => ExactWhenItFits'
  <2> SUFFICES ASSUME Scanned, TypeOK, ExactWhenItFits, [Next]_vars
               PROVE  ExactWhenItFits'
    OBVIOUS
  <2>1. CASE Skip \/ Find
    BY <2>1 DEF Skip, Find, ExactWhenItFits
  <2>2. CASE Miss
    <3>1. granule' = -1 /\ preSkip' \in Nat
      BY <2>2 DEF Miss, Scanned, TypeOK, NoPacket
    <3>2. ~(granule' > preSkip')
      BY <3>1
    <3>3. QED
      BY <3>2 DEF ExactWhenItFits
  <2>3. CASE Convert
    <3> DEFINE s == granule - preSkip
    <3>1. UNCHANGED <<preSkip, granule>> /\ s \in Int /\ granule \in Int /\ preSkip \in Int
      BY <2>3 DEF Convert, TypeOK
    <3>2. ASSUME s > 0, (s * Second) \div SampleRate <= MaxInt
          PROVE  state' = "ok" /\ dur' = (s * Second) \div SampleRate
      <4>1. s \in Nat /\ ~(s <= 0)
        BY <3>1, <3>2
      <4>2. ~Implausible(s) /\ Scale(s) = (s * Second) \div SampleRate
        BY <3>2, <4>1, ScaleExact
      <4>3. state' = "ok" /\ dur' = Scale(s)
        BY <2>3, <4>1, <4>2 DEF Convert
      <4>4. QED
        BY <4>2, <4>3
    <3>3. granule > preSkip => s > 0
      BY <3>1
    <3>4. QED
      BY <3>1, <3>2, <3>3 DEF ExactWhenItFits
  <2>4. CASE Finished \/ UNCHANGED vars
    BY <2>4 DEF Finished, vars, ExactWhenItFits
  <2>5. QED
    BY <2>1, <2>2, <2>3, <2>4 DEF Next
<1>3. QED
  BY <1>1, <1>2, ScannedCorrect, TypesCorrect, PTL DEF Spec

-----------------------------------------------------------------------------
(* Where a duration can be negative.                                       *)

\* Whole seconds fewer than a duration holds leave room for the rest of one.
LEMMA RestFits ==
  ASSUME NEW s \in Nat, s \div SampleRate < MaxInt \div Second
  PROVE  (s * Second) \div SampleRate <= MaxInt
<1> DEFINE q == s \div SampleRate
           r == s % SampleRate
           t == (r * Second) \div SampleRate
           u == (r * Second) % SampleRate
           d == MaxInt \div Second
           e == MaxInt % Second
<1> USE ScaleAssumption
<1>1. /\ q \in Nat /\ r \in 0..(SampleRate - 1) /\ t \in Nat
      /\ r * Second \in 0..MaxInt
      /\ (s * Second) \div SampleRate = q * Second + t
  BY ExactParts
<1>2. t \in Int /\ u \in 0..(SampleRate - 1) /\ r * Second = SampleRate * t + u
  BY <1>1, DivMod
<1>3. d \in Int /\ e \in 0..(Second - 1) /\ MaxInt = Second * d + e
  BY DivMod
<1>4. q < d
  OBVIOUS
<1>5. t <= Second
  <2> HIDE DEF q, r, t, u, d, e
  <2>1. SampleRate * t <= r * Second
    BY <1>1, <1>2
  <2>2. r * Second <= SampleRate * Second
    BY <1>1
  <2>3. SampleRate * t <= SampleRate * Second
    BY <1>1, <2>1, <2>2
  <2>4. QED
    BY <1>1, <2>3
<1>6. q * Second + Second <= Second * d
  <2> HIDE DEF q, r, t, u, d, e
  <2>1. (q + 1) * Second <= d * Second
    BY <1>1, <1>3, <1>4
  <2>2. QED
    BY <1>1, <1>3, <2>1
<1>7. q * Second + t <= MaxInt
  <2> HIDE DEF q, r, t, u, d, e
  <2>1. q * Second \in Int /\ Second * d \in Int
    BY <1>1, <1>3
  <2>2. QED
    BY <1>1, <1>3, <1>5, <1>6, <2>1
<1>8. QED
  BY <1>1, <1>7

\* A negative duration comes from a length in the last second that a duration
\* can begin.
NegativeOnlyAtTheLimit ==
  state = "ok" /\ dur < 0
    => (granule - preSkip) \div SampleRate = MaxInt \div Second

\* samplesDuration overflows nowhere else than in adding the rest of a second to
\* the largest whole number of seconds it lets pass.
THEOREM NegativeOnlyAtTheLimitCorrect == Spec => []NegativeOnlyAtTheLimit
<1> USE ScaleAssumption
<1>1. Init => NegativeOnlyAtTheLimit
  BY DEF Init, NegativeOnlyAtTheLimit
<1>2. TypeOK /\ NegativeOnlyAtTheLimit /\ [Next]_vars => NegativeOnlyAtTheLimit'
  <2> SUFFICES ASSUME TypeOK, NegativeOnlyAtTheLimit, [Next]_vars
               PROVE  NegativeOnlyAtTheLimit'
    OBVIOUS
  <2>1. CASE Skip \/ Find \/ Miss
    BY <2>1 DEF Skip, Find, Miss, NegativeOnlyAtTheLimit
  <2>2. CASE Convert
    <3> DEFINE s == granule - preSkip
    <3>1. granule' = granule /\ preSkip' = preSkip
      BY <2>2 DEF Convert
    <3>2. s \in Int
      BY PreSkipsAssumption DEF TypeOK
    <3>3. CASE s <= 0
      BY <2>2, <3>3 DEF Convert, NegativeOnlyAtTheLimit
    <3>4. CASE s > 0 /\ Implausible(s)
      BY <2>2, <3>2, <3>4 DEF Convert, NegativeOnlyAtTheLimit
    <3>5. CASE s > 0 /\ ~Implausible(s)
      <4>1. s \in Nat /\ dur' = Scale(s)
        BY <2>2, <3>2, <3>5 DEF Convert
      <4>2. ASSUME s \div SampleRate < MaxInt \div Second PROVE dur' >= 0
        <5>1. (s * Second) \div SampleRate <= MaxInt
          BY <4>1, <4>2, RestFits
        <5>2. dur' = (s * Second) \div SampleRate
          BY <4>1, <5>1, ScaleExact
        <5>3. (s * Second) \div SampleRate \in Nat
          BY <4>1, ExactParts
        <5>4. QED
          BY <5>2, <5>3
      <4>3. s \div SampleRate \in Int /\ MaxInt \div Second \in Int
        BY <3>2, DivMod
      <4>4. s \div SampleRate <= MaxInt \div Second
        BY <3>5, <4>3 DEF Implausible
      <4> HIDE DEF s
      <4>5. dur' < 0 => s \div SampleRate = MaxInt \div Second
        <5>1. dur' \in Int
          <6>1. dur' \in -(MaxInt + 1)..MaxInt
            BY <4>1, WrapType, <3>2 DEF Scale
          <6>2. QED
            BY <6>1
        <5>2. QED
          BY <4>2, <4>3, <4>4, <5>1
      <4>6. QED
        BY <3>1, <4>5 DEF NegativeOnlyAtTheLimit, s
    <3>6. QED
      BY <3>2, <3>3, <3>4, <3>5
  <2>3. CASE Finished \/ UNCHANGED vars
    BY <2>3 DEF Finished, vars, NegativeOnlyAtTheLimit
  <2>4. QED
    BY <2>1, <2>2, <2>3 DEF Next
<1>3. QED
  BY <1>1, <1>2, TypesCorrect, PTL DEF Spec
=============================================================================
