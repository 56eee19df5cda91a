------------------------- MODULE SpeechCacheProofs -------------------------
(***************************************************************************)
(* For any sentences, limits and number of attempts and crashes: what is   *)
(* published in the cache directory is complete, what no failure kept from *)
(* being swept is within max_bytes when no eviction is under way, and a    *)
(* page that nothing disturbs finds the segment it returned.               *)
(***************************************************************************)
EXTENDS SpeechCache, FiniteSetTheorems, TLAPS

Labels == {"idle", "stat", "expire", "touch", "synthesize", "create", "write",
           "rename", "list", "info", "unlink", "play", "done"}

\* What is about to be renamed has been written to the end, and what has been
\* renamed was.
Published ==
  /\ now \in Nat
  /\ pc \in [Actors -> Labels]
  /\ temp \in [Actors -> {"none", "partial", "whole"}]
  /\ wrote \in [Actors -> Nat]
  /\ asof \in [Actors -> Nat]
  /\ \A a \in Actors : pc[a] = "rename" => temp[a] = "whole"
  /\ \A t \in DOMAIN files : files[t] \in [used : Nat, whole : {TRUE}]

LEMMA StartLabel == \A a \in Actors : Start(a) \in Labels \ {"rename"}
BY DEF Start, Labels, Actors

\* Where speech is found or settled for, nothing is about to be renamed.
LEMMA SettledLabel ==
  ASSUME NEW a \in Actors, pc \in [Actors -> Labels], Succeed(a) \/ Fail(a)
  PROVE  /\ pc' \in [Actors -> Labels]
         /\ pc'[a] # "rename"
         /\ \A b \in Actors \ {a} : pc'[b] = pc[b]
BY DEF Succeed, Fail, Goto, Labels

\* Removing a file leaves the others complete.
LEMMA RemoveKeeps ==
  ASSUME NEW t, Remove(t),
         \A x \in DOMAIN files : files[x] \in [used : Nat, whole : {TRUE}]
  PROVE  \A x \in DOMAIN files' : files'[x] \in [used : Nat, whole : {TRUE}]
BY DEF Remove, Restrict

LEMMA StepPublished ==
  ASSUME Published, NEW a \in Actors, Step(a) PROVE Published'
<1> USE DEF Published
<1>1. CASE Synthesize(a)
  <2>1. now' \in Nat
    <3>1. now' = now + 1
      BY <1>1 DEF Synthesize
    <3>2. QED
      BY <3>1
  <2>2. files' = files /\ temp' = temp /\ wrote' = wrote /\ asof' = asof
    BY <1>1 DEF Synthesize, disk, sweep
  <2>3. CASE Goto(a, "create")
    BY <2>1, <2>2, <2>3 DEF Goto, Labels
  <2>4. CASE Fail(a)
    BY <2>1, <2>2, <2>4, SettledLabel
  <2>5. QED
    BY <1>1, <2>3, <2>4 DEF Synthesize
<1>2. CASE Stat(a)
  BY <1>2 DEF Stat, Goto, Labels, disk, sweep
<1>3. CASE Expire(a)
  <2>1. \A t \in DOMAIN files' : files'[t] \in [used : Nat, whole : {TRUE}]
    BY <1>3, RemoveKeeps DEF Expire
  <2>2. QED
    BY <1>3, <2>1 DEF Expire, Goto, Labels, sweep
<1>4. CASE Touch(a)
  <2>1. \A t \in DOMAIN files' : files'[t] \in [used : Nat, whole : {TRUE}]
    <3>1. asof[a] \in Nat
      OBVIOUS
    <3>2. CASE files' = files
      BY <3>2
    <3>3. CASE files' = [t \in DOMAIN files |->
                          IF t = text[a] THEN [files[t] EXCEPT !.used = asof[a]]
                          ELSE files[t]]
      BY <3>1, <3>3
    <3>4. QED
      BY <1>4, <3>2, <3>3 DEF Touch
  <2>2. QED
    BY <1>4, <2>1, SettledLabel DEF Touch, sweep
<1>5. CASE StoreFails(a)
  BY <1>5, SettledLabel DEF StoreFails, sweep
<1>6. CASE CreateTemp(a)
  BY <1>6 DEF CreateTemp, Goto, Labels, sweep
<1>7. CASE Write(a)
  BY <1>7 DEF Write, Goto, Labels, sweep
<1>8. CASE Rename(a)
  <2>1. temp[a] = "whole" /\ wrote[a] \in Nat
    BY <1>8 DEF Rename, sweep
  <2>2. \A t \in DOMAIN files' : files'[t] \in [used : Nat, whole : {TRUE}]
    BY <1>8, <2>1 DEF Rename, Put, sweep
  <2>3. QED
    BY <1>8, <2>2 DEF Rename, Goto, Labels, sweep
<1>9. CASE ListFails(a) \/ List(a)
  <2>1. CASE ListFails(a)
    BY <2>1, SettledLabel DEF ListFails, disk, sweep
  <2>2. CASE List(a)
    BY <2>2 DEF List, Goto, Labels, disk
  <2>3. QED
    BY <1>9, <2>1, <2>2
<1>10. CASE InfoFails(a) \/ InfoLive(a)
  BY <1>10 DEF InfoFails, InfoLive, Escapes, disk, sweep
<1>11. CASE InfoExpired(a)
  BY <1>11 DEF InfoExpired, Goto, Labels, disk, sweep
<1>12. CASE Unlink(a)
  <2>1. \A t \in DOMAIN files' : files'[t] \in [used : Nat, whole : {TRUE}]
    BY <1>12, RemoveKeeps DEF Unlink, Escapes
  <2>2. QED
    BY <1>12, <2>1 DEF Unlink, Goto, Labels, sweep
<1>13. CASE EvictOne(a) \/ EvictFails(a)
  <2>1. CASE EvictOne(a)
    <3>1. PICK e \in items[a] : Remove(e.text)
      BY <2>1 DEF EvictOne
    <3>2. QED
      BY <2>1, <3>1, RemoveKeeps DEF EvictOne
  <2>2. CASE EvictFails(a)
    BY <2>2 DEF EvictFails, Escapes
  <2>3. QED
    BY <1>13, <2>1, <2>2
<1>14. CASE EvictEnds(a)
  BY <1>14, SettledLabel DEF EvictEnds, disk, sweep
<1>15. QED
  BY <1>1, <1>2, <1>3, <1>4, <1>5, <1>6, <1>7, <1>8, <1>9, <1>10, <1>11,
     <1>12, <1>13, <1>14 DEF Step

LEMMA PublishedCorrect == Spec => []Published
<1>1. Init => Published
  BY StartLabel DEF Init, Published, Actors
<1>2. Published /\ [Next]_vars => Published'
  <2> SUFFICES ASSUME Published, [Next]_vars PROVE Published'
    OBVIOUS
  <2>1. CASE Begin
    BY <2>1 DEF Published, Begin, Goto, Labels, disk, sweep
  <2>2. CASE PlayEnds
    BY <2>2 DEF Published, PlayEnds, Goto, Labels, disk, sweep
  <2>3. CASE \E a \in Actors : Step(a)
    BY <2>3, StepPublished
  <2>4. CASE Tick
    <3>1. now' \in Nat
      <4>1. now' = now + 1 /\ now \in Nat
        BY <2>4 DEF Tick, Published
      <4>2. QED
        BY <4>1
    <3>2. files' = files /\ temp' = temp /\ wrote' = wrote /\ asof' = asof /\ pc' = pc
      BY <2>4 DEF Tick, disk, sweep
    <3>3. QED
      BY <3>1, <3>2 DEF Published
  <2>5. CASE Crash
    BY <2>5, StartLabel DEF Published, Crash
  <2>6. CASE Waiting \/ UNCHANGED vars
    BY <2>6 DEF Published, Waiting, vars, disk, sweep
  <2>7. QED
    BY <2>1, <2>2, <2>3, <2>4, <2>5, <2>6 DEF Next
<1>3. QED
  BY <1>1, <1>2, PTL DEF Spec

\* Store publishes by rename what it has written to the end, so however Speak,
\* Preflight and crashes interleave a hit is never truncated audio.
THEOREM NeverTruncatedCorrect == Spec => []NeverTruncated
<1>1. Published => NeverTruncated
  BY DEF Published, NeverTruncated
<1>2. QED
  BY <1>1, PublishedCorrect, PTL

-----------------------------------------------------------------------------
(* Bytes.                                                                  *)

\* An empty cache holds no bytes.
LEMMA NoBytes == IsFiniteSet(Content({})) /\ Bytes({}) = 0
<1>1. Content({}) = {}
  BY DEF Content
<1>2. QED
  BY <1>1, FS_EmptySet DEF Bytes

\* The bytes of fewer files are fewer.
LEMMA FewerBytes ==
  ASSUME NEW S, NEW T, S \subseteq T, IsFiniteSet(Content(T))
  PROVE  /\ IsFiniteSet(Content(S))
         /\ Bytes(S) \in Nat
         /\ Bytes(S) <= Bytes(T)
<1>1. Content(S) \subseteq Content(T)
  BY DEF Content
<1>2. QED
  BY <1>1, FS_Subset, FS_CardinalityType DEF Bytes

\* Disjoint finite sets add up.
LEMMA DisjointUnion ==
  ASSUME NEW A, NEW B, IsFiniteSet(A), IsFiniteSet(B), A \cap B = {}
  PROVE  /\ IsFiniteSet(A \cup B)
         /\ Cardinality(A \cup B) = Cardinality(A) + Cardinality(B)
<1>1. Cardinality(A) \in Nat /\ Cardinality(B) \in Nat
  BY FS_CardinalityType
<1>2. Cardinality(A \cap B) = 0
  BY FS_EmptySet
<1>3. /\ IsFiniteSet(A \cup B)
      /\ Cardinality(A \cup B) = Cardinality(A) + Cardinality(B) - Cardinality(A \cap B)
  BY FS_Union
<1>4. QED
  BY <1>1, <1>2, <1>3

\* A file adds its size.
LEMMA AddedBytes ==
  ASSUME NEW S \in SUBSET Texts, NEW t \in Texts, t \notin S, IsFiniteSet(Content(S))
  PROVE  /\ IsFiniteSet(Content(S \cup {t}))
         /\ Bytes(S \cup {t}) = Bytes(S) + Size[t]
<1>1. Size[t] \in Nat \ {0}
  BY SizeAssumption
<1>2. /\ IsFiniteSet({t} \X (1..Size[t]))
      /\ Cardinality({t} \X (1..Size[t])) = Size[t]
  <2>1. IsFiniteSet({t}) /\ Cardinality({t}) = 1
    BY FS_Singleton
  <2>2. IsFiniteSet(1..Size[t]) /\ Cardinality(1..Size[t]) = Size[t]
    BY <1>1, FS_Interval
  <2>3. /\ IsFiniteSet({t} \X (1..Size[t]))
        /\ Cardinality({t} \X (1..Size[t])) = 1 * Size[t]
    BY <2>1, <2>2, FS_Product
  <2>4. QED
    BY <1>1, <2>3
<1>3. Content(S \cup {t}) = Content(S) \cup ({t} \X (1..Size[t]))
  BY DEF Content
<1>4. Content(S) \cap ({t} \X (1..Size[t])) = {}
  BY DEF Content
<1> DEFINE File == {t} \X (1..Size[t])
<1>5. /\ IsFiniteSet(Content(S) \cup File)
      /\ Cardinality(Content(S) \cup File) = Cardinality(Content(S)) + Cardinality(File)
  <2> HIDE DEF File
  <2>1. IsFiniteSet(File) /\ Content(S) \cap File = {}
    BY <1>2, <1>4 DEF File
  <2>2. QED
    BY <2>1, DisjointUnion
<1>6. QED
  BY <1>2, <1>3, <1>5, Zenon DEF Bytes

\* Without it they are fewer by as much.
LEMMA RemovedBytes ==
  ASSUME NEW S \in SUBSET Texts, NEW t \in S, IsFiniteSet(Content(S))
  PROVE  /\ IsFiniteSet(Content(S \ {t}))
         /\ Bytes(S \ {t}) = Bytes(S) - Size[t]
         /\ Size[t] <= Bytes(S)
<1>1. Size[t] \in Nat
  BY SizeAssumption
<1>2. IsFiniteSet(Content(S \ {t})) /\ Bytes(S \ {t}) \in Nat
  BY FewerBytes
<1>3. Bytes((S \ {t}) \cup {t}) = Bytes(S \ {t}) + Size[t]
  BY <1>2, AddedBytes
<1>4. (S \ {t}) \cup {t} = S
  OBVIOUS
<1>5. QED
  BY <1>1, <1>2, <1>3, <1>4

-----------------------------------------------------------------------------
(* Types, and what evict believes.                                         *)

\* The sentences whose files evict has seen live.
Seen(a) == {e.text : e \in items[a]}

\* What evict believes of the files it has seen: each counts once, and all of
\* them together for no more than the total.
Account(a) ==
  /\ names[a] \cap Seen(a) = {}
  /\ \A e, f \in items[a] : e.text = f.text => e = f
  /\ IsFiniteSet(Content(Seen(a)))
  /\ Bytes(Seen(a)) <= total[a]

Accounts == \A a \in Actors : Account(a)

Typed == TypeOK /\ now \in Nat

LEMMA SettledTypes ==
  ASSUME Typed, NEW a \in Actors, Succeed(a) \/ Fail(a)
  PROVE  /\ pc' \in [Actors -> Labels]
         /\ spec' \in Texts \cup {Tone}
         /\ attempt' \in 1..PreflightAttempts
<1>1. text[a] \in Texts /\ PreflightAttempts \in Nat /\ attempt \in 1..PreflightAttempts
  BY BoundsAssumption DEF Typed, TypeOK
<1>2. pc \in [Actors -> Labels]
  BY DEF Typed, TypeOK, Labels
<1>3. CASE Succeed(a)
  BY <1>1, <1>2, <1>3 DEF Succeed, Goto, Labels, Typed, TypeOK
<1>4. CASE Fail(a)
  BY <1>1, <1>2, <1>4 DEF Fail, Goto, Labels, Typed, TypeOK
<1>5. QED
  BY <1>3, <1>4

\* No file appears or changes, and what escapes an eviction is a file.
RestOnDisk ==
  /\ DOMAIN files' \subseteq DOMAIN files
  /\ \A t \in DOMAIN files' : files'[t] = files[t]
  /\ unswept' \subseteq Texts

LEMMA RestStays ==
  ASSUME Typed, NEW t, Remove(t) \/ Escapes(t) \/ UNCHANGED <<files, unswept>>
  PROVE  RestOnDisk
BY DEF RestOnDisk, Remove, Restrict, Escapes, Typed, TypeOK

LEMMA TypedStep ==
  ASSUME Typed, Accounts, NEW a \in Actors, Step(a) PROVE Typed'
<1> USE DEF Typed, TypeOK
<1>1. CASE Synthesize(a)
  <2>1. now' = now + 1 /\ now' \in Nat
    BY <1>1 DEF Synthesize
  <2>2. UNCHANGED <<disk, text, sweep, crashes, unswept, alone>>
    BY <1>1 DEF Synthesize
  <2>3. /\ pc' \in [Actors -> Labels]
        /\ spec' \in Texts \cup {Tone}
        /\ attempt' \in 1..PreflightAttempts
    BY <1>1, SettledTypes DEF Synthesize, Goto, Labels
  <2>4. 0..now \subseteq 0..now'
    BY <2>1
  <2>5. QED
    BY <2>1, <2>2, <2>3, <2>4 DEF disk, sweep, Labels
<1>2. CASE Stat(a)
  BY <1>2 DEF Stat, Goto, disk, sweep
<1>3. CASE Expire(a)
  <2>1. RestOnDisk
    BY <1>3, RestStays DEF Expire
  <2>2. QED
    BY <1>3, <2>1 DEF RestOnDisk, Expire, Goto, sweep
<1>4. CASE Touch(a)
  BY <1>4, SettledTypes DEF Touch, sweep, Labels
<1>5. CASE StoreFails(a)
  BY <1>5, SettledTypes DEF StoreFails, sweep, Labels
<1>6. CASE CreateTemp(a)
  BY <1>6 DEF CreateTemp, Goto, sweep
<1>7. CASE Write(a)
  BY <1>7 DEF Write, Goto, sweep
<1>8. CASE Rename(a)
  BY <1>8 DEF Rename, Put, Goto, sweep
<1>9. CASE ListFails(a) \/ List(a)
  <2>1. CASE ListFails(a)
    BY <2>1, SettledTypes DEF ListFails, disk, sweep, Labels
  <2>2. CASE List(a)
    BY <2>2 DEF List, Goto, disk
  <2>3. QED
    BY <1>9, <2>1, <2>2
<1>10. CASE InfoFails(a)
  <2>1. PICK t \in names[a] : Looked(a, t) /\ Escapes(t)
    BY <1>10 DEF InfoFails
  <2>2. RestOnDisk
    BY <2>1, RestStays
  <2>3. QED
    BY <1>10, <2>1, <2>2 DEF RestOnDisk, InfoFails, Looked
<1>11. CASE InfoLive(a)
  BY <1>11, SizeAssumption DEF InfoLive, Looked, disk
<1>12. CASE InfoExpired(a)
  BY <1>12 DEF InfoExpired, Looked, Goto, disk
<1>13. CASE Unlink(a)
  <2>1. RestOnDisk
    BY <1>13, RestStays DEF Unlink
  <2>2. QED
    BY <1>13, <2>1, ToneAssumption DEF RestOnDisk, Unlink, Goto
<1>14. CASE EvictOne(a) \/ EvictFails(a)
  <2>1. CASE EvictOne(a)
    <3>1. PICK e \in items[a] :
             /\ Remove(e.text)
             /\ items' = [items EXCEPT ![a] = @ \ {e}]
             /\ total' = [total EXCEPT ![a] = @ - Size[e.text]]
      BY <2>1 DEF EvictOne
    <3>2. total[a] - Size[e.text] \in Nat
      <4>1. e.text \in Seen(a) /\ Seen(a) \in SUBSET Texts
        BY DEF Seen
      <4>2. Size[e.text] <= Bytes(Seen(a)) /\ Bytes(Seen(a)) \in Nat
        BY <4>1, RemovedBytes, FewerBytes DEF Accounts, Account
      <4>3. Size[e.text] \in Nat /\ total[a] \in Nat /\ Bytes(Seen(a)) <= total[a]
        BY <4>1, SizeAssumption DEF Accounts, Account
      <4>4. QED
        BY <4>2, <4>3
    <3>3. total' \in [Actors -> Nat]
      BY <3>1, <3>2
    <3>4. items' \in [Actors -> SUBSET [text : Texts, used : 0..now]]
      BY <3>1
    <3>5. RestOnDisk
      BY <3>1, RestStays
    <3>6. UNCHANGED <<temp, wrote, now, pc, text, asof, names, victim, spec, attempt,
                      crashes, alone>>
      BY <2>1 DEF EvictOne
    <3>7. QED
      BY <3>3, <3>4, <3>5, <3>6 DEF RestOnDisk
  <2>2. CASE EvictFails(a)
    <3>1. PICK e \in items[a] :
             Escapes(e.text) /\ items' = [items EXCEPT ![a] = @ \ {e}]
      BY <2>2 DEF EvictFails
    <3>2. RestOnDisk
      BY <3>1, RestStays
    <3>3. items' \in [Actors -> SUBSET [text : Texts, used : 0..now]]
      BY <3>1
    <3>4. /\ UNCHANGED <<temp, wrote, now, pc, text, asof, names, total, victim, spec,
                         attempt, crashes>>
          /\ alone' \in BOOLEAN
      BY <2>2 DEF EvictFails
    <3>5. QED
      BY <3>2, <3>3, <3>4 DEF RestOnDisk
  <2>3. QED
    BY <1>14, <2>1, <2>2
<1>15. CASE EvictEnds(a)
  <2>1. UNCHANGED <<disk, now, text, names, victim, crashes, unswept, alone>>
    BY <1>15 DEF EvictEnds
  <2>2. /\ asof' = [asof EXCEPT ![a] = 0]
        /\ items' = [items EXCEPT ![a] = {}]
        /\ total' = [total EXCEPT ![a] = 0]
    BY <1>15 DEF EvictEnds
  <2>3. /\ pc' \in [Actors -> Labels]
        /\ spec' \in Texts \cup {Tone}
        /\ attempt' \in 1..PreflightAttempts
    BY <1>15, SettledTypes DEF EvictEnds
  <2>4. /\ asof' \in [Actors -> 0..now]
        /\ items' \in [Actors -> SUBSET [text : Texts, used : 0..now]]
        /\ total' \in [Actors -> Nat]
    BY <2>2
  <2>5. QED
    BY <2>1, <2>3, <2>4 DEF disk, Labels
<1>16. QED
  BY <1>1, <1>2, <1>3, <1>4, <1>5, <1>6, <1>7, <1>8, <1>9, <1>10, <1>11,
     <1>12, <1>13, <1>14, <1>15 DEF Step

\* A goroutine's account is its own.
LEMMA OthersKeepAccount ==
  ASSUME Typed, Accounts, NEW a \in Actors, Step(a), NEW b \in Actors \ {a}
  PROVE  Account(b)'
<1> USE DEF Typed, TypeOK
<1>1. names'[b] = names[b] /\ items'[b] = items[b] /\ total'[b] = total[b]
  BY DEF Step, Synthesize, Stat, Expire, Touch, StoreFails, CreateTemp, Write, Rename,
         ListFails, List, InfoFails, InfoLive, InfoExpired, Unlink, EvictOne,
         EvictFails, EvictEnds, Looked, sweep
<1>2. Seen(b)' = Seen(b)
  BY <1>1 DEF Seen
<1>3. QED
  BY <1>1, <1>2 DEF Accounts, Account, Bytes

LEMMA AccountsStep ==
  ASSUME Typed, Accounts, NEW a \in Actors, Step(a) PROVE Accounts'
<1> USE DEF Typed, TypeOK
<1> SUFFICES Account(a)'
  BY OthersKeepAccount DEF Accounts
<1>0. /\ names[a] \cap Seen(a) = {}
      /\ \A e, f \in items[a] : e.text = f.text => e = f
      /\ IsFiniteSet(Content(Seen(a)))
      /\ Bytes(Seen(a)) <= total[a]
      /\ Seen(a) \in SUBSET Texts
      /\ Bytes(Seen(a)) \in Nat
  <2>1. Account(a)
    BY DEF Accounts
  <2>2. Seen(a) \in SUBSET Texts
    BY DEF Seen
  <2>3. Bytes(Seen(a)) \in Nat
    BY <2>1, FewerBytes DEF Account
  <2>4. QED
    BY <2>1, <2>2, <2>3 DEF Account
<1>1. CASE items' = items /\ total' = total /\ names'[a] \subseteq names[a]
  <2>1. Seen(a)' = Seen(a)
    BY <1>1 DEF Seen
  <2>2. QED
    BY <1>0, <1>1, <2>1 DEF Account, Bytes
<1>2. CASE List(a) \/ EvictEnds(a)
  <2>1. items'[a] = {} /\ total'[a] = 0
    BY <1>2 DEF List, EvictEnds
  <2>2. Seen(a)' = {}
    BY <2>1 DEF Seen
  <2>3. QED
    BY <2>1, <2>2, NoBytes DEF Account, Bytes
<1>3. CASE InfoLive(a)
  <2>1. PICK t \in names[a] \cap DOMAIN files :
           /\ Looked(a, t)
           /\ items' = [items EXCEPT ![a] = @ \cup {[text |-> t, used |-> files[t].used]}]
           /\ total' = [total EXCEPT ![a] = @ + Size[t]]
    BY <1>3 DEF InfoLive
  <2>2. Seen(a)' = Seen(a) \cup {t} /\ t \notin Seen(a)
    <3>1. items'[a] = items[a] \cup {[text |-> t, used |-> files[t].used]}
      BY <2>1
    <3>2. Seen(a)' = Seen(a) \cup {t}
      <4>1. Seen(a)' = {e.text : e \in items'[a]}
        BY DEF Seen
      <4>2. [text |-> t, used |-> files[t].used].text = t
        OBVIOUS
      <4>3. QED
        BY <3>1, <4>1, <4>2 DEF Seen
    <3>3. QED
      BY <1>0, <3>2
  <2>3. names'[a] = names[a] \ {t}
    BY <2>1 DEF Looked
  <2>4. /\ IsFiniteSet(Content(Seen(a)'))
        /\ Bytes(Seen(a)') = Bytes(Seen(a)) + Size[t]
    BY <1>0, <2>2, AddedBytes
  <2>5. \A e, f \in items'[a] : e.text = f.text => e = f
    BY <1>0, <2>1, <2>2 DEF Seen
  <2>6. total'[a] = total[a] + Size[t] /\ Size[t] \in Nat
    BY <2>1, SizeAssumption
  <2>7. Bytes(Seen(a)') <= total'[a]
    BY <1>0, <2>4, <2>6
  <2>8. names'[a] \cap Seen(a)' = {}
    BY <1>0, <2>2, <2>3
  <2>9. QED
    BY <2>4, <2>5, <2>7, <2>8 DEF Account, Bytes
<1>4. CASE EvictOne(a) \/ EvictFails(a)
  <2>1. PICK e \in items[a] :
           /\ items' = [items EXCEPT ![a] = @ \ {e}]
           /\ total' = total \/ total' = [total EXCEPT ![a] = @ - Size[e.text]]
    BY <1>4 DEF EvictOne, EvictFails
  <2>2. Seen(a)' = Seen(a) \ {e.text} /\ e.text \in Seen(a)
    BY <1>0, <2>1 DEF Seen
  <2>3. /\ IsFiniteSet(Content(Seen(a)'))
        /\ Bytes(Seen(a)') = Bytes(Seen(a)) - Size[e.text]
    BY <1>0, <2>2, RemovedBytes
  <2>4. Size[e.text] \in Nat
    BY <1>0, <2>2, SizeAssumption
  <2>5. Bytes(Seen(a)') <= total'[a]
    BY <1>0, <2>1, <2>3, <2>4
  <2>6. names' = names
    BY <1>4 DEF EvictOne, EvictFails
  <2>7. QED
    BY <1>0, <2>1, <2>2, <2>3, <2>5, <2>6 DEF Account, Bytes
<1>5. CASE InfoFails(a) \/ InfoExpired(a)
  BY <1>5, <1>1 DEF InfoFails, InfoExpired, Looked
<1>6. CASE UNCHANGED <<names, items, total>>
  BY <1>6, <1>1
<1>7. QED
  BY <1>2, <1>3, <1>4, <1>5, <1>6
     DEF Step, Synthesize, Stat, Expire, Touch, StoreFails, CreateTemp, Write, Rename,
         ListFails, Unlink, sweep

\* A clock that goes on keeps the types.
LEMMA LaterTypes ==
  ASSUME Typed, now' = now + 1 PROVE now' \in Nat /\ 0..now \subseteq 0..now'
BY DEF Typed

LEMMA TypesCorrect == Spec => [](Typed /\ Accounts)
<1>1. Init => Typed /\ Accounts
  <2> SUFFICES ASSUME Init PROVE Typed /\ Accounts
    OBVIOUS
  <2>1. Typed
    <3>1. 0 \in 0..now /\ now \in Nat
      BY DEF Init
    <3>2. attempt \in 1..PreflightAttempts /\ crashes \in 0..MaxCrashes
      BY BoundsAssumption DEF Init
    <3>3. DOMAIN files = {}
      BY DEF Init
    <3>4. wrote \in [Actors -> 0..now] /\ asof \in [Actors -> 0..now]
      BY <3>1 DEF Init
    <3>5. pc \in [Actors -> Labels]
      BY StartLabel DEF Init
    <3>6. /\ text \in [Actors -> Texts] /\ victim \in [Actors -> Texts]
          /\ temp \in [Actors -> {"none", "partial", "whole"}]
          /\ names \in [Actors -> SUBSET Texts]
          /\ items \in [Actors -> SUBSET [text : Texts, used : 0..now]]
          /\ total \in [Actors -> Nat]
          /\ spec \in Texts \cup {Tone} /\ unswept \subseteq Texts /\ alone \in BOOLEAN
      BY ToneAssumption DEF Init
    <3>7. QED
      BY <3>1, <3>2, <3>3, <3>4, <3>5, <3>6 DEF Typed, TypeOK, Labels
  <2>2. ASSUME NEW a \in Actors PROVE Account(a)
    <3>1. Seen(a) = {} /\ total[a] = 0 /\ items[a] = {}
      BY <2>2 DEF Init, Seen
    <3>2. QED
      BY <3>1, NoBytes DEF Account
  <2>3. QED
    BY <2>1, <2>2 DEF Accounts
<1>2. Typed /\ Accounts /\ [Next]_vars => Typed' /\ Accounts'
  <2> SUFFICES ASSUME Typed, Accounts, [Next]_vars PROVE Typed' /\ Accounts'
    OBVIOUS
  <2>0. ASSUME UNCHANGED <<names, items, total>> PROVE Accounts'
    BY <2>0 DEF Accounts, Account, Seen, Bytes
  <2>1. CASE Begin
    BY <2>0, <2>1 DEF Typed, TypeOK, Begin, Goto, disk, sweep, Actors
  <2>2. CASE PlayEnds
    BY <2>0, <2>2, ToneAssumption DEF Typed, TypeOK, PlayEnds, Goto, disk, sweep
  <2>3. CASE \E a \in Actors : Step(a)
    BY <2>3, TypedStep, AccountsStep
  <2>4. CASE Tick
    <3>1. now' \in Nat /\ 0..now \subseteq 0..now'
      BY <2>4, LaterTypes DEF Tick
    <3>2. UNCHANGED <<disk, pc, text, sweep, spec, attempt, crashes, unswept>>
      BY <2>4 DEF Tick
    <3>3. alone' \in BOOLEAN
      BY <2>4 DEF Tick, Typed, TypeOK
    <3>4. QED
      BY <2>0, <3>1, <3>2, <3>3 DEF Typed, TypeOK, disk, sweep
  <2>5. CASE Crash
    <3>1. Typed'
      <4>1. now' = now /\ files' = files /\ now \in Nat /\ 0 \in 0..now
        BY <2>5 DEF Crash, Typed, TypeOK
      <4>2. /\ pc' \in [Actors -> Labels] /\ crashes' \in 0..MaxCrashes
            /\ attempt' \in 1..PreflightAttempts
        BY <2>5, StartLabel, BoundsAssumption DEF Crash, Typed, TypeOK
      <4>3. unswept' \subseteq Texts
        BY <2>5 DEF Crash, Typed, TypeOK
      <4>4. /\ wrote' \in [Actors -> 0..now] /\ asof' \in [Actors -> 0..now]
            /\ text' \in [Actors -> Texts] /\ victim' \in [Actors -> Texts]
            /\ temp' \in [Actors -> {"none", "partial", "whole"}]
            /\ names' \in [Actors -> SUBSET Texts]
            /\ items' \in [Actors -> SUBSET [text : Texts, used : 0..now]]
            /\ total' \in [Actors -> Nat]
            /\ spec' \in Texts \cup {Tone} /\ alone' \in BOOLEAN
        BY <2>5, <4>1, ToneAssumption DEF Crash
      <4>5. QED
        BY <4>1, <4>2, <4>3, <4>4 DEF Typed, TypeOK, Labels
    <3>2. ASSUME NEW a \in Actors PROVE Account(a)'
      <4>1. items'[a] = {} /\ total'[a] = 0
        BY <2>5 DEF Crash
      <4>2. Seen(a)' = {}
        BY <4>1 DEF Seen
      <4>3. QED
        BY <4>1, <4>2, NoBytes DEF Account, Bytes
    <3>3. QED
      BY <3>1, <3>2 DEF Accounts
  <2>6. CASE Waiting \/ UNCHANGED vars
    BY <2>0, <2>6 DEF Typed, TypeOK, Waiting, vars, disk, sweep
  <2>7. QED
    BY <2>1, <2>2, <2>3, <2>4, <2>5, <2>6 DEF Next
<1>3. QED
  BY <1>1, <1>2, PTL DEF Spec

\* The states of SpeechCache are well typed: evict never believes the cache to
\* hold less than nothing, whatever others remove of what it has counted.
THEOREM TypeCorrect == Spec => []TypeOK
<1>1. Typed => TypeOK
  BY DEF Typed
<1>2. QED
  BY <1>1, TypesCorrect, PTL

-----------------------------------------------------------------------------
(* The limit.                                                              *)

\* What has been stored and not swept yet: its eviction has not begun.
Fresh == {text[a] : a \in {b \in Actors : pc[b] = "list"}}

\* The files that evictions have had to account for.
Due == DOMAIN files \ (unswept \cup Fresh)

\* An eviction that will have looked at all of them.
Covers(a) ==
  \/ pc[a] = "info" /\ Due \subseteq names[a] \cup Seen(a)
  \/ pc[a] = "unlink" /\ Due \subseteq names[a] \cup Seen(a) \cup {victim[a]}

\* Of the goroutines that are evicting, the one that listed the directory last
\* covers it, whatever the others store and remove meanwhile.
Swept ==
  /\ IsFiniteSet(Content(DOMAIN files))
  /\ IsFiniteSet(Content(unswept))
  /\ MaxBytes > 0 => \/ Bytes(Due) <= MaxBytes
                     \/ \E a \in Actors : Covers(a)

\* One file more, or fewer.
LEMMA MoreContent ==
  ASSUME NEW S \in SUBSET Texts, NEW t \in Texts, IsFiniteSet(Content(S))
  PROVE  IsFiniteSet(Content(S \cup {t})) /\ IsFiniteSet(Content(S \ {t}))
<1>1. CASE t \in S
  <2>1. S \cup {t} = S
    BY <1>1
  <2>2. QED
    BY <2>1, FewerBytes
<1>2. CASE t \notin S
  BY <1>2, AddedBytes, FewerBytes
<1>3. QED
  BY <1>1, <1>2

LEMMA DueBytes ==
  ASSUME Swept PROVE Bytes(Due) \in Nat /\ IsFiniteSet(Content(Due))
<1>1. Due \subseteq DOMAIN files
  BY DEF Due
<1>2. QED
  BY <1>1, FewerBytes DEF Swept

\* A step that leaves no more to account for and every sweep as good as it was.
LEMMA SweptKept ==
  ASSUME Swept, Due' \subseteq Due,
         IsFiniteSet(Content(DOMAIN files)'), IsFiniteSet(Content(unswept)'),
         \A b \in Actors : Covers(b) => Covers(b)'
  PROVE  Swept'
<1>1. Bytes(Due') \in Nat /\ Bytes(Due) \in Nat /\ Bytes(Due') <= Bytes(Due)
  BY DueBytes, FewerBytes
<1>2. Bytes(Due) <= MaxBytes => Bytes(Due') <= MaxBytes
  BY <1>1, LimitsAssumption
<1>3. QED
  BY <1>2 DEF Swept, Bytes

\* What is on disk and what has escaped stays finite: a step stores or exempts one
\* sentence at most.
LEMMA FiniteStep ==
  ASSUME Typed, Swept, NEW a \in Actors, Step(a)
  PROVE  IsFiniteSet(Content(DOMAIN files)') /\ IsFiniteSet(Content(unswept)')
<1> USE DEF Typed, TypeOK
<1>1. \E t \in Texts : DOMAIN files' \subseteq DOMAIN files \cup {t}
  <2>1. text[a] \in Texts
    OBVIOUS
  <2>2. CASE Rename(a)
    BY <2>1, <2>2 DEF Rename, Put
  <2>3. CASE ~Rename(a)
    BY <2>1, <2>3
       DEF Step, Synthesize, Stat, Expire, Touch, StoreFails, CreateTemp, Write,
           ListFails, List, InfoFails, InfoLive, InfoExpired, Unlink, EvictOne,
           EvictFails, EvictEnds, Remove, Restrict, Escapes, disk
  <2>4. QED
    BY <2>2, <2>3
<1>2. \E t \in Texts : unswept' \subseteq unswept \cup {t}
  <2>1. text[a] \in Texts
    OBVIOUS
  <2>2. QED
    BY <2>1
       DEF Step, Synthesize, Stat, Expire, Touch, StoreFails, CreateTemp, Write, Rename,
           ListFails, List, InfoFails, InfoLive, InfoExpired, Unlink, EvictOne,
           EvictFails, EvictEnds, Remove, Escapes
<1>3. /\ \A t \in Texts : IsFiniteSet(Content(DOMAIN files \cup {t}))
      /\ \A t \in Texts : IsFiniteSet(Content(unswept \cup {t}))
  BY MoreContent DEF Swept
<1>4. /\ IsFiniteSet(Content(DOMAIN files'))
      /\ IsFiniteSet(Content(unswept'))
  BY <1>1, <1>2, <1>3, FewerBytes
<1>5. QED
  BY <1>4

\* What a goroutine sweeps is not disturbed by what the others do, but for a new
\* listing.
LEMMA OthersSweep ==
  ASSUME Typed, NEW a \in Actors, Step(a), NEW b \in Actors \ {a},
         Due' \subseteq Due, Covers(b)
  PROVE  Covers(b)'
<1> USE DEF Typed, TypeOK
<1>1. names'[b] = names[b] /\ items'[b] = items[b] /\ victim'[b] = victim[b]
  BY DEF Step, Synthesize, Stat, Expire, Touch, StoreFails, CreateTemp, Write, Rename,
         ListFails, List, InfoFails, InfoLive, InfoExpired, Unlink, EvictOne,
         EvictFails, EvictEnds, Looked, sweep
<1>2. pc'[b] = pc[b]
  BY DEF Step, Synthesize, Stat, Expire, Touch, StoreFails, CreateTemp, Write, Rename,
         ListFails, List, InfoFails, InfoLive, InfoExpired, Unlink, EvictOne,
         EvictFails, EvictEnds, Goto, Succeed, Fail
<1>3. Seen(b)' = Seen(b)
  BY <1>1 DEF Seen
<1>4. QED
  BY <1>1, <1>2, <1>3 DEF Covers

\* What is due when a goroutine goes on with nothing fresh of its own.
LEMMA StillDue ==
  ASSUME Typed, NEW a \in Actors, pc[a] # "list", text' = text,
         \A b \in Actors \ {a} : pc'[b] = pc[b]
  PROVE  Fresh \subseteq Fresh'
BY DEF Fresh

LEMMA SweptStep ==
  ASSUME Typed, Accounts, Swept, NEW a \in Actors, Step(a) PROVE Swept'
<1> USE DEF Typed, TypeOK
<1>1. IsFiniteSet(Content(DOMAIN files)') /\ IsFiniteSet(Content(unswept)')
  BY FiniteStep
<1>2. ASSUME Due' \subseteq Due, Covers(a) => Covers(a)' PROVE Swept'
  <2>1. \A b \in Actors : Covers(b) => Covers(b)'
    BY <1>2, OthersSweep
  <2>2. QED
    BY <1>1, <1>2, <2>1, SweptKept
<1>3. text' = text /\ \A b \in Actors \ {a} : pc'[b] = pc[b]
  BY DEF Step, Synthesize, Stat, Expire, Touch, StoreFails, CreateTemp, Write, Rename,
         ListFails, List, InfoFails, InfoLive, InfoExpired, Unlink, EvictOne,
         EvictFails, EvictEnds, Goto, Succeed, Fail
<1>4. ASSUME pc[a] # "list", DOMAIN files' \ unswept' \subseteq DOMAIN files \ unswept
      PROVE  Due' \subseteq Due
  <2>1. Fresh \subseteq Fresh'
    BY <1>3, <1>4, StillDue
  <2>2. QED
    BY <1>4, <2>1 DEF Due
<1>5. CASE Synthesize(a) \/ Stat(a) \/ Touch(a) \/ StoreFails(a) \/ CreateTemp(a)
             \/ Write(a) \/ Expire(a)
  <2>1. pc[a] \notin {"list", "info", "unlink"}
    BY <1>5 DEF Synthesize, Stat, Touch, StoreFails, CreateTemp, Write, Expire
  <2>2. DOMAIN files' \ unswept' \subseteq DOMAIN files \ unswept
    BY <1>5 DEF Synthesize, Stat, Touch, StoreFails, CreateTemp, Write, Expire, Remove,
                Restrict, disk
  <2>3. ~Covers(a)
    BY <2>1 DEF Covers
  <2>4. QED
    BY <1>2, <1>4, <2>1, <2>2, <2>3
<1>6. CASE Rename(a)
  <2>1. /\ pc[a] = "rename" /\ pc'[a] = "list" /\ unswept' = unswept
        /\ DOMAIN files' = DOMAIN files \cup {text[a]}
    BY <1>6 DEF Rename, Put, Goto
  <2>2. Fresh \subseteq Fresh'
    BY <1>3, <2>1, StillDue
  <2>3. text[a] \in Fresh'
    BY <1>3, <2>1 DEF Fresh
  <2>4. Due' \subseteq Due
    BY <2>1, <2>2, <2>3 DEF Due
  <2>5. ~Covers(a)
    BY <2>1 DEF Covers
  <2>6. QED
    BY <1>2, <2>4, <2>5
<1>7. CASE ListFails(a)
  <2>1. pc[a] = "list" /\ files' = files /\ unswept' = unswept \cup {text[a]}
    BY <1>7 DEF ListFails, disk
  <2>2. Fresh \subseteq Fresh' \cup {text[a]}
    BY <1>3 DEF Fresh
  <2>3. Due' \subseteq Due
    BY <2>1, <2>2 DEF Due
  <2>4. ~Covers(a)
    BY <2>1 DEF Covers
  <2>5. QED
    BY <1>2, <2>3, <2>4
<1>8. CASE List(a)
  <2>1. files' = files /\ names'[a] = DOMAIN files /\ pc'[a] = "info"
    BY <1>8 DEF List, disk, Goto
  <2>2. Due' \subseteq names'[a]
    BY <2>1 DEF Due
  <2>3. Covers(a)'
    BY <2>1, <2>2 DEF Covers
  <2>4. QED
    BY <1>1, <2>3 DEF Swept
<1>9. CASE InfoFails(a)
  <2>1. PICK t \in names[a] : Looked(a, t) /\ Escapes(t)
    BY <1>9 DEF InfoFails
  <2>2. /\ names'[a] = names[a] \ {t} /\ pc' = pc /\ pc[a] = "info"
        /\ files' = files /\ unswept' = unswept \cup ({t} \cap DOMAIN files)
        /\ Seen(a)' = Seen(a)
    BY <1>9, <2>1 DEF InfoFails, Looked, Escapes, Seen
  <2>3. Due' \subseteq Due
    BY <1>4, <2>2
  <2>4. t \notin Due'
    BY <2>2 DEF Due
  <2>5. Covers(a) => Covers(a)'
    BY <2>2, <2>3, <2>4 DEF Covers
  <2>6. QED
    BY <1>2, <2>3, <2>5
<1>10. CASE InfoLive(a)
  <2>1. PICK t \in names[a] \cap DOMAIN files :
           /\ Looked(a, t)
           /\ items' = [items EXCEPT ![a] = @ \cup {[text |-> t, used |-> files[t].used]}]
    BY <1>10 DEF InfoLive
  <2>2. /\ names'[a] = names[a] \ {t} /\ pc' = pc /\ pc[a] = "info"
        /\ files' = files /\ unswept' = unswept
    BY <1>10, <2>1 DEF InfoLive, Looked, disk
  <2>3. t \in Seen(a)' /\ Seen(a) \subseteq Seen(a)'
    <3>1. items'[a] = items[a] \cup {[text |-> t, used |-> files[t].used]}
      BY <2>1
    <3>2. Seen(a)' = {e.text : e \in items'[a]}
      BY DEF Seen
    <3>3. [text |-> t, used |-> files[t].used].text = t
      OBVIOUS
    <3>4. QED
      BY <3>1, <3>2, <3>3 DEF Seen
  <2>4. Due' \subseteq Due
    BY <1>4, <2>2
  <2>5. Covers(a) => Covers(a)'
    BY <2>2, <2>3, <2>4 DEF Covers
  <2>6. QED
    BY <1>2, <2>4, <2>5
<1>11. CASE InfoExpired(a)
  <2>1. PICK t \in names[a] \cap DOMAIN files :
           Looked(a, t) /\ victim' = [victim EXCEPT ![a] = t]
    BY <1>11 DEF InfoExpired
  <2>2. /\ names'[a] = names[a] \ {t} /\ victim'[a] = t
        /\ files' = files /\ unswept' = unswept
    BY <1>11, <2>1 DEF InfoExpired, Looked, disk
  <2>3. Seen(a)' = Seen(a) /\ pc'[a] = "unlink" /\ pc[a] = "info"
    BY <1>11 DEF InfoExpired, Seen, Goto
  <2>4. Due' \subseteq Due
    BY <1>4, <2>2, <2>3
  <2>5. Covers(a) => Covers(a)'
    BY <2>2, <2>3, <2>4 DEF Covers
  <2>6. QED
    BY <1>2, <2>4, <2>5
<1>12. CASE Unlink(a)
  <2>1. /\ names'[a] = names[a] /\ Seen(a)' = Seen(a)
        /\ pc[a] = "unlink" /\ pc'[a] = "info"
    BY <1>12 DEF Unlink, Seen, Goto
  <2>2. /\ DOMAIN files' \ unswept' \subseteq DOMAIN files \ unswept
        /\ victim[a] \notin DOMAIN files' \ unswept'
    BY <1>12 DEF Unlink, Remove, Restrict, Escapes
  <2>3. Due' \subseteq Due
    BY <1>4, <2>1, <2>2
  <2>4. victim[a] \notin Due'
    BY <2>2 DEF Due
  <2>5. Covers(a) => Covers(a)'
    BY <2>1, <2>3, <2>4 DEF Covers
  <2>6. QED
    BY <1>2, <2>3, <2>5
<1>13. CASE EvictOne(a) \/ EvictFails(a)
  <2>1. PICK e \in items[a] :
           /\ Remove(e.text) \/ Escapes(e.text)
           /\ items' = [items EXCEPT ![a] = @ \ {e}]
    BY <1>13 DEF EvictOne, EvictFails
  <2>2. /\ DOMAIN files' \ unswept' \subseteq DOMAIN files \ unswept
        /\ e.text \notin DOMAIN files' \ unswept'
    BY <2>1 DEF Remove, Restrict, Escapes
  <2>3. Seen(a) \ {e.text} \subseteq Seen(a)'
    BY <1>13, <2>1 DEF Seen
  <2>4. names' = names /\ pc' = pc /\ pc[a] = "info"
    BY <1>13 DEF EvictOne, EvictFails
  <2>5. Due' \subseteq Due
    BY <1>4, <2>2, <2>4
  <2>6. e.text \notin Due'
    BY <2>2 DEF Due
  <2>7. Covers(a) => Covers(a)'
    BY <2>3, <2>4, <2>5, <2>6 DEF Covers
  <2>8. QED
    BY <1>2, <2>5, <2>7
<1>14. CASE EvictEnds(a)
  <2>1. /\ files' = files /\ unswept' = unswept /\ pc[a] = "info" /\ names[a] = {}
    BY <1>14 DEF EvictEnds, disk
  <2>2. Due' \subseteq Due
    BY <1>4, <2>1
  <2>3. MaxBytes > 0 /\ Covers(a) => Bytes(Due) <= MaxBytes
    <3> SUFFICES ASSUME MaxBytes > 0, Covers(a) PROVE Bytes(Due) <= MaxBytes
      OBVIOUS
    <3>1. Due \subseteq Seen(a)
      BY <2>1 DEF Covers
    <3>2. CASE items[a] = {}
      <4>1. Due = {}
        BY <3>1, <3>2 DEF Seen
      <4>2. QED
        BY <4>1, NoBytes, LimitsAssumption
    <3>3. CASE items[a] # {}
      <4>1. total[a] <= MaxBytes
        BY <1>14, <3>3 DEF EvictEnds
      <4>2. IsFiniteSet(Content(Seen(a))) /\ Bytes(Seen(a)) <= total[a]
        BY DEF Accounts, Account
      <4>3. Bytes(Due) <= Bytes(Seen(a)) /\ Bytes(Due) \in Nat
        BY <3>1, <4>2, FewerBytes
      <4>4. Bytes(Seen(a)) \in Nat /\ total[a] \in Nat
        BY <4>2, FewerBytes
      <4>5. QED
        BY <4>1, <4>3, <4>2, <4>4, LimitsAssumption
    <3>4. QED
      BY <3>2, <3>3
  <2>4. ASSUME NEW b \in Actors, b # a, Covers(b) PROVE Covers(b)'
    BY <2>2, <2>4, OthersSweep
  <2>5. Bytes(Due') <= Bytes(Due) /\ Bytes(Due') \in Nat /\ Bytes(Due) \in Nat
    BY <2>2, DueBytes, FewerBytes
  <2>6. Bytes(Due) <= MaxBytes => Bytes(Due') <= MaxBytes
    BY <2>5, LimitsAssumption
  <2>7. QED
    BY <1>1, <2>3, <2>4, <2>6 DEF Swept, Bytes
<1>15. QED
  BY <1>5, <1>6, <1>7, <1>8, <1>9, <1>10, <1>11, <1>12, <1>13, <1>14 DEF Step

LEMMA SweptCorrect == Spec => []Swept
<1>1. Init => Swept
  <2> SUFFICES ASSUME Init PROVE Swept
    OBVIOUS
  <2>1. DOMAIN files = {} /\ unswept = {} /\ Due = {}
    BY DEF Init, Due
  <2>2. QED
    BY <2>1, NoBytes, LimitsAssumption DEF Swept
<1>2. Typed /\ Accounts /\ Swept /\ [Next]_vars => Swept'
  <2> SUFFICES ASSUME Typed, Accounts, Swept, [Next]_vars PROVE Swept'
    OBVIOUS
  <2>1. CASE \E a \in Actors : Step(a)
    BY <2>1, SweptStep
  <2>2. CASE Begin \/ PlayEnds
    <3>1. UNCHANGED <<disk, sweep, unswept>>
      BY <2>2 DEF Begin, PlayEnds
    <3>2. /\ pc["pager"] \in {"idle", "play"} /\ pc'["pager"] \in {"idle", "play", "stat"}
          /\ pc'["preflight"] = pc["preflight"] /\ text'["preflight"] = text["preflight"]
      BY <2>2 DEF Begin, PlayEnds, Goto, Typed, TypeOK, Actors
    <3>3. Fresh' = Fresh
      BY <3>2 DEF Fresh, Actors
    <3>4. Due' = Due
      BY <3>1, <3>3 DEF Due, disk
    <3>5. \A b \in Actors : Covers(b) => Covers(b)'
      BY <3>1, <3>2, <3>4 DEF Covers, Seen, Actors, sweep
    <3>6. QED
      BY <3>1, <3>4, <3>5 DEF Swept, disk, Bytes, Content
  <2>3. CASE Crash
    <3>1. \A a \in Actors : pc'[a] # "list"
      BY <2>3 DEF Crash, Start
    <3>2. Fresh' = {}
      BY <3>1 DEF Fresh
    <3>3. files' = files
      BY <2>3 DEF Crash
    <3>4. CASE \E a \in Actors : Evicting(a)
      <4>1. unswept' = DOMAIN files
        BY <2>3, <3>4 DEF Crash
      <4>2. Due' = {}
        BY <3>3, <4>1 DEF Due
      <4>3. QED
        BY <3>3, <4>1, <4>2, NoBytes, LimitsAssumption DEF Swept, Bytes
    <3>5. CASE ~\E a \in Actors : Evicting(a)
      <4>1. unswept' = unswept
        BY <2>3, <3>5 DEF Crash
      <4>2. Fresh = {} /\ \A a \in Actors : ~Covers(a)
        BY <3>5 DEF Fresh, Evicting, Covers
      <4>3. Due' = Due
        BY <3>2, <3>3, <4>1, <4>2 DEF Due
      <4>4. QED
        BY <3>3, <4>1, <4>2, <4>3 DEF Swept, Bytes
    <3>6. QED
      BY <3>4, <3>5
  <2>4. CASE Tick \/ Waiting \/ UNCHANGED vars
    <3>1. UNCHANGED <<files, pc, text, names, items, victim, unswept>>
      BY <2>4 DEF Tick, Waiting, vars, disk, sweep
    <3>2. QED
      BY <3>1 DEF Swept, Covers, Due, Fresh, Seen, Bytes
  <2>5. QED
    BY <2>1, <2>2, <2>3, <2>4 DEF Next
<1>3. QED
  BY <1>1, <1>2, TypesCorrect, PTL DEF Spec

\* However stores, sweeps and removals of the two goroutines interleave and fail,
\* the cache is within max_bytes when no sweep is under way, but for what the sweeps
\* since the last listing could not look at or remove, what was stored when the
\* directory could not be read, and what a crash amid a sweep left.
THEOREM WithinLimitCorrect == Spec => []WithinLimit
<1>1. Swept => WithinLimit
  <2> SUFFICES ASSUME Swept, MaxBytes > 0, \A a \in Actors : ~Evicting(a)
               PROVE  Bytes(DOMAIN files \ unswept) <= MaxBytes
    BY DEF WithinLimit
  <2>1. Fresh = {} /\ \A a \in Actors : ~Covers(a)
    BY DEF Fresh, Covers, Evicting
  <2>2. Due = DOMAIN files \ unswept
    BY <2>1 DEF Due
  <2>3. QED
    BY <2>1, <2>2 DEF Swept
<1>2. QED
  BY <1>1, SweptCorrect, PTL

-----------------------------------------------------------------------------
(* A page alone.                                                           *)

Fits == \A t \in Texts : MaxBytes = 0 \/ Size[t] <= MaxBytes

\* The sentence the page speaks, and its file: used after all the others.
Own == text["pager"]
OwnIsNewest ==
  /\ Own \in DOMAIN files
  /\ \A t \in DOMAIN files \ {Own} : files[t].used < files[Own].used

\* The bytes the page's eviction believes in are those of the files it has seen,
\* until one of them cannot be removed.  From then on it has nothing left to look
\* at, and the page's own sentence fits beside what cannot be removed.
TotalIsSeen == total["pager"] = Bytes(Seen("pager"))
TotalWithEscaped ==
  /\ pc["pager"] = "info" /\ names["pager"] = {}
  /\ total["pager"] <= Bytes(Seen("pager") \cup unswept)
  /\ Bytes({Own} \cup unswept) <= MaxBytes

\* The page's eviction finds its own file fresh.  What it has seen is still there
\* as it was seen.
SeenAsIs ==
  /\ ~Expired(files[Own].used, asof["pager"])
  /\ \A e \in items["pager"] : e.text \in DOMAIN files /\ e.used = files[e.text].used
  /\ TotalIsSeen \/ TotalWithEscaped

\* How a page goes that nothing else disturbs.
Calm ==
  /\ pc["preflight"] = "done"
  /\ pc["pager"] = "touch" => Own \in DOMAIN files
  /\ pc["pager"] = "create" => \A t \in DOMAIN files : files[t].used < now
  /\ pc["pager"] \in {"write", "rename"} =>
       \A t \in DOMAIN files : files[t].used < wrote["pager"]
  /\ pc["pager"] = "rename" => ~Expired(wrote["pager"], now)
  /\ pc["pager"] = "list" => ~Expired(files[Own].used, now)
  /\ Evicting("pager") => OwnIsNewest
  /\ pc["pager"] \in {"info", "unlink"} => SeenAsIs
  /\ pc["pager"] = "unlink" => victim["pager"] \notin Seen("pager") \cup {Own}
  /\ pc["pager"] = "play" => spec \in DOMAIN files \cup {Tone}

Undisturbed == alone /\ pc["pager"] # "idle" => Calm

\* A single file has its own bytes.
LEMMA OneFile == ASSUME NEW t \in Texts PROVE Bytes({t}) = Size[t]
<1>1. {} \in SUBSET Texts /\ t \notin {} /\ {} \cup {t} = {t}
  OBVIOUS
<1>2. Bytes({} \cup {t}) = Bytes({}) + Size[t]
  BY <1>1, NoBytes, AddedBytes, Zenon
<1>3. Size[t] \in Nat
  BY SizeAssumption
<1>4. QED
  BY <1>1, <1>2, <1>3, NoBytes

\* Where the page has its audio or does without.
LEMMA CalmSettled ==
  ASSUME Typed, pc["preflight"] = "done",
         \/ Succeed("pager") /\ text["pager"] \in DOMAIN files'
         \/ Fail("pager")
  PROVE  Calm'
<1>1. /\ pc'["preflight"] = "done" /\ pc'["pager"] = "play"
      /\ spec' \in DOMAIN files' \cup {Tone}
  BY DEF Typed, TypeOK, Actors, Succeed, Fail, Goto
<1>2. QED
  BY <1>1 DEF Calm, Evicting

\* The step of an eviction that leaves the page's own file alone.
LEMMA NewestKept ==
  ASSUME OwnIsNewest, NEW t, t # Own, Remove(t), text' = text
  PROVE  /\ OwnIsNewest'
         /\ DOMAIN files' = DOMAIN files \ {t}
         /\ \A x \in DOMAIN files' : files'[x] = files[x]
<1>1. /\ DOMAIN files' = DOMAIN files \ {t}
      /\ \A x \in DOMAIN files' : files'[x] = files[x]
  BY DEF Remove, Restrict
<1>2. Own' = Own /\ Own \in DOMAIN files'
  BY <1>1 DEF Own, OwnIsNewest
<1>3. QED
  BY <1>1, <1>2 DEF OwnIsNewest

\* What an eviction has seen or what a page speaks, together with what has escaped.
LEMMA EscapedBytes ==
  ASSUME Typed, Swept, NEW S \in SUBSET Texts,
         IsFiniteSet(Content(S)) \/ \E t \in Texts : S = {t}
  PROVE  /\ S \cup unswept \in SUBSET Texts
         /\ IsFiniteSet(Content(S \cup unswept))
         /\ Bytes(S \cup unswept) \in Nat
<1>1. unswept \in SUBSET Texts /\ IsFiniteSet(Content(unswept))
  BY DEF Typed, TypeOK, Swept
<1>2. IsFiniteSet(Content(S \cup unswept))
  <2>1. CASE IsFiniteSet(Content(S))
    <3>1. Content(S \cup unswept) = Content(S) \cup Content(unswept)
      BY DEF Content
    <3>2. IsFiniteSet(Content(S) \cup Content(unswept))
      BY <1>1, <2>1, FS_Union
    <3>3. QED
      BY <3>1, <3>2
  <2>2. CASE \E t \in Texts : S = {t}
    <3>1. PICK t \in Texts : S = {t}
      BY <2>2
    <3>2. S \cup unswept = unswept \cup {t}
      BY <3>1
    <3>3. QED
      BY <1>1, <3>2, MoreContent
  <2>3. QED
    BY <2>1, <2>2
<1>3. QED
  BY <1>1, <1>2, FewerBytes

LEMMA CalmStep ==
  ASSUME Typed, Accounts, Swept, Fits, Calm, Step("pager"), alone' PROVE Calm'
<1> USE DEF Typed, TypeOK
<1> DEFINE a == "pager"
<1>0. a \in Actors /\ pc["preflight"] = "done" /\ now \in Nat
  BY DEF Calm, Actors
<1>1. ASSUME NEW l, Goto(a, l) PROVE pc'[a] = l /\ pc'["preflight"] = "done"
  BY <1>0, <1>1 DEF Goto
<1>2. CASE Synthesize(a)
  <2>1. CASE Fail(a)
    BY <1>0, <2>1, CalmSettled
  <2>2. CASE Goto(a, "create")
    <3>1. pc'[a] = "create" /\ pc'["preflight"] = "done"
      BY <1>1, <2>2
    <3>2. now' = now + 1 /\ files' = files
      BY <1>2 DEF Synthesize, disk
    <3>3. \A t \in DOMAIN files' : files'[t].used < now'
      BY <1>0, <3>2
    <3>4. QED
      BY <3>1, <3>3 DEF Calm, Evicting
  <2>3. QED
    BY <1>2, <2>1, <2>2 DEF Synthesize
<1>3. CASE Stat(a)
  <2>1. /\ files' = files /\ text' = text
        /\ \/ Goto(a, "synthesize") \/ Goto(a, "expire")
           \/ Goto(a, "touch") /\ text[a] \in DOMAIN files
    BY <1>3 DEF Stat, disk
  <2>2. pc'[a] \in {"synthesize", "expire", "touch"} /\ pc'["preflight"] = "done"
    BY <1>1, <2>1
  <2>3. pc'[a] = "touch" => Own' \in DOMAIN files'
    BY <1>1, <2>1 DEF Own
  <2>4. QED
    BY <2>2, <2>3 DEF Calm, Evicting
<1>4. CASE Expire(a)
  <2>1. pc'[a] = "synthesize" /\ pc'["preflight"] = "done"
    BY <1>1, <1>4 DEF Expire
  <2>2. QED
    BY <2>1 DEF Calm, Evicting
<1>5. CASE Touch(a)
  <2>1. Succeed(a) /\ DOMAIN files' = DOMAIN files /\ text[a] \in DOMAIN files
    BY <1>5 DEF Touch, Calm, Own
  <2>2. QED
    BY <1>0, <2>1, CalmSettled
<1>6. CASE StoreFails(a)
  BY <1>0, <1>6, CalmSettled DEF StoreFails
<1>7. CASE CreateTemp(a)
  <2>1. pc'[a] = "write" /\ pc'["preflight"] = "done"
    BY <1>1, <1>7 DEF CreateTemp
  <2>2. wrote'[a] = now /\ files' = files /\ pc[a] = "create"
    BY <1>0, <1>7 DEF CreateTemp
  <2>3. QED
    BY <2>1, <2>2 DEF Calm, Evicting
<1>8. CASE Write(a)
  <2>1. pc'[a] = "rename" /\ pc'["preflight"] = "done"
    BY <1>1, <1>8 DEF Write
  <2>2. wrote'[a] = now /\ files' = files /\ now' = now /\ pc[a] = "write"
    BY <1>0, <1>8 DEF Write
  <2>3. \A t \in DOMAIN files' : files'[t].used < wrote'[a]
    <3>1. \A t \in DOMAIN files : files[t].used < wrote[a] /\ files[t].used \in Nat
      BY <2>2 DEF Calm
    <3>2. wrote[a] \in Nat /\ wrote[a] <= now
      BY <1>0
    <3>3. QED
      BY <1>0, <2>2, <3>1, <3>2
  <2>4. ~Expired(wrote[a], now)'
    BY <1>0, <2>2, LimitsAssumption DEF Expired
  <2>5. QED
    BY <2>1, <2>3, <2>4 DEF Calm, Evicting
<1>9. CASE Rename(a)
  <2>1. pc'[a] = "list" /\ pc'["preflight"] = "done"
    BY <1>1, <1>9 DEF Rename
  <2>2. /\ pc[a] = "rename" /\ text' = text /\ now' = now
        /\ files' = [x \in DOMAIN files \cup {Own} |->
                       IF x = Own THEN [used |-> wrote[a], whole |-> temp[a] = "whole"]
                       ELSE files[x]]
    BY <1>9 DEF Rename, Put, Own
  <2>3. Own' = Own /\ files'[Own].used = wrote[a]
    BY <2>2 DEF Own
  <2>4. \A t \in DOMAIN files : files[t].used < wrote[a]
    BY <2>2 DEF Calm
  <2>5. ~(TTL > 0 /\ now - wrote[a] > TTL)
    BY <2>2 DEF Calm, Expired
  <2>6. /\ Own \in DOMAIN files'
        /\ \A t \in DOMAIN files' \ {Own} : t \in DOMAIN files /\ files'[t] = files[t]
    BY <2>2
  <2>7. /\ \A t \in DOMAIN files' \ {Own} : files'[t].used < files'[Own].used
        /\ ~(TTL > 0 /\ now' - files'[Own].used > TTL)
    BY <2>2, <2>3, <2>4, <2>5, <2>6
  <2>8. OwnIsNewest' /\ ~Expired(files[Own].used, now)'
    BY <2>3, <2>6, <2>7 DEF OwnIsNewest, Expired
  <2>9. QED
    BY <2>1, <2>8 DEF Calm, Evicting
<1>10. CASE ListFails(a) \/ List(a)
  <2>1. files' = files /\ text' = text /\ now' = now /\ pc[a] = "list"
    BY <1>10 DEF ListFails, List, disk
  <2>2. OwnIsNewest /\ OwnIsNewest'
    BY <2>1 DEF Calm, Evicting, OwnIsNewest, Own
  <2>3. CASE ListFails(a)
    <3>1. Succeed(a) /\ text[a] \in DOMAIN files'
      BY <2>1, <2>2, <2>3 DEF ListFails, OwnIsNewest, Own
    <3>2. QED
      BY <1>0, <3>1, CalmSettled
  <2>4. CASE List(a)
    <3>1. pc'[a] = "info" /\ pc'["preflight"] = "done"
      BY <1>1, <2>4 DEF List
    <3>2. items'[a] = {} /\ total'[a] = 0 /\ asof'[a] = now
      BY <1>0, <2>4 DEF List
    <3>3. Seen(a)' = {}
      BY <3>2 DEF Seen
    <3>4. ~Expired(files[Own].used, asof[a])'
      BY <2>1, <3>2 DEF Calm, Own, Expired
    <3>5. TotalIsSeen'
      BY <3>2, <3>3, NoBytes DEF TotalIsSeen, Bytes
    <3>6. SeenAsIs'
      BY <3>2, <3>4, <3>5 DEF SeenAsIs
    <3>7. QED
      BY <2>2, <3>1, <3>6 DEF Calm, Evicting
  <2>5. QED
    BY <1>10, <2>3, <2>4
<1>11. ASSUME pc[a] \in {"info", "unlink"}
       PROVE  OwnIsNewest /\ SeenAsIs /\ Account(a) /\ Own \in Texts
                /\ Seen(a) \in SUBSET Texts
  BY <1>0, <1>11 DEF Calm, Evicting, Accounts, Own, Seen
<1>12. ASSUME pc'[a] \in {"info", "unlink"}, pc'["preflight"] = "done",
              OwnIsNewest', SeenAsIs',
              pc'[a] = "unlink" => victim'[a] \notin Seen(a)' \cup {Own'}
       PROVE  Calm'
  BY <1>12 DEF Calm, Evicting
<1>20. ASSUME NEW t \in names[a], SeenAsIs PROVE TotalIsSeen
  BY <1>20 DEF SeenAsIs, TotalWithEscaped
<1>13. CASE InfoFails(a)
  <2>1. PICK t \in names[a] : Looked(a, t) /\ Escapes(t)
    BY <1>13 DEF InfoFails
  <2>2. /\ pc[a] = "info" /\ pc' = pc
        /\ UNCHANGED <<files, text, asof, items, total>>
    BY <1>13, <2>1 DEF InfoFails, Escapes
  <2>3. OwnIsNewest'
    BY <1>11, <2>2 DEF OwnIsNewest, Own
  <2>4. TotalIsSeen /\ Seen(a)' = Seen(a)
    BY <1>11, <1>20, <2>2 DEF Seen
  <2>5. SeenAsIs'
    BY <1>11, <2>2, <2>4 DEF SeenAsIs, TotalIsSeen, Own, Bytes, Expired
  <2>6. QED
    BY <1>0, <1>12, <2>2, <2>3, <2>5
<1>14. CASE InfoLive(a)
  <2>1. PICK t \in names[a] \cap DOMAIN files :
           /\ items' = [items EXCEPT ![a] = @ \cup {[text |-> t, used |-> files[t].used]}]
           /\ total' = [total EXCEPT ![a] = @ + Size[t]]
    BY <1>14 DEF InfoLive
  <2>2. pc[a] = "info" /\ pc' = pc /\ UNCHANGED <<files, text, asof>>
    BY <1>14 DEF InfoLive, disk
  <2>3. /\ OwnIsNewest /\ SeenAsIs /\ Account(a) /\ Seen(a) \in SUBSET Texts
        /\ TotalIsSeen
    BY <1>11, <1>20, <2>1, <2>2
  <2>4. OwnIsNewest'
    BY <2>2, <2>3 DEF OwnIsNewest, Own
  <2>5. /\ items'[a] = items[a] \cup {[text |-> t, used |-> files[t].used]}
        /\ total'[a] = total[a] + Size[t]
    BY <1>0, <2>1
  <2>6. Seen(a)' = Seen(a) \cup {t}
    <3>1. Seen(a)' = {e.text : e \in items'[a]}
      BY DEF Seen
    <3>2. [text |-> t, used |-> files[t].used].text = t
      OBVIOUS
    <3>3. QED
      BY <2>5, <3>1, <3>2 DEF Seen
  <2>7. t \in Texts /\ t \notin Seen(a)
    BY <2>1, <2>3 DEF Account
  <2>8. Bytes(Seen(a) \cup {t}) = Bytes(Seen(a)) + Size[t]
    BY <2>3, <2>7, AddedBytes DEF Account
  <2>9. TotalIsSeen'
    BY <2>3, <2>5, <2>6, <2>8 DEF TotalIsSeen
  <2>10. \A e \in items'[a] : e.text \in DOMAIN files' /\ e.used = files'[e.text].used
    BY <2>1, <2>2, <2>3, <2>5 DEF SeenAsIs
  <2>11. SeenAsIs'
    BY <2>2, <2>3, <2>9, <2>10 DEF SeenAsIs, Own, Expired
  <2>12. QED
    BY <1>0, <1>12, <2>2, <2>4, <2>11
<1>15. CASE InfoExpired(a)
  <2>1. PICK t \in names[a] \cap DOMAIN files :
           /\ Expired(files[t].used, asof[a])
           /\ victim' = [victim EXCEPT ![a] = t]
    BY <1>15 DEF InfoExpired
  <2>2. /\ pc[a] = "info" /\ pc'[a] = "unlink" /\ pc'["preflight"] = "done"
        /\ UNCHANGED <<files, text, asof, items, total>>
    BY <1>1, <1>15 DEF InfoExpired, disk
  <2>3. /\ OwnIsNewest /\ SeenAsIs /\ Account(a) /\ TotalIsSeen
    BY <1>11, <1>20, <2>1, <2>2
  <2>4. t # Own /\ t \notin Seen(a)
    BY <2>1, <2>3 DEF SeenAsIs, Account
  <2>5. Own' = Own /\ Seen(a)' = Seen(a) /\ victim'[a] = t
    BY <1>0, <2>1, <2>2 DEF Own, Seen
  <2>6. OwnIsNewest'
    BY <2>2, <2>3, <2>5 DEF OwnIsNewest
  <2>7. SeenAsIs'
    BY <2>2, <2>3, <2>5 DEF SeenAsIs, TotalIsSeen, Bytes, Expired
  <2>8. QED
    BY <1>12, <2>2, <2>4, <2>5, <2>6, <2>7
<1>16. CASE Unlink(a)
  <2>1. /\ pc[a] = "unlink" /\ pc'[a] = "info" /\ pc'["preflight"] = "done"
        /\ UNCHANGED <<text, asof, items, total>>
    BY <1>1, <1>16 DEF Unlink
  <2>2. /\ OwnIsNewest /\ SeenAsIs /\ victim[a] # Own /\ victim[a] \notin Seen(a)
    BY <1>11, <2>1 DEF Calm
  <2>3. TotalIsSeen /\ Seen(a)' = Seen(a) /\ Own' = Own
    BY <2>1, <2>2 DEF SeenAsIs, TotalWithEscaped, Seen, Own
  <2>4. /\ OwnIsNewest'
        /\ \A x \in DOMAIN files \ {victim[a]} : x \in DOMAIN files' /\ files'[x] = files[x]
    <3>1. CASE Remove(victim[a])
      BY <2>1, <2>2, <3>1, NewestKept
    <3>2. CASE Escapes(victim[a])
      BY <2>2, <2>3, <3>2 DEF Escapes, OwnIsNewest
    <3>3. QED
      BY <1>16, <3>1, <3>2 DEF Unlink
  <2>5. \A e \in items[a] : e.text # victim[a]
    BY <2>2 DEF Seen
  <2>6. ~Expired(files[Own].used, asof[a])'
    BY <2>1, <2>2, <2>3, <2>4 DEF SeenAsIs, OwnIsNewest, Expired
  <2>7. SeenAsIs'
    BY <2>1, <2>2, <2>3, <2>4, <2>5, <2>6 DEF SeenAsIs, TotalIsSeen, Bytes
  <2>8. QED
    BY <1>12, <2>1, <2>4, <2>7
<1>17. CASE EvictOne(a)
  <2>1. PICK e \in items[a] :
           /\ Oldest(a, e)
           /\ Remove(e.text)
           /\ items' = [items EXCEPT ![a] = @ \ {e}]
           /\ total' = [total EXCEPT ![a] = @ - Size[e.text]]
    BY <1>17 DEF EvictOne
  <2>2. /\ pc[a] = "info" /\ pc' = pc /\ names[a] = {} /\ names' = names
        /\ text' = text /\ asof' = asof
        /\ MaxBytes > 0 /\ total[a] > MaxBytes
    BY <1>17 DEF EvictOne
  <2>3. /\ OwnIsNewest /\ SeenAsIs /\ Account(a) /\ Own \in Texts
        /\ Seen(a) \in SUBSET Texts
    BY <1>11, <2>2
  <2>4. e.text # Own
    <3> SUFFICES ASSUME e.text = Own PROVE FALSE
      OBVIOUS
    <3>1. ASSUME NEW f \in items[a] PROVE f = e
      <4>1. /\ f.text \in DOMAIN files /\ f.used = files[f.text].used
            /\ e.used = files[Own].used
        BY <2>3, <3>1 DEF SeenAsIs
      <4>2. e.used <= f.used
        BY <2>1, <3>1 DEF Oldest
      <4>3. e.used \in Nat /\ f.used \in Nat
        BY <1>0, <2>1, <3>1
      <4>4. f.text = Own
        BY <2>3, <4>1, <4>2, <4>3 DEF OwnIsNewest
      <4>5. QED
        BY <2>1, <2>3, <3>1, <4>4 DEF Account
    <3>2. Seen(a) = {Own}
      BY <2>1, <3>1 DEF Seen
    <3>3. CASE TotalIsSeen
      <4>1. total[a] = Size[Own]
        BY <2>3, <3>2, <3>3, OneFile DEF TotalIsSeen
      <4>2. Size[Own] <= MaxBytes /\ Size[Own] \in Nat
        BY <2>2, <2>3, LimitsAssumption, SizeAssumption DEF Fits
      <4>3. QED
        BY <2>2, <4>1, <4>2, LimitsAssumption
    <3>4. CASE TotalWithEscaped
      <4>1. total[a] <= Bytes({Own} \cup unswept) /\ Bytes({Own} \cup unswept) <= MaxBytes
        BY <3>2, <3>4 DEF TotalWithEscaped
      <4>2. Bytes({Own} \cup unswept) \in Nat
        BY <2>3, EscapedBytes
      <4>3. total[a] \in Nat
        BY <1>0
      <4>4. QED
        BY <2>2, <4>1, <4>2, <4>3, LimitsAssumption
    <3>5. QED
      BY <2>3, <3>3, <3>4 DEF SeenAsIs
  <2>5. /\ OwnIsNewest' /\ DOMAIN files' = DOMAIN files \ {e.text}
        /\ \A x \in DOMAIN files' : files'[x] = files[x]
    BY <2>1, <2>2, <2>3, <2>4, NewestKept
  <2>6. /\ e.text \in DOMAIN files /\ e.text \in Seen(a) /\ e.text \in Texts
        /\ unswept' = unswept \ {e.text}
    BY <2>1, <2>3 DEF SeenAsIs, Seen, Remove
  <2>7. items'[a] = items[a] \ {e} /\ total'[a] = total[a] - Size[e.text]
    BY <1>0, <2>1
  <2>8. \A f \in items'[a] : f.text # e.text
    BY <2>1, <2>3, <2>7 DEF Account
  <2>9. Seen(a)' = Seen(a) \ {e.text}
    BY <2>1, <2>7, <2>8 DEF Seen
  <2>10. TotalIsSeen' \/ TotalWithEscaped'
    <3>1. CASE TotalIsSeen
      <4>1. Bytes(Seen(a) \ {e.text}) = Bytes(Seen(a)) - Size[e.text]
        BY <2>3, <2>6, RemovedBytes DEF Account
      <4>2. QED
        BY <2>7, <2>9, <3>1, <4>1 DEF TotalIsSeen
    <3>2. CASE TotalWithEscaped
      <4> DEFINE All == Seen(a) \cup unswept
                 Left == {Own} \cup (unswept \ {e.text})
      <4>1. All \in SUBSET Texts /\ IsFiniteSet(Content(All)) /\ Bytes(All) \in Nat
        BY <2>3, EscapedBytes DEF Account
      <4>2. e.text \in All
        BY <2>6
      <4>3. Bytes(All \ {e.text}) = Bytes(All) - Size[e.text]
        <5> HIDE DEF All
        <5>1. QED
          BY <4>1, <4>2, RemovedBytes
      <4>4. (Seen(a) \cup unswept)' = All \ {e.text}
        BY <2>6, <2>9
      <4>5. total[a] <= Bytes(All) /\ total[a] \in Nat /\ Size[e.text] \in Nat
        BY <1>0, <2>6, <3>2, SizeAssumption DEF TotalWithEscaped
      <4>6. total'[a] <= Bytes(All) - Size[e.text]
        <5> HIDE DEF All
        <5>1. QED
          BY <2>7, <4>1, <4>5
      <4>7. total'[a] <= Bytes((Seen(a) \cup unswept)')
        BY <4>3, <4>4, <4>6
      <4>8. /\ Bytes({Own} \cup unswept) \in Nat
            /\ IsFiniteSet(Content({Own} \cup unswept))
            /\ Bytes({Own} \cup unswept) <= MaxBytes
        BY <2>3, <3>2, EscapedBytes DEF TotalWithEscaped
      <4>9. Bytes(Left) <= Bytes({Own} \cup unswept) /\ Bytes(Left) \in Nat
        BY <4>8, FewerBytes
      <4>10. Bytes(Left) <= MaxBytes
        <5> HIDE DEF Left
        <5>1. QED
          BY <4>8, <4>9, LimitsAssumption
      <4>11. ({Own} \cup unswept)' = Left
        BY <2>2, <2>6 DEF Own
      <4>12. QED
        BY <2>2, <4>7, <4>10, <4>11 DEF TotalWithEscaped, Bytes
    <3>3. QED
      BY <2>3, <3>1, <3>2 DEF SeenAsIs
  <2>11. \A f \in items'[a] : f.text \in DOMAIN files' /\ f.used = files'[f.text].used
    BY <2>3, <2>5, <2>7, <2>8 DEF SeenAsIs
  <2>12. Own' = Own /\ Own \in DOMAIN files'
    BY <2>2, <2>3, <2>4, <2>5 DEF Own, OwnIsNewest
  <2>13. ~Expired(files[Own].used, asof[a])'
    BY <2>2, <2>3, <2>5, <2>12 DEF SeenAsIs, Expired
  <2>14. SeenAsIs'
    BY <2>10, <2>11, <2>13 DEF SeenAsIs
  <2>15. QED
    BY <1>0, <1>12, <2>2, <2>5, <2>14
<1>21. CASE EvictFails(a)
  <2>1. PICK e \in items[a] :
           Escapes(e.text) /\ items' = [items EXCEPT ![a] = @ \ {e}]
    BY <1>21 DEF EvictFails
  <2>2. /\ pc[a] = "info" /\ pc' = pc /\ names[a] = {} /\ names' = names
        /\ UNCHANGED <<files, text, asof, total>>
        /\ ~CrowdedOut
    BY <1>21, <2>1 DEF EvictFails, Escapes
  <2>3. OwnIsNewest /\ SeenAsIs /\ Account(a) /\ Own \in Texts /\ Seen(a) \in SUBSET Texts
    BY <1>11, <2>2
  <2>4. OwnIsNewest' /\ Own' = Own
    BY <2>2, <2>3 DEF OwnIsNewest, Own
  <2>5. e.text \in DOMAIN files /\ e.text \in Texts
    BY <2>1, <2>3 DEF SeenAsIs
  <2>6. unswept' = unswept \cup {e.text} /\ items'[a] = items[a] \ {e}
    BY <1>0, <2>1, <2>5 DEF Escapes
  <2>7. Seen(a) \cup unswept \subseteq (Seen(a) \cup unswept)'
    BY <2>1, <2>6 DEF Seen
  <2>8. /\ (Seen(a) \cup unswept)' \in SUBSET Texts
        /\ IsFiniteSet(Content((Seen(a) \cup unswept)'))
    <3>1. (Seen(a) \cup unswept)' \subseteq (Seen(a) \cup unswept) \cup {e.text}
      BY <2>6 DEF Seen
    <3>2. Seen(a) \cup unswept \in SUBSET Texts /\ IsFiniteSet(Content(Seen(a) \cup unswept))
      BY <2>3, EscapedBytes DEF Account
    <3>3. IsFiniteSet(Content((Seen(a) \cup unswept) \cup {e.text}))
      BY <2>5, <3>2, MoreContent
    <3>4. QED
      BY <2>5, <3>1, <3>2, <3>3, FewerBytes
  <2>9. /\ Bytes(Seen(a) \cup unswept) <= Bytes((Seen(a) \cup unswept)')
        /\ Bytes(Seen(a) \cup unswept) \in Nat
        /\ Bytes((Seen(a) \cup unswept)') \in Nat
    BY <2>7, <2>8, FewerBytes
  <2>10. total[a] <= Bytes(Seen(a) \cup unswept) /\ total[a] \in Nat
    <3>1. CASE TotalIsSeen
      <4>1. Seen(a) \subseteq Seen(a) \cup unswept /\ IsFiniteSet(Content(Seen(a) \cup unswept))
        BY <2>3, EscapedBytes DEF Account
      <4>2. Bytes(Seen(a)) <= Bytes(Seen(a) \cup unswept)
        BY <4>1, FewerBytes
      <4>3. QED
        BY <1>0, <3>1, <4>2 DEF TotalIsSeen
    <3>2. CASE TotalWithEscaped
      BY <1>0, <3>2 DEF TotalWithEscaped
    <3>3. QED
      BY <2>3, <3>1, <3>2 DEF SeenAsIs
  <2>11. total'[a] <= Bytes((Seen(a) \cup unswept)')
    BY <2>2, <2>9, <2>10
  <2>12. Bytes(({Own} \cup unswept)') <= MaxBytes
    <3>1. ({Own} \cup unswept)' = unswept' \cup {text["pager"]}
      BY <2>4 DEF Own
    <3>2. ~(Bytes(unswept' \cup {text["pager"]}) > MaxBytes)
      BY <2>2 DEF CrowdedOut
    <3>3. IsFiniteSet(Content(unswept' \cup {text["pager"]}))
      <4>1. unswept' \in SUBSET Texts /\ IsFiniteSet(Content(unswept'))
        BY <2>5, <2>6, MoreContent DEF Swept
      <4>2. QED
        BY <2>3, <4>1, MoreContent DEF Own
    <3>4. Bytes(unswept' \cup {text["pager"]}) \in Nat
      BY <3>3, FewerBytes
    <3>5. Bytes(unswept' \cup {text["pager"]}) <= MaxBytes
      BY <3>2, <3>4, LimitsAssumption
    <3>6. QED
      BY <3>1, <3>5 DEF Bytes
  <2>13. TotalWithEscaped'
    BY <2>2, <2>11, <2>12 DEF TotalWithEscaped, Bytes
  <2>14. \A f \in items'[a] : f.text \in DOMAIN files' /\ f.used = files'[f.text].used
    BY <2>2, <2>3, <2>6 DEF SeenAsIs
  <2>15. ~Expired(files[Own].used, asof[a])'
    BY <2>2, <2>3, <2>4 DEF SeenAsIs, Expired
  <2>16. SeenAsIs'
    BY <2>13, <2>14, <2>15 DEF SeenAsIs
  <2>17. QED
    BY <1>0, <1>12, <2>2, <2>4, <2>16
<1>18. CASE EvictEnds(a)
  <2>1. pc[a] = "info" /\ files' = files /\ Succeed(a)
    BY <1>18 DEF EvictEnds, disk
  <2>2. text[a] \in DOMAIN files'
    BY <1>11, <2>1 DEF OwnIsNewest, Own
  <2>3. QED
    BY <1>0, <2>1, <2>2, CalmSettled
<1>19. QED
  BY <1>2, <1>3, <1>4, <1>5, <1>6, <1>7, <1>8, <1>9, <1>10, <1>13, <1>14, <1>15,
     <1>16, <1>17, <1>18, <1>21 DEF Step

\* The clock: a page that is not held up finds its own file fresh.
LEMMA CalmTick == ASSUME Typed, Calm, Tick, alone' PROVE Calm'
<1> USE DEF Typed, TypeOK
<1>1. /\ now' = now + 1 /\ ~HeldUp /\ now \in Nat
      /\ UNCHANGED <<files, wrote, pc, text, asof, names, items, total, victim, spec,
                     unswept>>
  BY DEF Tick, disk, sweep
<1>2. Own' = Own /\ Seen("pager")' = Seen("pager") /\ "pager" \in Actors
  BY <1>1 DEF Own, Seen, Actors
<1>3. pc["pager"] = "create" => \A t \in DOMAIN files : files[t].used < now'
  BY <1>1 DEF Calm
<1>4. pc["pager"] = "rename" => ~Expired(wrote["pager"], now)'
  BY <1>1 DEF HeldUp, Expired
<1>5. /\ Evicting("pager") => OwnIsNewest'
      /\ pc["pager"] = "list" => ~Expired(files[Own].used, now)'
  <2>1. Own = text["pager"]
    BY DEF Own
  <2>2. Evicting("pager") => OwnIsNewest
    BY DEF Calm
  <2>3. pc["pager"] = "list" => ~Expired(files[Own].used, now)'
    BY <1>1, <1>2, <2>1, <2>2 DEF HeldUp, Expired, OwnIsNewest, Evicting
  <2>4. QED
    BY <1>1, <1>2, <2>2, <2>3 DEF OwnIsNewest
<1>6. SeenAsIs => SeenAsIs'
  BY <1>1, <1>2 DEF SeenAsIs, TotalIsSeen, TotalWithEscaped, Bytes, Expired
<1>7. QED
  BY <1>1, <1>2, <1>3, <1>4, <1>5, <1>6 DEF Calm, Evicting

LEMMA UndisturbedCorrect == ASSUME Fits PROVE Spec => []Undisturbed
<1>1. Init => Undisturbed
  BY DEF Init, Undisturbed
<1>2. Typed /\ Accounts /\ Swept /\ Undisturbed /\ [Next]_vars => Undisturbed'
  <2> SUFFICES ASSUME Typed, Accounts, Swept, Undisturbed, [Next]_vars,
                      alone', pc'["pager"] # "idle"
               PROVE  Calm'
    BY DEF Undisturbed
  <2>1. CASE Begin
    <3>1. /\ pc'["preflight"] = "done"
          /\ pc'["pager"] = "stat" \/ (pc'["pager"] = "play" /\ spec' = Tone)
      BY <2>1 DEF Begin, Goto, Typed, TypeOK, Actors
    <3>2. QED
      BY <3>1 DEF Calm, Evicting
  <2>2. CASE PlayEnds
    BY <2>2 DEF PlayEnds, Goto, Typed, TypeOK, Actors
  <2>3. CASE Step("pager")
    <3>1. alone /\ pc["pager"] # "idle"
      BY <2>3 DEF Step, Synthesize, Stat, Expire, Touch, StoreFails, CreateTemp, Write,
                  Rename, ListFails, List, InfoFails, InfoLive, InfoExpired, Unlink,
                  EvictOne, EvictFails, EvictEnds
    <3>2. QED
      BY <2>3, <3>1, CalmStep DEF Undisturbed
  <2>4. CASE Step("preflight")
    <3>1. pc["preflight"] # "done" /\ alone' = alone
      BY <2>4 DEF Step, Synthesize, Stat, Expire, Touch, StoreFails, CreateTemp, Write,
                  Rename, ListFails, List, InfoFails, InfoLive, InfoExpired, Unlink,
                  EvictOne, EvictFails, EvictEnds
    <3>2. pc'["pager"] = pc["pager"]
      BY <2>4 DEF Step, Synthesize, Stat, Expire, Touch, StoreFails, CreateTemp, Write,
                  Rename, ListFails, List, InfoFails, InfoLive, InfoExpired, Unlink,
                  EvictOne, EvictFails, EvictEnds, Goto, Succeed, Fail, Typed, TypeOK, Actors
    <3>3. QED
      BY <3>1, <3>2 DEF Undisturbed, Calm
  <2>5. CASE Tick
    BY <2>5, CalmTick DEF Undisturbed, Tick
  <2>6. CASE Crash
    BY <2>6 DEF Crash, Start, Actors
  <2>7. CASE Waiting \/ UNCHANGED vars
    BY <2>7 DEF Waiting, vars, disk, sweep, Undisturbed, Calm, Evicting, OwnIsNewest,
                SeenAsIs, TotalIsSeen, TotalWithEscaped, Own, Seen, Bytes, Expired
  <2>8. (\E a \in Actors : Step(a)) => Step("pager") \/ Step("preflight")
    BY DEF Actors
  <2>9. QED
    BY <2>1, <2>2, <2>3, <2>4, <2>5, <2>6, <2>7, <2>8 DEF Next
<1>3. QED
  BY <1>1, <1>2, TypesCorrect, SweptCorrect, PTL DEF Spec

\* A page that Preflight does not run beside and whose store is not held up for a
\* TTL has its segment while the call plays it, whatever fails: neither expiry nor
\* eviction by last use removes what was just stored or touched, if every sentence
\* fits and what was stored fits beside what its own eviction could not remove.
THEOREM PlayableAloneCorrect == Spec => []PlayableAlone
<1>1. CASE Fits
  <2>1. Undisturbed => PlayableAlone
    BY DEF Undisturbed, Calm, PlayableAlone, Playable
  <2>2. Spec => []Undisturbed
    BY <1>1, UndisturbedCorrect
  <2>3. QED
    BY <2>1, <2>2, PTL
<1>2. CASE ~Fits
  <2>1. ~Fits => PlayableAlone
    BY DEF Fits, PlayableAlone
  <2>2. PlayableAlone
    BY <1>2, <2>1
  <2>3. QED
    BY <2>1, <1>2, PTL
<1>3. QED
  BY <1>1, <1>2

-----------------------------------------------------------------------------
(* A cache that holds every sentence.                                      *)

Roomy == /\ TTL = 0
         /\ MaxBytes = 0 \/ (IsFiniteSet(Content(Texts)) /\ Bytes(Texts) <= MaxBytes)

\* Nothing is ever removed: an eviction counts what there is and finds it fits.
Untouched ==
  /\ \A a \in Actors : pc[a] \notin {"expire", "unlink"}
  /\ \A a \in Actors : total[a] = Bytes(Seen(a))
  /\ pc["pager"] = "touch" \/ Evicting("pager") => text["pager"] \in DOMAIN files
  /\ pc["pager"] = "play" => spec \in DOMAIN files \cup {Tone}

\* In such a cache no eviction finds more than it may keep.
LEMMA NothingToEvict ==
  ASSUME Typed, Accounts, Untouched, Roomy, NEW a \in Actors
  PROVE  /\ ~EvictOne(a) /\ ~EvictFails(a)
         /\ ~Expire(a) /\ ~InfoExpired(a) /\ ~Unlink(a)
<1>1. ASSUME EvictOne(a) \/ EvictFails(a) PROVE FALSE
  <2>1. MaxBytes > 0 /\ total[a] > MaxBytes
    BY <1>1 DEF EvictOne, EvictFails
  <2>2. IsFiniteSet(Content(Texts)) /\ Bytes(Texts) <= MaxBytes
    BY <2>1 DEF Roomy
  <2>3. Seen(a) \subseteq Texts
    BY DEF Typed, TypeOK, Seen
  <2>4. Bytes(Seen(a)) \in Nat /\ Bytes(Seen(a)) <= Bytes(Texts)
    BY <2>2, <2>3, FewerBytes
  <2>5. Bytes(Texts) \in Nat
    BY <2>2, FewerBytes
  <2>6. total[a] = Bytes(Seen(a))
    BY DEF Untouched
  <2>7. QED
    BY <2>1, <2>2, <2>4, <2>5, <2>6, LimitsAssumption
<1>2. ~Expire(a) /\ ~Unlink(a)
  BY DEF Untouched, Expire, Unlink
<1>3. ~InfoExpired(a)
  BY DEF InfoExpired, Expired, Roomy
<1>4. QED
  BY <1>1, <1>2, <1>3

LEMMA UntouchedStep ==
  ASSUME Typed, Accounts, Untouched, Roomy, NEW a \in Actors, Step(a)
  PROVE  Untouched'
<1> USE DEF Typed, TypeOK
<1>0. /\ ~EvictOne(a) /\ ~EvictFails(a)
      /\ ~Expire(a) /\ ~InfoExpired(a) /\ ~Unlink(a)
  BY NothingToEvict
<1>1. DOMAIN files \subseteq DOMAIN files'
  BY <1>0 DEF Step, Escapes, Synthesize, Stat, Touch, StoreFails, CreateTemp, Write,
              Rename, Put, ListFails, List, InfoFails, InfoLive, EvictEnds, disk
<1>2. \A b \in Actors : total'[b] = Bytes(Seen(b)')
  <2> SUFFICES ASSUME NEW b \in Actors PROVE total'[b] = Bytes(Seen(b)')
    OBVIOUS
  <2>1. total[b] = Bytes(Seen(b))
    BY DEF Untouched
  <2>2. CASE items'[b] = items[b] /\ total'[b] = total[b]
    <3>1. Seen(b)' = Seen(b)
      BY <2>2 DEF Seen
    <3>2. QED
      BY <2>1, <2>2, <3>1
  <2>3. CASE items'[b] = {} /\ total'[b] = 0
    <3>1. Seen(b)' = {}
      BY <2>3 DEF Seen
    <3>2. QED
      BY <2>3, <3>1, NoBytes
  <2>4. CASE InfoLive(a) /\ b = a
    <3>1. PICK t \in names[a] \cap DOMAIN files :
             /\ items' = [items EXCEPT ![a] = @ \cup {[text |-> t, used |-> files[t].used]}]
             /\ total' = [total EXCEPT ![a] = @ + Size[t]]
      BY <2>4 DEF InfoLive
    <3>2. Seen(a)' = Seen(a) \cup {t}
      <4>1. items'[a] = items[a] \cup {[text |-> t, used |-> files[t].used]}
        BY <3>1
      <4>2. Seen(a)' = {e.text : e \in items'[a]}
        BY DEF Seen
      <4>3. [text |-> t, used |-> files[t].used].text = t
        OBVIOUS
      <4>4. QED
        BY <4>1, <4>2, <4>3 DEF Seen
    <3>3. /\ t \in Texts /\ t \notin Seen(a) /\ Seen(a) \in SUBSET Texts
          /\ IsFiniteSet(Content(Seen(a)))
      <4>1. names[a] \cap Seen(a) = {} /\ IsFiniteSet(Content(Seen(a)))
        BY DEF Accounts, Account
      <4>2. Seen(a) \in SUBSET Texts
        BY DEF Seen
      <4>3. t \in names[a] /\ t \in Texts
        BY <3>1
      <4>4. QED
        BY <4>1, <4>2, <4>3
    <3>4. Bytes(Seen(a) \cup {t}) = Bytes(Seen(a)) + Size[t]
      BY <3>3, AddedBytes
    <3>5. total'[a] = total[a] + Size[t]
      BY <3>1
    <3>6. QED
      BY <2>1, <2>4, <3>2, <3>4, <3>5
  <2>5. QED
    BY <1>0, <2>2, <2>3, <2>4
       DEF Step, Escapes, Synthesize, Stat, Touch, StoreFails, CreateTemp, Write,
           Rename, ListFails, List, InfoFails, InfoLive, EvictEnds, sweep
<1>3. \A b \in Actors : pc'[b] \notin {"expire", "unlink"}
  BY <1>0 DEF Step, Escapes, Synthesize, Stat, Touch, StoreFails, CreateTemp, Write,
              Rename, ListFails, List, InfoFails, InfoLive, EvictEnds, Goto, Succeed, Fail, Expired, Roomy, Untouched
<1>4. CASE a = "pager"
  <2>1. text' = text
    BY DEF Step, Synthesize, Stat, Expire, Touch, StoreFails, CreateTemp, Write, Rename,
           ListFails, List, InfoFails, InfoLive, InfoExpired, Unlink,
           EvictOne, EvictFails, EvictEnds
  <2>2. pc'["pager"] = "touch" \/ Evicting("pager")' => text["pager"] \in DOMAIN files'
    <3>1. CASE Rename(a)
      BY <1>4, <3>1 DEF Rename, Put
    <3>2. CASE ~Rename(a)
      BY <1>0, <1>1, <1>4, <3>2
         DEF Step, Escapes, Synthesize, Stat, Touch, StoreFails, CreateTemp, Write,
             ListFails, List, InfoFails, InfoLive, EvictEnds, Goto, Succeed, Fail, Evicting, Untouched
    <3>3. QED
      BY <3>1, <3>2
  <2>3. pc'["pager"] = "play" => spec' \in DOMAIN files' \cup {Tone}
    BY <1>0, <1>1, <1>4
       DEF Step, Escapes, Synthesize, Stat, Touch, StoreFails, CreateTemp, Write,
           Rename, ListFails, List, InfoFails, InfoLive, EvictEnds, Goto, Succeed, Fail, Evicting, Untouched
  <2>4. QED
    BY <1>2, <1>3, <2>1, <2>2, <2>3 DEF Untouched
<1>5. CASE a # "pager"
  <2>1. pc'["pager"] = pc["pager"] /\ text' = text /\ spec' = spec
    BY <1>0, <1>5
       DEF Step, Escapes, Synthesize, Stat, Touch, StoreFails, CreateTemp, Write,
           Rename, ListFails, List, InfoFails, InfoLive, EvictEnds, Goto, Succeed, Fail, Actors
  <2>2. QED
    BY <1>1, <1>2, <1>3, <2>1 DEF Untouched, Evicting
<1>6. QED
  BY <1>4, <1>5

LEMMA UntouchedCorrect == ASSUME Roomy PROVE Spec => []Untouched
<1>1. Init => Untouched
  <2> SUFFICES ASSUME Init PROVE Untouched
    OBVIOUS
  <2>1. \A a \in Actors : pc[a] = Start(a) /\ total[a] = 0 /\ Seen(a) = {}
    BY DEF Init, Seen
  <2>2. \A a \in Actors : pc[a] \in {"idle", "stat", "done"}
    BY <2>1 DEF Start
  <2>3. QED
    BY <2>1, <2>2, NoBytes DEF Untouched, Evicting, Actors
<1>2. Typed /\ Accounts /\ Untouched /\ [Next]_vars => Untouched'
  <2> SUFFICES ASSUME Typed, Accounts, Untouched, [Next]_vars PROVE Untouched'
    OBVIOUS
  <2>0. ASSUME items' = items, total' = total
        PROVE  \A a \in Actors : total'[a] = Bytes(Seen(a)')
    BY <2>0 DEF Untouched, Seen
  <2>1. CASE Begin \/ PlayEnds
    <3>1. UNCHANGED <<disk, sweep>>
      BY <2>1 DEF Begin, PlayEnds
    <3>2. /\ pc'["pager"] \in {"idle", "stat"} \/ (pc'["pager"] = "play" /\ spec' = Tone)
          /\ pc'["preflight"] = pc["preflight"]
      BY <2>1 DEF Begin, PlayEnds, Goto, Typed, TypeOK, Actors
    <3>3. \A a \in Actors : pc'[a] \notin {"expire", "unlink"}
      BY <3>2 DEF Untouched, Actors
    <3>4. \A a \in Actors : total'[a] = Bytes(Seen(a)')
      BY <2>0, <3>1 DEF sweep
    <3>5. QED
      BY <3>2, <3>3, <3>4 DEF Untouched, Evicting
  <2>2. CASE \E a \in Actors : Step(a)
    BY <1>1, <2>2, UntouchedStep
  <2>3. CASE Tick \/ Waiting \/ UNCHANGED vars
    BY <2>0, <2>3 DEF Tick, Waiting, vars, disk, sweep, Untouched, Evicting
  <2>4. CASE Crash
    <3>1. \A a \in Actors : pc'[a] \in {"idle", "stat", "done"}
      BY <2>4 DEF Crash, Start
    <3>2. pc'["pager"] = "idle"
      BY <2>4 DEF Crash, Start, Actors
    <3>3. \A a \in Actors : total'[a] = 0 /\ Seen(a)' = {}
      BY <2>4 DEF Crash, Seen
    <3>4. \A a \in Actors : total'[a] = Bytes(Seen(a)')
      BY <3>3, NoBytes
    <3>5. QED
      BY <3>1, <3>2, <3>4 DEF Untouched, Evicting
  <2>5. QED
    BY <2>1, <2>2, <2>3, <2>4 DEF Next
<1>3. QED
  BY <1>1, <1>2, TypesCorrect, PTL DEF Spec

\* In a cache without expiry that has room for every sentence, a page's segment is
\* there while the call plays it even beside Preflight, over crashes and failures: what
\* takes it away can only be an eviction or an expiry.
THEOREM PlayableIfRoomyCorrect == ASSUME Roomy PROVE Spec => []Playable
<1>1. Untouched => Playable
  BY DEF Untouched, Playable
<1>2. QED
  BY <1>1, UntouchedCorrect, PTL
=============================================================================
