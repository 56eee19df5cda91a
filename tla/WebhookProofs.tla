--------------------------- MODULE WebhookProofs ---------------------------
(***************************************************************************)
(* For every set of handlers and keys and every queue size: the types of   *)
(* Webhook, one owner for every group in flight, and the refinement of     *)
(* PageQueue.  Where the queue has room for every group, that 202 means    *)
(* accepted.                                                               *)
(***************************************************************************)
EXTENDS Webhook, FiniteSetTheorems, TLAPS

\* The states of Webhook are well typed: the queue never exceeds QueueSize and
\* the loop holds a page exactly while it is paging or about to call Done.
THEOREM TypeCorrect == Spec => []TypeOK
<1>1. Init => TypeOK
  BY QueueSizeAssumption DEF Init, TypeOK, Results
<1>2. TypeOK /\ [Next]_vars => TypeOK'
  <2> SUFFICES ASSUME TypeOK, [Next]_vars PROVE TypeOK'
    OBVIOUS
  <2> USE NoKeyAssumption, QueueSizeAssumption DEF TypeOK, Results
  <2>1. ASSUME NEW h \in Handlers, Receive(h) PROVE TypeOK'
    BY <2>1 DEF Receive, Screen, Request
  <2>2. ASSUME NEW h \in Handlers, MarkDuplicate(h) PROVE TypeOK'
    BY <2>2 DEF MarkDuplicate
  <2>3. ASSUME NEW h \in Handlers, MarkInflight(h) PROVE TypeOK'
    BY <2>3 DEF MarkInflight
  <2>4. ASSUME NEW h \in Handlers, OfferQueued(h) PROVE TypeOK'
    BY <2>4 DEF OfferQueued
  <2>5. ASSUME NEW h \in Handlers, OfferFull(h) PROVE TypeOK'
    BY <2>5 DEF OfferFull
  <2>6. ASSUME NEW h \in Handlers, Undo(h) PROVE TypeOK'
    BY <2>6 DEF Undo, Done
  <2>7. ASSUME NEW h \in Handlers, Reply(h) PROVE TypeOK'
    BY <2>7 DEF Reply
  <2>8. CASE ClientReady
    BY <2>8 DEF ClientReady
  <2>9. CASE ClientFails
    BY <2>9 DEF ClientFails
  <2>10. CASE Take
    BY <2>10 DEF Take
  <2>11. CASE Stop
    BY <2>11 DEF Stop
  <2>12. CASE PageEnds
    BY <2>12 DEF PageEnds
  <2>13. CASE PageDone
    BY <2>13 DEF PageDone, Done
  <2>14. CASE Cancel \/ ClientLost \/ StopListening
    BY <2>14 DEF Cancel, ClientLost, StopListening
  <2>15. CASE UNCHANGED vars
    BY <2>15 DEF vars
  <2>16. QED
    BY <2>1, <2>2, <2>3, <2>4, <2>5, <2>6, <2>7, <2>8, <2>9, <2>10, <2>11,
       <2>12, <2>13, <2>14, <2>15 DEF Next, Handle, Pager, Exited
<1>3. QED
  BY <1>1, <1>2, PTL DEF Spec

-----------------------------------------------------------------------------
(* OwnedOnce is inductive relative to TypeOK.  Its parts change together: a *)
(* step that adds, moves or removes an owner of a group does the same to   *)
(* inflight, and only for its own group.                                   *)

\* What Append and Tail do to the groups that wait.
LEMMA AppendWaiting ==
  ASSUME NEW s \in Seq(Keys), NEW k \in Keys
  PROVE  /\ Len(Append(s, k)) = Len(s) + 1
         /\ \A i \in 1..Len(s) : Append(s, k)[i] = s[i]
         /\ Append(s, k)[Len(s) + 1] = k
         /\ Len(s) \in Nat
OBVIOUS

LEMMA TailWaiting ==
  ASSUME NEW s \in Seq(Keys), s # <<>>
  PROVE  /\ Len(s) \in Nat \ {0}
         /\ Len(Tail(s)) = Len(s) - 1
         /\ \A i \in 1..(Len(s) - 1) : Tail(s)[i] = s[i + 1]
         /\ Head(s) = s[1]
OBVIOUS

\* OwnedOnce group by group rather than set by set, the form its steps are
\* proved in.
Ownership ==
  /\ \A g, h \in Handlers : Holds(g) /\ Holds(h) /\ req[g] = req[h] => g = h
  /\ \A i, j \in 1..Len(queue) : queue[i] = queue[j] => i = j
  /\ \A g \in Handlers : Holds(g) =>
       /\ req[g] \in inflight
       /\ req[g] # page
       /\ \A i \in 1..Len(queue) : queue[i] # req[g]
  /\ \A i \in 1..Len(queue) : queue[i] \in inflight /\ queue[i] # page
  /\ page # NoKey => page \in inflight
  /\ \A k \in inflight : \/ \E g \in Handlers : Holds(g) /\ req[g] = k
                         \/ \E i \in 1..Len(queue) : queue[i] = k
                         \/ page = k

LEMMA OwnershipSuffices == TypeOK /\ Ownership => OwnedOnce
<1> SUFFICES ASSUME TypeOK, Ownership PROVE OwnedOnce
  OBVIOUS
<1> USE NoKeyAssumption DEF TypeOK, Ownership, Held, Waiting, Paged
<1>1. Held \subseteq inflight /\ Waiting \subseteq inflight /\ Paged \subseteq inflight
  OBVIOUS
<1>2. inflight \subseteq Held \cup Waiting \cup Paged
  <2> SUFFICES ASSUME NEW k \in inflight PROVE k \in Held \cup Waiting \cup Paged
    OBVIOUS
  <2>1. CASE \E g \in Handlers : Holds(g) /\ req[g] = k
    BY <2>1
  <2>2. CASE \E i \in 1..Len(queue) : queue[i] = k
    BY <2>2
  <2>3. CASE page = k
    BY <2>3
  <2>4. QED
    BY <2>1, <2>2, <2>3
<1>3. /\ Held \cap Waiting = {}
      /\ Held \cap Paged = {}
      /\ Waiting \cap Paged = {}
  OBVIOUS
<1>4. QED
  BY <1>1, <1>2, <1>3 DEF OwnedOnce

LEMMA OwnershipStep == TypeOK /\ Ownership /\ [Next]_vars => Ownership'
<1> SUFFICES ASSUME TypeOK, Ownership, [Next]_vars PROVE Ownership'
  OBVIOUS
<1> USE NoKeyAssumption DEF TypeOK, Ownership, Holds
<1>1. ASSUME NEW h \in Handlers, Receive(h) PROVE Ownership'
  BY <1>1 DEF Receive
<1>2. ASSUME NEW h \in Handlers, MarkDuplicate(h) PROVE Ownership'
  BY <1>2 DEF MarkDuplicate
<1>3. ASSUME NEW h \in Handlers, MarkInflight(h) PROVE Ownership'
  BY <1>3 DEF MarkInflight
<1>4. ASSUME NEW h \in Handlers, OfferQueued(h) PROVE Ownership'
  BY <1>4, AppendWaiting DEF OfferQueued
<1>5. ASSUME NEW h \in Handlers, OfferFull(h) PROVE Ownership'
  BY <1>5 DEF OfferFull
<1>6. ASSUME NEW h \in Handlers, Undo(h) PROVE Ownership'
  BY <1>6 DEF Undo, Done
<1>7. ASSUME NEW h \in Handlers, Reply(h) PROVE Ownership'
  BY <1>7 DEF Reply
<1>8. CASE Take
  <2> DEFINE n == Len(queue)
  <2>1. /\ n \in Nat \ {0}
        /\ Len(queue') = n - 1
        /\ \A i \in 1..(n - 1) : queue'[i] = queue[i + 1]
        /\ page' = queue[1] /\ page = NoKey
        /\ UNCHANGED <<pc, req, inflight>>
    BY <1>8, TailWaiting DEF Take
  <2> HIDE DEF n
  <2>2. \A i \in 1..(n - 1) : i + 1 \in 1..n /\ i + 1 # 1
    BY <2>1
  <2>3. \A i \in 1..n : i = 1 \/ \E j \in 1..(n - 1) : i = j + 1
    <3> SUFFICES ASSUME NEW i \in 1..n, i # 1 PROVE i - 1 \in 1..(n - 1) /\ i = (i - 1) + 1
      OBVIOUS
    <3> QED
      BY <2>1
  <2>4. \A i, j \in 1..(n - 1) : queue'[i] = queue'[j] => i = j
    <3> SUFFICES ASSUME NEW i \in 1..(n - 1), NEW j \in 1..(n - 1),
                        queue'[i] = queue'[j]
                 PROVE  i = j
      OBVIOUS
    <3>1. i + 1 = j + 1
      BY <2>1, <2>2 DEF n
    <3>2. QED
      BY <2>1, <3>1
  <2>5. \A g \in Handlers : Holds(g) =>
          /\ req[g] \in inflight
          /\ req[g] # page'
          /\ \A i \in 1..(n - 1) : queue'[i] # req[g]
    BY <2>1, <2>2 DEF n
  <2>6. \A i \in 1..(n - 1) : queue'[i] \in inflight /\ queue'[i] # page'
    BY <2>1, <2>2 DEF n
  <2>7. page' \in inflight
    BY <2>1 DEF n
  <2>8. \A k \in inflight : \/ \E g \in Handlers : Holds(g) /\ req[g] = k
                            \/ \E i \in 1..(n - 1) : queue'[i] = k
                            \/ page' = k
    <3> SUFFICES ASSUME NEW k \in inflight, NEW i \in 1..n, queue[i] = k
                 PROVE  (\E j \in 1..(n - 1) : queue'[j] = k) \/ page' = k
      BY <2>1 DEF n
    <3>1. CASE i = 1
      BY <2>1, <3>1
    <3>2. ASSUME NEW j \in 1..(n - 1), i = j + 1
          PROVE  queue'[j] = k
      BY <2>1, <3>2
    <3>3. QED
      BY <2>3, <3>1, <3>2
  <2>9. QED
    BY <2>1, <2>4, <2>5, <2>6, <2>7, <2>8
<1>9. CASE PageDone
  BY <1>9 DEF PageDone, Done
<1>10. CASE UNCHANGED <<pc, req, inflight, queue, page>>
  BY <1>10
<1>11. QED
  BY <1>1, <1>2, <1>3, <1>4, <1>5, <1>6, <1>7, <1>8, <1>9, <1>10
     DEF Next, Handle, Pager, ClientReady, ClientFails, Stop, PageEnds,
         Cancel, ClientLost, StopListening, Exited, vars

LEMMA OwnershipCorrect == Spec => []Ownership
<1>1. Init => Ownership
  BY DEF Init, Ownership, Holds
<1>2. QED
  BY <1>1, OwnershipStep, TypeCorrect, PTL DEF Spec

\* Every group in flight has exactly one owner: a handler, the queue or the
\* loop.
THEOREM OwnedOnceCorrect == Spec => []OwnedOnce
  BY OwnershipCorrect, OwnershipSuffices, TypeCorrect, PTL

-----------------------------------------------------------------------------
(* The refinement: OfferQueued is the step that admits a group, and the     *)
(* abstract guard, that the group neither waits nor is paged, follows from *)
(* Ownership: the group is held by the handler that offers it.             *)

LEMMA PageQueueStep ==
  TypeOK /\ Ownership /\ [Next]_vars => [PQ!Next]_(PQ!vars)
<1> SUFFICES ASSUME TypeOK, Ownership, [Next]_vars PROVE [PQ!Next]_(PQ!vars)
  OBVIOUS
<1> USE NoKeyAssumption DEF TypeOK
<1>1. ASSUME NEW h \in Handlers, OfferQueued(h) PROVE PQ!Next
  <2>1. /\ req[h] \in Keys
        /\ req[h] # page
        /\ \A i \in 1..Len(queue) : queue[i] # req[h]
    BY <1>1 DEF OfferQueued, Ownership, Holds
  <2>2. PQ!Admit(req[h])
    BY <1>1, <2>1 DEF OfferQueued, PQ!Admit
  <2>3. QED
    BY <2>1, <2>2 DEF PQ!Next
<1>2. CASE Take
  BY <1>2 DEF Take, PQ!Next, PQ!Take
<1>3. CASE PageDone
  BY <1>3 DEF PageDone, PQ!Next, PQ!Finish
<1>4. CASE ClientReady
  BY <1>4 DEF ClientReady, PQ!Next, PQ!Open
<1>5. CASE ClientFails \/ Stop
  BY <1>5 DEF ClientFails, Stop, PQ!Next, PQ!Close
<1>6. CASE PageEnds
  BY <1>6 DEF PageEnds, PQ!vars
<1>7. CASE UNCHANGED <<queue, page, worker>>
  BY <1>7 DEF PQ!vars
<1>8. QED
  BY <1>1, <1>2, <1>3, <1>4, <1>5, <1>6, <1>7
     DEF Next, Handle, Pager, Receive, MarkDuplicate, MarkInflight, OfferFull,
         Undo, Reply, Cancel, ClientLost, StopListening, Exited, vars

\* The server and the loop implement the abstract line of groups: bounded,
\* first in first out, one page at a time, no group twice.
THEOREM PageQueueRefinement == Spec => PageQueueSpec
<1>1. Init => PQ!Init
  BY DEF Init, PQ!Init
<1>2. QED
  BY <1>1, PageQueueStep, TypeCorrect, OwnershipCorrect, PTL
     DEF Spec, PQ!Spec, PageQueueSpec

-----------------------------------------------------------------------------
(* A queue that has room for every group.                                  *)

Roomy == IsFiniteSet(Keys) /\ Cardinality(Keys) <= QueueSize

\* A handler that offers a group finds room: the others are all that can wait.
LEMMA RoomToOffer ==
  ASSUME TypeOK, Ownership, Roomy, NEW h \in Handlers, pc[h] = "offer"
  PROVE  Len(queue) < QueueSize
<1> DEFINE others == Keys \ {req[h]}
<1>1. req[h] \in Keys /\ Len(queue) \in Nat
  BY DEF TypeOK
<1>2. /\ IsFiniteSet(others)
      /\ Cardinality(others) = Cardinality(Keys) - 1
      /\ Cardinality(Keys) \in Nat
  BY <1>1, FS_RemoveElement, FS_CardinalityType DEF Roomy
<1>3. IsFiniteSet(1..Len(queue)) /\ Cardinality(1..Len(queue)) = Len(queue)
  BY <1>1, FS_Interval
<1> DEFINE f == [i \in 1..Len(queue) |-> queue[i]]
<1>4. f \in [1..Len(queue) -> others]
  BY DEF TypeOK, Ownership, Holds
<1>5. \A i, j \in 1..Len(queue) : f[i] = f[j] => i = j
  BY DEF Ownership
<1>6. ~(Cardinality(others) < Cardinality(1..Len(queue)))
  <2> HIDE DEF others, f
  <2>1. QED
    BY <1>2, <1>3, <1>4, <1>5, FS_PigeonHole
<1>7. QED
  <2> HIDE DEF others, f
  <2>1. QED
    BY <1>1, <1>2, <1>3, <1>6, QueueSizeAssumption DEF Roomy

\* So no mark is ever taken back.
NoneUndone == \A h \in Handlers : pc[h] # "undo"

LEMMA NoneUndoneStep ==
  ASSUME TypeOK, Ownership, NoneUndone, Roomy, [Next]_vars
  PROVE  NoneUndone'
<1> USE DEF TypeOK, NoneUndone
<1>1. ASSUME NEW h \in Handlers, OfferFull(h) PROVE FALSE
  BY <1>1, RoomToOffer, QueueSizeAssumption DEF OfferFull
<1>2. ASSUME NEW h \in Handlers, Handle(h) PROVE NoneUndone'
  BY <1>1, <1>2 DEF Handle, Receive, MarkDuplicate, MarkInflight, OfferQueued, Undo, Reply
<1>3. CASE Pager \/ Cancel \/ ClientLost \/ StopListening \/ UNCHANGED vars
  BY <1>3 DEF Pager, ClientReady, ClientFails, Take, Stop, PageEnds, PageDone, Cancel,
              ClientLost, StopListening, vars
<1>4. QED
  BY <1>2, <1>3 DEF Next, Exited

\* Whatever counts a webhook as a duplicate has found its group in flight.
LEMMA DuplicateIsPending ==
  ASSUME TypeOK, Ownership, NoneUndone, [Next]_vars, NEW h \in Handlers,
         result'[h] = "duplicate", result[h] # "duplicate"
  PROVE  \/ req[h] \in Waiting \cup Paged
         \/ \E g \in Handlers \ {h} : Holds(g) /\ req[g] = req[h]
<1> USE DEF TypeOK
<1>1. MarkDuplicate(h)
  <2>1. CASE \E g \in Handlers : Handle(g)
    <3>1. PICK g \in Handlers : Handle(g)
      BY <2>1
    <3>2. ASSUME Receive(g) PROVE result'[g] # "duplicate"
      BY <3>2 DEF Receive, Screen
    <3>3. QED
      BY <3>1, <3>2 DEF Handle, Receive, MarkDuplicate, MarkInflight, OfferQueued,
                        OfferFull, Undo, Reply, NoneUndone
  <2>2. CASE Pager \/ Cancel \/ ClientLost \/ StopListening \/ UNCHANGED vars
    BY <2>2 DEF Pager, ClientReady, ClientFails, Take, Stop, PageEnds, PageDone, Cancel,
                ClientLost, StopListening, vars
  <2>3. QED
    BY <2>1, <2>2 DEF Next, Exited
<1>2. pc[h] = "mark" /\ req[h] \in inflight /\ req[h] # NoKey
  BY <1>1, NoKeyAssumption DEF MarkDuplicate
<1>3. CASE \E g \in Handlers : Holds(g) /\ req[g] = req[h]
  BY <1>2, <1>3 DEF Holds
<1>4. CASE \E i \in 1..Len(queue) : queue[i] = req[h]
  BY <1>4 DEF Waiting
<1>5. CASE page = req[h]
  BY <1>2, <1>5 DEF Paged
<1>6. QED
  BY <1>2, <1>3, <1>4, <1>5 DEF Ownership

\* If the queue is as long as there are groups, a firing webhook that is answered
\* 202 without being queued does name a group that is pending, as the README
\* says: what breaks that promise is a full queue and nothing else.
THEOREM AcceptedIfRoomyCorrect == ASSUME Roomy PROVE Spec => AcceptedIsPending
<1>1. Init => NoneUndone
  BY DEF Init, NoneUndone
<1>2. TypeOK /\ Ownership /\ NoneUndone /\ [Next]_vars => NoneUndone'
  BY NoneUndoneStep
<1>3. TypeOK /\ Ownership /\ NoneUndone /\ [Next]_vars
        => [\A h \in Handlers :
              result'[h] = "duplicate" /\ result[h] # "duplicate"
                => \/ req[h] \in Waiting \cup Paged
                   \/ \E g \in Handlers \ {h} : Holds(g) /\ req[g] = req[h]]_vars
  BY DuplicateIsPending
<1>4. QED
  BY <1>1, <1>2, <1>3, TypeCorrect, OwnershipCorrect, PTL DEF Spec, AcceptedIsPending
=============================================================================
