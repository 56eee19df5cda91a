----------------------------- MODULE PageQueue -----------------------------
(***************************************************************************)
(* What the webhook server and the pager loop of tgpager promise together: *)
(* alert groups wait in arrival order in a bounded line, one group is      *)
(* paged at a time, and a group that waits or is being paged is not        *)
(* admitted a second time.  Module Webhook implements it.                  *)
(***************************************************************************)
EXTENDS Naturals, Sequences

CONSTANTS Keys,      \* Alertmanager group keys
          NoKey,     \* "no page in progress"
          Capacity   \* webhook.queue_size

VARIABLES waiting,   \* the groups admitted and not yet paged, oldest first
          paging,    \* the group being paged, or NoKey
          phase      \* "starting", "open" or "closed": the pager's life

vars == <<waiting, paging, phase>>

Init == /\ waiting = <<>>
        /\ paging = NoKey
        /\ phase = "starting"

\* A webhook's group is admitted: at any time, even while the pager is not
\* ready or already gone.
Admit(k) == /\ Len(waiting) < Capacity
            /\ k # paging
            /\ \A i \in 1..Len(waiting) : waiting[i] # k
            /\ waiting' = Append(waiting, k)
            /\ UNCHANGED <<paging, phase>>

\* The pager is ready to take pages.
Open == /\ phase = "starting"
        /\ phase' = "open"
        /\ UNCHANGED <<waiting, paging>>

\* The oldest waiting group is paged next.
Take == /\ phase = "open"
        /\ paging = NoKey
        /\ waiting # <<>>
        /\ paging' = Head(waiting)
        /\ waiting' = Tail(waiting)
        /\ UNCHANGED phase

\* The page in progress ends, whatever came of it.
Finish == /\ paging # NoKey
          /\ paging' = NoKey
          /\ UNCHANGED <<waiting, phase>>

\* The pager ends between two pages; what waits is never paged.
Close == /\ phase # "closed"
         /\ paging = NoKey
         /\ phase' = "closed"
         /\ UNCHANGED <<waiting, paging>>

Next == (\E k \in Keys : Admit(k)) \/ Open \/ Take \/ Finish \/ Close

Spec == Init /\ [][Next]_vars

\* An open pager with a group waiting takes it or closes, and no page lasts
\* forever.
FairSpec == Spec /\ WF_vars(Take) /\ WF_vars(Finish)
=============================================================================
