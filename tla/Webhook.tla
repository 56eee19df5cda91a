------------------------------ MODULE Webhook ------------------------------
(***************************************************************************)
(* The webhook server (internal/server), the pager loop that drains it     *)
(* (cmd/tgpager) and the shutdown of both.                                 *)
(*                                                                         *)
(* Every HTTP request runs in a goroutine of its own; a Handler is a slot  *)
(* for one request in progress and is reused.  enqueue is three steps, as  *)
(* in the code: mark the group under the mutex, offer it to the buffered   *)
(* channel without blocking, and, when the channel is full, take the mark  *)
(* back under the mutex.                                                   *)
(***************************************************************************)
EXTENDS Naturals, Sequences

CONSTANTS Handlers,   \* slots for concurrent HTTP requests
          Keys,       \* group keys that webhooks carry
          NoKey,      \* not a group key
          QueueSize,  \* webhook.queue_size
          TokenSet    \* whether webhook.token is configured

ASSUME QueueSizeAssumption == QueueSize \in Nat \ {0}
ASSUME NoKeyAssumption == NoKey \notin Keys
ASSUME TokenSetAssumption == TokenSet \in BOOLEAN

VARIABLES pc,        \* where each handler is
          req,       \* the group key of the request each handler serves
          result,    \* the result label a handler counts its request under
          inflight,  \* Server.inflight
          queue,     \* Server.queue
          worker,    \* where the pager loop is
          page,      \* the group being paged, NoKey between pages
          ctx,       \* "live", "lost" (Telegram client's context only) or
                     \* "done" (the errgroup's context)
          listening  \* whether the HTTP server admits new requests

vars == <<pc, req, result, inflight, queue, worker, page, ctx, listening>>

\* What an HTTP request can look like to handleAlertmanager.
Request == [bearer   : BOOLEAN,  \* carries the configured token
            decodes  : BOOLEAN,  \* JSON of at most maxBodySize bytes
            complete : BOOLEAN,  \* version, groupKey and status are not empty
            firing   : BOOLEAN,  \* status is "firing"
            key      : Keys]

Results == {"none", "unauthorized", "malformed", "invalid", "not_firing",
            "queued", "duplicate"}

TypeOK == /\ pc \in [Handlers -> {"idle", "mark", "offer", "undo", "reply"}]
          /\ req \in [Handlers -> Keys \cup {NoKey}]
          /\ result \in [Handlers -> Results]
          /\ \A h \in Handlers : pc[h] \in {"mark", "offer", "undo"} => req[h] \in Keys
          /\ inflight \subseteq Keys
          /\ queue \in Seq(Keys)
          /\ Len(queue) <= QueueSize
          /\ worker \in {"starting", "select", "paging", "done", "stopped"}
          /\ page \in Keys \cup {NoKey}
          /\ worker \in {"paging", "done"} <=> page # NoKey
          /\ ctx \in {"live", "lost", "done"}
          /\ listening \in BOOLEAN

Init == /\ pc = [h \in Handlers |-> "idle"]
        /\ req = [h \in Handlers |-> NoKey]
        /\ result = [h \in Handlers |-> "none"]
        /\ inflight = {}
        /\ queue = <<>>
        /\ worker = "starting"
        /\ page = NoKey
        /\ ctx = "live"
        /\ listening = TRUE

-----------------------------------------------------------------------------
(* The HTTP handlers.                                                      *)

Authorized(r) == TokenSet => r.bearer

\* The result handleAlertmanager settles on before it tries to enqueue, the
\* first check that fails deciding; "none" for a webhook that should page.
Screen(r) == IF ~Authorized(r) THEN "unauthorized"
             ELSE IF ~r.decodes THEN "malformed"
             ELSE IF ~r.complete THEN "invalid"
             ELSE IF ~r.firing THEN "not_firing"
             ELSE "none"

\* A request arrives and is screened; only a firing one goes on to enqueue.
Receive(h) ==
  /\ pc[h] = "idle"
  /\ listening
  /\ \E r \in Request :
       /\ pc' = [pc EXCEPT ![h] = IF Screen(r) = "none" THEN "mark" ELSE "reply"]
       /\ req' = [req EXCEPT ![h] = IF Screen(r) = "none" THEN r.key ELSE NoKey]
       /\ result' = [result EXCEPT ![h] = Screen(r)]
  /\ UNCHANGED <<inflight, queue, worker, page, ctx, listening>>

\* enqueue, first critical section: a group in flight is a duplicate.
MarkDuplicate(h) ==
  /\ pc[h] = "mark"
  /\ req[h] \in inflight
  /\ pc' = [pc EXCEPT ![h] = "reply"]
  /\ result' = [result EXCEPT ![h] = "duplicate"]
  /\ UNCHANGED <<req, inflight, queue, worker, page, ctx, listening>>

\* A faulty variant: the group is marked without a look at inflight.
MarkUnchecked(h) ==
  /\ pc[h] = "mark"
  /\ inflight' = inflight \cup {req[h]}
  /\ pc' = [pc EXCEPT ![h] = "offer"]
  /\ UNCHANGED <<req, result, queue, worker, page, ctx, listening>>

MarkInflight(h) ==
  /\ pc[h] = "mark"
  /\ req[h] \notin inflight
  /\ inflight' = inflight \cup {req[h]}
  /\ pc' = [pc EXCEPT ![h] = "offer"]
  /\ UNCHANGED <<req, result, queue, worker, page, ctx, listening>>

\* A faulty variant: one more than the channel holds.
OfferBeyond(h) ==
  /\ pc[h] = "offer"
  /\ Len(queue) <= QueueSize
  /\ queue' = Append(queue, req[h])
  /\ pc' = [pc EXCEPT ![h] = "reply"]
  /\ result' = [result EXCEPT ![h] = "queued"]
  /\ UNCHANGED <<req, inflight, worker, page, ctx, listening>>

\* enqueue, the non-blocking send: it succeeds when the channel has room.
OfferQueued(h) ==
  /\ pc[h] = "offer"
  /\ Len(queue) < QueueSize
  /\ queue' = Append(queue, req[h])
  /\ pc' = [pc EXCEPT ![h] = "reply"]
  /\ result' = [result EXCEPT ![h] = "queued"]
  /\ UNCHANGED <<req, inflight, worker, page, ctx, listening>>

OfferFull(h) ==
  /\ pc[h] = "offer"
  /\ Len(queue) = QueueSize
  /\ pc' = [pc EXCEPT ![h] = "undo"]
  /\ UNCHANGED <<req, result, inflight, queue, worker, page, ctx, listening>>

\* Server.Done: the group may page again.
Done(k) == inflight' = inflight \ {k}

\* A faulty variant: the mark of a group that found no room stays.
UndoNothing(h) ==
  /\ pc[h] = "undo"
  /\ pc' = [pc EXCEPT ![h] = "reply"]
  /\ result' = [result EXCEPT ![h] = "duplicate"]
  /\ UNCHANGED <<req, inflight, queue, worker, page, ctx, listening>>

\* enqueue, second critical section: the mark is taken back.  The handler
\* cannot tell a full queue from a duplicate and counts it as one.
Undo(h) ==
  /\ pc[h] = "undo"
  /\ Done(req[h])
  /\ pc' = [pc EXCEPT ![h] = "reply"]
  /\ result' = [result EXCEPT ![h] = "duplicate"]
  /\ UNCHANGED <<req, queue, worker, page, ctx, listening>>

\* The response is written: 401, 400 or 202.
Reply(h) ==
  /\ pc[h] = "reply"
  /\ pc' = [pc EXCEPT ![h] = "idle"]
  /\ req' = [req EXCEPT ![h] = NoKey]
  /\ result' = [result EXCEPT ![h] = "none"]
  /\ UNCHANGED <<inflight, queue, worker, page, ctx, listening>>

Accepted(h) == pc[h] = "reply" /\ result[h] \in {"not_firing", "queued", "duplicate"}

Handle(h) == Receive(h) \/ MarkDuplicate(h) \/ MarkInflight(h)
               \/ OfferQueued(h) \/ OfferFull(h) \/ Undo(h) \/ Reply(h)

-----------------------------------------------------------------------------
(* The pager loop: one goroutine, inside the Telegram client's Run.        *)

\* Authenticated and the peer resolved: the loop starts.
ClientReady ==
  /\ worker = "starting"
  /\ ctx = "live"
  /\ worker' = "select"
  /\ UNCHANGED <<pc, req, result, inflight, queue, page, ctx, listening>>

\* The client cannot start, or is told to stop first: Run returns an error,
\* which cancels the errgroup's context.
ClientFails ==
  /\ worker = "starting"
  /\ worker' = "stopped"
  /\ ctx' = "done"
  /\ UNCHANGED <<pc, req, result, inflight, queue, page, listening>>

\* A faulty variant: the newest group is paged first.
TakeNewest ==
  /\ worker = "select"
  /\ queue # <<>>
  /\ page' = queue[Len(queue)]
  /\ queue' = SubSeq(queue, 1, Len(queue) - 1)
  /\ worker' = "paging"
  /\ UNCHANGED <<pc, req, result, inflight, ctx, listening>>

\* select, the queue's branch: taken at random even when ctx is done as well.
Take ==
  /\ worker = "select"
  /\ queue # <<>>
  /\ page' = Head(queue)
  /\ queue' = Tail(queue)
  /\ worker' = "paging"
  /\ UNCHANGED <<pc, req, result, inflight, ctx, listening>>

\* A faulty variant: only the client's own context stops the loop.
StopLost ==
  /\ worker = "select"
  /\ ctx = "lost"
  /\ worker' = "stopped"
  /\ ctx' = "done"
  /\ UNCHANGED <<pc, req, result, inflight, queue, page, listening>>

\* select, the branch of ctx.Done: a lost client makes Run return an error,
\* which cancels the errgroup's context.
Stop ==
  /\ worker = "select"
  /\ ctx # "live"
  /\ worker' = "stopped"
  /\ ctx' = "done"
  /\ UNCHANGED <<pc, req, result, inflight, queue, page, listening>>

\* processPage returns.
PageEnds ==
  /\ worker = "paging"
  /\ worker' = "done"
  /\ UNCHANGED <<pc, req, result, inflight, queue, page, ctx, listening>>

\* A faulty variant: Done is not called after the page.
PageDoneNot ==
  /\ worker = "done"
  /\ page' = NoKey
  /\ worker' = "select"
  /\ UNCHANGED <<pc, req, result, inflight, queue, ctx, listening>>

\* srv.Done after the page.
PageDone ==
  /\ worker = "done"
  /\ Done(page)
  /\ page' = NoKey
  /\ worker' = "select"
  /\ UNCHANGED <<pc, req, result, queue, ctx, listening>>

Pager == ClientReady \/ ClientFails \/ Take \/ Stop \/ PageEnds \/ PageDone

-----------------------------------------------------------------------------
(* Shutdown.                                                               *)

\* A signal, or the HTTP server failing to listen, cancels the errgroup.
Cancel ==
  /\ ctx # "done"
  /\ ctx' = "done"
  /\ UNCHANGED <<pc, req, result, inflight, queue, worker, page, listening>>

\* The Telegram client loses its connection for good and cancels the context
\* it gave the loop.
ClientLost ==
  /\ ctx = "live"
  /\ worker \in {"select", "paging", "done"}
  /\ ctx' = "lost"
  /\ UNCHANGED <<pc, req, result, inflight, queue, worker, page, listening>>

\* httpServer.Shutdown: no new requests, those in progress finish.
StopListening ==
  /\ ctx = "done"
  /\ listening
  /\ listening' = FALSE
  /\ UNCHANGED <<pc, req, result, inflight, queue, worker, page, ctx>>

Terminated == worker = "stopped" /\ ~listening /\ \A h \in Handlers : pc[h] = "idle"

\* g.Wait returns and the process exits.
Exited == Terminated /\ UNCHANGED vars

Next == (\E h \in Handlers : Handle(h)) \/ Pager
          \/ Cancel \/ ClientLost \/ StopListening \/ Exited

Spec == Init /\ [][Next]_vars

\* Goroutines that can run do run, a page ends (its waits are all bounded, see
\* the README) and Shutdown is called.  Nothing makes a request arrive, the
\* client become ready or the context end.
Fairness == /\ \A h \in Handlers : WF_vars(Handle(h) /\ pc[h] # "idle")
            /\ WF_vars(Take \/ Stop)
            /\ WF_vars(PageEnds)
            /\ WF_vars(PageDone)
            /\ WF_vars(worker = "starting" /\ ctx = "done" /\ ClientFails)
            /\ WF_vars(StopListening)

FairSpec == Spec /\ Fairness

-----------------------------------------------------------------------------
(* Properties.                                                             *)

\* The three places a group in flight can be: with the handler that marked it
\* and has not settled its fate, in the queue, or with the pager until it
\* has called Done.
Holds(h) == pc[h] \in {"offer", "undo"}
Held == {req[h] : h \in {g \in Handlers : Holds(g)}}
Waiting == {queue[i] : i \in 1..Len(queue)}
Paged == {page} \ {NoKey}

\* A group is in flight exactly while it has one owner, and never two: no mark
\* leaks (which would silence the group for good), none is taken back by
\* another's Done, and no group is queued or paged twice at once.
OwnedOnce ==
  /\ \A g, h \in Handlers : Holds(g) /\ Holds(h) /\ req[g] = req[h] => g = h
  /\ \A i, j \in 1..Len(queue) : queue[i] = queue[j] => i = j
  /\ Held \cap Waiting = {}
  /\ Held \cap Paged = {}
  /\ Waiting \cap Paged = {}
  /\ inflight = Held \cup Waiting \cup Paged

\* The server and the loop implement the bounded, ordered line of groups.
PQ == INSTANCE PageQueue WITH
        Capacity <- QueueSize,
        waiting <- queue,
        paging <- page,
        phase <- CASE worker = "starting" -> "starting"
                   [] worker = "stopped" -> "closed"
                   [] OTHER -> "open"

PageQueueSpec == PQ!Spec
PageQueueFairSpec == PQ!FairSpec

\* A group in flight is not silenced for good: once the loop has started, it
\* leaves inflight again, or the loop has stopped.
EventuallyReleased ==
  \A k \in Keys : (k \in inflight /\ worker # "starting")
                     ~> (k \notin inflight \/ worker = "stopped")

\* A webhook counted as queued gets its page, unless the loop stops first.
QueuedIsPaged ==
  \A k \in Keys : (k \in Waiting /\ worker # "starting")
                     ~> (page = k \/ worker = "stopped")

\* Once the errgroup's context is done, everything ends: the loop, the
\* requests in progress and the listener.
ShutdownCompletes == ctx = "done" ~> Terminated

\* The README: "The handler queues the page and returns immediately, so 202
\* Accepted means accepted".  A firing webhook answered 202 without being
\* queued therefore names a group that is queued, being paged, or about to be
\* queued by another handler.
AcceptedIsPending ==
  [][\A h \in Handlers :
       result'[h] = "duplicate" /\ result[h] # "duplicate"
         => \/ req[h] \in Waiting \cup Paged
            \/ \E g \in Handlers \ {h} : Holds(g) /\ req[g] = req[h]]_vars
=============================================================================
