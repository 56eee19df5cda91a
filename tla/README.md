# tgpager in TLA+

tgpager takes Alertmanager webhooks and pages one person over Telegram: it rings
them, plays a tone and a synthesized sentence into the call, and can leave a voice
message or a text. This directory holds TLA+ models of it, the TLC runs that check
them on small instances, and proofs, checked by TLAPS, of what matters most for
every instance. `PROJECT.json` says which definition models which lines of the
code, which runs there are, and which changes of a definition each property
catches.

Paths below are relative to the repository.

## Inventory

```
Alertmanager --POST--> webhook server --queue--> pager loop --> page
                        (one goroutine                          |-- speech --- cache --- provider
                         per request)                           |-- call ----- retry --- gotd, stream --- ffmpeg
                                                                |-- voice message, text -- retry --- gotd
                       errgroup: preflight, listener, shutdown, Telegram client (runs the loop)
```

| Component | Code | State | Operations | Hard about it | What makes it correct |
| --- | --- | --- | --- | --- | --- |
| webhook server | `internal/server`, `internal/alertmanager` | `inflight` (mutex), `queue` (buffered channel) | a request's checks, `enqueue`, `Done` | requests for one group interleave with each other and with `Done`; the queue fills | a group in flight has one owner; no mark leaks; bounded, ordered |
| pager loop, shutdown | `cmd/tgpager/main.go` `run` | the page in progress, the errgroup's context, the listener | select, page, `Done`; cancel, `Shutdown` | random select at shutdown; a page blocks those behind it | queued groups are paged; a shutdown completes |
| page | `processPage`, `sendVoice`, `sendText`, `VoiceMode`, `TextMode` | how the call and the message went, a temporary file | call, render, send, text | twelve configurations, a failure at every step | no silent failure; no false failure; no file left |
| retry loop | `tgcall.(*Client).retry`, `retryWait`, `permanent` | attempt, pause | attempt, judge, pause | FLOOD_WAIT, cancellation in the select | flood waits honoured; a cancellation ends it; bounded |
| call | `ringOnce`, `placeCall`, `waitConnected`, `hangup` | the call at Telegram, the callbacks, a channel of one | request, watch, wait, stream, hang up | gotd's callbacks race their own registration; a drop is not replayed | hung up however it ends; success means streamed |
| messages | `SendVoice`, `SendText` | an uploaded file kept across attempts | upload, send | a send that arrived may look failed; `voice.timeout` falls anywhere | one upload; copies are bounded by lost answers; as a fallback the text stands in for the voice message |
| speech and cache | `tts.Speaker`, `tts.Cache` | a directory, shared by two goroutines without a lock | look up, store, evict; preflight | every system call interleaves; crashes | hits are complete and playable; the limit holds; speech never blocks a page |
| providers | `tts.OpenAI`, `tts.Command` | a child process, a temporary directory, a response | synthesize | processes that outlive the command; stalling servers; the body's limit | whole audio or an error; nothing left behind; an end in time |
| streaming | `audio.FFmpegStreamer.Stream` | a process, a socket, a pipe, two goroutines | forward, time out, finish | the wait closes the pipe being read; the exit overtakes packets | everything is played; nothing is left behind; the cause is reported |
| duration | `audio.OggDuration` | none | scan, scale | page headers in payloads, 64-bit arithmetic | the last page; exact; not negative |
| client start | `Client.Run`, `authenticate`, `verifySelf`, `resolvePeer`, `internal/peercache` | session and peer cache on disk, the resolved peer | authenticate, verify, resolve, save | sessions made under another configuration; peers saved in two transactions; crashes between them | no bot ever places a call; an access hash is used by the account it was given to; the pager starts again |
| configuration | `internal/config` | none once loaded | load, resolve secrets | required and exclusive fields | bots and calling modes exclude each other |

Interaction: the server and the loop share the queue and `inflight`; everything
under a page is called by the loop, so at most one page exists; the cache
directory is shared between the page and Preflight; gotd calls back into
`waitConnected`; ffmpeg talks to the streamer through a socket and a pipe; the
errgroup's context reaches all of them.

## Modules

```
Webhook --implements--> PageQueue          Startup      Provider      SpeechCache
   a page of its loop is:
Paging --implements--> Page                             Stream        OggDuration
   |-- C == INSTANCE Ring ----|
   |-- M == INSTANCE Message -|-- R == INSTANCE Retry
```

| Module | Models | Its parts |
| --- | --- | --- |
| `PageQueue` | abstract: what the server and the loop promise together | `Admit`, `Open`, `Take`, `Finish`, `Close` over `waiting`, `paging`, `phase` |
| `Webhook` | server, loop and shutdown; implements `PageQueue` | a handler is a slot for one request: `Receive` (all checks up to `enqueue`), `MarkDuplicate`/`MarkInflight`, `OfferQueued`/`OfferFull`, `Undo`, `Reply`; the loop: `ClientReady`, `ClientFails`, `Take`, `Stop`, `PageEnds`, `PageDone`; `Cancel`, `ClientLost`, `StopListening` |
| `Page` | abstract: `processPage` with a step for every operation it calls and every way that ends | `Speak`, `CallSucceeds`/`CallFails`, the steps of `sendVoice`, `TextSent`/`TextNotSent`, `Verdict` |
| `RetryParams` | the constants of a retry loop and what is assumed of them | |
| `Retry` | the retry loop with opaque attempts | `AttemptEnds`, `Return`, `Pause`, `Tick`, `NextAttempt`, `PauseCut`, `Cancel` |
| `Ring` | a call as an attempt; instantiates `Retry` for the loop, implements it | the steps of `ringOnce` in order, `CallConnects` and `CallDrops` from gotd |
| `Message` | `SendVoice` and `SendText`; instantiates `Retry` for the loop | `CheckFails`/`CheckPasses`, then per attempt `Begin`, `Upload`, `Answered`, `Refused`, `AnswerLost` |
| `Paging` | the page with its call and messages opened up; implements `Page` | the steps of `Page` that are no operation, `Ring` and `Send` for those that are, `Events`, `TimesOut`, `Shutdown` |
| `SpeechCache` | Speak and Preflight over the cache | one action per system call of `Lookup`, `Store` and `evict`, `Crash` |
| `Provider` | one `Synthesize` of either provider | the command: `MkdirTemp`, `Start`, `Kill`, `WaitEnds`, `Output`, `RemoveAll`; the request: `Post`, `Abandon`, `LimitReached`; and what command and server do |
| `Stream` | streaming with ffmpeg | the loop, the two goroutines, the process |
| `OggDuration` | the duration of a rendered message | the scan, then the arithmetic with the width of integers as a constant |
| `Startup` | from the command line to a client that is ready, over restarts | `Load`, `OpenCache`, `Authenticate`, `Verify`, the ways of `resolvePeer`, `Save`, `Check`; `Fault`; what the operator does: `Errand`, `Edit`, `DropSession` |

`MC...` modules and the `.cfg` files give the constants small values;
`...Proofs` modules extend the module they prove about; `RingProofs` also holds the
proofs about `Retry`, `PagingProofs` those about `Page` and `Message`.

Choices that a reader of the code should know:

- In `Webhook` the mutex sections of `enqueue` are single actions, since the mutex
  makes them so; the offer to the channel between them is an action of its own. The
  content of a request is chosen when it arrives: the checks before `enqueue`
  touch no shared state. The handler cannot tell a full queue from a duplicate,
  and neither can the model's `result`.
- `ctx` in `Webhook` tells the errgroup's context (`done`) from the one that gotd
  passes to the loop (`lost` when only that has ended).
- `Paging` has one set of variables for the retry loop, because a page runs its
  operations one after the other. `top` is the client's context; `ctx` is that of
  the operation, which is the client's for a call and derived anew, with
  `voice.timeout`, for each message. A loop's locals are reset when it is left.
  `Ring` and `Message` can also be read, and `Ring` is also proved about, alone.
- In `Retry` time passes only in pauses. An attempt that takes time only lets more
  of a FLOOD_WAIT pass, so this is the hardest case for `FloodHonored`.
- gotd is not part of the repository. `Ring` takes from the comments and calls in
  `call.go` that `Request` blocks until the callee accepts and leaves nothing to
  hang up when it fails, and that `OnConnected` is replayed and
  `OnDisconnected` is not. `ClientLost` is taken from the context `Run` passes.
- In `Message` a send that arrives while its answer does not is an error like any
  other to the loop, as in `voice.go`, where nothing ties the send of one attempt to
  that of the next. `copies` and `lost` only record what happened.
- In `SpeechCache` a file is its sentence, its last use and whether it is
  complete; paths are hashes of the sentence and the provider's settings, so
  different sentences have different paths. The cache holds as many bytes as the set
  of all (sentence, byte) pairs has elements, which is the sum of the sizes. A
  synthesis takes at least a tick, so that entries get different ages. `Preflight`
  and pages speak different sentences. `asof` is the clock as `Lookup` and `entries`
  read it, once each. Reads and removals may fail at any time, and each failure does
  what the code does with it. A directory that cannot be read ends the eviction
  (`ListFails`), and `Store` has succeeded. An entry that cannot be looked at
  (`InfoFails`) and an expired one that cannot be removed (`Unlink`) stay and do not
  count; one that cannot be evicted (`EvictFails`) stays and counts, so that more has
  to go, up to the file just stored. A file that cannot be looked at is a miss
  (`Stat`), one that cannot be touched keeps its age (`Touch`). `unswept` records what
  has so escaped since the directory was last listed, and what a crash amid an
  eviction leaves; `WithinLimit` is about the other files. `alone` ends when what
  could not be evicted takes the room of the page's own sentence; with a limit of 3,
  an old entry of 2 bytes that cannot be removed and a new one of 2 bytes, the file
  just stored is removed and `Speak` returns its path. A temporary file that stays,
  after a crash or for want of its removal, is counted by nobody.
- In `Provider` a command is a process that may fork; `exec.Cmd` waits for
  everyone who holds the pipe of its output, and the deadline kills the command
  only. An exit status of 0 is taken at its word: the audio is all there, or a
  process that the command left behind completes it.
- In `Startup` an access hash is worth something to one account only, and the model
  remembers to which account each was given. Telegram's sign-in dialogue is one
  step. The operator may run `-login` and `-voice`, edit the configuration between
  runs, and change the session, where he drops the peer cache as README.md:254
  asks; without that the hash of the old account would be used, which is what
  the sentence there is about. The phone number and the access hash are saved in
  transactions of their own, in either order.
- In `Stream` the loop is assumed not to be held up for the whole 200ms between
  setting the deadline and reading. Packets that the socket has no room for count
  as not sent.
- `OggDuration` sees a tail as the sequence of positions where a header would fit,
  each holding a page's granule position, -1, or no header (which includes the
  magic with a wrong version byte).

Operators named as "a faulty variant" in a comment are not part of a model. Each is
the plausible bug that one property is there to catch.

## Runs

Passing runs:

| Run | Instance | Shows |
| --- | --- | --- |
| `webhook` | 2 handlers, 3 groups, queue of 2, token set | one owner for every group in flight (`OwnedOnce`); the server and the loop implement `PageQueue` with its fairness; `EventuallyReleased`, `QueuedIsPaged`, `ShutdownCompletes` |
| `paging` | all twelve configurations, 3 attempts of each operation, pauses of 2, floods of 1, 3 and 4 | the page implements `Page` (`PageSpec`); of the loops `FloodHonored` and `CancelCostsOne`; of the call `NoCallLeftUp` and `SuccessIsStreamed`; of the messages `AnsweredOnce`, `UploadedOnce`, `FallbackStandsIn`; of the page `FailureIsLoud`, `CallIsNotUndone`, `TempRemoved`, `PageEnds` |
| `startup` | 4 edits, 2 faults | `NoBotRings`, `PeerIsPageable`; what a crash leaves behind keeps nobody from starting (`StartsAgain`) |
| `speech_cache` | sentences of 1, 1 and 2 bytes, limit 3, TTL 1, a clock that waits until 3, Preflight, any failures, a crash | `NeverTruncated`, `WithinLimit` (but for files that could not be swept), `PlayableAlone` (pages after Preflight has ended, with room beside what could not be evicted), `SpeakReturns` |
| `provider` | audio of up to 3 chunks, of which a response may have 2 | `WholeAudio`, `DirRemoved`, `ReturnsUnlessHeld` |
| `stream` | 4 packets | `PlayedToTheEnd`, `FfmpegEnds`, `GoroutinesEnd`, `CancelReturns` |
| `ogg_duration` | signed bytes, 8 samples and 10 units a second, tails of 2 | `LastCompletePage`, `ExactWhenItFits` |

Why these bounds are enough: two requests can name one group, two groups fill
the queue, and a third finds it full before the loop takes one out; a queue of
two is what it takes for order to matter. What more requests, groups and places
would do to `OwnedOnce` and to the safety of the refinement is settled by proof.
Three attempts have a first, a middle and a last one, and floods lie below and
above the pause, with two above that differ; a shutdown and a timeout can fall
between any two steps. That more attempts, other pauses and other floods change
nothing is proved for all but `PageEnds`. Two edits of `Startup` change the
session's account and the configuration, two more bring the old ones back; two
faults can cut two starts in a row, also between the two transactions of one peer,
and the theorems again leave neither bound. A third chunk is what a response of two
has cut off. With a TTL of 1 an entry can expire between any
two steps of a lookup or a sweep, and a clock that goes to 3 leaves room for one
entry to expire and be renewed. A third sentence is what makes a store evict one
entry and keep another; a limit of 3 lets either small one stay beside the large one; one crash
can fall between any two steps, and what a second would find is a directory that
one crash already leaves. A signed byte has 127 granule positions on both sides
of every boundary of `samplesDuration`, and two positions are a page behind a
page.

The bounds by name: `Attempts` and `VoiceAttempts` are the configuration's, `Floods`
the waits Telegram may ask for; `MaxEdits` and `MaxFaults` count what the operator
does and what fails in `Startup`; `MaxSize` is the longest audio of `Provider` and
`MaxAudio` the code's own limit; `MaxTime` bounds the clock of `SpeechCache` (from
then on no page begins and nothing waits, but syntheses under way take their tick), `MaxCrashes` the crashes, `MaxPackets` the packets of
`Stream`, `MaxTail` and `PreSkips` the inputs of `OggDuration`.

Runs that show a disagreement between the code and what the repository says of it
(the details and the quoted lines are in `PROJECT.json`, `findings`):

| Run | Violates | Because |
| --- | --- | --- |
| `webhook_accepted` | `AcceptedIsPending` | a firing group that finds the queue full is answered 202 as a duplicate |
| `speech_race` | `Playable` | a page's store evicts the oldest files of its listing, and with Preflight storing beside it that can be the very file it returns (a sentence larger than `max_bytes` is evicted by its own store even without Preflight) |
| `provider_hangs` | `TimesOut` | a process that the command started holds its output, and `Synthesize` waits for it after the deadline has killed the command |
| `ogg_negative` | `NeverNegative` | whole seconds are checked, the remainder on top of them is not |
| `stream_cause` | `CauseIsCarried` | `cmd.Wait` closes the pipe that the other goroutine still reads |

A smaller one has no run: docs/voice.md:193 has every failure of a voice message in
mode `only` logged at error as a failed page, while cmd/tgpager/main.go:305
leaves it at a warning when the text went through, and says why.

## Fairness

- `Webhook`: a request in progress, the loop's select, `Done` and `Shutdown` are
  goroutines that can run. A page is assumed to end; the models below it are the
  reason: `PageEnds`, `SpeakReturns`, `CancelReturns`, and `ReturnsUnlessHeld`
  with the exception that `provider_hangs` shows. Nothing makes requests arrive,
  the client become ready, or anything be canceled. A client that is still
  starting when the context ends does fail.
- `Paging`: the page is one goroutine (`WF_vars(Program)`). That fairness stands for
  Telegram's answers, for timers that fire, and for the ends of speech, stream and
  ffmpeg. Every wait of an attempt has a bound (`ring_timeout`, `connect_timeout`, the
  end of the audio, `voice.timeout`) but one: the hangup runs under a context that
  cannot be canceled and without a deadline (`call.go:140`), and Telegram is
  assumed to answer it. gotd's callbacks, `voice.timeout` and a shutdown may happen
  and need not.
- `SpeechCache`: the goroutine of the pages runs, whether or not Preflight does;
  providers have a timeout.
- `Provider`: `Synthesize` runs, its deadline comes, and a killed process dies. No
  server has to answer, and no process has to end by itself.
- `Startup`: the pager is started whenever it is down, and runs (`WF_vars(Boot)`).
  `StartsAgain` asks only about behaviours whose configuration comes to rest.
- `Stream`: the goroutines run and a killed process dies. ffmpeg is not assumed to
  end by itself.

`CHECK_DEADLOCK` is on everywhere; a component that has come to its end says so
with a stuttering step.

## Proofs

All theorems are checked by `tlapm` for every value of the constants, from the
assumptions named in the modules (`QueueSizeAssumption` and the like) and from
nothing else.

- `WebhookProofs`: `OwnedOnce` is not inductive for lack of where marks come from.
  The invariant behind it says that whoever holds a mark (a handler between mark
  and outcome, the queue, the pager) is alone with it, and that `inflight` is
  exactly what is held; each action moves a group from one holder to the next.
  Types are proved first (`TypeCorrect`). From both follows
  `PageQueueRefinement`: `OfferQueued` is `Admit`, because the handler still holds
  the group and nobody else does.
  Where the queue has room for every group (`Roomy`), `AcceptedIfRoomyCorrect` shows
  that what `webhook_accepted` finds cannot happen: the handler that offers a group
  holds it, so the groups that wait are among the others and leave it a place
  (the pigeonhole principle), no mark is ever taken back, and every duplicate is of
  a group in flight.
- `RingProofs`, of the loop alone: `RetryFloodHonoredCorrect` follows from an
  invariant about the pause: what Telegram is still owed never exceeds what is
  left of the timer, or of the verdict to come. `RetryCancelCostsOneCorrect`
  follows from one about cancellation: while the loop is in a pause or in an
  attempt made before the context was done, no late attempt has been made.
- `RingProofs`, of a call: `NoCallLeftUp` needs that an attempt which is past its
  request is on its way to the hangup. `SuccessIsStreamed` needs that what is in
  `waitConnected`'s channel reports what has happened (`ReportsHold`).
  `RetryRefinement` shows that every step of a call is an opaque attempt's or a
  stutter, so that what is proved of `Retry` holds of calls (`RingRetriesCorrect`).
- `PagingProofs` is about the whole page.
  - `CallInv` ties an attempt's error to the stream: the loop is past an attempt
    without error exactly when the audio was played to its end.
  - `MessageInv` compares the copies of each message that arrived with the answers
    that were lost. They are equal as long as no send succeeded, and one apart
    after it (`Even`, `Ahead`); since success ends the loop, they never part
    further. `AnsweredOnce`, `UploadedOnce` and `FallbackStandsIn` follow; the
    last needs that the text is only begun after a voice message that failed.
  - With both, `PageStep` maps every step to one of `Page` or to a stutter, which
    gives `PageRefinement`. `FailureIsLoud`, `CallIsNotUndone` and `TempRemoved` are
    then proved of `Page` (`PageInv`: what the log and the errors say of who was
    reached) and carried over.
  - `LoopInv` is the invariant of the loop again, for loops with two sets of
    parameters that share their variables, with the fact that between two
    operations none is under way (`Idle`). A new loop begins with nothing owed.
  - `TypeCorrect` is more than types: that no operation exceeds its own number of
    attempts in a counter which all of them share (`Numbered`).
- `SpeechCacheProofs`:
  - `NeverTruncated` from the invariant that what is about to be renamed has been
    written to the end.
  - `WithinLimit` from two. `Accounts`: the entries evict has counted and not
    removed are different files, and their bytes are at most its total; the total
    can be too large, where a file has gone behind its back, but never too small.
    `Swept` is about the files that evictions have had to account for (`Due`): not
    those that have escaped, and not what has been stored and whose eviction has not
    begun (`Fresh`). If they are over the limit, somebody is evicting who will have
    looked at all of them (`Covers`). Whoever lists the directory covers it, stores
    and removals, failed or not, disturb no sweep, and when a sweep that covers ends,
    its account says that they fit. When nobody is evicting nothing is fresh.
    The types need `Accounts`, too, since the total must not become negative.
  - `PlayableAlone` from `Undisturbed`: from the store to the end of its sweep the
    page's file is the one used last and fresh by the sweep's clock (`OwnIsNewest`),
    and the sweep's account is exact (`SeenAsIs`), so when that file is the only one
    left, and fits, there is nothing to evict. Once a removal has failed the account
    is at most the bytes of what is left and what has escaped (`TotalWithEscaped`),
    and the last file still is not evicted as long as it fits beside the latter.
  - `PlayableIfRoomyCorrect`: without expiry, in a cache that has room for every
    sentence (`Roomy`), `Playable` itself holds, beside Preflight, over crashes and
    failures. The sentences of `speech_race` need 4 bytes; with a limit of 2, as there,
    or of 3 `Playable` is violated.
- `ProviderProofs`: the length of what was read never exceeds what was put out, and
  of a response its limit (`Lengths`); `WholeAudio` needs that audio is only taken
  over from a command whose output is complete and of which nobody is left who could
  write more (`Complete`); `DirRemoved` that the directory is there only on the way to
  its removal.
- `StreamProofs`: `FfmpegEnds` from the order in which the process, the waiter and
  the loop end; `PlayedToTheEnd` from the loop having caught up with the socket
  whenever it looks at ffmpeg's end.
- `OggDurationProofs`: `LastCompletePage` from what the scan has passed.
  `ExactWhenItFits` from the arithmetic (`ExactParts`, `ScaleExact`): whole seconds
  and the rest of one, scaled apart, add up to the scaled length; if that fits, so
  do its parts, and wrapping is the identity. `NegativeOnlyAtTheLimitCorrect` adds
  where `ogg_negative` bites: only for lengths in the last second that a duration
  can begin. All of it for any width, sample rate and unit.
- `StartupProofs`: `BootInv` says what each step of the start has established (a
  loaded configuration does not call with a token, a verified session may call, a
  peer about to be saved was resolved by this session) and, of the disk, that a
  cached access hash belongs to the account of the session. That last part makes
  the others survive crashes and edits. `NoBotRings` and `PeerIsPageable` follow.

Every invariant that a passing run checks is proved, and every safety refinement.
Only model-checked are the properties that need fairness, which the prover does not
do: `EventuallyReleased`, `QueuedIsPaged`, `ShutdownCompletes`, the fairness of
`PageQueueFairSpec` (its safety is `PageQueueRefinement`), `PageEnds`, `StartsAgain`,
`ReturnsUnlessHeld`, `SpeakReturns`, `GoroutinesEnd` and `CancelReturns`.

What is assumed is little: sizes and limits are natural numbers, `queue_size`,
attempts and sentences are not zero, one second of samples can be scaled without
overflow (48000 * 10^9 < 2^63), and the tone is no cached sentence. The bounds that
TLC needs (`MaxTime`, `MaxCrashes`, `MaxPackets` and so on) are any natural numbers.

## Not modelled

- Telemetry and logging, but for the lines that say a page failed: no decision
  depends on them.
- The template's text, the arguments and request fields of the providers and the
  fingerprints in the cache's paths, ffmpeg's command line: data that no property
  here tells apart.
- `-check`, which is one `Preflight` in a process of its own, and the contacts hash
  and other peers' entries of the peer cache, which nothing reads.
- Descriptors, defaults and the merging of file and environment in
  `internal/config`; what `Load` refuses is in `Startup`.
- The dialogue of a sign-in, which is gotd's, and whether reading a terminal ever
  returns.
- Packaging, the sample scripts, and the generator of the configuration reference.

## Plan

Done: the server and its loop; the page with its call and messages; the start; the
speech cache and the providers; streaming and durations.

Left, in this order:

1. `Webhook` composed with `Paging` in place of a page that simply ends, to show
   that a shutdown waits for the hangup of the page it falls into.
2. That `Stream` implements the single step `StreamEnds` of `Ring`.
3. That `Message` implements `Retry`. It does not as it stands: `CheckFails` returns
   without having entered the loop, which `Retry` has no step for; `LoopInv` proves
   what would follow from it directly.
