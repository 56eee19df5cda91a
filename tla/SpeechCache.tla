---------------------------- MODULE SpeechCache ----------------------------
(***************************************************************************)
(* internal/tts: the cache of synthesized speech and the two goroutines of *)
(* the pager that go through it, Speak (a page) and Preflight (warming at  *)
(* startup).  The cache has no lock: it is a directory, and each system    *)
(* call on it is a step.  Every sentence has a path of its own.            *)
(*                                                                         *)
(* The clock is coarser than the program's: a synthesis takes at least one *)
(* tick, other steps take any time.                                        *)
(***************************************************************************)
EXTENDS Integers, FiniteSets, Functions

CONSTANTS Texts,          \* sentences alerts render to
          PreflightText,  \* the sentence of PreflightPayload
          Size,           \* bytes of each sentence's audio
          MaxBytes,       \* tts.cache.max_bytes, 0 for no limit
          TTL,            \* tts.cache.ttl, 0 for no limit
          Tone,           \* the static file a page falls back to
          PreflightAttempts,
          Preflights,     \* whether Preflight runs at startup
          MaxCrashes,     \* bound: how often the process may crash
          MaxTime         \* bound: no page begins, and nothing waits, from MaxTime on

ASSUME SizeAssumption == Size \in [Texts -> Nat \ {0}]
ASSUME LimitsAssumption == MaxBytes \in Nat /\ TTL \in Nat
ASSUME ToneAssumption == Tone \notin Texts /\ PreflightText \in Texts
ASSUME BoundsAssumption ==
  PreflightAttempts \in Nat \ {0} /\ MaxCrashes \in Nat /\ MaxTime \in Nat

VARIABLES files,    \* the cache directory: last use and completeness by text
          temp,     \* each goroutine's temporary file: "none", "partial", "whole"
          wrote,    \* when it was last written
          now,      \* the clock
          pc,       \* where each goroutine is
          text,     \* the sentence it speaks
          asof,     \* the clock as a lookup or an eviction has read it
          names,    \* evict: directory entries still to be looked at
          items,    \* evict: entries seen, with their last use as seen
          victim,   \* evict: the expired entry to be removed
          total,    \* evict: bytes that evict believes the cache holds
          spec,     \* the segment Speak returned
          attempt,  \* Preflight's attempt
          crashes,  \* how often the process crashed
          unswept,  \* history: the files that have escaped eviction since the
                    \* directory was last listed
          alone     \* history: Preflight was over when the page began, the
                    \* page's store has not been held up for a TTL, and what it
                    \* could not evict has left room for it

disk == <<files, temp, wrote>>
sweep == <<asof, names, items, total, victim>>
vars == <<disk, now, pc, text, sweep, spec, attempt, crashes, unswept, alone>>

Actors == {"pager", "preflight"}

\* The bytes on disk of the audio of the sentences S, one by one.
Content(S) == UNION {{t} \X (1..Size[t]) : t \in S}
Bytes(S) == Cardinality(Content(S))

TypeOK == /\ DOMAIN files \subseteq Texts
          /\ \A t \in DOMAIN files : files[t] \in [used : 0..now, whole : BOOLEAN]
          /\ temp \in [Actors -> {"none", "partial", "whole"}]
          /\ wrote \in [Actors -> 0..now]
          /\ pc \in [Actors -> {"idle", "stat", "expire", "touch", "synthesize",
                                "create", "write", "rename", "list", "info",
                                "unlink", "play", "done"}]
          /\ text \in [Actors -> Texts]
          /\ asof \in [Actors -> 0..now]
          /\ names \in [Actors -> SUBSET Texts]
          /\ items \in [Actors -> SUBSET [text : Texts, used : 0..now]]
          /\ total \in [Actors -> Nat]
          /\ victim \in [Actors -> Texts]
          /\ spec \in Texts \cup {Tone}
          /\ attempt \in 1..PreflightAttempts
          /\ crashes \in 0..MaxCrashes
          /\ unswept \subseteq Texts
          /\ alone \in BOOLEAN

\* Where a goroutine starts: no page yet, Preflight at once if it runs at all.
Start(a) == IF a = "pager" THEN "idle" ELSE IF Preflights THEN "stat" ELSE "done"

Init == /\ files = << >>
        /\ temp = [a \in Actors |-> "none"]
        /\ wrote = [a \in Actors |-> 0]
        /\ now = 0
        /\ pc = [a \in Actors |-> Start(a)]
        /\ text = [a \in Actors |-> PreflightText]
        /\ asof = [a \in Actors |-> 0]
        /\ names = [a \in Actors |-> {}]
        /\ items = [a \in Actors |-> {}]
        /\ total = [a \in Actors |-> 0]
        /\ victim = text
        /\ spec = Tone
        /\ attempt = 1
        /\ crashes = 0
        /\ unswept = {}
        /\ alone = FALSE

-----------------------------------------------------------------------------
(* Speak and Preflight around the cache.                                   *)

Goto(a, l) == pc' = [pc EXCEPT ![a] = l]

\* A file last used so long before a moment has outlived the TTL.
Expired(used, moment) == TTL > 0 /\ moment - used > TTL

\* A page begins: its sentence is looked up.  Or the template fails.
Begin ==
  /\ pc["pager"] = "idle"
  /\ now < MaxTime
  /\ alone' = (pc["preflight"] = "done")
  /\ \/ \E t \in Texts \ {PreflightText} :
          /\ text' = [text EXCEPT !["pager"] = t]
          /\ Goto("pager", "stat")
          /\ UNCHANGED spec
     \/ Goto("pager", "play") /\ spec' = Tone /\ UNCHANGED text
  /\ UNCHANGED <<disk, now, sweep, attempt, crashes, unswept>>

\* Speak has its audio, Preflight is done.
Succeed(a) ==
  IF a = "pager"
    THEN Goto(a, "play") /\ spec' = text[a] /\ UNCHANGED attempt
    ELSE Goto(a, "done") /\ attempt' = 1 /\ UNCHANGED spec

\* A faulty variant: one attempt too many.
FailOnceMore(a) ==
  \/ a = "pager" /\ Goto(a, "play") /\ spec' = Tone /\ UNCHANGED attempt
  \/ /\ a = "preflight" /\ attempt <= PreflightAttempts
     /\ Goto(a, "stat") /\ attempt' = attempt + 1 /\ UNCHANGED spec

\* Speak falls back to the tone; Preflight tries again unless it was the last
\* attempt or ctx is done.
Fail(a) ==
  \/ a = "pager" /\ Goto(a, "play") /\ spec' = Tone /\ UNCHANGED attempt
  \/ a = "preflight" /\ Goto(a, "done") /\ attempt' = 1 /\ UNCHANGED spec
  \/ /\ a = "preflight" /\ attempt < PreflightAttempts
     /\ Goto(a, "stat") /\ attempt' = attempt + 1 /\ UNCHANGED spec

\* The provider answers, or fails.
Synthesize(a) ==
  /\ pc[a] = "synthesize"
  /\ now' = now + 1
  /\ \/ Goto(a, "create") /\ UNCHANGED <<spec, attempt>>
     \/ Fail(a)
  /\ UNCHANGED <<disk, text, sweep, crashes, unswept, alone>>

\* The call has played the segments and Speak's path is not used any more.
PlayEnds ==
  /\ pc["pager"] = "play"
  /\ Goto("pager", "idle")
  /\ spec' = Tone
  /\ text' = [text EXCEPT !["pager"] = PreflightText]
  /\ alone' = FALSE
  /\ UNCHANGED <<disk, now, sweep, attempt, crashes, unswept>>

-----------------------------------------------------------------------------
(* Lookup.                                                                 *)

\* The file is missing or cannot be looked at, or has expired, or is a hit, by
\* the clock as it is read now.
Stat(a) ==
  /\ pc[a] = "stat"
  /\ \/ Goto(a, "synthesize") /\ UNCHANGED asof
     \/ /\ text[a] \in DOMAIN files
        /\ Expired(files[text[a]].used, now)
        /\ Goto(a, "expire")
        /\ UNCHANGED asof
     \/ /\ text[a] \in DOMAIN files
        /\ ~Expired(files[text[a]].used, now)
        /\ Goto(a, "touch")
        /\ asof' = [asof EXCEPT ![a] = now]
  /\ UNCHANGED <<disk, now, text, names, items, total, victim, spec, attempt, crashes, unswept, alone>>

Remove(t) == /\ files' = Restrict(files, DOMAIN files \ {t})
             /\ unswept' = unswept \ {t}

\* An expired file is removed by name, whatever the name holds by now, if it can
\* be removed.
Expire(a) ==
  /\ pc[a] = "expire"
  /\ Remove(text[a]) \/ UNCHANGED <<files, unswept>>
  /\ Goto(a, "synthesize")
  /\ UNCHANGED <<temp, wrote, now, text, sweep, spec, attempt, crashes, alone>>

\* A hit: the file is touched, if it is still there and lets itself be touched,
\* and its path returned.
Touch(a) ==
  /\ pc[a] = "touch"
  /\ \/ files' = [t \in DOMAIN files |->
                    IF t = text[a] THEN [files[t] EXCEPT !.used = asof[a]] ELSE files[t]]
     \/ UNCHANGED files
  /\ asof' = [asof EXCEPT ![a] = 0]
  /\ Succeed(a)
  /\ UNCHANGED <<temp, wrote, now, text, names, items, total, victim, crashes, unswept, alone>>

-----------------------------------------------------------------------------
(* Store.                                                                  *)

\* The deferred cleanup of a store that fails.
StoreFails(a) ==
  /\ pc[a] \in {"create", "write", "rename"}
  /\ temp' = [temp EXCEPT ![a] = "none"]
  /\ wrote' = [wrote EXCEPT ![a] = 0]
  /\ Fail(a)
  /\ UNCHANGED <<files, now, text, sweep, crashes, unswept, alone>>

\* A faulty variant: the file is published before it is written.
CreateTempUnwritten(a) ==
  /\ pc[a] = "create"
  /\ temp' = [temp EXCEPT ![a] = "partial"]
  /\ wrote' = [wrote EXCEPT ![a] = now]
  /\ Goto(a, "rename")
  /\ UNCHANGED <<files, now, text, sweep, spec, attempt, crashes, unswept, alone>>

CreateTemp(a) ==
  /\ pc[a] = "create"
  /\ temp' = [temp EXCEPT ![a] = "partial"]
  /\ wrote' = [wrote EXCEPT ![a] = now]
  /\ Goto(a, "write")
  /\ UNCHANGED <<files, now, text, sweep, spec, attempt, crashes, unswept, alone>>

\* The audio is written and the file closed.
Write(a) ==
  /\ pc[a] = "write"
  /\ temp' = [temp EXCEPT ![a] = "whole"]
  /\ wrote' = [wrote EXCEPT ![a] = now]
  /\ Goto(a, "rename")
  /\ UNCHANGED <<files, now, text, sweep, spec, attempt, crashes, unswept, alone>>

Put(t, used, whole) ==
  files' = [x \in DOMAIN files \cup {t} |->
              IF x = t THEN [used |-> used, whole |-> whole] ELSE files[x]]

\* The rename publishes the file, with the time of its last write.
Rename(a) ==
  /\ pc[a] = "rename"
  /\ Put(text[a], wrote[a], temp[a] = "whole")
  /\ temp' = [temp EXCEPT ![a] = "none"]
  /\ wrote' = [wrote EXCEPT ![a] = 0]
  /\ Goto(a, "list")
  /\ UNCHANGED <<now, text, sweep, spec, attempt, crashes, unswept, alone>>

-----------------------------------------------------------------------------
(* evict, after a store.                                                   *)

\* Neither limit is set, or the directory cannot be read: Store has succeeded
\* all the same, and what it stored has not been swept.
ListFails(a) ==
  /\ pc[a] = "list"
  /\ Succeed(a)
  /\ unswept' = unswept \cup {text[a]}
  /\ UNCHANGED <<disk, now, text, sweep, crashes, alone>>

\* The directory is read, once, and right after it the clock.
List(a) ==
  /\ pc[a] = "list"
  /\ TTL > 0 \/ MaxBytes > 0
  /\ asof' = [asof EXCEPT ![a] = now]
  /\ names' = [names EXCEPT ![a] = DOMAIN files]
  /\ items' = [items EXCEPT ![a] = {}]
  /\ total' = [total EXCEPT ![a] = 0]
  /\ unswept' = {}
  /\ Goto(a, "info")
  /\ UNCHANGED <<disk, now, text, victim, spec, attempt, crashes, alone>>

\* A file the eviction cannot look at or remove: it stays.
Escapes(t) == UNCHANGED files /\ unswept' = unswept \cup ({t} \cap DOMAIN files)

Looked(a, t) == names' = [names EXCEPT ![a] = @ \ {t}]

\* One entry is looked at: it has gone since the listing, or its size and time
\* cannot be had...
InfoFails(a) ==
  /\ pc[a] = "info"
  /\ \E t \in names[a] : Looked(a, t) /\ Escapes(t)
  /\ UNCHANGED <<temp, wrote, now, pc, text, asof, items, total, victim, spec, attempt, crashes, alone>>

\* A faulty variant: the bytes of an entry are not counted.
InfoLiveUncounted(a) ==
  /\ pc[a] = "info"
  /\ \E t \in names[a] \cap DOMAIN files :
       /\ ~Expired(files[t].used, asof[a])
       /\ Looked(a, t)
       /\ items' = [items EXCEPT ![a] = @ \cup {[text |-> t, used |-> files[t].used]}]
  /\ UNCHANGED <<disk, now, pc, text, asof, total, victim, spec, attempt, crashes, unswept, alone>>

\* ...or it is live and counts...
InfoLive(a) ==
  /\ pc[a] = "info"
  /\ \E t \in names[a] \cap DOMAIN files :
       /\ ~Expired(files[t].used, asof[a])
       /\ Looked(a, t)
       /\ items' = [items EXCEPT ![a] = @ \cup {[text |-> t, used |-> files[t].used]}]
       /\ total' = [total EXCEPT ![a] = @ + Size[t]]
  /\ UNCHANGED <<disk, now, pc, text, asof, victim, spec, attempt, crashes, unswept, alone>>

\* ...or it has expired and is removed next.
InfoExpired(a) ==
  /\ pc[a] = "info"
  /\ \E t \in names[a] \cap DOMAIN files :
       /\ Expired(files[t].used, asof[a])
       /\ Looked(a, t)
       /\ victim' = [victim EXCEPT ![a] = t]
  /\ Goto(a, "unlink")
  /\ UNCHANGED <<disk, now, text, asof, items, total, spec, attempt, crashes, unswept, alone>>

Unlink(a) ==
  /\ pc[a] = "unlink"
  /\ Remove(victim[a]) \/ Escapes(victim[a])
  /\ victim' = [victim EXCEPT ![a] = PreflightText]
  /\ Goto(a, "info")
  /\ UNCHANGED <<temp, wrote, now, text, asof, names, items, total, spec, attempt, crashes, alone>>

Oldest(a, e) == e \in items[a] /\ \A f \in items[a] : e.used <= f.used

\* A faulty variant: the most recently used entry goes first.
EvictNewest(a) ==
  /\ pc[a] = "info" /\ names[a] = {}
  /\ MaxBytes > 0 /\ total[a] > MaxBytes
  /\ \E e \in items[a] :
       /\ \A f \in items[a] : f.used <= e.used
       /\ Remove(e.text)
       /\ items' = [items EXCEPT ![a] = @ \ {e}]
       /\ total' = [total EXCEPT ![a] = @ - Size[e.text]]
  /\ UNCHANGED <<temp, wrote, now, pc, text, asof, names, victim, spec, attempt, crashes, alone>>

\* The least recently used entry, as the listing had it, is removed...
EvictOne(a) ==
  /\ pc[a] = "info" /\ names[a] = {}
  /\ MaxBytes > 0 /\ total[a] > MaxBytes
  /\ \E e \in items[a] :
       /\ Oldest(a, e)
       /\ e.text \in DOMAIN files
       /\ Remove(e.text)
       /\ items' = [items EXCEPT ![a] = @ \ {e}]
       /\ total' = [total EXCEPT ![a] = @ - Size[e.text]]
  /\ UNCHANGED <<temp, wrote, now, pc, text, asof, names, victim, spec, attempt, crashes, alone>>

\* What eviction could not remove takes the room of what the page has stored.
CrowdedOut == Bytes(unswept' \cup {text["pager"]}) > MaxBytes

\* A faulty variant: an entry that cannot be removed is tried again.
EvictFailsAgain(a) ==
  /\ pc[a] = "info" /\ names[a] = {}
  /\ MaxBytes > 0 /\ total[a] > MaxBytes
  /\ \E e \in items[a] : Oldest(a, e) /\ Escapes(e.text)
  /\ alone' = (alone /\ ~CrowdedOut)
  /\ UNCHANGED <<temp, wrote, now, pc, text, asof, names, items, total, victim, spec, attempt, crashes>>

\* ...or cannot be: it has gone already, or it stays.  Either way its bytes are
\* still believed to be there, and one entry more has to go.
EvictFails(a) ==
  /\ pc[a] = "info" /\ names[a] = {}
  /\ MaxBytes > 0 /\ total[a] > MaxBytes
  /\ \E e \in items[a] :
       /\ Oldest(a, e)
       /\ Escapes(e.text)
       /\ items' = [items EXCEPT ![a] = @ \ {e}]
  /\ alone' = (alone /\ ~CrowdedOut)
  /\ UNCHANGED <<temp, wrote, now, pc, text, asof, names, total, victim, spec, attempt, crashes>>

EvictEnds(a) ==
  /\ pc[a] = "info" /\ names[a] = {}
  /\ MaxBytes = 0 \/ total[a] <= MaxBytes \/ items[a] = {}
  /\ Succeed(a)
  /\ asof' = [asof EXCEPT ![a] = 0]
  /\ items' = [items EXCEPT ![a] = {}]
  /\ total' = [total EXCEPT ![a] = 0]
  /\ UNCHANGED <<disk, now, text, names, victim, crashes, unswept, alone>>

Evicting(a) == pc[a] \in {"list", "info", "unlink"}

-----------------------------------------------------------------------------

Step(a) == \/ Synthesize(a) \/ Stat(a) \/ Expire(a) \/ Touch(a)
           \/ StoreFails(a) \/ CreateTemp(a) \/ Write(a) \/ Rename(a)
           \/ ListFails(a) \/ List(a)
           \/ InfoFails(a) \/ InfoLive(a) \/ InfoExpired(a) \/ Unlink(a)
           \/ EvictOne(a) \/ EvictFails(a) \/ EvictEnds(a)

\* What the pager has just written expires before its own eviction looks at the
\* clock.
HeldUp ==
  /\ TTL > 0
  /\ \/ pc["pager"] = "rename" /\ now' - wrote["pager"] > TTL
     \/ /\ pc["pager"] = "list"
        /\ text["pager"] \in DOMAIN files
        /\ now' - files[text["pager"]].used > TTL

Tick ==
  /\ now < MaxTime
  /\ now' = now + 1
  /\ alone' = (alone /\ ~HeldUp)
  /\ UNCHANGED <<disk, pc, text, sweep, spec, attempt, crashes, unswept>>

\* The process dies and starts again; its temporary files stay but are never
\* looked at again, and what it was evicting has escaped.
Crash ==
  /\ crashes < MaxCrashes
  /\ crashes' = crashes + 1
  /\ pc' = [a \in Actors |-> Start(a)]
  /\ temp' = [a \in Actors |-> "none"]
  /\ wrote' = [a \in Actors |-> 0]
  /\ text' = [a \in Actors |-> PreflightText]
  /\ victim' = text'
  /\ attempt' = 1
  /\ unswept' = IF \E a \in Actors : Evicting(a) THEN DOMAIN files ELSE unswept
  /\ spec' = Tone
  /\ asof' = [a \in Actors |-> 0]
  /\ names' = [a \in Actors |-> {}]
  /\ items' = [a \in Actors |-> {}]
  /\ total' = [a \in Actors |-> 0]
  /\ alone' = FALSE
  /\ UNCHANGED <<files, now>>

\* Nothing to do until the next alert.
Waiting == pc["pager"] = "idle" /\ pc["preflight"] = "done" /\ UNCHANGED vars

Next == Begin \/ PlayEnds \/ (\E a \in Actors : Step(a)) \/ Tick \/ Crash \/ Waiting

Spec == Init /\ [][Next]_vars

\* The goroutine of the pages runs, whether or not the other does.
FairSpec == Spec /\ WF_vars(Step("pager"))

-----------------------------------------------------------------------------

\* Whatever interleaves or crashes, a name in the cache is a complete file: a
\* hit is never truncated audio.
NeverTruncated == \A t \in DOMAIN files : files[t].whole

\* When nobody is evicting, the cache is within max_bytes, but for the files that
\* have escaped: what the evictions since the directory was last listed could not
\* look at or not remove, what was stored when it could not be listed, and what a
\* crash amid an eviction has left, until the directory is listed again.
WithinLimit ==
  MaxBytes > 0 /\ (\A a \in Actors : ~Evicting(a))
    => Bytes(DOMAIN files \ unswept) <= MaxBytes

\* What Speak returns can be played: the segment it names exists while the
\* call that plays it lasts.  The README promises of the speech of a page: "If
\* it fails for any reason the page still happens, playing audio alone"; a
\* segment that has gone fails the call instead.
Playable == pc["pager"] = "play" /\ spec # Tone => spec \in DOMAIN files

\* That much holds of a page that Preflight does not run beside, if every
\* sentence fits max_bytes, and fits beside what the page's own eviction could not
\* remove: neither eviction by last use nor expiry removes what was just stored or
\* touched.  (What is older than the TTL by the time its own store reads the clock
\* to evict would be found expired.)
PlayableAlone ==
  (\A t \in Texts : MaxBytes = 0 \/ Size[t] <= MaxBytes) /\ alone => Playable

\* A page's speech is found or settled for: Speak returns, with speech or with
\* the tone, whatever Preflight does to the cache meanwhile.
SpeakReturns == pc["pager"] # "idle" ~> pc["pager"] \in {"play", "idle"}
=============================================================================
