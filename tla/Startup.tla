------------------------------ MODULE Startup ------------------------------
(***************************************************************************)
(* From the command line to a client that is ready to page, over restarts: *)
(* the configuration is loaded, the client signs in or keeps its session,  *)
(* and the peer is resolved from the peer cache or over the network.       *)
(*                                                                         *)
(* The session file and the peer cache outlive the process; the operator   *)
(* edits the configuration between runs.  An access hash is worth something *)
(* only to the account that was given it.                                  *)
(***************************************************************************)
EXTENDS Naturals

CONSTANTS MaxEdits,  \* what the operator does between runs, at most so often
          MaxFaults  \* crashes and steps that fail of themselves, at most

ASSUME MaxEditsAssumption == MaxEdits \in Nat
ASSUME MaxFaultsAssumption == MaxFaults \in Nat

VARIABLES
  token,    \* whether telegram.bot_token resolves to a token
  calls,    \* whether voice.mode places calls
  peer,     \* how the peer is written: "domain", "phone", "id" or "id:hash"
  target,   \* what that names: "user", "bot" or "chat"
  session,  \* the account of the session file: "none", "user" or "bot"
  hash,     \* the account for which the cache holds the peer's access hash
  phone,    \* whether the cache holds the peer's phone number
  command,  \* "run", "login" or "voice"
  step,     \* how far it has come
  pending,  \* what gotd has yet to save of a resolved peer
  found,    \* the account whose access hash the client addresses the peer by;
            \* "given" when the configuration has it
  edits, faults

config == <<token, calls, peer, target>>
disk == <<session, hash, phone>>
vars == <<config, disk, command, step, pending, found, edits, faults>>

Peers == {"domain", "phone", "id", "id:hash"}
Targets == {"user", "bot", "chat"}
Accounts == {"user", "bot"}
\* What can be written how: a phone number is a user's, an id a user's or a bot's.
Names(p, t) == /\ p = "phone" => t = "user"
               /\ p \in {"id", "id:hash"} => t # "chat"

Booting == {"load", "cache", "auth", "verify", "resolve", "save", "check"}

TypeOK == /\ token \in BOOLEAN
          /\ calls \in BOOLEAN
          /\ peer \in Peers
          /\ target \in Targets
          /\ Names(peer, target)
          /\ session \in Accounts \cup {"none"}
          /\ hash \in Accounts \cup {"none"}
          /\ phone \in BOOLEAN
          /\ command \in {"run", "login", "voice"}
          /\ step \in Booting \cup {"down", "ready"}
          /\ pending \subseteq {"hash", "phone"}
          /\ pending # {} <=> step = "save"
          /\ found \in Accounts \cup {"none", "given"}
          /\ edits \in 0..MaxEdits
          /\ faults \in 0..MaxFaults

Init == /\ token \in BOOLEAN
        /\ calls \in BOOLEAN
        /\ peer \in Peers
        /\ target \in Targets
        /\ Names(peer, target)
        /\ session = "none"
        /\ hash = "none"
        /\ phone = FALSE
        /\ command = "run"
        /\ step = "down"
        /\ pending = {}
        /\ found = "none"
        /\ edits = 0
        /\ faults = 0

\* The process ends, by an error, by a crash or because it is done.
Down == step' = "down" /\ pending' = {} /\ found' = "none"

Stays == UNCHANGED <<config, disk, command, edits, faults>>

-----------------------------------------------------------------------------

\* The main function: the pager, or with -login or -voice one errand.
Start(c) ==
  /\ step = "down"
  /\ step' = "load"
  /\ command' = c
  /\ UNCHANGED <<config, disk, pending, found, faults>>

Serve == Start("run") /\ UNCHANGED edits

\* config.Load, for every command: a token excludes a mode that calls.
Load ==
  /\ step = "load"
  /\ IF token /\ calls THEN Down ELSE step' = "cache" /\ UNCHANGED <<pending, found>>
  /\ Stays

\* The pager alone opens the peer cache; the other commands keep what they
\* resolve in memory.
OpenCache ==
  /\ step = "cache"
  /\ step' = "auth"
  /\ UNCHANGED <<pending, found>>
  /\ Stays

CacheOpen == command = "run"

\* -login does not use the token.
Wanted == IF token /\ command # "login" THEN "bot" ELSE "user"

\* authenticate: a session that is authorized is kept, whoever's it is.
Authenticate ==
  /\ step = "auth"
  /\ session' = IF session = "none" THEN Wanted ELSE session
  /\ IF command = "login" THEN Down ELSE step' = "verify" /\ UNCHANGED <<pending, found>>
  /\ UNCHANGED <<config, hash, phone, command, edits, faults>>

\* Only the pager is asked to place calls.
CallsEnabled == calls /\ command = "run"

\* A faulty variant: the configuration is asked, not the session.
VerifyConfig ==
  /\ step = "verify"
  /\ IF CallsEnabled /\ token
     THEN Down
     ELSE step' = "resolve" /\ UNCHANGED <<pending, found>>
  /\ Stays

\* verifySelf.
Verify ==
  /\ step = "verify"
  /\ IF CallsEnabled /\ session = "bot"
     THEN Down
     ELSE step' = "resolve" /\ UNCHANGED <<pending, found>>
  /\ Stays

-----------------------------------------------------------------------------
(* resolvePeer and the peer cache.                                         *)

\* Find, of the hash of a peer.
HashFound == CacheOpen /\ hash # "none"

\* A faulty variant: the number alone is a hit.
PhoneSaved == CacheOpen /\ phone

\* FindPhone: the number is a hit only with the hash of its peer.
PhoneFound == CacheOpen /\ phone /\ hash # "none"

\* An access hash in the configuration settles the peer.
UseGiven ==
  /\ step = "resolve"
  /\ peer = "id:hash"
  /\ step' = "ready"
  /\ found' = "given"
  /\ UNCHANGED pending
  /\ Stays

UseCached ==
  /\ step = "resolve"
  /\ (peer = "phone" /\ PhoneFound) \/ (peer = "id" /\ HashFound)
  /\ step' = "check"
  /\ found' = hash
  /\ UNCHANGED pending
  /\ Stays

\* An id whose hash nobody knows.
IdUnknown ==
  /\ step = "resolve"
  /\ peer = "id"
  /\ ~HashFound
  /\ Down
  /\ Stays

\* A faulty variant: a number without the hash of its peer is an error.
AskUnlessSaved ==
  /\ step = "resolve"
  /\ peer = "domain" \/ (peer = "phone" /\ ~PhoneFound)
  /\ IF target = "chat" \/ (peer = "phone" /\ PhoneSaved)
     THEN Down
     ELSE /\ step' = "save"
          /\ pending' = IF peer = "phone" THEN {"hash", "phone"} ELSE {"hash"}
          /\ found' = session
  /\ Stays

\* Telegram resolves the name or number; asUser refuses what is not a user.
AskTelegram ==
  /\ step = "resolve"
  /\ peer = "domain" \/ (peer = "phone" /\ ~PhoneFound)
  /\ IF target = "chat"
     THEN Down
     ELSE /\ step' = "save"
          /\ pending' = IF peer = "phone" THEN {"hash", "phone"} ELSE {"hash"}
          /\ found' = session
  /\ Stays

\* A faulty variant: what was saved first is enough.
SaveOnce ==
  /\ step = "save"
  /\ \E item \in pending :
       /\ pending' = pending \ {item}
       /\ hash' = IF item = "hash" /\ CacheOpen THEN session ELSE hash
       /\ phone' = (phone \/ (item = "phone" /\ CacheOpen))
  /\ step' = "check"
  /\ UNCHANGED <<config, session, command, found, edits, faults>>

\* Save and SavePhone are transactions of their own.
Save ==
  /\ step = "save"
  /\ \E item \in pending :
       /\ pending' = pending \ {item}
       /\ hash' = IF item = "hash" /\ CacheOpen THEN session ELSE hash
       /\ phone' = (phone \/ (item = "phone" /\ CacheOpen))
  /\ step' = IF pending' = {} THEN "check" ELSE "save"
  /\ UNCHANGED <<config, session, command, found, edits, faults>>

\* Without a token the peer must not be a bot.
Check ==
  /\ step = "check"
  /\ IF target = "bot" /\ ~token
     THEN Down
     ELSE step' = "ready" /\ UNCHANGED <<pending, found>>
  /\ Stays

\* -voice sends its message and is done.
Finish ==
  /\ step = "ready"
  /\ command = "voice"
  /\ Down
  /\ Stays

Boot == Serve \/ Load \/ OpenCache \/ Authenticate \/ Verify \/ UseGiven \/ UseCached
          \/ IdUnknown \/ AskTelegram \/ Save \/ Check \/ Finish

-----------------------------------------------------------------------------

\* Any step may fail (a credential that cannot be read, a locked cache, a
\* prompt without a terminal, the network), and the process may be stopped or
\* die between any two.
Fault ==
  /\ step # "down"
  /\ faults < MaxFaults
  /\ faults' = faults + 1
  /\ Down
  /\ UNCHANGED <<config, disk, command, edits>>

\* The operator runs an errand...
Errand ==
  /\ edits < MaxEdits
  /\ edits' = edits + 1
  /\ \E c \in {"login", "voice"} : Start(c)

\* ...or edits the configuration, where the same peer may be written otherwise;
\* of another peer the cache knows nothing...
Edit ==
  /\ step = "down"
  /\ edits < MaxEdits
  /\ edits' = edits + 1
  /\ token' \in BOOLEAN
  /\ calls' \in BOOLEAN
  /\ peer' \in Peers
  /\ \/ UNCHANGED <<target, hash, phone>>
     \/ target' \in Targets /\ hash' = "none" /\ phone' = FALSE
  /\ Names(peer', target')
  /\ UNCHANGED <<session, command, step, pending, found, faults>>

\* ...or changes the session, and drops the peer cache as README.md says.
DropSession ==
  /\ step = "down"
  /\ edits < MaxEdits
  /\ edits' = edits + 1
  /\ session' = "none"
  /\ hash' = "none"
  /\ phone' = FALSE
  /\ UNCHANGED <<config, command, step, pending, found, faults>>

Next == Boot \/ Fault \/ Errand \/ Edit \/ DropSession
          \/ (step = "ready" /\ command = "run" /\ UNCHANGED vars)

Spec == Init /\ [][Next]_vars

\* The pager is started whenever it is down, and runs.
FairSpec == Spec /\ WF_vars(Boot)

-----------------------------------------------------------------------------

Ready == step = "ready" /\ command = "run"

\* The pager is never ready to ring people from a bot's session, whichever
\* commands, tokens and modes made that session.
NoBotRings == Ready /\ calls => session = "user"

\* The peer that the pager is ready to page is addressed with an access hash
\* of the pager's own account, and when it is to be called it was not found to
\* be a bot; crashes amid the saving and edits of the configuration included.
PeerIsPageable ==
  Ready /\ found # "given" => /\ found = session
                              /\ target # "chat"
                              /\ calls => target = "user"

\* Nothing that a crash leaves behind keeps the pager from starting: with a
\* configuration and a session that go together it becomes ready.
Sound == /\ ~(token /\ calls)
         /\ target = "user"
         /\ session # "none"
         /\ calls => session = "user"
         /\ peer = "id" => hash # "none"

StartsAgain == <>[]Sound => []<>Ready
=============================================================================
