--------------------------- MODULE StartupProofs ---------------------------
(***************************************************************************)
(* For any number of restarts, faults and edits of the configuration: the  *)
(* types of Startup, whose session the pager rings from, and whose access  *)
(* hash it addresses the peer by.                                          *)
(***************************************************************************)
EXTENDS Startup, TLAPS

\* The states of Startup are well typed; a peer is waiting to be saved only in
\* the step that saves it.
THEOREM TypeCorrect == Spec => []TypeOK
<1> USE MaxEditsAssumption, MaxFaultsAssumption
<1> USE DEF TypeOK, Peers, Targets, Accounts, Names, Booting
<1>1. Init => TypeOK
  <2> SUFFICES ASSUME Init PROVE TypeOK
    OBVIOUS
  <2>1. edits \in 0..MaxEdits /\ faults \in 0..MaxFaults
    BY DEF Init
  <2>2. QED
    BY <2>1 DEF Init
<1>2. TypeOK /\ [Next]_vars => TypeOK'
  <2> SUFFICES ASSUME TypeOK, [Next]_vars PROVE TypeOK'
    OBVIOUS
  <2> USE DEF Stays, Down, config, disk
  <2>1. CASE Serve \/ Errand
    <3>1. /\ edits' \in 0..MaxEdits
          /\ step = "down" /\ step' = "load" /\ command' \in {"run", "login", "voice"}
          /\ UNCHANGED <<config, disk, pending, found, faults>>
      BY <2>1 DEF Serve, Errand, Start
    <3>2. QED
      BY <3>1
  <2>2. CASE Load \/ OpenCache \/ Verify
    BY <2>2 DEF Load, OpenCache, Verify
  <2>3. CASE Authenticate
    BY <2>3 DEF Authenticate, Wanted
  <2>4. CASE UseGiven \/ UseCached \/ IdUnknown
    BY <2>4 DEF UseGiven, UseCached, IdUnknown, PhoneFound, HashFound
  <2>5. CASE AskTelegram
    BY <2>5 DEF AskTelegram
  <2>6. CASE Save
    <3>1. /\ pending' \subseteq {"hash", "phone"}
          /\ hash' \in {session, hash} /\ phone' \in BOOLEAN
      <4>1. PICK item \in pending :
               /\ pending' = pending \ {item}
               /\ hash' = IF item = "hash" /\ CacheOpen THEN session ELSE hash
               /\ phone' = (phone \/ (item = "phone" /\ CacheOpen))
        BY <2>6 DEF Save
      <4>2. QED
        BY <4>1
    <3>2. /\ step' \in {"check", "save"} /\ (pending' = {} <=> step' = "check")
          /\ UNCHANGED <<config, session, command, found, edits, faults>>
      BY <2>6 DEF Save
    <3>3. /\ hash' \in Accounts \cup {"none"} /\ step' \in Booting
          /\ pending' # {} <=> step' = "save"
      BY <3>1, <3>2
    <3>4. UNCHANGED <<token, calls, peer, target, session, command, found, edits, faults>>
      BY <3>2
    <3>5. QED
      BY <3>1, <3>3, <3>4
  <2>7. CASE Check \/ Finish
    BY <2>7 DEF Check, Finish
  <2>8. CASE Fault
    <3>1. faults' \in 0..MaxFaults
      BY <2>8 DEF Fault
    <3>2. QED
      BY <2>8, <3>1 DEF Fault
  <2>9. CASE Edit
    <3>1. edits' \in 0..MaxEdits
      BY <2>9 DEF Edit
    <3>2. QED
      BY <2>9, <3>1 DEF Edit
  <2>10. CASE DropSession
    <3>1. edits' \in 0..MaxEdits
      BY <2>10 DEF DropSession
    <3>2. QED
      BY <2>10, <3>1 DEF DropSession
  <2>11. CASE UNCHANGED vars
    BY <2>11 DEF vars
  <2>12. QED
    BY <2>1, <2>2, <2>3, <2>4, <2>5, <2>6, <2>7, <2>8, <2>9, <2>10, <2>11
       DEF Next, Boot
<1>3. QED
  BY <1>1, <1>2, PTL DEF Spec

-----------------------------------------------------------------------------

Loaded == {"cache", "auth", "verify", "resolve", "save", "check", "ready"}
SignedIn == {"verify", "resolve", "save", "check", "ready"}
Verified == {"resolve", "save", "check", "ready"}

\* What the steps have established: the cached hash is the session's, a loaded
\* configuration does not call with a token, a verified session may call.
BootInv ==
  /\ hash # "none" => hash = session
  /\ step \in Loaded => ~(token /\ calls)
  /\ step \in SignedIn => session # "none"
  /\ step \in Verified /\ command = "run" /\ calls => session = "user"
  /\ step \in {"save", "check"} => found = session /\ target # "chat"
  /\ step = "ready" => \/ found = "given"
                       \/ found = session /\ target # "chat" /\ (target = "bot" => token)

LEMMA BootStep == TypeOK /\ BootInv /\ [Next]_vars => BootInv'
<1> SUFFICES ASSUME TypeOK, BootInv, [Next]_vars PROVE BootInv'
  OBVIOUS
<1> USE DEF TypeOK, Peers, Targets, Accounts, Names, BootInv, Loaded, SignedIn, Verified
<1> USE DEF Stays, Down, config, disk
<1>1. CASE Serve \/ Errand
  BY <1>1 DEF Serve, Errand, Start
<1>2. CASE Load \/ OpenCache
  BY <1>2 DEF Load, OpenCache
<1>3. CASE Authenticate
  BY <1>3 DEF Authenticate, Wanted
<1>4. CASE Verify
  BY <1>4 DEF Verify, CallsEnabled
<1>5. CASE UseGiven
  BY <1>5 DEF UseGiven
<1>6. CASE UseCached
  BY <1>6 DEF UseCached, PhoneFound, HashFound
<1>7. CASE AskTelegram
  BY <1>7 DEF AskTelegram
<1>8. CASE Save
  BY <1>8 DEF Save
<1>9. CASE Check
  BY <1>9 DEF Check
<1>10. CASE IdUnknown \/ Finish \/ Fault
  BY <1>10 DEF IdUnknown, Finish, Fault
<1>11. CASE Edit
  BY <1>11 DEF Edit
<1>12. CASE DropSession
  BY <1>12 DEF DropSession
<1>13. CASE UNCHANGED vars
  BY <1>13 DEF vars
<1>14. QED
  BY <1>1, <1>2, <1>3, <1>4, <1>5, <1>6, <1>7, <1>8, <1>9, <1>10, <1>11, <1>12, <1>13
     DEF Next, Boot

LEMMA BootAlways == Spec => []BootInv
<1>1. Init => BootInv
  BY DEF Init, BootInv, Loaded, SignedIn, Verified
<1>2. QED
  BY <1>1, BootStep, TypeCorrect, PTL DEF Spec

\* The pager does not become ready to call from a bot's session: verifySelf looks
\* at the account itself, not at what the configuration says of it.
THEOREM NoBotRingsCorrect == Spec => []NoBotRings
<1>1. BootInv => NoBotRings
  BY DEF BootInv, NoBotRings, Ready, Verified
<1>2. QED
  BY <1>1, BootAlways, PTL

\* The peer that resolvePeer settles on is addressed with an access hash of the
\* pager's own account and, when it is to be called, is a user.
THEOREM PeerIsPageableCorrect == Spec => []PeerIsPageable
<1>1. TypeOK /\ BootInv => PeerIsPageable
  BY DEF TypeOK, Targets, BootInv, PeerIsPageable, Ready, Loaded
<1>2. QED
  BY <1>1, TypeCorrect, BootAlways, PTL
=============================================================================
