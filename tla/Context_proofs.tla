--------------------------- MODULE Context_proofs ---------------------------
(***************************************************************************)
(* Theorems about the contexts of any number of processes, whatever is     *)
(* kept, killed or times out.                                              *)
(***************************************************************************)
EXTENDS Context, WellFoundedInduction, TLAPS

(* A set of indices has a greatest member. *)
LEMMA LastIdx ==
  ASSUME NEW S \in SUBSET Idx
  PROVE  Last(S) \in Idx \cup {NoIdx}
<1>1. CASE S = {}
  BY <1>1 DEF Last, NoIdx
<1>2. CASE S # {}
  <2> DEFINE T == {MaxIdx - s : s \in S}
  <2>1. \A s \in S : s \in Int /\ MaxIdx - s \in Nat
    BY ContextAssumption DEF Idx
  <2>2. T \subseteq Nat
    BY <2>1
  <2>3. T # {}
    BY <1>2
  <2>4. PICK x \in T : \A y \in T : ~(<<y, x>> \in OpToRel(<, Nat))
    <3> HIDE DEF T
    <3> QED
      BY <2>2, <2>3, NatLessThanWellFounded, WFMin
  <2>5. \A y \in T : ~(y < x)
    <3>1. \A y \in T : <<y, x>> \in Nat \X Nat
      BY <2>2
    <3> QED
      BY <2>4, <3>1 DEF OpToRel
  <2>6. PICK s \in S : x = MaxIdx - s
    OBVIOUS
  <2>7. ASSUME NEW t \in S
        PROVE  t <= s
    <3>1. ~(MaxIdx - t < MaxIdx - s)
      BY <2>5, <2>6
    <3> QED
      BY <2>1, <2>6, <3>1, ContextAssumption
  <2>8. Last(S) \in S
    BY <1>2, <2>7 DEF Last
  <2> QED
    BY <2>8
<1> QED
  BY <1>1, <1>2

(* Cases of a step: every action of a context, and the stutter.            *)
LEMMA Cases ==
  ASSUME [Next]_vars
  PROVE  \/ \E c \in Contexts :
              \/ Construct(c) \/ Constructed(c) \/ CheckVictim(c) \/ RemoveVictim(c)
              \/ Enter(c) \/ EnterRefused(c) \/ GetSession(c) \/ Unlink(c) \/ Symlink(c)
              \/ LinkTimeout(c) \/ Open(c) \/ LockSession(c) \/ LockSessionTimeout(c)
              \/ Close(c) \/ Closed(c) \/ StartCleanup(c) \/ FinishCleanup(c)
              \/ Leave(c) \/ CleanedUp(c) \/ Release(c) \/ ReleaseTimeout(c)
              \/ Crash(c)
         \/ UNCHANGED vars
  BY DEF Next, Use, Proceed

-----------------------------------------------------------------------------
(* Types, and where the program of a context may have an open session.     *)

SessionPlaces ==
  \A c \in Contexts :
    /\ status[c] = "open" => at[c] \in {"opening", "entered", "raised", "crashed"}
    /\ at[c] = "opening" => status[c] = "open"
    /\ lock[c] # "no" => status[c] = "open" /\ at[c] \in {"entered", "raised"}

Typed == TypeOK /\ SessionPlaces

(* What a kill has torn stays torn. *)
LEMMA TornStays ==
  ASSUME [Next]_vars, torn
  PROVE  torn'
<1>1. ASSUME NEW c \in Contexts, Crash(c)
      PROVE  torn'
  BY <1>1 DEF Crash
<1>2. ASSUME UNCHANGED torn
      PROVE  torn'
  BY <1>2
<1> QED
  BY <1>1, <1>2, Cases
     DEF Construct, Constructed, CheckVictim, RemoveVictim, Enter, EnterRefused, GetSession,
         Unlink, Symlink, LinkTimeout, Open, LockSession, LockSessionTimeout, Close, Closed,
         StartCleanup, FinishCleanup, Leave, CleanedUp, Release, ReleaseTimeout, vars

(* The steps after which a context is forgotten.                           *)
Ends(c) ==
  \/ EnterRefused(c) \/ Crash(c)
  \/ at[c] = "atexit" /\ (Release(c) \/ ReleaseTimeout(c))

(* The other releases are those of __exit__.                               *)
LEMMA EndsOrExits ==
  ASSUME NEW c \in Contexts, Release(c) \/ ReleaseTimeout(c)
  PROVE  at[c] = "exiting" \/ Ends(c)
  BY DEF Release, ReleaseTimeout, Ends

LEMMA EndsForgets ==
  ASSUME Typed, NEW c \in Contexts, Ends(c)
  PROVE  /\ Forget(c) /\ UNCHANGED disk
         /\ \E place \in {"gone", "kept", "crashed"} : Goto(c, place)
         /\ linkLock' \in {linkLock, None}
         /\ deps' \subseteq deps /\ torn' \in BOOLEAN
<1>1. CASE EnterRefused(c)
  BY <1>1 DEF EnterRefused, Typed, TypeOK
<1>2. CASE Crash(c)
  BY <1>2 DEF Crash, Typed, TypeOK
<1>3. CASE at[c] = "atexit" /\ (Release(c) \/ ReleaseTimeout(c))
  BY <1>3 DEF Release, ReleaseTimeout, Goto, Typed, TypeOK
<1> QED
  BY <1>1, <1>2, <1>3 DEF Ends

(* The context itself is outside of its block, or crashed.                 *)
LEMMA EndsPlaces ==
  ASSUME NEW c \in Contexts, Ends(c), Typed
  PROVE  at[c] \in {"constructed", "atexit"} \/ at'[c] = "crashed"
  BY DEF Ends, EnterRefused, Crash, Goto, Typed, TypeOK

LEMMA EndsTyped ==
  ASSUME Typed, NEW c \in Contexts, Ends(c)
  PROVE  Typed'
<1>1. PICK place \in {"gone", "kept", "crashed"} : at' = [at EXCEPT ![c] = place]
  BY EndsForgets DEF Goto
<1>2. /\ Forget(c) /\ UNCHANGED disk
      /\ linkLock' \in {linkLock, None}
      /\ deps' \subseteq deps /\ torn' \in BOOLEAN
  BY EndsForgets
<1>3. TypeOK'
  BY <1>1, <1>2 DEF Typed, TypeOK, Places, Forget, disk
<1>4. SessionPlaces'
  BY <1>1, <1>2 DEF Typed, TypeOK, SessionPlaces, Forget
<1> QED
  BY <1>3, <1>4 DEF Typed

(* Removing a lock file makes orphans of locks and changes nothing else.   *)
LEMMA OrphanedLocks ==
  ASSUME Typed, NEW d
  PROVE  /\ Orphaned(d) \in [Contexts -> {"no", "linked", "orphan"}]
         /\ \A c \in Contexts : /\ Orphaned(d)[c] = "no" <=> lock[c] = "no"
                                /\ session[c] # d => Orphaned(d)[c] = lock[c]
  BY DEF Orphaned, Typed, TypeOK

LEMMA TypedInit == Init => Typed
  BY DEF Init, Typed, TypeOK, SessionPlaces, Places

LEMMA TypedStep == Typed /\ [Next]_vars => Typed'
<1> SUFFICES ASSUME Typed, [Next]_vars
             PROVE  Typed'
  OBVIOUS
<1> USE DEF Typed, Goto, disk, memory, own
<1>1. ASSUME NEW c \in Contexts, Construct(c)
      PROVE  Typed'
  <2>1. TypeOK'
    BY <1>1 DEF Construct, AllButLast, TypeOK, Places
  <2>2. SessionPlaces'
    BY <1>1 DEF Construct, AllButLast, SessionPlaces, TypeOK
  <2> QED
    BY <2>1, <2>2
<1>2. ASSUME NEW c \in Contexts, Constructed(c)
      PROVE  Typed'
  <2> DEFINE loaded == IF CleanupAuto THEN dirs ELSE recent[c]
  <2>1. loaded \in SUBSET Idx
    BY DEF TypeOK
  <2>2. Last(loaded) \in Idx \cup {NoIdx}
    BY <2>1, LastIdx
  <2>3. /\ recent' = [recent EXCEPT ![c] = loaded]
        /\ session_idx' = [session_idx EXCEPT ![c] = Last(loaded)]
        /\ linkLock' = None
        /\ at' = [at EXCEPT ![c] = "constructed"]
        /\ UNCHANGED <<deps, torn, disk, own, todo, victim>>
    BY <1>2 DEF Constructed
  <2> HIDE DEF loaded
  <2>4. TypeOK'
    BY <2>1, <2>2, <2>3 DEF TypeOK, Places
  <2>5. SessionPlaces'
    BY <1>2, <2>3 DEF Constructed, SessionPlaces, TypeOK
  <2> QED
    BY <2>4, <2>5
<1>3. ASSUME NEW c \in Contexts, CheckVictim(c)
      PROVE  Typed'
  <2>1. TypeOK'
    <3> DEFINE d == Least(todo[c])
    <3>1. CASE d \in dirs \ lockFiles
      <4>1. victim' = [victim EXCEPT ![c] = d] /\ d \in Idx /\ UNCHANGED todo
        BY <1>3, <3>1 DEF CheckVictim, TypeOK
      <4> HIDE DEF d
      <4> QED
        BY <1>3, <4>1 DEF CheckVictim, TypeOK
    <3>2. CASE d \notin dirs \ lockFiles
      <4>1. todo' = [todo EXCEPT ![c] = @ \ {d}] /\ UNCHANGED victim
        BY <1>3, <3>2 DEF CheckVictim
      <4> HIDE DEF d
      <4> QED
        BY <1>3, <4>1 DEF CheckVictim, TypeOK
    <3> QED
      BY <3>1, <3>2
  <2>2. SessionPlaces'
    BY <1>3 DEF CheckVictim, SessionPlaces, TypeOK
  <2> QED
    BY <2>1, <2>2
<1>4. ASSUME NEW c \in Contexts, RemoveVictim(c)
      PROVE  Typed'
  <2>1. TypeOK'
    BY <1>4, OrphanedLocks DEF RemoveVictim, TypeOK, Places
  <2>2. SessionPlaces'
    BY <1>4, OrphanedLocks DEF RemoveVictim, SessionPlaces, TypeOK
  <2> QED
    BY <2>1, <2>2
<1>5. ASSUME NEW c \in Contexts, Enter(c)
      PROVE  Typed'
  <2>1. TypeOK'
    BY <1>5 DEF Enter, Deps!Enter, TypeOK, Places
  <2>2. SessionPlaces'
    BY <1>5 DEF Enter, Deps!Enter, SessionPlaces, TypeOK
  <2> QED
    BY <2>1, <2>2
<1>6. ASSUME NEW c \in Contexts, LinkTimeout(c) \/ LockSessionTimeout(c)
      PROVE  Typed'
  <2>1. TypeOK'
    BY <1>6 DEF LinkTimeout, LockSessionTimeout, TypeOK, Places
  <2>2. SessionPlaces'
    BY <1>6 DEF LinkTimeout, LockSessionTimeout, SessionPlaces, TypeOK
  <2> QED
    BY <2>1, <2>2
<1>7. ASSUME NEW c \in Contexts, GetSession(c)
      PROVE  Typed'
  <2>1. session_idx[c] + 1 \in Idx /\ session_idx[c] + 1 # NoIdx
    BY <1>7, ContextAssumption DEF GetSession, TypeOK, Idx, NoIdx
  <2>2. TypeOK'
    BY <1>7, <2>1 DEF GetSession, TypeOK, Places
  <2>3. SessionPlaces'
    BY <1>7 DEF GetSession, SessionPlaces, TypeOK
  <2> QED
    BY <2>2, <2>3
<1>8. ASSUME NEW c \in Contexts, Unlink(c) \/ Symlink(c)
      PROVE  Typed'
  <2>1. TypeOK'
    BY <1>8 DEF Unlink, Symlink, TypeOK, Places
  <2>2. SessionPlaces'
    BY <1>8 DEF Unlink, Symlink, SessionPlaces, TypeOK
  <2> QED
    BY <2>1, <2>2
<1>9. ASSUME NEW c \in Contexts, Open(c) \/ LockSession(c)
      PROVE  Typed'
  <2>1. session[c] \in Idx
    BY <1>9 DEF Open, LockSession, TypeOK, SessionPlaces
  <2>2. TypeOK'
    BY <1>9, <2>1 DEF Open, LockSession, MakeDir, TypeOK, Places
  <2>3. SessionPlaces'
    BY <1>9 DEF Open, LockSession, SessionPlaces, TypeOK
  <2> QED
    BY <2>2, <2>3
<1>10. ASSUME NEW c \in Contexts, Close(c)
       PROVE  Typed'
  <2>1. TypeOK'
    BY <1>10 DEF Close, CloseAnd, TypeOK, Places
  <2>2. SessionPlaces'
    BY <1>10 DEF Close, CloseAnd, SessionPlaces, TypeOK
  <2> QED
    BY <2>1, <2>2
<1>11. ASSUME NEW c \in Contexts, Closed(c) \/ CleanedUp(c)
       PROVE  Typed'
  <2>1. /\ lock' = Orphaned(session[c])
        /\ lockFiles' = lockFiles \ {session[c]}
        /\ at[c] \in {"closing", "cleaning up"}
        /\ UNCHANGED <<linkLock, deps, torn, dirs, latest, recent, session_idx, session,
                       status, todo, victim>>
    BY <1>11 DEF Closed, CleanedUp, RemoveLockFile
  <2>2. PICK place \in {"entered", "raised", "exiting", "atexit"} : at' = [at EXCEPT ![c] = place]
    BY <1>11 DEF Closed, CleanedUp
  <2>3. lock' \in [Contexts -> {"no", "linked", "orphan"}]
    BY <2>1, OrphanedLocks
  <2>4. TypeOK'
    BY <2>1, <2>2, <2>3 DEF TypeOK, Places
  <2>5. SessionPlaces'
    BY <2>1, <2>2, OrphanedLocks DEF SessionPlaces, TypeOK
  <2> QED
    BY <2>4, <2>5
<1>12. ASSUME NEW c \in Contexts, StartCleanup(c) \/ FinishCleanup(c)
       PROVE  Typed'
  <2>1. Removable(c) \in SUBSET Idx
    BY DEF Removable, AllButLast, TypeOK
  <2>2. TypeOK'
    <3>1. CASE StartCleanup(c)
      BY <2>1, <3>1 DEF StartCleanup, TypeOK, Places
    <3>2. CASE FinishCleanup(c)
      BY <3>2 DEF FinishCleanup, TypeOK, Places
    <3> QED
      BY <1>12, <3>1, <3>2
  <2>3. SessionPlaces'
    BY <1>12 DEF StartCleanup, FinishCleanup, SessionPlaces, TypeOK
  <2> QED
    BY <2>2, <2>3
<1>13. ASSUME NEW c \in Contexts, Leave(c)
       PROVE  Typed'
  <2>1. TypeOK'
    BY <1>13 DEF Leave, CloseAnd, TypeOK, Places
  <2>2. SessionPlaces'
    <3>1. CASE status[c] = "open"
      <4>1. /\ status' = [status EXCEPT ![c] = "closed"]
            /\ lock' = [lock EXCEPT ![c] = "no"]
            /\ at' = [at EXCEPT ![c] = "cleaning up"]
        BY <1>13, <3>1 DEF Leave, CloseAnd
      <4> QED
        BY <4>1 DEF SessionPlaces, TypeOK
    <3>2. CASE status[c] # "open"
      BY <1>13, <3>2 DEF Leave, SessionPlaces, TypeOK
    <3> QED
      BY <3>1, <3>2
  <2> QED
    BY <2>1, <2>2
<1>14. ASSUME NEW c \in Contexts, at[c] = "exiting",
              Release(c) \/ ReleaseTimeout(c)
       PROVE  Typed'
  <2>1. TypeOK'
    BY <1>14 DEF Release, ReleaseTimeout, TypeOK, Places
  <2>2. SessionPlaces'
    BY <1>14 DEF Release, ReleaseTimeout, SessionPlaces, TypeOK
  <2> QED
    BY <2>1, <2>2
<1>15. ASSUME NEW c \in Contexts, Ends(c)
       PROVE  Typed'
  BY <1>15, EndsTyped
<1>16. CASE UNCHANGED vars
  BY <1>16 DEF vars, TypeOK, SessionPlaces
<1> QED
  BY <1>1, <1>2, <1>3, <1>4, <1>5, <1>6, <1>7, <1>8, <1>9, <1>10, <1>11, <1>12, <1>13,
     <1>14, <1>15, <1>16, Cases, EndsOrExits DEF Ends

(* What the contexts share and remember keeps its types.                   *)
THEOREM TypeCorrect == Spec => []TypeOK
<1>1. Typed => TypeOK
  BY DEF Typed
<1> QED
  BY <1>1, TypedInit, TypedStep, PTL DEF Spec

-----------------------------------------------------------------------------
(* The lock of the link. *)

LinkPlaces == {"constructing", "unlinking", "linking"}

(* Whoever is at work under the lock of the link has it, and no other.     *)
LinkOwner == \A c \in Contexts : at[c] \in LinkPlaces <=> linkLock = c

Linked == LinkOwner /\ SymlinkIsFree

LEMMA LinkedStep == Typed /\ Linked /\ [Next]_vars => Linked'
<1> SUFFICES ASSUME Typed, Linked, [Next]_vars
             PROVE  Linked'
  OBVIOUS
<1> USE ContextAssumption
    DEF Typed, TypeOK, Linked, LinkOwner, LinkPlaces, SymlinkIsFree, Goto, disk, memory,
        own
<1>1. ASSUME NEW c \in Contexts, Construct(c) \/ Constructed(c)
      PROVE  Linked'
  BY <1>1 DEF Construct, Constructed
<1>2. ASSUME NEW c \in Contexts, CheckVictim(c) \/ RemoveVictim(c)
      PROVE  Linked'
  BY <1>2 DEF CheckVictim, RemoveVictim
<1>3. ASSUME NEW c \in Contexts, Enter(c) \/ EnterRefused(c) \/ Release(c)
               \/ ReleaseTimeout(c)
      PROVE  Linked'
  BY <1>3 DEF Enter, EnterRefused, Release, ReleaseTimeout
<1>4. ASSUME NEW c \in Contexts, GetSession(c) \/ Unlink(c) \/ Symlink(c)
      PROVE  Linked'
  BY <1>4 DEF GetSession, Unlink, Symlink
<1>5. ASSUME NEW c \in Contexts, LinkTimeout(c)
      PROVE  Linked'
  BY <1>5 DEF LinkTimeout
<1>6. ASSUME NEW c \in Contexts, Open(c) \/ LockSession(c) \/ LockSessionTimeout(c)
      PROVE  Linked'
  BY <1>6 DEF Open, LockSession, LockSessionTimeout
<1>7. ASSUME NEW c \in Contexts, Close(c) \/ Closed(c) \/ CleanedUp(c)
      PROVE  Linked'
  <2>1. CASE Close(c)
    BY <2>1 DEF Close, CloseAnd
  <2>2. CASE Closed(c)
    BY <2>2 DEF Closed
  <2>3. CASE CleanedUp(c)
    BY <2>3 DEF CleanedUp
  <2> QED
    BY <1>7, <2>1, <2>2, <2>3
<1>8. ASSUME NEW c \in Contexts, StartCleanup(c) \/ FinishCleanup(c)
      PROVE  Linked'
  BY <1>8 DEF StartCleanup, FinishCleanup
<1>9. ASSUME NEW c \in Contexts, Leave(c)
      PROVE  Linked'
  BY <1>9 DEF Leave, CloseAnd
<1>10. ASSUME NEW c \in Contexts, Crash(c)
       PROVE  Linked'
  BY <1>10 DEF Crash
<1>11. CASE UNCHANGED vars
  BY <1>11 DEF vars
<1> QED
  BY <1>1, <1>2, <1>3, <1>4, <1>5, <1>6, <1>7, <1>8, <1>9, <1>10, <1>11, Cases

(* The link that create_session has removed is not back before it makes    *)
(* the new one.                                                            *)
THEOREM SymlinkIsFreeHolds == Spec => []SymlinkIsFree
<1>1. Init => Typed /\ Linked
  BY TypedInit, ContextAssumption
     DEF Init, Linked, LinkOwner, LinkPlaces, SymlinkIsFree
<1>2. Typed /\ Linked /\ [Next]_vars => (Typed /\ Linked)'
  BY TypedStep, LinkedStep
<1>3. Typed /\ Linked => SymlinkIsFree
  BY DEF Linked
<1> QED
  BY <1>1, <1>2, <1>3, PTL DEF Spec

-----------------------------------------------------------------------------
(* The lock on the environment. *)

Outside == {"new", "constructing", "constructed", "atexit", "gone", "kept", "crashed"}

(* A context in its block has an entry.                                    *)
DepsHeld == \A c \in Contexts : at[c] \notin Outside => c \in deps

(* That of a writer is alone.                                              *)
DepsExclusive == \A w \in Writers : w \in deps => deps = {w}

CleanersWrite == \A c \in Contexts : at[c] = "cleaning" => c \in Writers

Excluded == CleanersWrite /\ (~torn => DepsHeld /\ DepsExclusive)

LEMMA ExcludedStep == Typed /\ Excluded /\ [Next]_vars => Excluded'
<1> SUFFICES ASSUME Typed, Excluded, [Next]_vars
             PROVE  Excluded'
  OBVIOUS
<1> USE DEF Typed, TypeOK, Excluded, DepsHeld, DepsExclusive, CleanersWrite, Outside,
            Goto, disk, memory, own
<1>1. ASSUME NEW c \in Contexts, Construct(c) \/ Constructed(c)
      PROVE  Excluded'
  BY <1>1 DEF Construct, Constructed
<1>2. ASSUME NEW c \in Contexts, CheckVictim(c) \/ RemoveVictim(c)
      PROVE  Excluded'
  BY <1>2 DEF CheckVictim, RemoveVictim
<1>3. ASSUME NEW c \in Contexts, Enter(c)
      PROVE  Excluded'
  <2>1. /\ deps' = deps \cup {c}
        /\ IF c \in Writers THEN deps = {} ELSE deps \cap Writers = {}
    BY <1>3 DEF Enter, Deps!Enter, Deps!Grantable
  <2>2. ~torn => DepsExclusive'
    BY <2>1
  <2>3. CleanersWrite' /\ (~torn => DepsHeld')
    BY <1>3, <2>1 DEF Enter
  <2> QED
    BY <1>3, <2>2, <2>3 DEF Enter
<1>4. ASSUME NEW c \in Contexts, EnterRefused(c) \/ LinkTimeout(c)
      PROVE  Excluded'
  BY <1>4 DEF EnterRefused, LinkTimeout
<1>5. ASSUME NEW c \in Contexts, GetSession(c) \/ Unlink(c) \/ Symlink(c)
      PROVE  Excluded'
  BY <1>5 DEF GetSession, Unlink, Symlink
<1>6. ASSUME NEW c \in Contexts, Open(c) \/ LockSession(c) \/ LockSessionTimeout(c)
      PROVE  Excluded'
  BY <1>6 DEF Open, LockSession, LockSessionTimeout
<1>7. ASSUME NEW c \in Contexts, Close(c) \/ Closed(c) \/ CleanedUp(c)
      PROVE  Excluded'
  <2>1. CASE Close(c)
    BY <2>1 DEF Close, CloseAnd
  <2>2. CASE Closed(c)
    BY <2>2 DEF Closed
  <2>3. CASE CleanedUp(c)
    BY <2>3 DEF CleanedUp
  <2> QED
    BY <1>7, <2>1, <2>2, <2>3
<1>8. ASSUME NEW c \in Contexts, StartCleanup(c) \/ FinishCleanup(c)
      PROVE  Excluded'
  BY <1>8 DEF StartCleanup, FinishCleanup
<1>9. ASSUME NEW c \in Contexts, Leave(c)
      PROVE  Excluded'
  BY <1>9 DEF Leave, CloseAnd
<1>10. ASSUME NEW c \in Contexts, Release(c) \/ ReleaseTimeout(c)
       PROVE  Excluded'
  BY <1>10 DEF Release, ReleaseTimeout
<1>11. ASSUME NEW c \in Contexts, Crash(c)
       PROVE  Excluded'
  <2>1. at' = [at EXCEPT ![c] = "crashed"]
    BY <1>11 DEF Crash
  <2>2. CASE UNCHANGED <<deps, torn>>
    BY <2>1, <2>2
  <2>3. CASE deps' = {} /\ torn' = (torn \/ deps \ {c} # {})
    <3>1. ~torn' => ~torn /\ deps \subseteq {c}
      BY <2>3
    <3> QED
      BY <2>1, <2>3, <3>1
  <2> QED
    BY <1>11, <2>2, <2>3 DEF Crash
<1>12. CASE UNCHANGED vars
  BY <1>12 DEF vars
<1> QED
  BY <1>1, <1>2, <1>3, <1>4, <1>5, <1>6, <1>7, <1>8, <1>9, <1>10, <1>11, <1>12, Cases

LEMMA ExcludedInit == Init => Excluded
  BY DEF Init, Excluded, DepsHeld, DepsExclusive, CleanersWrite, Outside

(* "mlonmcu cleanup" has the environment to itself: while it removes       *)
(* directories all others are outside of their blocks, unless a kill has   *)
(* erased entries of the track file.                                       *)
THEOREM CleanupAloneHolds == Spec => []CleanupAlone
<1>1. Init => Typed /\ Excluded
  BY TypedInit, ExcludedInit
<1>2. Typed /\ Excluded /\ [Next]_vars => (Typed /\ Excluded)'
  BY TypedStep, ExcludedStep
<1>3. Typed /\ Excluded => CleanupAlone
  BY DEF Excluded, DepsHeld, DepsExclusive, CleanersWrite, CleanupAlone, Outside
<1> QED
  BY <1>1, <1>2, <1>3, PTL DEF Spec

-----------------------------------------------------------------------------
(* The .lock files. *)

Owned(d) == \E c \in Contexts : WillRemove(c, d) \/ at[c] = "crashed"

(* A step other than the removal of a lock file by its owner leaves the    *)
(* lock files with an owner.                                               *)
LEMMA OwnersStay ==
  ASSUME Typed, NEW c \in Contexts, NEW d, Owned(d),
         \A e \in Contexts \ {c} : /\ at'[e] = at[e]
                                   /\ session'[e] = session[e]
                                   /\ status'[e] = status[e],
         WillRemove(c, d) \/ at[c] = "crashed" => WillRemove(c, d)' \/ at'[c] = "crashed"
  PROVE  Owned(d)'
  BY DEF Owned, WillRemove

LEMMA LockFilesStep ==
  Typed /\ LockFilesOwned /\ [Next]_vars => LockFilesOwned'
<1> SUFFICES ASSUME Typed, LockFilesOwned, [Next]_vars, NEW d \in lockFiles'
             PROVE  Owned(d)'
  BY DEF LockFilesOwned, Owned
<1> USE DEF Typed, TypeOK, SessionPlaces, WillRemove, Goto, disk, memory, own
<1>0. d \in lockFiles => Owned(d)
  BY DEF LockFilesOwned, Owned
<1>1. ASSUME NEW c \in Contexts,
             \/ Construct(c) \/ Constructed(c) \/ CheckVictim(c)
             \/ Enter(c) \/ LinkTimeout(c)
      PROVE  Owned(d)'
  BY <1>0, <1>1, OwnersStay
     DEF Construct, Constructed, CheckVictim, Enter, LinkTimeout
<1>2. ASSUME NEW c \in Contexts, RemoveVictim(c)
      PROVE  Owned(d)'
  BY <1>0, <1>2, OwnersStay DEF RemoveVictim
<1>3. ASSUME NEW c \in Contexts, GetSession(c) \/ Unlink(c) \/ Symlink(c)
      PROVE  Owned(d)'
  BY <1>0, <1>3, OwnersStay DEF GetSession, Unlink, Symlink
<1>4. ASSUME NEW c \in Contexts, Open(c) \/ LockSessionTimeout(c)
      PROVE  Owned(d)'
  <2>1. CASE Open(c)
    BY <1>0, <2>1, OwnersStay DEF Open
  <2>2. CASE LockSessionTimeout(c)
    BY <1>0, <2>2, OwnersStay DEF LockSessionTimeout
  <2> QED
    BY <1>4, <2>1, <2>2
<1>5. ASSUME NEW c \in Contexts, LockSession(c)
      PROVE  Owned(d)'
  <2>1. CASE d = session[c]
    <3>1. WillRemove(c, d)'
      BY <1>5, <2>1 DEF LockSession
    <3> QED
      BY <3>1 DEF Owned
  <2>2. CASE d # session[c]
    BY <1>0, <1>5, <2>2, OwnersStay DEF LockSession
  <2> QED
    BY <2>1, <2>2
<1>6. ASSUME NEW c \in Contexts, Close(c)
      PROVE  Owned(d)'
  BY <1>0, <1>6, OwnersStay DEF Close, CloseAnd
<1>7. ASSUME NEW c \in Contexts, Closed(c) \/ CleanedUp(c)
      PROVE  Owned(d)'
  <2>0. lockFiles' = lockFiles \ {session[c]}
    BY <1>7 DEF Closed, CleanedUp, RemoveLockFile
  <2>1. d \in lockFiles /\ d # session[c]
    BY <2>0
  <2>2. at[c] \in {"closing", "cleaning up"} /\ UNCHANGED <<session, status>>
    BY <1>7 DEF Closed, CleanedUp
  <2>3. \A e \in Contexts \ {c} : at'[e] = at[e]
    BY <1>7 DEF Closed, CleanedUp
  <2> QED
    BY <1>0, <2>1, <2>2, <2>3, OwnersStay
<1>8. ASSUME NEW c \in Contexts, StartCleanup(c) \/ FinishCleanup(c)
      PROVE  Owned(d)'
  BY <1>0, <1>8, OwnersStay DEF StartCleanup, FinishCleanup
<1>9. ASSUME NEW c \in Contexts, Leave(c)
      PROVE  Owned(d)'
  BY <1>0, <1>9, OwnersStay DEF Leave, CloseAnd
<1>10. ASSUME NEW c \in Contexts, at[c] = "exiting",
              Release(c) \/ ReleaseTimeout(c)
       PROVE  Owned(d)'
  BY <1>0, <1>10, OwnersStay DEF Release, ReleaseTimeout
<1>11. ASSUME NEW c \in Contexts, Ends(c)
       PROVE  Owned(d)'
  <2>1. /\ session' = [session EXCEPT ![c] = NoIdx]
        /\ status' = [status EXCEPT ![c] = "none"]
        /\ UNCHANGED lockFiles
        /\ \A e \in Contexts \ {c} : at'[e] = at[e]
    BY <1>11, EndsForgets DEF Forget
  <2>2. at[c] \in {"constructed", "atexit"} \/ at'[c] = "crashed"
    BY <1>11, EndsPlaces
  <2> QED
    BY <1>0, <2>1, <2>2, OwnersStay
<1>12. CASE UNCHANGED vars
  BY <1>0, <1>12 DEF vars, Owned
<1> QED
  BY <1>1, <1>2, <1>3, <1>4, <1>5, <1>6, <1>7, <1>8, <1>9, <1>10, <1>11, <1>12, Cases,
     EndsOrExits DEF Ends

(* Whatever times out, and whoever removes whose lock file: there is       *)
(* always a process left that removes it, or one was killed.               *)
THEOREM LockFilesOwnedHolds == Spec => []LockFilesOwned
<1>1. Init => LockFilesOwned
  BY DEF Init, LockFilesOwned
<1> QED
  BY <1>1, TypedInit, TypedStep, LockFilesStep, PTL DEF Spec

-----------------------------------------------------------------------------
(* The session of a writer.  Without cleanup_auto, only those who have the *)
(* lock on the environment remove directories and lock files.              *)

(* A cleanup is at work only in a context that is cleaning up.             *)
TodoPlaces ==
  \A c \in Contexts :
    /\ todo[c] # {} => at[c] = "cleaning"
    /\ victim[c] # NoIdx => todo[c] # {}

LEMMA TodoStep ==
  ASSUME ~CleanupAuto, Typed, TodoPlaces, [Next]_vars
  PROVE  TodoPlaces'
<1> USE DEF Typed, TypeOK, TodoPlaces, Goto, disk, memory, own
<1>1. ASSUME NEW c \in Contexts, Construct(c) \/ Constructed(c)
      PROVE  TodoPlaces'
  BY <1>1 DEF Construct, Constructed
<1>2. ASSUME NEW c \in Contexts, CheckVictim(c)
      PROVE  TodoPlaces'
  <2> DEFINE d == Least(todo[c])
  <2>1. CASE d \in dirs \ lockFiles
    BY <1>2, <2>1 DEF CheckVictim
  <2>2. CASE d \notin dirs \ lockFiles
    <3>1. todo' = [todo EXCEPT ![c] = @ \ {d}] /\ UNCHANGED <<victim, at>>
      BY <1>2, <2>2 DEF CheckVictim
    <3>2. victim[c] = NoIdx /\ todo[c] # {}
      BY <1>2 DEF CheckVictim
    <3> HIDE DEF d
    <3> QED
      BY <3>1, <3>2
  <2> QED
    BY <2>1, <2>2
<1>3. ASSUME NEW c \in Contexts, RemoveVictim(c)
      PROVE  TodoPlaces'
  BY <1>3 DEF RemoveVictim
<1>4. ASSUME NEW c \in Contexts, Enter(c) \/ LinkTimeout(c)
      PROVE  TodoPlaces'
  BY <1>4 DEF Enter, LinkTimeout
<1>5. ASSUME NEW c \in Contexts, GetSession(c) \/ Unlink(c) \/ Symlink(c)
      PROVE  TodoPlaces'
  BY <1>5 DEF GetSession, Unlink, Symlink
<1>6. ASSUME NEW c \in Contexts, Open(c) \/ LockSession(c) \/ LockSessionTimeout(c)
      PROVE  TodoPlaces'
  BY <1>6 DEF Open, LockSession, LockSessionTimeout
<1>7. ASSUME NEW c \in Contexts, Close(c) \/ Closed(c) \/ CleanedUp(c)
      PROVE  TodoPlaces'
  BY <1>7 DEF Close, CloseAnd, Closed, CleanedUp
<1>8. ASSUME NEW c \in Contexts, StartCleanup(c) \/ FinishCleanup(c)
      PROVE  TodoPlaces'
  BY <1>8 DEF StartCleanup, FinishCleanup
<1>9. ASSUME NEW c \in Contexts,
             \/ Leave(c)
             \/ at[c] = "exiting" /\ (Release(c) \/ ReleaseTimeout(c))
      PROVE  TodoPlaces'
  BY <1>9 DEF Leave, CloseAnd, Release, ReleaseTimeout
<1>10. ASSUME NEW c \in Contexts, Ends(c)
       PROVE  TodoPlaces'
  BY <1>10, EndsForgets DEF Forget
<1>11. CASE UNCHANGED vars
  BY <1>11 DEF vars
<1> QED
  BY <1>1, <1>2, <1>3, <1>4, <1>5, <1>6, <1>7, <1>8, <1>9, <1>10, <1>11, Cases,
     EndsOrExits DEF Ends

(* As long as a writer has its session locked no other context is in its   *)
(* block: none has a session locked, and none removes a file.              *)
LEMMA WriterAlone ==
  ASSUME Typed, Excluded, ~torn, NEW w \in Writers, lock[w] # "no"
  PROVE  /\ at[w] \in {"entered", "raised"} /\ status[w] = "open"
         /\ \A c \in Contexts \ {w} : at[c] \in Outside /\ lock[c] = "no"
<1>1. w \in Contexts
  BY DEF Contexts
<1>2. at[w] \in {"entered", "raised"} /\ status[w] = "open"
  BY <1>1 DEF Typed, SessionPlaces
<1>3. deps = {w}
  BY <1>1, <1>2 DEF Excluded, DepsHeld, DepsExclusive, Outside
<1>4. ASSUME NEW c \in Contexts \ {w}
      PROVE  at[c] \in Outside /\ lock[c] = "no"
  <2>1. at[c] \in Outside
    BY <1>3 DEF Excluded, DepsHeld
  <2> QED
    BY <2>1 DEF Typed, SessionPlaces, Outside
<1> QED
  BY <1>2, <1>4

WriterSession ==
  ~torn =>
    \A w \in Writers : lock[w] # "no" => session[w] \in dirs /\ lock[w] = "linked"

LEMMA WriterSessionStep ==
  ASSUME ~CleanupAuto, Typed, Excluded, TodoPlaces, WriterSession, [Next]_vars
  PROVE  WriterSession'
<1> USE DEF Typed, TypeOK, WriterSession, Goto, disk, memory, own
<1> SUFFICES ASSUME ~torn' PROVE WriterSession'
  OBVIOUS
<1> ~torn
  BY TornStays
<1>0. Writers \subseteq Contexts
  BY DEF Contexts
<1>1. ASSUME NEW c \in Contexts,
             \/ Construct(c) \/ Constructed(c) \/ CheckVictim(c)
             \/ Enter(c) \/ LinkTimeout(c)
             \/ Unlink(c) \/ Symlink(c) \/ LockSessionTimeout(c)
             \/ StartCleanup(c) \/ FinishCleanup(c)
             \/ at[c] = "exiting" /\ (Release(c) \/ ReleaseTimeout(c))
      PROVE  WriterSession'
  <2>1. UNCHANGED <<dirs, session, lock>>
    BY <1>1 DEF Construct, Constructed, CheckVictim, Enter, LinkTimeout, Unlink, Symlink,
                LockSessionTimeout, StartCleanup, FinishCleanup, Release, ReleaseTimeout
  <2> QED
    BY <2>1
<1>2. ASSUME NEW c \in Contexts, RemoveVictim(c)
      PROVE  WriterSession'
  <2>1. at[c] = "cleaning"
    BY <1>2 DEF RemoveVictim, TodoPlaces
  <2>2. ASSUME NEW w \in Writers
        PROVE  lock[w] = "no"
    BY <1>0, <2>1, WriterAlone DEF Outside
  <2>3. \A w \in Writers : lock'[w] = "no"
    BY <1>0, <1>2, <2>2, OrphanedLocks DEF RemoveVictim
  <2> QED
    BY <2>3
<1>3. ASSUME NEW c \in Contexts, GetSession(c)
      PROVE  WriterSession'
  BY <1>0, <1>3 DEF GetSession
<1>4. ASSUME NEW c \in Contexts, Open(c) \/ LockSession(c)
      PROVE  WriterSession'
  BY <1>0, <1>4 DEF Open, LockSession, MakeDir
<1>5. ASSUME NEW c \in Contexts, Close(c) \/ Leave(c) \/ Ends(c)
      PROVE  WriterSession'
  <2>1. CASE Close(c) \/ Leave(c)
    BY <1>0, <2>1 DEF Close, Leave, CloseAnd
  <2>2. CASE Ends(c)
    BY <1>0, <2>2, EndsForgets DEF Forget
  <2> QED
    BY <1>5, <2>1, <2>2
<1>6. ASSUME NEW c \in Contexts, Closed(c) \/ CleanedUp(c)
      PROVE  WriterSession'
  <2>1. at[c] \in {"closing", "cleaning up"}
    BY <1>6 DEF Closed, CleanedUp
  <2>2. ASSUME NEW w \in Writers
        PROVE  lock[w] = "no"
    BY <1>0, <2>1, WriterAlone DEF Outside
  <2>3. lock' = Orphaned(session[c])
    BY <1>6 DEF Closed, CleanedUp, RemoveLockFile
  <2>4. \A w \in Writers : lock'[w] = "no"
    BY <1>0, <2>2, <2>3, OrphanedLocks
  <2> QED
    BY <2>4
<1>7. CASE UNCHANGED vars
  BY <1>7 DEF vars
<1> QED
  BY <1>1, <1>2, <1>3, <1>4, <1>5, <1>6, <1>7, Cases, EndsOrExits DEF Ends

(* A writer that works in a session keeps its directory, its lock file and *)
(* its lock to itself, if the environment does not clean up on its own and *)
(* no kill has erased entries of the track file.                           *)
THEOREM WriterSessionSafeHolds ==
  ASSUME ~CleanupAuto
  PROVE  Spec => []WriterSessionSafe
<1> DEFINE Inv == Typed /\ Excluded /\ TodoPlaces /\ WriterSession
<1>1. Init => Inv
  BY TypedInit, ExcludedInit DEF Init, TodoPlaces, WriterSession, Contexts
<1>2. Inv /\ [Next]_vars => Inv'
  BY TypedStep, ExcludedStep, TodoStep, WriterSessionStep
<1>3. Inv => WriterSessionSafe
  BY WriterAlone DEF WriterSession, WriterSessionSafe
<1> QED
  BY <1>1, <1>2, <1>3, PTL DEF Spec
=============================================================================
