------------------------- MODULE RWFileLock_proofs -------------------------
(***************************************************************************)
(* Proofs about RWFileLock for any sets of readers and writers.            *)
(***************************************************************************)
EXTENDS RWFileLock, TLAPS

USE RWAssumption

-----------------------------------------------------------------------------
(* Type correctness. *)

LEMMA TypeStep == TypeOK /\ [Next]_vars => TypeOK'
<1> SUFFICES ASSUME TypeOK, [Next]_vars PROVE TypeOK'
  OBVIOUS
<1> USE DEF TypeOK, Methods, Places
<1>1. ASSUME NEW l \in Locks, Call(l) PROVE TypeOK'
  <2>1. CASE CallIsLocked(l)
    BY <2>1 DEF CallIsLocked, Begin
  <2>2. CASE CallAcquire(l)
    BY <2>2 DEF CallAcquire, Begin
  <2>3. CASE CallRelease(l)
    <3>1. callbacks' \in [Locks -> Nat]
      BY <2>3 DEF CallRelease
    <3> QED BY <2>3, <3>1 DEF CallRelease, Begin
  <2> QED BY <1>1, <2>1, <2>2, <2>3 DEF Call
<1>2. ASSUME NEW l \in Locks, Body(l) PROVE TypeOK'
  <2>1. CASE LockAndRead(l)
    BY <2>1 DEF LockAndRead
  <2>2. CASE FileLockTimeout(l)
    <3>1. kept' \in [Locks -> BOOLEAN]
      BY <2>2 DEF FileLockTimeout
    <3> QED BY <2>2, <3>1 DEF FileLockTimeout
  <2>3. CASE ReturnIsLocked(l)
    BY <2>3 DEF ReturnIsLocked, Return, Blocks
  <2>4. CASE RefuseAcquire(l)
    BY <2>4 DEF RefuseAcquire, Return
  <2>5. CASE OpenToClaim(l)
    BY <2>5 DEF OpenToClaim, Truncate
  <2>6. CASE OpenToDrop(l)
    BY <2>6 DEF OpenToDrop, Truncate
  <2>7. CASE Dump(l)
    BY <2>7 DEF Dump
  <2>8. CASE ReturnAcquired(l)
    BY <2>8 DEF ReturnAcquired, Return
  <2>9. CASE ReturnReleased(l)
    BY <2>9 DEF ReturnReleased, Return
  <2> QED BY <1>2, <2>1, <2>2, <2>3, <2>4, <2>5, <2>6, <2>7, <2>8, <2>9 DEF Body
<1>3. ASSUME NEW l \in Locks, Exit(l) \/ Gone(l) \/ Crash(l) PROVE TypeOK'
  <2>1. CASE Exit(l)
    BY <2>1 DEF Exit
  <2>2. CASE Gone(l)
    BY <2>2 DEF Gone
  <2>3. CASE Crash(l)
    <3>1. torn' \in BOOLEAN
      BY <2>3, Zenon DEF Crash
    <3> QED BY <2>3, <3>1 DEF Crash
  <2> QED BY <1>3, <2>1, <2>2, <2>3
<1>4. CASE UNCHANGED vars
  BY <1>4 DEF vars
<1> QED BY <1>1, <1>2, <1>3, <1>4 DEF Next

LEMMA TypeInit == Init => TypeOK
<1> SUFFICES ASSUME Init PROVE TypeOK
  OBVIOUS
<1>1. torn \in BOOLEAN
  BY Zenon DEF Init
<1>2. /\ mutex \in Locks \cup {None}
      /\ track \in SUBSET Locks
      /\ info \in [Locks -> SUBSET Locks]
  BY DEF Init
<1>3. /\ op \in [Locks -> Methods \cup {"none"}]
      /\ at \in [Locks -> Places]
  BY DEF Init, Methods, Places
<1>4. /\ holds \in [Locks -> BOOLEAN]
      /\ kept \in [Locks -> BOOLEAN]
      /\ callbacks \in [Locks -> Nat]
      /\ status \in [Locks -> {"running", "exiting", "gone", "crashed"}]
  BY DEF Init
<1> QED BY <1>1, <1>2, <1>3, <1>4 DEF TypeOK

(* The variables of the lock classes keep their types. *)
THEOREM TypeCorrect == Spec => []TypeOK
  BY TypeInit, TypeStep, PTL DEF Spec

-----------------------------------------------------------------------------
(* How one step changes what the track file records. *)

EntryChange(l) ==
  \/ Recorded' = Recorded
  \/ OpenToClaim(l) /\ ~Blocks(l, Recorded) /\ Recorded' = Recorded \cup {l}
  \/ OpenToDrop(l) /\ Recorded' = Recorded \ {l}
  \/ Crash(l) /\ torn' /\ Recorded' = {}

LEMMA EntryStep ==
  ASSUME TypeOK, MutexOwner, Busy, InfoFresh, NEW l \in Locks,
         Call(l) \/ Body(l) \/ Exit(l) \/ Gone(l) \/ Crash(l)
  PROVE  EntryChange(l)
<1> USE DEF TypeOK, MutexOwner, Busy, InfoFresh, Recorded, Places, EntryChange
<1>1. CASE Call(l)
  <2>1. CASE CallIsLocked(l)
    BY <2>1 DEF CallIsLocked, Begin
  <2>2. CASE CallAcquire(l)
    BY <2>2 DEF CallAcquire, Begin
  <2>3. CASE CallRelease(l)
    BY <2>3 DEF CallRelease, Begin
  <2> QED BY <1>1, <2>1, <2>2, <2>3 DEF Call
<1>2. CASE Body(l)
  <2>1. CASE LockAndRead(l)
    BY <2>1 DEF LockAndRead
  <2>2. CASE FileLockTimeout(l)
    BY <2>2 DEF FileLockTimeout
  <2>3. CASE ReturnIsLocked(l)
    BY <2>3 DEF ReturnIsLocked, Return
  <2>4. CASE RefuseAcquire(l)
    BY <2>4 DEF RefuseAcquire, Return
  <2>5. CASE OpenToClaim(l)
    BY <2>5 DEF OpenToClaim, Truncate, Blocks
  <2>6. CASE OpenToDrop(l)
    BY <2>6 DEF OpenToDrop, Truncate
  <2>7. CASE Dump(l)
    BY <2>7 DEF Dump
  <2>8. CASE ReturnAcquired(l)
    BY <2>8 DEF ReturnAcquired, Return
  <2>9. CASE ReturnReleased(l)
    BY <2>9 DEF ReturnReleased, Return
  <2> QED BY <1>2, <2>1, <2>2, <2>3, <2>4, <2>5, <2>6, <2>7, <2>8, <2>9 DEF Body
<1>3. CASE Exit(l)
  BY <1>3 DEF Exit
<1>4. CASE Gone(l)
  BY <1>4 DEF Gone
<1>5. CASE Crash(l)
  <2>1. CASE at[l] = "truncated"
    <3>1. torn'
      BY <1>5, <2>1, Zenon DEF Crash
    <3>2. mutex' = None /\ track' = {}
      BY <1>5, <2>1 DEF Crash
    <3> QED BY <1>5, <3>1, <3>2
  <2>2. CASE at[l] # "truncated"
    BY <1>5, <2>2 DEF Crash
  <2> QED BY <2>1, <2>2
<1> QED BY <1>1, <1>2, <1>3, <1>4, <1>5

-----------------------------------------------------------------------------
(* The control part of Consistent: who has the FileLock, what it has read. *)

Control == MutexOwner /\ Busy /\ InfoFresh /\ Rewriting /\ NotYetOwner

LEMMA ControlStep ==
  ASSUME TypeOK, Control, NEW l \in Locks,
         Call(l) \/ Body(l) \/ Exit(l) \/ Gone(l) \/ Crash(l)
  PROVE  Control'
<1> USE DEF TypeOK, Control, MutexOwner, Busy, InfoFresh, Rewriting, NotYetOwner,
            Places, Methods
<1>1. CASE Call(l)
  <2>1. CASE CallIsLocked(l)
    BY <2>1 DEF CallIsLocked, Begin
  <2>2. CASE CallAcquire(l)
    BY <2>2 DEF CallAcquire, Begin
  <2>3. CASE CallRelease(l)
    BY <2>3 DEF CallRelease, Begin
  <2> QED BY <1>1, <2>1, <2>2, <2>3 DEF Call
<1>2. CASE Body(l)
  <2>1. CASE LockAndRead(l)
    BY <2>1 DEF LockAndRead
  <2>2. CASE FileLockTimeout(l)
    BY <2>2 DEF FileLockTimeout
  <2>3. CASE ReturnIsLocked(l)
    BY <2>3 DEF ReturnIsLocked, Return
  <2>4. CASE RefuseAcquire(l)
    BY <2>4 DEF RefuseAcquire, Return
  <2>5. CASE OpenToClaim(l)
    BY <2>5 DEF OpenToClaim, Truncate
  <2>6. CASE OpenToDrop(l)
    BY <2>6 DEF OpenToDrop, Truncate
  <2>7. CASE Dump(l)
    BY <2>7 DEF Dump
  <2>8. CASE ReturnAcquired(l)
    BY <2>8 DEF ReturnAcquired, Return
  <2>9. CASE ReturnReleased(l)
    BY <2>9 DEF ReturnReleased, Return
  <2> QED BY <1>2, <2>1, <2>2, <2>3, <2>4, <2>5, <2>6, <2>7, <2>8, <2>9 DEF Body
<1>3. CASE Exit(l)
  BY <1>3 DEF Exit
<1>4. CASE Gone(l)
  BY <1>4 DEF Gone
<1>5. CASE Crash(l)
  BY <1>5 DEF Crash
<1> QED BY <1>1, <1>2, <1>3, <1>4, <1>5

(* Who is an owner after a step: an owner from before, or whoever returns  *)
(* from a successful acquire.                                              *)
LEMMA HoldsStep ==
  ASSUME TypeOK, NEW l \in Locks,
         Call(l) \/ Body(l) \/ Exit(l) \/ Gone(l) \/ Crash(l)
  PROVE  \A k \in Locks : holds'[k] => holds[k] \/ (k = l /\ ReturnAcquired(l))
<1> USE DEF TypeOK
<1>1. CASE Call(l)
  BY <1>1 DEF Call, CallIsLocked, CallAcquire, CallRelease
<1>2. CASE Body(l)
  BY <1>2 DEF Body, LockAndRead, FileLockTimeout, ReturnIsLocked, RefuseAcquire,
              OpenToClaim, OpenToDrop, Dump, ReturnAcquired, ReturnReleased
<1>3. CASE Exit(l) \/ Gone(l) \/ Crash(l)
  BY <1>3 DEF Exit, Gone, Crash
<1> QED BY <1>1, <1>2, <1>3

(* A process once torn stays so. *)
LEMMA TornStep ==
  ASSUME NEW l \in Locks, Call(l) \/ Body(l) \/ Exit(l) \/ Gone(l) \/ Crash(l), torn
  PROVE  torn'
<1>1. CASE Call(l)
  BY <1>1, Zenon DEF Call, CallIsLocked, CallAcquire, CallRelease
<1>2. CASE Body(l)
  BY <1>2, Zenon DEF Body, LockAndRead, FileLockTimeout, ReturnIsLocked, RefuseAcquire,
              OpenToClaim, OpenToDrop, Dump, ReturnAcquired, ReturnReleased
<1>3. CASE Exit(l) \/ Gone(l) \/ Crash(l)
  BY <1>3, Zenon DEF Exit, Gone, Crash
<1> QED BY <1>1, <1>2, <1>3

LEMMA OwnersStep ==
  ASSUME TypeOK, Control, OwnersRecorded, NEW l \in Locks,
         Call(l) \/ Body(l) \/ Exit(l) \/ Gone(l) \/ Crash(l)
  PROVE  OwnersRecorded'
<1> SUFFICES ASSUME ~torn', NEW k \in Locks, holds'[k] PROVE k \in Recorded'
  BY DEF OwnersRecorded
<1>1. ~torn
  BY TornStep
<1>2. EntryChange(l)
  BY EntryStep DEF Control
<1>3. CASE holds[k]
  <2>1. k \in Recorded
    BY <1>1, <1>3 DEF OwnersRecorded
  <2>2. CASE OpenToDrop(l)
    <3>1. k # l
      BY <1>3, <2>2 DEF OpenToDrop, Control, NotYetOwner
    <3>2. CASE Recorded' = Recorded
      BY <2>1, <3>2
    <3>3. CASE Recorded' = Recorded \ {l}
      BY <2>1, <3>1, <3>3
    <3>4. CASE OpenToClaim(l) \/ Crash(l)
      BY <2>1, <1>2, <2>2, <3>1, <3>4 DEF EntryChange
    <3> QED BY <1>2, <3>2, <3>3, <3>4 DEF EntryChange
  <2> QED BY <1>2, <2>1, <2>2 DEF EntryChange
<1>4. CASE ~holds[k]
  <2>1. k = l /\ ReturnAcquired(l)
    BY <1>4, HoldsStep
  <2>2. k \in track /\ track' = track /\ mutex' = None
    BY <2>1 DEF ReturnAcquired, Return, Control, Rewriting, InfoFresh
  <2> QED BY <2>2 DEF Recorded
<1> QED BY <1>3, <1>4

LEMMA WriterAloneStep ==
  ASSUME TypeOK, Control, WriterEntryAlone, NEW l \in Locks,
         Call(l) \/ Body(l) \/ Exit(l) \/ Gone(l) \/ Crash(l)
  PROVE  WriterEntryAlone'
<1>1. EntryChange(l)
  BY EntryStep DEF Control
<1>2. CASE Recorded' = Recorded \/ Recorded' = Recorded \ {l} \/ Recorded' = {}
  BY <1>2 DEF WriterEntryAlone
<1>3. CASE ~Blocks(l, Recorded) /\ Recorded' = Recorded \cup {l}
  BY <1>3 DEF WriterEntryAlone, Blocks
<1> QED BY <1>1, <1>2, <1>3 DEF EntryChange

-----------------------------------------------------------------------------
(* The inductive invariant and its consequences. *)

Inv == TypeOK /\ Consistent

LEMMA InitInv == Init => Inv
<1> SUFFICES ASSUME Init PROVE Inv
  OBVIOUS
<1>1. TypeOK
  BY TypeInit
<1>2. MutexOwner /\ Busy /\ InfoFresh /\ Rewriting /\ NotYetOwner
  BY DEF Init, MutexOwner, Busy, InfoFresh, Rewriting, NotYetOwner
<1>3. WriterEntryAlone /\ OwnersRecorded
  BY DEF Init, WriterEntryAlone, OwnersRecorded, Recorded
<1> QED BY <1>1, <1>2, <1>3 DEF Inv, Consistent

LEMMA StepInv == Inv /\ [Next]_vars => Inv'
<1> SUFFICES ASSUME Inv, [Next]_vars PROVE Inv'
  OBVIOUS
<1>1. TypeOK'
  BY TypeStep DEF Inv
<1>2. CASE Next
  <2>1. PICK l \in Locks : Call(l) \/ Body(l) \/ Exit(l) \/ Gone(l) \/ Crash(l)
    BY <1>2 DEF Next
  <2>2. Control /\ WriterEntryAlone /\ OwnersRecorded
    BY DEF Inv, Consistent, Control
  <2>3. Control' /\ WriterEntryAlone' /\ OwnersRecorded'
    BY <2>1, <2>2, ControlStep, WriterAloneStep, OwnersStep DEF Inv
  <2> QED BY <1>1, <2>3 DEF Inv, Consistent, Control
<1>3. CASE UNCHANGED vars
  <2>1. Consistent'
    BY <1>3 DEF vars, Inv, Consistent, MutexOwner, Busy, InfoFresh, Rewriting,
                NotYetOwner, WriterEntryAlone, OwnersRecorded, Recorded
  <2> QED BY <1>1, <2>1 DEF Inv
<1> QED BY <1>2, <1>3

LEMMA InvAlways == Spec => []Inv
  BY InitInv, StepInv, PTL DEF Spec

(* Owners are exclusive in every reachable state of any number of readers  *)
(* and writers in which no process died in the middle of a rewrite.        *)
THEOREM ExclusiveUnlessTornHolds == Spec => []ExclusiveUnlessTorn
<1>1. Inv => ExclusiveUnlessTorn
  <2> SUFFICES ASSUME Inv, ~torn, NEW l \in Locks, NEW m \in Locks,
                      holds[l], holds[m], l # m
               PROVE  l \in Readers /\ m \in Readers
    BY DEF ExclusiveUnlessTorn
  <2>1. l \in Recorded /\ m \in Recorded
    BY DEF Inv, Consistent, OwnersRecorded
  <2>2. l \notin Writers /\ m \notin Writers
    BY <2>1 DEF Inv, Consistent, WriterEntryAlone
  <2> QED BY <2>2 DEF Locks
<1> QED BY <1>1, InvAlways, PTL

(* The file and the owners agree: Consistent, with OwnersRecorded in it.   *)
THEOREM ConsistentHolds == Spec => []Consistent
<1>1. Inv => Consistent
  BY DEF Inv
<1> QED BY <1>1, InvAlways, PTL

(* No step loses or adds the entry of another object.                      *)
THEOREM OnlyOwnEntryHolds == Spec => OnlyOwnEntry
<1>1. Inv /\ [Next]_vars =>
        [torn' \/ \A l \in Locks :
           (l \in Recorded) # (l \in Recorded') => at[l] = "locked" /\ at'[l] = "truncated"]_vars
  <2> SUFFICES ASSUME Inv, Next, ~torn', NEW k \in Locks,
                      (k \in Recorded) # (k \in Recorded')
               PROVE  at[k] = "locked" /\ at'[k] = "truncated"
    BY Zenon
  <2>1. PICK l \in Locks : Call(l) \/ Body(l) \/ Exit(l) \/ Gone(l) \/ Crash(l)
    BY DEF Next
  <2>2. EntryChange(l)
    BY <2>1, EntryStep DEF Inv, Consistent
  <2>3. k = l /\ (OpenToClaim(l) \/ OpenToDrop(l))
    BY <2>2 DEF EntryChange
  <2> QED BY <2>3 DEF OpenToClaim, OpenToDrop, Truncate, Inv, TypeOK
<1> QED BY <1>1, InvAlways, PTL DEF Spec, OnlyOwnEntry

(* Only a kill tears a rewrite. *)
LEMMA NeverTorn ==
  ASSUME ~MayCrash
  PROVE  Spec => []~torn
<1>1. Init => ~torn
  BY DEF Init
<1>2. ASSUME ~torn, [Next]_vars PROVE ~torn'
  <2>1. CASE UNCHANGED vars
    BY <1>2, <2>1, Zenon DEF vars
  <2>2. ASSUME NEW l \in Locks, Call(l) PROVE ~torn'
    BY <1>2, <2>2, Zenon DEF Call, CallIsLocked, CallAcquire, CallRelease
  <2>3. ASSUME NEW l \in Locks, Body(l) PROVE ~torn'
    BY <1>2, <2>3, Zenon DEF Body, LockAndRead, FileLockTimeout, ReturnIsLocked,
         RefuseAcquire, OpenToClaim, OpenToDrop, Dump, ReturnAcquired, ReturnReleased
  <2>4. ASSUME NEW l \in Locks, Exit(l) \/ Gone(l) \/ Crash(l) PROVE ~torn'
    BY <1>2, <2>4, Zenon DEF Exit, Gone, Crash
  <2> QED BY <1>2, <2>1, <2>2, <2>3, <2>4, Zenon DEF Next
<1> QED BY <1>1, <1>2, PTL DEF Spec

LEMMA StepRefines ==
  ASSUME Inv, ~torn, ~torn', [Next]_vars
  PROVE  [RW!Next]_Owners
<1> USE DEF Owners
<1>1. CASE UNCHANGED vars
  BY <1>1 DEF vars
<1>2. ASSUME NEW l \in Locks, Call(l) PROVE [RW!Next]_Owners
  <2>1. CASE CallRelease(l)
    <3>1. Owners' = Owners \ {l}
      BY <2>1 DEF CallRelease, Inv, TypeOK
    <3>2. CASE l \in Owners
      BY <3>1, <3>2 DEF RW!Next, RW!Leave, RW!Locks, Locks
    <3>3. CASE l \notin Owners
      BY <3>1, <3>3
    <3> QED BY <3>2, <3>3
  <2>2. CASE CallIsLocked(l) \/ CallAcquire(l)
    BY <2>2 DEF CallIsLocked, CallAcquire
  <2> QED BY <1>2, <2>1, <2>2 DEF Call
<1>3. ASSUME NEW l \in Locks, Body(l) PROVE [RW!Next]_Owners
  <2>1. CASE ReturnAcquired(l)
    <3>1. Owners' = Owners \cup {l} /\ l \notin Owners
      BY <2>1 DEF ReturnAcquired, Inv, TypeOK, Consistent, NotYetOwner
    <3>2. l \in Recorded /\ Owners \subseteq Recorded
      BY <2>1 DEF ReturnAcquired, Inv, TypeOK, Consistent, OwnersRecorded, Recorded,
                  MutexOwner, InfoFresh, Rewriting
    <3>3. CASE l \in Writers
      <4>1. Owners = {}
        BY <3>1, <3>2, <3>3 DEF Inv, Consistent, WriterEntryAlone
      <4> QED BY <3>1, <3>3, <4>1 DEF RW!Next, RW!Enter, RW!Grantable, RW!Locks, Locks
    <3>4. CASE l \notin Writers
      <4>1. Owners \cap Writers = {}
        BY <3>2, <3>4 DEF Inv, Consistent, WriterEntryAlone
      <4> QED BY <3>1, <3>4, <4>1 DEF RW!Next, RW!Enter, RW!Grantable, RW!Locks, Locks
    <3> QED BY <3>3, <3>4
  <2>2. CASE ~ReturnAcquired(l)
    BY <1>3, <2>2 DEF Body, LockAndRead, FileLockTimeout, ReturnIsLocked, RefuseAcquire,
                      OpenToClaim, OpenToDrop, Dump, ReturnReleased
  <2> QED BY <2>1, <2>2
<1>4. ASSUME NEW l \in Locks, Exit(l) \/ Gone(l) \/ Crash(l) PROVE [RW!Next]_Owners
  <2>1. CASE Exit(l) \/ Gone(l)
    BY <2>1 DEF Exit, Gone
  <2>2. CASE Crash(l)
    <3>1. Owners' = Owners \ {l}
      BY <2>2 DEF Crash, Inv, TypeOK
    <3>2. CASE l \in Owners
      BY <3>1, <3>2 DEF RW!Next, RW!Leave, RW!Locks, Locks
    <3>3. CASE l \notin Owners
      BY <3>1, <3>3
    <3> QED BY <3>2, <3>3
  <2> QED BY <1>4, <2>1, <2>2
<1> QED BY <1>1, <1>2, <1>3, <1>4 DEF Next

LEMMA InitRefines == Init => RW!Init
  BY DEF Init, RW!Init, Owners

(* Until a rewrite is torn, every step is a step of the abstract lock.     *)
THEOREM ImplementsRWHolds == Spec => ImplementsRW
<1>1. Inv /\ [Next]_vars => [torn' \/ RW!Next \/ UNCHANGED Owners]_vars
  <2> SUFFICES ASSUME Inv, [Next]_vars, ~torn'
               PROVE  RW!Next \/ UNCHANGED Owners
    BY Zenon
  <2>1. ~torn
    <3>1. CASE UNCHANGED vars
      BY <3>1, Zenon DEF vars
    <3>2. CASE Next
      BY <3>2, TornStep, Zenon DEF Next
    <3> QED BY <3>1, <3>2
  <2> QED BY <2>1, StepRefines
<1> QED BY <1>1, InitRefines, InvAlways, PTL DEF Spec, ImplementsRW

(* Without kills the two classes implement the abstract lock outright.     *)
THEOREM WithoutKillsIsRW ==
  ASSUME ~MayCrash
  PROVE  Spec => RW!Spec
<1>1. Inv /\ ~torn /\ (~torn)' /\ [Next]_vars => [RW!Next]_Owners
  BY StepRefines
<1> QED BY <1>1, InitRefines, InvAlways, NeverTorn, PTL DEF Spec, RW!Spec
=============================================================================
