----------------------------- MODULE RWFileLock -----------------------------
(***************************************************************************)
(* ReadFileLock and WriteFileLock (mlonmcu/context/read_write_filelock.py).*)
(*                                                                         *)
(* Every lock object has its own id and its own process.  The ids that     *)
(* hold the environment are the keys of a YAML file, the track file, which *)
(* is read and rewritten under a FileLock.  The rewrite is open(.., "w"),  *)
(* which truncates the file, followed by yaml.dump: a process that dies in *)
(* between leaves the file empty.  An absent track file reads as an empty  *)
(* one: acquire and is_locked create it, and release is only called after  *)
(* an acquire.                                                             *)
(***************************************************************************)
EXTENDS Naturals

CONSTANTS
  Readers,        \* the ReadFileLock objects
  Writers,        \* the WriteFileLock objects
  None,           \* "no lock object"
  MaxAcquires,    \* bound: acquire calls of one object that reach atexit
  MayCrash,       \* may a process be killed?
  MayStall        \* may the FileLock be held for longer than its timeout=2?

Locks == Readers \cup Writers

ASSUME RWAssumption ==
  /\ Readers \cap Writers = {}
  /\ None \notin Locks
  /\ MaxAcquires \in Nat
  /\ MayCrash \in BOOLEAN
  /\ MayStall \in BOOLEAN

VARIABLES
  mutex,      \* the object that has the FileLock, or None
  track,      \* ids recorded in the track file
  op,         \* the method an object is executing
  at,         \* how far that method is
  info,       \* lock_occupy_info, the dictionary in memory
  holds,      \* the owner was granted the lock and has not released it
  callbacks,  \* atexit callbacks registered for the object
  status,     \* the process of the object
  kept,       \* history: the last release timed out and has kept the entry
  torn        \* history: a process died between truncating and dumping

vars ==
  <<mutex, track, op, at, info, holds, callbacks, status, kept, torn>>

Methods == {"is_locked", "acquire", "release"}
Places  == {"out", "waiting", "locked", "truncated", "written"}

(* What the track file records once the rewrite in progress is complete. *)
Recorded ==
  IF mutex # None /\ at[mutex] = "truncated" THEN info[mutex] ELSE track

(* Mutant: a writer looks for other writers only. *)
BlocksWritersOnly(l, ids) == ids \cap Writers # {}

(***************************************************************************)
(* The occupation test.  The writer's condition                            *)
(* v["type"] == "write" or "read"  is true of every entry.                 *)
(***************************************************************************)
Blocks(l, ids) == IF l \in Writers THEN ids # {} ELSE ids \cap Writers # {}

Init ==
  /\ mutex = None
  /\ track = {}
  /\ op = [l \in Locks |-> "none"]
  /\ at = [l \in Locks |-> "out"]
  /\ info = [l \in Locks |-> {}]
  /\ holds = [l \in Locks |-> FALSE]
  /\ callbacks = [l \in Locks |-> 0]
  /\ status = [l \in Locks |-> "running"]
  /\ kept = [l \in Locks |-> FALSE]
  /\ torn = FALSE

-----------------------------------------------------------------------------
(* Calling a method: it first waits for the FileLock. *)

Begin(l, m) ==
  /\ op[l] = "none"
  /\ op' = [op EXCEPT ![l] = m]
  /\ at' = [at EXCEPT ![l] = "waiting"]

CallIsLocked(l) ==
  /\ status[l] = "running"
  /\ Begin(l, "is_locked")
  /\ UNCHANGED <<mutex, track, info, holds, callbacks, status, kept, torn>>

CallAcquire(l) ==
  /\ status[l] = "running" /\ ~holds[l]
  /\ callbacks[l] < MaxAcquires
  /\ Begin(l, "acquire")
  /\ UNCHANGED <<mutex, track, info, holds, callbacks, status, kept, torn>>

(* Mutant: atexit releases an object that has registered nothing. *)
CallReleaseUnregistered(l) ==
  /\ status[l] = "exiting"
  /\ callbacks' = [callbacks EXCEPT ![l] = @ - 1]
  /\ Begin(l, "release")
  /\ holds' = [holds EXCEPT ![l] = FALSE]
  /\ UNCHANGED <<mutex, track, info, status, kept, torn>>

(* Called by the program, or by atexit once the process terminates. *)
CallRelease(l) ==
  /\ callbacks[l] > 0
  /\ \/ status[l] = "running" /\ UNCHANGED callbacks
     \/ /\ status[l] = "exiting"
        /\ callbacks' = [callbacks EXCEPT ![l] = @ - 1]
  /\ Begin(l, "release")
  /\ holds' = [holds EXCEPT ![l] = FALSE]
  /\ UNCHANGED <<mutex, track, info, status, kept, torn>>

-----------------------------------------------------------------------------
(* The body of a method, under the FileLock. *)

Return(l) ==
  /\ mutex' = None
  /\ info' = [info EXCEPT ![l] = {}]
  /\ op' = [op EXCEPT ![l] = "none"]
  /\ at' = [at EXCEPT ![l] = "out"]

(* Mutant: the track file is read without the FileLock. *)
ReadUnlocked(l) ==
  /\ at[l] = "waiting"
  /\ mutex' = l
  /\ at' = [at EXCEPT ![l] = "locked"]
  /\ info' = [info EXCEPT ![l] = track]
  /\ UNCHANGED <<track, op, holds, callbacks, status, kept, torn>>

(* lock.acquire(timeout=2), then the track file is read. *)
LockAndRead(l) ==
  /\ at[l] = "waiting" /\ mutex = None
  /\ mutex' = l
  /\ at' = [at EXCEPT ![l] = "locked"]
  /\ info' = [info EXCEPT ![l] = track]
  /\ UNCHANGED <<track, op, holds, callbacks, status, kept, torn>>

(* filelock.Timeout leaves the method; a release then keeps its entry. *)
FileLockTimeout(l) ==
  /\ MayStall
  /\ at[l] = "waiting" /\ mutex # None
  /\ op' = [op EXCEPT ![l] = "none"]
  /\ at' = [at EXCEPT ![l] = "out"]
  /\ kept' = [kept EXCEPT ![l] = @ \/ op[l] = "release"]
  /\ UNCHANGED <<mutex, track, info, holds, callbacks, status, torn>>

ReturnIsLocked(l) ==
  /\ op[l] = "is_locked" /\ at[l] = "locked"
  /\ Return(l)
  /\ UNCHANGED <<track, holds, callbacks, status, kept, torn>>

(* Mutant: a refused acquire tries again. *)
RetryAcquire(l) ==
  /\ op[l] = "acquire" /\ at[l] = "locked" /\ Blocks(l, info[l])
  /\ mutex' = None
  /\ at' = [at EXCEPT ![l] = "waiting"]
  /\ info' = [info EXCEPT ![l] = {}]
  /\ UNCHANGED <<track, op, holds, callbacks, status, kept, torn>>

(* RWLockTimeout, or with raise_exception=False a release of the FileLock  *)
(* that is not held any more, the atexit registration, and False.          *)
RefuseAcquire(l) ==
  /\ op[l] = "acquire" /\ at[l] = "locked" /\ Blocks(l, info[l])
  /\ \/ UNCHANGED callbacks
     \/ callbacks' = [callbacks EXCEPT ![l] = @ + 1]
  /\ Return(l)
  /\ UNCHANGED <<track, holds, status, kept, torn>>

Truncate(l) ==
  /\ track' = {}
  /\ at' = [at EXCEPT ![l] = "truncated"]

(* Mutant: acquire does not look at the entries it has read. *)
OpenToClaimUnchecked(l) ==
  /\ op[l] = "acquire" /\ at[l] = "locked"
  /\ info' = [info EXCEPT ![l] = @ \cup {l}]
  /\ Truncate(l)
  /\ UNCHANGED <<mutex, op, holds, callbacks, status, kept, torn>>

OpenToClaim(l) ==
  /\ op[l] = "acquire" /\ at[l] = "locked" /\ ~Blocks(l, info[l])
  /\ info' = [info EXCEPT ![l] = @ \cup {l}]
  /\ Truncate(l)
  /\ UNCHANGED <<mutex, op, holds, callbacks, status, kept, torn>>

(* Mutant: release writes an empty dictionary back. *)
OpenToDropAll(l) ==
  /\ op[l] = "release" /\ at[l] = "locked"
  /\ info' = [info EXCEPT ![l] = {}]
  /\ Truncate(l)
  /\ UNCHANGED <<mutex, op, holds, callbacks, status, kept, torn>>

OpenToDrop(l) ==
  /\ op[l] = "release" /\ at[l] = "locked"
  /\ info' = [info EXCEPT ![l] = @ \ {l}]
  /\ Truncate(l)
  /\ kept' = [kept EXCEPT ![l] = FALSE]
  /\ UNCHANGED <<mutex, op, holds, callbacks, status, torn>>

Dump(l) ==
  /\ at[l] = "truncated"
  /\ track' = info[l]
  /\ at' = [at EXCEPT ![l] = "written"]
  /\ UNCHANGED <<mutex, op, info, holds, callbacks, status, kept, torn>>

(* Mutant: acquire registers no atexit callback. *)
ReturnUnregistered(l) ==
  /\ op[l] = "acquire" /\ at[l] = "written"
  /\ holds' = [holds EXCEPT ![l] = TRUE]
  /\ Return(l)
  /\ UNCHANGED <<track, callbacks, status, kept, torn>>

ReturnAcquired(l) ==
  /\ op[l] = "acquire" /\ at[l] = "written"
  /\ holds' = [holds EXCEPT ![l] = TRUE]
  /\ callbacks' = [callbacks EXCEPT ![l] = @ + 1]
  /\ Return(l)
  /\ UNCHANGED <<track, status, kept, torn>>

ReturnReleased(l) ==
  /\ op[l] = "release" /\ at[l] = "written"
  /\ Return(l)
  /\ UNCHANGED <<track, holds, callbacks, status, kept, torn>>

-----------------------------------------------------------------------------
(* The end of a process. *)

Exit(l) ==
  /\ status[l] = "running" /\ op[l] = "none"
  /\ status' = [status EXCEPT ![l] = "exiting"]
  /\ UNCHANGED <<mutex, track, op, at, info, holds, callbacks, kept, torn>>

(* The last callback has run. *)
Gone(l) ==
  /\ status[l] = "exiting" /\ op[l] = "none" /\ callbacks[l] = 0
  /\ status' = [status EXCEPT ![l] = "gone"]
  /\ UNCHANGED <<mutex, track, op, at, info, holds, callbacks, kept, torn>>

(* A killed process frees the FileLock, an OS lock, and runs no callback. *)
Crash(l) ==
  /\ MayCrash
  /\ status[l] \in {"running", "exiting"}
  /\ status' = [status EXCEPT ![l] = "crashed"]
  /\ mutex' = IF mutex = l THEN None ELSE mutex
  /\ torn' = (torn \/ at[l] = "truncated")
  /\ op' = [op EXCEPT ![l] = "none"]
  /\ at' = [at EXCEPT ![l] = "out"]
  /\ info' = [info EXCEPT ![l] = {}]
  /\ holds' = [holds EXCEPT ![l] = FALSE]
  /\ callbacks' = [callbacks EXCEPT ![l] = 0]
  /\ kept' = [kept EXCEPT ![l] = FALSE]
  /\ UNCHANGED track

Call(l) == CallIsLocked(l) \/ CallAcquire(l) \/ CallRelease(l)

Body(l) ==
  \/ LockAndRead(l)
  \/ FileLockTimeout(l)
  \/ ReturnIsLocked(l)
  \/ RefuseAcquire(l)
  \/ OpenToClaim(l)
  \/ OpenToDrop(l)
  \/ Dump(l)
  \/ ReturnAcquired(l)
  \/ ReturnReleased(l)

Next == \E l \in Locks : Call(l) \/ Body(l) \/ Exit(l) \/ Gone(l) \/ Crash(l)

Spec == Init /\ [][Next]_vars

(***************************************************************************)
(* Scheduling.  A method that was called goes on, and so does a process    *)
(* that terminates.  FileLock polls, so a waiting object is not served in  *)
(* order: it gets the FileLock if it is free infinitely often, which is    *)
(* strong fairness.  Nobody has to call acquire, to exit or to crash.      *)
(***************************************************************************)
Fairness ==
  \A l \in Locks :
    /\ WF_vars(Body(l))
    /\ SF_vars(LockAndRead(l))
    /\ WF_vars((status[l] = "exiting" /\ CallRelease(l)) \/ Gone(l))

FairSpec == Spec /\ Fairness

-----------------------------------------------------------------------------
(* Properties. *)

(* Types of the variables: the states of the two lock classes. *)
TypeOK ==
  /\ mutex \in Locks \cup {None}
  /\ track \in SUBSET Locks
  /\ op \in [Locks -> Methods \cup {"none"}]
  /\ at \in [Locks -> Places]
  /\ info \in [Locks -> SUBSET Locks]
  /\ holds \in [Locks -> BOOLEAN]
  /\ callbacks \in [Locks -> Nat]
  /\ status \in [Locks -> {"running", "exiting", "gone", "crashed"}]
  /\ kept \in [Locks -> BOOLEAN]
  /\ torn \in BOOLEAN

(* Two owners are never granted the environment together unless both are   *)
(* readers, in any interleaving of acquire, release, is_locked, timeouts   *)
(* and exits; crashes are harmless too, except one that hits a rewrite of  *)
(* the track file after the truncation and before the dump.                *)
ExclusiveUnlessTorn ==
  ~torn => \A l, m \in Locks : holds[l] /\ holds[m] /\ l # m
                                 => l \in Readers /\ m \in Readers

(* The track file never forgets an owner: whoever was granted the lock     *)
(* stays recorded until it calls release, whatever the others rewrite.     *)
OwnersRecorded == ~torn => \A l \in Locks : holds[l] => l \in Recorded

(* A rewrite of the track file never adds or removes the entry of another  *)
(* object: the entry of l changes only in a step of l (no lost update).    *)
OnlyOwnEntry ==
  [][torn' \/ \A l \in Locks :
       (l \in Recorded) # (l \in Recorded') => at[l] = "locked" /\ at'[l] = "truncated"]_vars

(* A process that terminates leaves no entry behind: in the end there are  *)
(* only entries of processes that go on or were killed, or whose last      *)
(* release gave up waiting for the FileLock.                               *)
ExitUnlocks ==
  <>[](\A l \in Recorded : status[l] \in {"running", "crashed"} \/ kept[l])

(* No call blocks for ever: the locks are "non-blocking" (module docstring *)
(* of read_write_filelock.py), the wait for the FileLock is bounded.       *)
CallsReturn == \A l \in Locks : []<>(op[l] = "none")

(* The locks implement the abstract readers-writers lock, a successful     *)
(* return of acquire being an Enter and a call of release a Leave, until   *)
(* a process is killed in the middle of a rewrite.                         *)
Owners == {l \in Locks : holds[l]}

RW == INSTANCE ReadersWriters WITH holders <- Owners

ImplementsRW == RW!Init /\ [][torn' \/ RW!Next \/ UNCHANGED Owners]_vars

(***************************************************************************)
(* The strengthening of ExclusiveUnlessTorn that every step preserves.     *)
(***************************************************************************)
MutexOwner ==
  \A l \in Locks : mutex = l <=> at[l] \in {"locked", "truncated", "written"}

Busy == \A l \in Locks : at[l] # "out" <=> op[l] # "none"

InfoFresh ==
  \A l \in Locks : /\ at[l] \in {"locked", "written"} => info[l] = track
                   /\ at[l] = "truncated" => track = {}

Rewriting ==
  \A l \in Locks : at[l] \in {"truncated", "written"} =>
                      op[l] = "release" \/ (op[l] = "acquire" /\ l \in info[l])

NotYetOwner == \A l \in Locks : op[l] \in {"acquire", "release"} => ~holds[l]

WriterEntryAlone == \A w \in Writers : w \in Recorded => Recorded = {w}

(* The track file never lists a writer next to another object, an owner    *)
(* is listed in it, and the dictionary in memory is the file as long as    *)
(* the FileLock is held.                                                   *)
Consistent ==
  /\ MutexOwner
  /\ Busy
  /\ InfoFresh
  /\ Rewriting
  /\ NotYetOwner
  /\ WriterEntryAlone
  /\ OwnersRecorded
=============================================================================
