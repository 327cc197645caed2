------------------------------- MODULE Context -------------------------------
(***************************************************************************)
(* The contexts (mlonmcu/context/context.py) of the processes that use one *)
(* environment, and the session directories they share.  A context is      *)
(* constructed, entered, used and left once; constructing does not take    *)
(* the lock on the environment (deps_lock), which entering does.  Its      *)
(* track file is `deps`; it is granted as ReadersWriters says, which       *)
(* RWFileLock implements, but a kill may erase the entries of others and a *)
(* release may time out, as there.  A session is locked by a FileLock on   *)
(* .lock in its directory (mlonmcu/session/session.py): the lock belongs   *)
(* to the file and not to its name, so it is "linked", or it is an         *)
(* "orphan" if the file has been removed and the name is free for another  *)
(* lock.                                                                   *)
(***************************************************************************)
EXTENDS Integers, FiniteSets

CONSTANTS
  Readers,      \* contexts with deps_lock="read"
  Writers,      \* contexts with deps_lock="write"
  None,         \* "no context"
  MaxIdx,       \* bound: the largest index of a session
  CleanupAuto,  \* environment.defaults.cleanup_auto
  Keep,         \* the sessions that a cleanup keeps
  MayCrash,     \* may a process be killed?
  MayStall      \* may a process keep the FileLock of deps_lock for 2 s?

Contexts == Readers \cup Writers

ASSUME ContextAssumption ==
  /\ Readers \cap Writers = {}
  /\ None \notin Contexts
  /\ MaxIdx \in Nat
  /\ CleanupAuto \in BOOLEAN
  /\ Keep \in Nat \ {0}
  /\ MayCrash \in BOOLEAN /\ MayStall \in BOOLEAN

Idx == 0 .. MaxIdx
NoIdx == -1

VARIABLES
  (* shared *)
  linkLock,     \* the owner of .latest_session_link_lock, or None
  deps,         \* the contexts with an entry in the track file of deps_lock
  torn,         \* history: a kill has erased the entry of another context
  dirs,         \* the session directories
  lockFiles,    \* those with a .lock file
  latest,       \* the target of the link  latest, or NoIdx
  (* per context *)
  at,           \* where its program is
  recent,       \* the archived sessions in self.sessions
  session_idx,
  session,      \* the index of the session it has created last, or NoIdx
  status,       \* ... the status of that session, or "none"
  lock,         \* ... and its lock: "no", "linked" or "orphan"
  todo,         \* cleanup_sessions: sessions left to remove
  victim        \* ... and the one found unlocked, or NoIdx

disk   == <<dirs, lockFiles, latest>>
own    == <<session, status, lock>>
memory == <<recent, session_idx, own, todo, victim>>
vars   == <<linkLock, deps, torn, disk, at, memory>>

Deps == INSTANCE ReadersWriters WITH holders <- deps

Least(S) == CHOOSE s \in S : \A t \in S : s <= t
Last(S) == IF S = {} THEN NoIdx ELSE CHOOSE s \in S : \A t \in S : t <= s

(* sessions[:-n] *)
AllButLast(S, n) == {d \in S : Cardinality({e \in S : d < e}) >= n}

Init ==
  /\ linkLock = None
  /\ deps = {} /\ torn = FALSE
  /\ dirs = {} /\ lockFiles = {} /\ latest = NoIdx
  /\ at = [c \in Contexts |-> "new"]
  /\ recent = [c \in Contexts |-> {}]
  /\ session_idx = [c \in Contexts |-> NoIdx]
  /\ session = [c \in Contexts |-> NoIdx]
  /\ status = [c \in Contexts |-> "none"]
  /\ lock = [c \in Contexts |-> "no"]
  /\ todo = [c \in Contexts |-> {}]
  /\ victim = [c \in Contexts |-> NoIdx]

Goto(c, place) == at' = [at EXCEPT ![c] = place]

-----------------------------------------------------------------------------
(* __init__, under the lock of the link. *)

Construct(c) ==
  /\ at[c] = "new" /\ linkLock = None
  /\ linkLock' = c
  /\ recent' = [recent EXCEPT ![c] = dirs]
  /\ todo' = [todo EXCEPT ![c] = IF CleanupAuto THEN AllButLast(dirs, Keep) ELSE {}]
  /\ Goto(c, "constructing")
  /\ UNCHANGED <<deps, torn, disk, session_idx, own, victim>>

Constructed(c) ==
  /\ at[c] = "constructing" /\ todo[c] = {}
  /\ LET loaded == IF CleanupAuto THEN dirs ELSE recent[c]
     IN  /\ recent' = [recent EXCEPT ![c] = loaded]
         /\ session_idx' = [session_idx EXCEPT ![c] = Last(loaded)]
  /\ linkLock' = None
  /\ Goto(c, "constructed")
  /\ UNCHANGED <<deps, torn, disk, own, todo, victim>>

(* The loop of cleanup_sessions: missing and locked sessions are left      *)
(* alone, others are removed with all they contain.                        *)
CheckVictim(c) ==
  /\ todo[c] # {} /\ victim[c] = NoIdx
  /\ LET d == Least(todo[c])
     IN  IF d \in dirs \ lockFiles
           THEN victim' = [victim EXCEPT ![c] = d] /\ UNCHANGED todo
           ELSE todo' = [todo EXCEPT ![c] = @ \ {d}] /\ UNCHANGED victim
  /\ UNCHANGED <<linkLock, deps, torn, disk, at, recent, session_idx, own>>

(* Removing the .lock file of d does not release the lock on it. *)
Orphaned(d) ==
  [c \in Contexts |-> IF session[c] = d /\ lock[c] = "linked" THEN "orphan" ELSE lock[c]]

RemoveVictim(c) ==
  /\ victim[c] # NoIdx
  /\ dirs' = dirs \ {victim[c]}
  /\ lockFiles' = lockFiles \ {victim[c]}
  /\ lock' = Orphaned(victim[c])
  /\ todo' = [todo EXCEPT ![c] = @ \ {victim[c]}]
  /\ victim' = [victim EXCEPT ![c] = NoIdx]
  /\ UNCHANGED <<linkLock, deps, torn, latest, at, recent, session_idx, session, status>>

-----------------------------------------------------------------------------
(* A process that has ended has no memory. *)
Forget(c) ==
  /\ recent' = [recent EXCEPT ![c] = {}]
  /\ session_idx' = [session_idx EXCEPT ![c] = NoIdx]
  /\ session' = [session EXCEPT ![c] = NoIdx]
  /\ status' = [status EXCEPT ![c] = "none"]
  /\ lock' = [lock EXCEPT ![c] = "no"]
  /\ todo' = [todo EXCEPT ![c] = {}]
  /\ victim' = [victim EXCEPT ![c] = NoIdx]

(* __enter__: is_locked and acquire of deps_lock, or a RuntimeError. *)

(* Mutant: readers are no reason to refuse.                                *)
EnterPastReaders(c) ==
  /\ at[c] = "constructed" /\ deps \cap Writers = {}
  /\ deps' = deps \cup {c}
  /\ Goto(c, "entered")
  /\ UNCHANGED <<linkLock, torn, disk, memory>>

Enter(c) ==
  /\ at[c] = "constructed"
  /\ Deps!Enter(c)
  /\ Goto(c, "entered")
  /\ UNCHANGED <<linkLock, torn, disk, memory>>

(* Where a program may have the FileLock of deps_lock: acquire and release *)
(* open the track file to write, which empties it.                         *)
Stalled(c) ==
  MayStall /\ \E d \in Contexts \ {c} : at[d] \in {"constructed", "exiting", "atexit"}

(* The lock is taken, or its FileLock is not free for 2 s.                 *)
EnterRefused(c) ==
  /\ at[c] = "constructed" /\ (~Deps!Grantable(c) \/ Stalled(c))
  /\ Goto(c, "gone") /\ Forget(c)
  /\ UNCHANGED <<linkLock, deps, torn, disk>>

-----------------------------------------------------------------------------
(* Sessions of an entered context. *)

(* Mutant: the link is updated without its lock.                           *)
GetSessionUnlocked(c) ==
  /\ at[c] = "entered" /\ status[c] # "open" /\ session_idx[c] < MaxIdx
  /\ recent' = [recent EXCEPT ![c] = dirs]
  /\ session_idx' = [session_idx EXCEPT ![c] = @ + 1]
  /\ session' = [session EXCEPT ![c] = session_idx[c] + 1]
  /\ status' = [status EXCEPT ![c] = "created"]
  /\ lock' = [lock EXCEPT ![c] = "no"]
  /\ Goto(c, "unlinking")
  /\ UNCHANGED <<linkLock, deps, torn, disk, todo, victim>>

(* get_session: unless the last session is active, create_session reloads  *)
(* the sessions and adds one, whose index is next to that in memory.       *)
GetSession(c) ==
  /\ at[c] = "entered" /\ status[c] # "open"
  /\ linkLock = None /\ session_idx[c] < MaxIdx
  /\ linkLock' = c
  /\ recent' = [recent EXCEPT ![c] = dirs]
  /\ session_idx' = [session_idx EXCEPT ![c] = @ + 1]
  /\ session' = [session EXCEPT ![c] = session_idx[c] + 1]
  /\ status' = [status EXCEPT ![c] = "created"]
  /\ lock' = [lock EXCEPT ![c] = "no"]
  /\ Goto(c, "unlinking")
  /\ UNCHANGED <<deps, torn, disk, todo, victim>>

Unlink(c) ==
  /\ at[c] = "unlinking"
  /\ latest' = NoIdx
  /\ Goto(c, "linking")
  /\ UNCHANGED <<linkLock, deps, torn, dirs, lockFiles, memory>>

Symlink(c) ==
  /\ at[c] = "linking"
  /\ latest' = session[c]
  /\ linkLock' = None
  /\ Goto(c, "entered")
  /\ UNCHANGED <<deps, torn, dirs, lockFiles, memory>>

(* The lock of the link is not free for 10 s: a RuntimeError, which a      *)
(* program meets before or inside the with block of its context.           *)
LinkTimeout(c) ==
  /\ linkLock \notin {None, c}
  /\ \/ at[c] = "new" /\ Goto(c, "gone")
     \/ at[c] = "entered" /\ status[c] # "open" /\ Goto(c, "raised")
  /\ UNCHANGED <<linkLock, deps, torn, disk, memory>>

(* Mutant: a missing directory is not created. *)
MakeNoDir(d) == UNCHANGED dirs

MakeDir(d) == dirs' = dirs \cup {d}

(* Session.open: the session is active before it has its lock. *)
Open(c) ==
  /\ at[c] = "entered" /\ status[c] = "created"
  /\ status' = [status EXCEPT ![c] = "open"]
  /\ MakeDir(session[c])
  /\ Goto(c, "opening")
  /\ UNCHANGED <<linkLock, deps, torn, lockFiles, latest, recent,
                 session_idx, session, lock, todo, victim>>

Locked(d) == \E c \in Contexts : session[c] = d /\ lock[c] = "linked"

(* FileLock creates the file, and its directory, if they are missing.      *)
LockSession(c) ==
  /\ at[c] = "opening" /\ ~Locked(session[c])
  /\ lock' = [lock EXCEPT ![c] = "linked"]
  /\ MakeDir(session[c])
  /\ lockFiles' = lockFiles \cup {session[c]}
  /\ Goto(c, "entered")
  /\ UNCHANGED <<linkLock, deps, torn, latest, recent,
                 session_idx, session, status, todo, victim>>

(* "Lock on session could not be aquired": the session stays active.       *)
LockSessionTimeout(c) ==
  /\ at[c] = "opening" /\ Locked(session[c])
  /\ Goto(c, "raised")
  /\ UNCHANGED <<linkLock, deps, torn, disk, memory>>

(* Session.close: the lock is released, then its file is removed. *)
CloseAnd(c, place) ==
  /\ status' = [status EXCEPT ![c] = "closed"]
  /\ lock' = [lock EXCEPT ![c] = "no"]
  /\ Goto(c, place)

Close(c) ==
  /\ at[c] = "entered" /\ status[c] = "open"
  /\ CloseAnd(c, "closing")
  /\ UNCHANGED <<linkLock, deps, torn, disk, recent, session_idx, session, todo, victim>>

RemoveLockFile(c) ==
  /\ lockFiles' = lockFiles \ {session[c]}
  /\ lock' = Orphaned(session[c])

(* os.remove raises if the file is not there any more.                     *)
Closed(c) ==
  /\ at[c] = "closing"
  /\ RemoveLockFile(c)
  /\ Goto(c, IF session[c] \in lockFiles THEN "entered" ELSE "raised")
  /\ UNCHANGED <<linkLock, deps, torn, dirs, latest, recent,
                 session_idx, session, status, todo, victim>>

(* cleanup_sessions on behalf of a user, who does so in a context that has *)
(* the write lock (mlonmcu cleanup).  Of self.sessions as loaded before,   *)
(* the last one is kept, so session_idx does not change.                   *)
Removable(c) ==
  AllButLast(recent[c], IF status[c] = "none" THEN Keep ELSE Keep - 1)

StartCleanup(c) ==
  /\ at[c] = "entered" /\ c \in Writers
  /\ status[c] # "open" /\ Removable(c) # {}
  /\ todo' = [todo EXCEPT ![c] = Removable(c)]
  /\ Goto(c, "cleaning")
  /\ UNCHANGED <<linkLock, deps, torn, disk, recent, session_idx, own, victim>>

FinishCleanup(c) ==
  /\ at[c] = "cleaning" /\ todo[c] = {}
  /\ recent' = [recent EXCEPT ![c] = @ \ Removable(c)]
  /\ Goto(c, "entered")
  /\ UNCHANGED <<linkLock, deps, torn, disk, session_idx, own, todo, victim>>

-----------------------------------------------------------------------------
(* __exit__, after the block has ended or raised. *)

(* Mutant: active sessions are not closed.                                 *)
LeaveUnclean(c) ==
  /\ at[c] \in {"entered", "raised"}
  /\ Goto(c, "exiting")
  /\ UNCHANGED <<linkLock, deps, torn, disk, memory>>

Leave(c) ==
  /\ at[c] \in {"entered", "raised"}
  /\ IF status[c] = "open"
       THEN CloseAnd(c, "cleaning up")
       ELSE Goto(c, "exiting") /\ UNCHANGED <<status, lock>>
  /\ UNCHANGED <<linkLock, deps, torn, disk, recent, session_idx, session, todo, victim>>

(* Mutant: deps_lock has no callback.                                      *)
CleanedUpOrStuck(c) ==
  /\ at[c] = "cleaning up"
  /\ RemoveLockFile(c)
  /\ Goto(c, IF session[c] \in lockFiles THEN "exiting" ELSE "gone")
  /\ UNCHANGED <<linkLock, deps, torn, dirs, latest, recent,
                 session_idx, session, status, todo, victim>>

(* If the lock file is gone, the exception of os.remove ends __exit__, and *)
(* the release is left to the atexit callback of deps_lock.                *)
CleanedUp(c) ==
  /\ at[c] = "cleaning up"
  /\ RemoveLockFile(c)
  /\ Goto(c, IF session[c] \in lockFiles THEN "exiting" ELSE "atexit")
  /\ UNCHANGED <<linkLock, deps, torn, dirs, latest, recent,
                 session_idx, session, status, todo, victim>>

(* deps_lock is released by __exit__, and again at the end of the process. *)
Release(c) ==
  /\ \/ at[c] = "exiting" /\ Goto(c, "atexit") /\ UNCHANGED memory
     \/ at[c] = "atexit" /\ Goto(c, "gone") /\ Forget(c)
  /\ deps' = deps \ {c}
  /\ UNCHANGED <<linkLock, torn, disk>>

(* filelock.Timeout ends __exit__, and then the callback: the entry is     *)
(* kept if neither of them has removed it.                                 *)
ReleaseTimeout(c) ==
  /\ Stalled(c)
  /\ \/ at[c] = "exiting" /\ Goto(c, "atexit") /\ UNCHANGED memory
     \/ at[c] = "atexit" /\ Goto(c, "kept") /\ Forget(c)
  /\ UNCHANGED <<linkLock, deps, torn, disk>>

(* The process may be between emptying the track file and writing it. *)
Rewriting(c) ==
  \/ at[c] = "constructed" /\ Deps!Grantable(c)
  \/ at[c] \in {"exiting", "atexit"}

(* A killed process loses its FileLocks; the rest of its traces stay.      *)
Crash(c) ==
  /\ MayCrash
  /\ at[c] \notin {"new", "gone", "kept", "crashed"}
  /\ \/ UNCHANGED <<deps, torn>>
     \/ Rewriting(c) /\ deps' = {} /\ torn' = (torn \/ deps \ {c} # {})
  /\ linkLock' = IF linkLock = c THEN None ELSE linkLock
  /\ Forget(c)
  /\ Goto(c, "crashed")
  /\ UNCHANGED disk

(* What a program does with a context, and how that goes on. *)
Use(c) ==
  \/ Construct(c) \/ Enter(c)
  \/ GetSession(c) \/ Open(c) \/ Close(c) \/ StartCleanup(c)

Proceed(c) ==
  \/ Constructed(c) \/ CheckVictim(c) \/ RemoveVictim(c)
  \/ EnterRefused(c) \/ LinkTimeout(c)
  \/ Unlink(c) \/ Symlink(c)
  \/ LockSession(c) \/ LockSessionTimeout(c) \/ Closed(c)
  \/ FinishCleanup(c)
  \/ CleanedUp(c) \/ Release(c) \/ ReleaseTimeout(c)

Next == \E c \in Contexts : Use(c) \/ Proceed(c) \/ Leave(c) \/ Crash(c)

Spec == Init /\ [][Next]_vars

(* A step of the program that is due is taken.  The program uses its       *)
(* context for a finite time: it leaves the block if it can over and over. *)
FairSpec ==
  Spec /\ \A c \in Contexts : WF_vars(Proceed(c)) /\ SF_vars(Leave(c))

-----------------------------------------------------------------------------
(* Properties. *)

Places == {"new", "constructing", "constructed", "entered", "unlinking", "linking",
           "opening", "closing", "cleaning", "raised", "cleaning up", "exiting",
           "atexit", "gone", "kept", "crashed"}

(* The types of what is shared and of what a context remembers. *)
TypeOK ==
  /\ linkLock \in Contexts \cup {None}
  /\ deps \in SUBSET Contexts /\ torn \in BOOLEAN
  /\ dirs \in SUBSET Idx /\ lockFiles \in SUBSET dirs
  /\ latest \in Idx \cup {NoIdx}
  /\ at \in [Contexts -> Places]
  /\ recent \in [Contexts -> SUBSET Idx]
  /\ session_idx \in [Contexts -> Idx \cup {NoIdx}]
  /\ session \in [Contexts -> Idx \cup {NoIdx}]
  /\ status \in [Contexts -> {"none", "created", "open", "closed"}]
  /\ lock \in [Contexts -> {"no", "linked", "orphan"}]
  /\ \A c \in Contexts : session[c] = NoIdx <=> status[c] = "none"
  /\ todo \in [Contexts -> SUBSET Idx]
  /\ victim \in [Contexts -> Idx \cup {NoIdx}]

(* "mlonmcu cleanup" never runs next to another process that uses the      *)
(* environment: as long as it removes directories nobody has an open       *)
(* session or is about to create one, also after kills and timeouts - but  *)
(* for a kill that has emptied the track file next to other contexts: then *)
(* their entries are lost.                                                 *)
CleanupAlone ==
  ~torn =>
    \A c, d \in Contexts :
      at[c] = "cleaning" /\ c # d
        => at[d] \in {"new", "constructing", "constructed", "atexit", "gone", "kept",
                      "crashed"}

(* os.symlink never finds the link that create_session has just removed    *)
(* back in place, however many processes create sessions.                  *)
SymlinkIsFree == \A c \in Contexts : at[c] = "linking" => latest = NoIdx

(* No .lock file, which protects its session from every cleanup for ever,  *)
(* is left behind: there is always a process that has still to remove it,  *)
(* unless one was killed.  That is so even if several processes use the    *)
(* same directory, time out on its lock, and remove each other's file.     *)
WillRemove(c, d) ==
  /\ session[c] = d
  /\ \/ status[c] = "open" /\ at[c] \notin {"exiting", "atexit", "gone", "kept"}
     \/ at[c] \in {"closing", "cleaning up"}

LockFilesOwned ==
  \A d \in lockFiles : \E c \in Contexts : WillRemove(c, d) \/ at[c] = "crashed"

(* A writer that works in a session keeps it to itself: its directory and  *)
(* its .lock file stay, and nobody else locks it.  That is not so with     *)
(* cleanup_auto, which cleans up without the lock on the environment, nor  *)
(* after a kill has erased entries of the track file.                      *)
WriterSessionSafe ==
  ~torn =>
    \A w \in Writers :
      lock[w] # "no" =>
        /\ session[w] \in dirs /\ lock[w] = "linked"
        /\ \A c \in Contexts \ {w} : session[c] = session[w] => lock[c] = "no"

(* The lock on the environment does not stay behind either: a context that *)
(* has entered gives it back, also after an exception in its block, in     *)
(* open or in close, or after a timeout in __exit__.  In the end the only  *)
(* entries are those of processes that were killed, or whose callback at   *)
(* their end timed out.                                                    *)
DepsReleased ==
  <>[](\A c \in deps : at[c] \in {"crashed", "kept"})

(* A .lock file says that a session is in progress (cleanup_sessions): a   *)
(* session that is in progress has one.                                    *)
InProgressLocked ==
  \A c \in Contexts : lock[c] # "no" => session[c] \in lockFiles
=============================================================================
