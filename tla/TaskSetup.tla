----------------------------- MODULE TaskSetup -----------------------------
(***************************************************************************)
(* The dependency setup (mlonmcu/setup): `mlonmcu setup`, which invokes    *)
(* registered tasks, the cache of what they have installed and its file    *)
(* cache.ini, and `mlonmcu cleanup`.  The tasks are those of the framework *)
(* IREE (setup/tasks/iree.py): clone, build, install and clean, and the    *)
(* one that installs the cmake they build with (setup/tasks/cmake.py).  A  *)
(* command holds the lock on the environment as a writer, so there is only *)
(* one at a time; it may fail or be killed anywhere: the directories stay. *)
(*                                                                         *)
(* A directory is what it was made from, a revision of the sources, and    *)
(* whether it is whole; one that is absent or empty is not populated.  The *)
(* cache is the set of names that have a value: the values, paths below    *)
(* the environment, never change.  "cmake.exe" also names the directory of *)
(* cmake, which is whole if the executable runs.                           *)
(***************************************************************************)
EXTENDS Integers, FiniteSets

CONSTANTS
  MaxRev,     \* bound: revisions of the sources
  MaxFaults,  \* bound: commands that fail or are killed for no fault of theirs
  Settings    \* the user variables a command may be called with

(* cmake.use_system stands for all that rejects the tasks of cmake: the      *)
(* variables cmake.use_system and cmake.exe, or an environment in which none *)
(* of the components is enabled that _validate_cmake asks for (as IREE).     *)
UserVars == {"iree.install_dir", "iree.drop_build_dir", "cmake.use_system"}

ASSUME SetupAssumption ==
  /\ MaxRev \in Nat \ {0}
  /\ MaxFaults \in Nat
  /\ Settings \subseteq SUBSET UserVars

Tasks == {"download_cmake", "clone_iree", "build_iree", "install_iree", "clean_iree"}
NoTask == "none"
Keys == {"iree.src_dir", "iree.build_dir", "iree.install_dir", "cmake.exe"}

(* Mutant: a task provides a name that nobody knows *)
ProvidesOther ==
  [t \in Tasks |-> CASE t = "clone_iree"   -> {"iree.src_dir", "iree.dir"}
                     [] t = "build_iree"   -> {"iree.build_dir"}
                     [] t = "install_iree" -> {"iree.install_dir"}
                     [] OTHER              -> {}]

(* @Tasks.provides, @Tasks.needs.  The provider of cmake.exe and of          *)
(* cmake.install_dir is build_cmake, which is registered last and skipped.   *)
Provides ==
  [t \in Tasks |-> CASE t = "clone_iree"   -> {"iree.src_dir"}
                     [] t = "build_iree"   -> {"iree.build_dir"}
                     [] t = "install_iree" -> {"iree.install_dir"}
                     [] OTHER              -> {}]

(* Mutant: the installation needs the sources only *)
NeedsSources ==
  [t \in Tasks |-> CASE t = "build_iree"   -> {"iree.src_dir", "cmake.exe"}
                     [] t = "install_iree" -> {"iree.src_dir"}
                     [] t = "clean_iree"   -> {"iree.install_dir", "iree.build_dir"}
                     [] OTHER              -> {}]

Needs ==
  [t \in Tasks |-> CASE t = "build_iree"   -> {"iree.src_dir", "cmake.exe"}
                     [] t = "install_iree" -> {"iree.build_dir"}
                     [] t = "clean_iree"   -> {"iree.install_dir", "iree.build_dir"}
                     [] OTHER              -> {}]

(* The graph that get_order sorts has an edge from what provides a name to   *)
(* what needs it; topological_sort starts with the tasks that need nothing.  *)
Before(s, t) ==
  \/ Provides[s] \cap Needs[t] # {}
  \/ Needs[s] = {} /\ Needs[t] # {}

(* What a task function always looks up in the cache; what it sets there. *)
Lookups ==
  [t \in Tasks |-> CASE t = "build_iree"   -> {"iree.src_dir"}
                     [] t = "install_iree" -> {"iree.build_dir", "iree.install_dir"}
                     [] t = "clean_iree"   -> {"iree.build_dir"}
                     [] OTHER              -> {}]

Sets ==
  [t \in Tasks |-> CASE t = "download_cmake" -> {"cmake.exe"}
                     [] t = "build_iree"     -> {"iree.build_dir", "iree.install_dir"}
                     [] OTHER                -> Provides[t]]

(* The directory a task works on. *)
Dir ==
  [t \in Tasks |-> CASE t = "download_cmake" -> "cmake.exe"
                     [] t = "clone_iree"   -> "iree.src_dir"
                     [] t = "install_iree" -> "iree.install_dir"
                     [] OTHER              -> "iree.build_dir"]

Contents == [rev : 0 .. MaxRev, whole : BOOLEAN]
Absent == [rev |-> 0, whole |-> FALSE]

VARIABLES
  (* on disk *)
  rev,      \* the revision that the environment asks for
  disk,     \* what is in the directories
  file,     \* the names in cache.ini ({} if there is no such file)
  (* of the command *)
  command,  \* the latest command: "none", "setup", "task" or "cleanup"
  at,       \* where it is: "idle" if it has ended
  outcome,  \* how it has ended
  user,     \* user variables
  rebuild,  \* --rebuild
  interrupted, \* the installation was interrupted, and went on (for the properties)
  mended,   \* the sources found were broken, and refreshed
  todo,     \* the tasks left to run, or the directories left to remove
  task,     \* the current task
  redo,     \* its argument rebuild
  cache,    \* the names in the cache
  changed,  \* TaskFactory.changed
  faults

program == <<command, user, rebuild, interrupted, mended>>
memory == <<todo, task, redo, cache, changed>>
vars == <<rev, disk, file, program, at, outcome, memory, faults>>

Populated(k) == disk[k] # Absent
Broken(k) == Populated(k) /\ ~disk[k].whole

Init ==
  /\ rev = 1
  /\ disk = [k \in Keys |-> Absent]
  /\ file = {}
  /\ command = "none" /\ at = "idle" /\ outcome = "none"
  /\ user = {} /\ rebuild = FALSE /\ interrupted = FALSE /\ mended = FALSE
  /\ todo = {} /\ task = NoTask /\ redo = FALSE
  /\ cache = {} /\ changed = {}
  /\ faults = 0

(* The configuration of the environment is edited. *)
NewRevision ==
  /\ at = "idle" /\ rev < MaxRev
  /\ rev' = rev + 1
  /\ UNCHANGED <<disk, file, program, at, outcome, memory, faults>>

(* A command enters its context, which loads the cache. *)
Call(name, u, r, work) ==
  /\ at = "idle"
  /\ command' = name /\ user' = u /\ rebuild' = r
  /\ interrupted' = FALSE /\ mended' = FALSE
  /\ outcome' = "none"
  /\ todo' = work
  /\ cache' = file /\ changed' = {}
  /\ UNCHANGED <<rev, disk, file, task, redo, faults>>

Setup(u, r) ==
  /\ Call("setup", u, r, Tasks)
  /\ at' = "next"

SetupTask(t, u, r) ==
  /\ Call("task", u, r, {t})
  /\ at' = "next"

(* The validation functions of the tasks *)
Rejected ==
  (IF "cmake.use_system" \in user THEN {"download_cmake"} ELSE {})
    \cup (IF "iree.install_dir" \in user THEN {"build_iree", "install_iree"} ELSE {})
    \cup (IF "iree.drop_build_dir" \in user THEN {} ELSE {"clean_iree"})

Selected(t) ==
  /\ at = "next" /\ t \in todo
  /\ \A s \in todo : ~Before(s, t)

Skip(t) ==
  /\ Selected(t) /\ t \in Rejected
  /\ todo' = todo \ {t}
  /\ UNCHANGED <<rev, disk, file, program, at, outcome, task, redo, cache, changed, faults>>

(* Mutant: the argument is overridden instead of extended *)
RebuildsIfChanged(t) == Needs[t] \cap changed # {}

Rebuilds(t) == rebuild \/ Needs[t] \cap changed # {}

Begin(t) ==
  /\ Selected(t) /\ t \notin Rejected
  /\ task' = t /\ redo' = Rebuilds(t)
  /\ at' = "called"
  /\ UNCHANGED <<rev, disk, file, program, outcome, todo, cache, changed, faults>>

(* A process that has ended has no memory. *)
End(why) ==
  /\ at' = "idle" /\ outcome' = why
  /\ todo' = {} /\ task' = NoTask /\ redo' = FALSE
  /\ cache' = {} /\ changed' = {}
  /\ UNCHANGED <<rev, disk, program>>

Abort(why) == End(why) /\ UNCHANGED file

(* Mutant: sources that exist are not refreshed, as in download_boost *)
WorksUnlessFetched ==
  \/ task = "clean_iree"
  \/ redo /\ task # "clone_iree"
  \/ ~Populated(Dir[task])
  \/ task = "download_cmake" /\ Broken("cmake.exe")

(* Something is to be done, if only because the directory is empty. *)
Works ==
  \/ task = "clean_iree"
  \/ redo
  \/ ~Populated(Dir[task])
  \/ task = "download_cmake" /\ Broken("cmake.exe")

(* All that a task function looks up is in the cache.  The check that        *)
(* @Tasks.needs wraps around a function would come first, but the registry   *)
(* holds the function that @Tasks.register got, without that wrapper.        *)
Found ==
  /\ Lookups[task] \subseteq cache
  /\ task = "build_iree" /\ Works => "cmake.exe" \in cache

LookupFails ==
  /\ at = "called" /\ ~Found
  /\ Abort("key error")
  /\ UNCHANGED faults

(* What the external tools of a task work on: cmake, ninja *)
Inputs ==
  [t \in Tasks |-> CASE t = "build_iree"   -> {"iree.src_dir", "cmake.exe"}
                     [] t = "install_iree" -> {"iree.src_dir", "iree.build_dir"}
                     [] OTHER              -> {}]

(* The task has to fail: there is nothing to work on, or cache.ini names a   *)
(* cmake that does not run (resolve_cmake takes it for one of the user's).   *)
Blocked ==
  \/ Works /\ \E k \in Inputs[task] : ~Populated(k)
  \/ task = "download_cmake" /\ "cmake.exe" \in cache /\ ~disk["cmake.exe"].whole

(* From here on the directory is neither what it was nor what it will be. *)
Work ==
  /\ at = "called" /\ Found /\ Works /\ ~Blocked
  /\ disk' = [disk EXCEPT ![Dir[task]] =
                [rev |-> CASE task = "download_cmake" -> 1
                           [] task = "clone_iree" -> rev
                           [] task = "clean_iree" -> @.rev
                           [] OTHER               -> disk["iree.src_dir"].rev,
                 whole |-> FALSE]]
  /\ mended' = (mended \/ (task = "clone_iree" /\ Broken("iree.src_dir")))
  /\ at' = "working"
  /\ UNCHANGED <<rev, file, command, user, rebuild, interrupted, outcome, memory, faults>>

(* The tools have succeeded: git may do so without restoring all the files  *)
(* of a source directory that was broken.  What is built from incomplete    *)
(* sources is not whole either; ninja brings the build directory up to date *)
(* if it installs.                                                          *)
Made(t, restored) ==
  [k \in Keys |->
     CASE t = "download_cmake" /\ k = "cmake.exe" -> [rev |-> 1, whole |-> TRUE]
       [] t = "clone_iree" /\ k = "iree.src_dir" -> [rev |-> rev, whole |-> restored]
       [] t \in {"build_iree", "install_iree"} /\ k = "iree.build_dir" -> disk["iree.src_dir"]
       [] t = "install_iree" /\ k = "iree.install_dir" -> disk["iree.src_dir"]
       [] t = "clean_iree" /\ k = "iree.build_dir" -> Absent
       [] OTHER -> disk[k]]

(* Mutant: the functions return nothing, as those of ETISS or TVM do *)
ReturnsNothing(t) == FALSE

(* The task functions that return True *)
ReturnsTrue(t) == t \in {"clone_iree", "build_iree", "install_iree"}

(* Mutant: rmtree, but the name stays in the cache *)
CacheAfterKeepsAll(t) == cache \cup Sets[t]

CacheAfter(t) ==
  IF t = "clean_iree" THEN cache \ {"iree.build_dir"} ELSE cache \cup Sets[t]

(* The end of a task function, and of process. *)
Return ==
  /\ cache' = CacheAfter(task)
  /\ changed' = IF ReturnsTrue(task) THEN changed \cup Provides[task] ELSE changed
  /\ todo' = todo \ {task}
  /\ at' = "next"
  /\ UNCHANGED <<rev, file, command, user, rebuild, outcome, task, redo>>

Finish ==
  /\ \/ \E restored \in {TRUE, ~mended} : at = "working" /\ disk' = Made(task, restored)
     \/ at = "called" /\ Found /\ ~Works /\ ~Blocked /\ UNCHANGED disk
  /\ Return
  /\ UNCHANGED <<interrupted, mended, faults>>

(* Ctrl-C: execute interrupts the tool, cmake or ninja, and returns as if it *)
(* had succeeded, even if there is no file yet; an executable that a cmake   *)
(* task finds for the first time has to run.                                 *)
Interrupt ==
  /\ \/ at = "called" /\ Found /\ Works /\ task \in {"build_iree", "install_iree"}
     \/ at = "working" /\ task \in {"build_iree", "install_iree"}
     \/ at = "working" /\ task = "download_cmake" /\ "cmake.exe" \in cache
  /\ faults < MaxFaults /\ faults' = faults + 1
  /\ interrupted' = (interrupted \/ task = "install_iree")
  /\ Return
  /\ UNCHANGED <<disk, mended>>

(* A task may fail without a fault of its own: it is blocked, or what it     *)
(* works on is broken.  Repo(dest) or git may refuse broken sources forever. *)
Suffers ==
  \/ at = "called" /\ Blocked
  \/ at = "called" /\ task = "clone_iree" /\ redo /\ Broken("iree.src_dir")
  \/ at = "called" /\ task = "download_cmake" /\ ~redo /\ Broken("cmake.exe")
  \/ at = "called" /\ task = "clean_iree" /\ ~Populated("iree.build_dir")
  \/ at = "working" /\ task = "clone_iree" /\ mended
  \/ at = "working" /\ \E k \in Inputs[task] : ~disk[k].whole

Raise ==
  /\ (at = "called" /\ Found) \/ at = "working"
  /\ \/ Suffers /\ UNCHANGED faults
     \/ faults < MaxFaults /\ faults' = faults + 1
  /\ Abort("failed")

(* write_cache_file truncates cache.ini ... *)
OpenCache ==
  /\ at = "next" /\ todo = {}
  /\ file' = {}
  /\ at' = "writing"
  /\ UNCHANGED <<rev, disk, program, outcome, memory, faults>>

(* ... and fills it *)
WriteCache ==
  /\ at = "writing"
  /\ file' = cache
  /\ End("done")
  /\ UNCHANGED faults

(* `mlonmcu cleanup --cache`, or --deps, which removes directories, too.   *)
Cleanup(dirs) ==
  /\ Call("cleanup", {}, FALSE, dirs)
  /\ at' = "asking"

(* "Are your sure?" is asked for the cache and again for the directories. *)
RemoveCache(first, second) ==
  /\ at = "asking"
  /\ file' = IF first THEN {} ELSE file
  /\ todo' = IF second THEN todo ELSE {}
  /\ at' = "removing"
  /\ UNCHANGED <<rev, disk, program, outcome, task, redo, cache, changed, faults>>

(* src, build, install *)
Subdir == [k \in Keys |-> CASE k = "iree.src_dir"   -> 1
                           [] k = "iree.build_dir" -> 2
                           [] OTHER                -> 3]

(* A step of rmtree: a directory is incomplete first, then it is gone. *)
RemoveDir(k) ==
  /\ at = "removing" /\ k \in todo
  /\ \A j \in todo : Subdir[k] <= Subdir[j]
  /\ IF disk[k].whole
     THEN disk' = [disk EXCEPT ![k].whole = FALSE] /\ UNCHANGED todo
     ELSE disk' = [disk EXCEPT ![k] = Absent] /\ todo' = todo \ {k}
  /\ UNCHANGED <<rev, file, program, at, outcome, task, redo, cache, changed, faults>>

CleanedUp ==
  /\ at = "removing" /\ todo = {}
  /\ End("done")
  /\ UNCHANGED <<file, faults>>

Kill ==
  /\ at # "idle" /\ faults < MaxFaults
  /\ faults' = faults + 1
  /\ Abort("killed")

Running ==
  \/ \E t \in Tasks : Skip(t) \/ Begin(t)
  \/ LookupFails \/ Work \/ Finish
  \/ OpenCache \/ WriteCache
  \/ \E first, second \in BOOLEAN : RemoveCache(first, second)
  \/ \E k \in Keys : RemoveDir(k)
  \/ CleanedUp

User ==
  \/ NewRevision
  \/ \E u \in Settings, r \in BOOLEAN : Setup(u, r) \/ \E t \in Tasks : SetupTask(t, u, r)
  \/ \E dirs \in {{}, Keys} : Cleanup(dirs)

Next == Running \/ Raise \/ Interrupt \/ Kill \/ User

Spec == Init /\ [][Next]_vars

(* A command goes on; the user tries  mlonmcu setup --rebuild  again and again. *)
FairSpec == Spec /\ WF_vars(Running \/ Raise) /\ SF_vars(Setup({}, TRUE))

-----------------------------------------------------------------------------

TypeOK ==
  /\ rev \in 1 .. MaxRev
  /\ disk \in [Keys -> Contents]
  /\ file \subseteq Keys
  /\ command \in {"none", "setup", "task", "cleanup"}
  /\ at \in {"idle", "next", "called", "working", "writing", "asking", "removing"}
  /\ outcome \in {"none", "done", "failed", "key error", "killed"}
  /\ user \subseteq UserVars
  /\ rebuild \in BOOLEAN /\ interrupted \in BOOLEAN /\ mended \in BOOLEAN
  /\ todo \subseteq Tasks \/ todo \subseteq Keys
  /\ task \in Tasks \cup {NoTask}
  /\ redo \in BOOLEAN
  /\ cache \subseteq Keys
  /\ changed \subseteq Keys
  /\ faults \in 0 .. MaxFaults

(* The last command was a complete installation of a managed IREE. *)
Installed ==
  /\ at = "idle" /\ outcome = "done" /\ command = "setup"
  /\ "iree.install_dir" \notin user

(* After an installation, with or without --rebuild, what is installed is    *)
(* what the sources on disk give, whatever was interrupted or killed before: *)
(* the tasks that depend on a changed artifact are rebuilt (task.py,         *)
(* process).  Only Ctrl-C in this very installation goes unnoticed.          *)
InstalledIsCurrent ==
  Installed /\ ~interrupted =>
    Populated("iree.install_dir") /\ disk["iree.install_dir"] = disk["iree.src_dir"]

(* After an installation, cache.ini names exactly those directories of IREE  *)
(* that exist, whatever it has named before: the build directory only if it  *)
(* was kept.  Ctrl-C in this installation may leave a name without directory.*)
CacheNamesWhatIsThere ==
  Installed /\ ~interrupted =>
    file \ {"cmake.exe"} = {k \in Keys : Populated(k)} \ {"cmake.exe"}

(* In an installation every task finds in the cache what it looks up,        *)
(* because tasks run in the order of what they need and provide.  What no    *)
(* task provides has to be in cache.ini already: the build directory to      *)
(* clean up beside a provided installation, and, if the tasks of cmake are   *)
(* rejected, cmake.exe, which build_iree needs (iree.py:90).                 *)
InputsAreSet ==
  command = "setup" /\ outcome = "key error" =>
    \/ {"iree.install_dir", "iree.drop_build_dir"} \subseteq user /\ "iree.build_dir" \notin file
    \/ /\ "cmake.use_system" \in user /\ "iree.install_dir" \notin user
       /\ "cmake.exe" \notin file

(* `mlonmcu setup --rebuild` ends with a complete installation of the wanted *)
(* revision (docker/README.md: "to refresh the dependencies"), unless git    *)
(* was content with sources that had been broken.                            *)
RebuildRefreshes ==
  [][Installed' /\ rebuild' /\ ~interrupted' /\ at # "idle"
       => \E restored \in {TRUE, ~mended'} :
            disk'["iree.install_dir"] = [rev |-> rev', whole |-> restored]]_vars

(* What --rebuild does not repair: broken sources, which git may refuse, and *)
(* a cmake that does not run but is in cache.ini.                            *)
Stuck ==
  /\ at = "idle"
  /\ \/ Broken("iree.src_dir")
     \/ "cmake.exe" \in file /\ ~disk["cmake.exe"].whole

(* Once nothing fails any more, `mlonmcu setup --rebuild` repairs whatever   *)
(* was interrupted, unless commands leave one of these two again and again:  *)
(* no other leftover can make it fail for ever.                              *)
RebuildRecovers ==
  \/ []<>(Installed /\ disk["iree.install_dir"] = [rev |-> rev, whole |-> TRUE])
  \/ []<>Stuck
=============================================================================
