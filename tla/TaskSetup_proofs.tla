--------------------------- MODULE TaskSetup_proofs ---------------------------
(***************************************************************************)
(* Theorems about the dependency setup, for any number of revisions, any   *)
(* number of faults, and whatever commands are called in whatever order.   *)
(***************************************************************************)
EXTENDS TaskSetup, TLAPS

USE SetupAssumption DEF SetupAssumption

(* What the tables of the tasks say. *)
LEMMA Tables ==
  /\ Needs["build_iree"] = {"iree.src_dir", "cmake.exe"}
  /\ Needs["install_iree"] = {"iree.build_dir"}
  /\ Provides["download_cmake"] = {}
  /\ Provides["clone_iree"] = {"iree.src_dir"}
  /\ Provides["build_iree"] = {"iree.build_dir"}
  /\ Provides["install_iree"] = {"iree.install_dir"}
  /\ Lookups["download_cmake"] = {}
  /\ Lookups["clone_iree"] = {}
  /\ Lookups["build_iree"] = {"iree.src_dir"}
  /\ Lookups["install_iree"] = {"iree.build_dir", "iree.install_dir"}
  /\ Lookups["clean_iree"] = {"iree.build_dir"}
  /\ Sets["download_cmake"] = {"cmake.exe"}
  /\ Sets["clone_iree"] = {"iree.src_dir"}
  /\ Sets["build_iree"] = {"iree.build_dir", "iree.install_dir"}
  /\ Sets["install_iree"] = {"iree.install_dir"}
  /\ Dir["download_cmake"] = "cmake.exe"
  /\ Dir["clone_iree"] = "iree.src_dir"
  /\ Dir["build_iree"] = "iree.build_dir"
  /\ Dir["install_iree"] = "iree.install_dir"
  /\ Dir["clean_iree"] = "iree.build_dir"
  BY DEF Needs, Provides, Lookups, Sets, Dir, Tasks

LEMMA Subsets ==
  ASSUME NEW t \in Tasks
  PROVE  /\ Provides[t] \subseteq Keys
         /\ Sets[t] \subseteq Keys
         /\ Dir[t] \in Keys
         /\ t = "clean_iree" => Provides[t] = {}
  BY DEF Provides, Sets, Dir, Tasks, Keys

(* The order of the tasks *)
LEMMA Order ==
  /\ Before("download_cmake", "build_iree")
  /\ Before("clone_iree", "build_iree")
  /\ Before("build_iree", "install_iree")
  /\ Before("install_iree", "clean_iree")
  /\ Before("build_iree", "clean_iree")
  BY DEF Before, Provides, Needs, Tasks

(* Cases of a step: every action, and the stutter. *)
LEMMA Cases ==
  ASSUME [Next]_vars
  PROVE  \/ \E t \in Tasks : Skip(t) \/ Begin(t)
         \/ LookupFails \/ Work \/ Finish \/ OpenCache \/ WriteCache
         \/ \E first, second \in BOOLEAN : RemoveCache(first, second)
         \/ \E k \in Keys : RemoveDir(k)
         \/ CleanedUp \/ Raise \/ Interrupt \/ Kill \/ NewRevision
         \/ \E u \in Settings, r \in BOOLEAN : Setup(u, r)
         \/ \E u \in Settings, r \in BOOLEAN, t \in Tasks : SetupTask(t, u, r)
         \/ \E dirs \in {{}, Keys} : Cleanup(dirs)
         \/ UNCHANGED vars
  BY DEF Next, Running, User

-----------------------------------------------------------------------------
(* Types, and what a command does in each of its places. *)

Places ==
  /\ at \in {"next", "called", "working", "writing"}
       => command \in {"setup", "task"} /\ todo \subseteq Tasks
  /\ at \in {"called", "working"}
       => /\ task \in todo /\ task \notin Rejected
          /\ \A s \in todo : ~Before(s, task)
          /\ redo = Rebuilds(task)
  /\ at = "writing" => todo = {}
  /\ at \in {"asking", "removing"} => command = "cleanup" /\ todo \subseteq Keys

Typed == TypeOK /\ Places

LEMMA TypedInit == Init => Typed
<1> SUFFICES ASSUME Init PROVE Typed
  OBVIOUS
<1>1. disk \in [Keys -> Contents] /\ rev \in 1 .. MaxRev /\ faults \in 0 .. MaxFaults
  BY DEF Init, Contents, Absent
<1>2. TypeOK
  BY <1>1 DEF Init, TypeOK
<1>3. Places
  BY DEF Init, Places
<1> QED
  BY <1>2, <1>3 DEF Typed

(* What TypeOK says of the numbers and of the directories. *)
LEMMA Ranges ==
  ASSUME TypeOK
  PROVE  /\ MaxRev \in Nat /\ rev \in Nat /\ 1 <= rev /\ rev <= MaxRev
         /\ MaxFaults \in Nat /\ faults \in Nat /\ faults <= MaxFaults
         /\ disk \in [Keys -> Contents]
         /\ Absent \in Contents
         /\ \A w \in BOOLEAN : [rev |-> rev, whole |-> w] \in Contents
         /\ \A w \in BOOLEAN : [rev |-> 1, whole |-> w] \in Contents
<1>1. rev \in 1 .. MaxRev /\ faults \in 0 .. MaxFaults /\ disk \in [Keys -> Contents]
  BY DEF TypeOK
<1>2. MaxRev \in Nat /\ MaxFaults \in Nat
  OBVIOUS
<1>3. rev \in Nat /\ 1 <= rev /\ rev <= MaxRev /\ faults \in Nat /\ faults <= MaxFaults
  BY <1>1, <1>2
<1>4. /\ Absent \in Contents
      /\ \A w \in BOOLEAN : [rev |-> rev, whole |-> w] \in Contents
      /\ \A w \in BOOLEAN : [rev |-> 1, whole |-> w] \in Contents
  BY <1>2, <1>3 DEF Contents, Absent
<1> QED
  BY <1>1, <1>2, <1>3, <1>4

LEMMA MadeType ==
  ASSUME TypeOK, NEW t, NEW restored \in BOOLEAN
  PROVE  Made(t, restored) \in [Keys -> Contents]
<1>1. ASSUME NEW k \in Keys
      PROVE  Made(t, restored)[k] \in Contents
  <2>1. disk[k] \in Contents /\ disk["iree.src_dir"] \in Contents
    BY DEF TypeOK, Keys
  <2>2. /\ [rev |-> rev, whole |-> restored] \in Contents /\ Absent \in Contents
        /\ [rev |-> 1, whole |-> TRUE] \in Contents
    BY Ranges
  <2> QED
    BY <2>1, <2>2 DEF Made
<1> QED
  BY <1>1 DEF Made

LEMMA ReturnType ==
  ASSUME Typed, at \in {"called", "working"}, Return
  PROVE  /\ todo' \subseteq Tasks
         /\ cache' \subseteq Keys /\ changed' \subseteq Keys
         /\ at' = "next"
         /\ UNCHANGED <<rev, file, command, user, rebuild, outcome, task, redo>>
<1>1. task \in Tasks /\ todo \subseteq Tasks
  BY DEF Typed, Places
<1>2. cache \subseteq Keys /\ changed \subseteq Keys
  BY DEF Typed, TypeOK
<1>3. cache' \subseteq Keys
  BY <1>1, <1>2, Subsets DEF Return, CacheAfter
<1>4. changed' \subseteq Keys
  BY <1>1, <1>2, Subsets DEF Return
<1> QED
  BY <1>1, <1>3, <1>4 DEF Return

LEMMA TypeStep == Typed /\ [Next]_vars => TypeOK'
<1> SUFFICES ASSUME Typed, [Next]_vars PROVE TypeOK'
  OBVIOUS
<1>1. CASE \E t \in Tasks : Skip(t) \/ Begin(t)
  BY <1>1 DEF Typed, TypeOK, Skip, Begin, Selected, Rebuilds, program, memory
<1>2. CASE LookupFails \/ Raise \/ Kill
  <2>1. faults' \in 0 .. MaxFaults
    <3>1. faults' = faults \/ (faults < MaxFaults /\ faults' = faults + 1)
      BY <1>2 DEF LookupFails, Raise, Kill
    <3>2. faults \in 0 .. MaxFaults /\ MaxFaults \in Nat
      BY DEF Typed, TypeOK
    <3> QED
      BY <3>1, <3>2
  <2> QED
    BY <1>2, <2>1 DEF Typed, TypeOK, LookupFails, Raise, Kill, Abort, End, program
<1>3. CASE Work
  <2>1. task \in Tasks
    BY <1>3 DEF Typed, Places, Work
  <2>2. disk' \in [Keys -> Contents]
    <3> DEFINE d == [rev |-> CASE task = "download_cmake" -> 1
                               [] task = "clone_iree" -> rev
                               [] task = "clean_iree" -> disk[Dir[task]].rev
                               [] OTHER               -> disk["iree.src_dir"].rev,
                     whole |-> FALSE]
    <3>1. disk' = [disk EXCEPT ![Dir[task]] = d]
      BY <1>3 DEF Work
    <3>2. disk["iree.src_dir"] \in Contents /\ disk[Dir[task]] \in Contents /\ rev \in 0 .. MaxRev
          /\ 1 \in 0 .. MaxRev
      BY <2>1, Subsets, Ranges DEF Typed, Keys
    <3>3. d \in Contents
      BY <3>2 DEF Contents
    <3> HIDE DEF d
    <3> QED
      BY <3>1, <3>3 DEF Typed, TypeOK
  <2>3. mended' \in BOOLEAN
    BY <1>3 DEF Typed, TypeOK, Work
  <2> QED
    BY <1>3, <2>2, <2>3 DEF Typed, TypeOK, Work, memory
<1>4. CASE Finish
  <2>1. at \in {"called", "working"} /\ Return
    BY <1>4 DEF Finish
  <2>2. disk' \in [Keys -> Contents]
    <3>1. {TRUE, ~mended} \subseteq BOOLEAN
      BY DEF Typed, TypeOK
    <3> QED
      BY <1>4, <3>1, MadeType DEF Typed, TypeOK, Finish
  <2> QED
    BY <1>4, <2>1, <2>2, ReturnType DEF Typed, TypeOK, Finish
<1>14. CASE Interrupt
  <2>1. at \in {"called", "working"} /\ Return
    BY <1>14 DEF Interrupt
  <2>2. faults' \in 0 .. MaxFaults
    BY <1>14, Ranges DEF Typed, Interrupt
  <2>3. interrupted' \in BOOLEAN
    BY <1>14 DEF Interrupt
  <2> QED
    BY <1>14, <2>1, <2>2, <2>3, ReturnType DEF Typed, TypeOK, Interrupt
<1>5. CASE OpenCache \/ WriteCache
  BY <1>5 DEF Typed, TypeOK, OpenCache, WriteCache, End, program, memory
<1>6. CASE \E first, second \in BOOLEAN : RemoveCache(first, second)
  <2>1. todo \subseteq Keys
    BY <1>6 DEF Typed, Places, RemoveCache
  <2>2. todo' \subseteq Keys
    BY <1>6, <2>1 DEF RemoveCache
  <2> QED
    BY <1>6, <2>2 DEF Typed, TypeOK, RemoveCache, program
<1>7. ASSUME NEW k \in Keys, RemoveDir(k)
      PROVE  TypeOK'
  <2>1. disk' \in [Keys -> Contents]
    <3>1. [disk[k] EXCEPT !.whole = FALSE] \in Contents /\ Absent \in Contents
      BY Ranges DEF Typed, Contents
    <3>2. \/ disk' = [disk EXCEPT ![k] = [disk[k] EXCEPT !.whole = FALSE]]
          \/ disk' = [disk EXCEPT ![k] = Absent]
      BY <1>7 DEF RemoveDir
    <3> QED
      BY <3>1, <3>2 DEF Typed, TypeOK
  <2>2. todo' \subseteq Keys
    BY <1>7 DEF Typed, Places, RemoveDir
  <2> QED
    BY <1>7, <2>1, <2>2 DEF Typed, TypeOK, RemoveDir, program
<1>8. CASE CleanedUp
  BY <1>8 DEF Typed, TypeOK, CleanedUp, End, program
<1>9. CASE NewRevision
  <2>1. rev' \in 1 .. MaxRev
    BY <1>9, Ranges DEF Typed, NewRevision
  <2>2. UNCHANGED <<disk, file, command, user, rebuild, interrupted, mended, at, outcome,
                    todo, task, redo, cache, changed, faults>>
    BY <1>9 DEF NewRevision, program, memory
  <2>3. rebuild' \in BOOLEAN /\ interrupted' \in BOOLEAN /\ mended' \in BOOLEAN /\ redo' \in BOOLEAN
    BY <2>2 DEF Typed, TypeOK
  <2> QED
    BY <2>1, <2>2, <2>3 DEF Typed, TypeOK
<1>10. CASE \E u \in Settings, r \in BOOLEAN : Setup(u, r)
  BY <1>10 DEF Typed, TypeOK, Setup, Call
<1>11. CASE \E u \in Settings, r \in BOOLEAN, t \in Tasks : SetupTask(t, u, r)
  BY <1>11 DEF Typed, TypeOK, SetupTask, Call
<1>12. CASE \E dirs \in {{}, Keys} : Cleanup(dirs)
  BY <1>12 DEF Typed, TypeOK, Cleanup, Call
<1>13. CASE UNCHANGED vars
  <2>1. UNCHANGED <<rev, disk, file, command, user, rebuild, interrupted, mended, at, outcome,
                    todo, task, redo, cache, changed, faults>>
    BY <1>13 DEF vars, program, memory
  <2>2. rebuild' \in BOOLEAN /\ interrupted' \in BOOLEAN /\ mended' \in BOOLEAN /\ redo' \in BOOLEAN
    BY <2>1 DEF Typed, TypeOK
  <2> QED
    BY <2>1, <2>2 DEF Typed, TypeOK
<1> QED
  BY <1>1, <1>2, <1>3, <1>4, <1>5, <1>6, <1>7, <1>8, <1>9, <1>10, <1>11, <1>12,
     <1>13, <1>14, Cases

LEMMA PlacesStep == Typed /\ [Next]_vars => Places'
<1> SUFFICES ASSUME Typed, [Next]_vars PROVE Places'
  OBVIOUS
<1>1. ASSUME NEW t \in Tasks, Skip(t)
      PROVE  Places'
  BY <1>1 DEF Typed, Places, Skip, Selected, program
<1>2. ASSUME NEW t \in Tasks, Begin(t)
      PROVE  Places'
  BY <1>2 DEF Typed, Places, Begin, Selected, Rejected, Rebuilds, program
<1>3. CASE LookupFails \/ Raise \/ Kill \/ WriteCache \/ CleanedUp
  <2>1. at' = "idle"
    BY <1>3 DEF LookupFails, Raise, Kill, WriteCache, CleanedUp, Abort, End
  <2> QED
    BY <2>1 DEF Places
<1>4. CASE Work
  BY <1>4 DEF Typed, Places, Work, Rejected, Rebuilds, memory
<1>5. CASE Finish \/ Interrupt
  <2>1. at' = "next" /\ command' = command /\ todo' \subseteq todo
    BY <1>5 DEF Finish, Interrupt, Return
  <2>2. command \in {"setup", "task"} /\ todo \subseteq Tasks
    BY <1>5 DEF Finish, Interrupt, Typed, Places
  <2> QED
    BY <2>1, <2>2 DEF Places
<1>6. CASE OpenCache
  BY <1>6 DEF Typed, Places, OpenCache, program, memory
<1>7. CASE \E first, second \in BOOLEAN : RemoveCache(first, second)
  BY <1>7 DEF Typed, Places, RemoveCache, program
<1>8. CASE \E k \in Keys : RemoveDir(k)
  BY <1>8 DEF Typed, Places, RemoveDir, program
<1>9. CASE NewRevision
  BY <1>9 DEF Typed, Places, NewRevision
<1>10. CASE \E u \in Settings, r \in BOOLEAN : Setup(u, r)
  BY <1>10 DEF Places, Setup, Call
<1>11. CASE \E u \in Settings, r \in BOOLEAN, t \in Tasks : SetupTask(t, u, r)
  BY <1>11 DEF Places, SetupTask, Call
<1>12. CASE \E dirs \in {{}, Keys} : Cleanup(dirs)
  BY <1>12 DEF Places, Cleanup, Call
<1>13. CASE UNCHANGED vars
  BY <1>13 DEF Typed, Places, vars, program, memory, Rejected, Rebuilds
<1> QED
  BY <1>1, <1>2, <1>3, <1>4, <1>5, <1>6, <1>7, <1>8, <1>9, <1>10, <1>11, <1>12, <1>13, Cases

LEMMA TypedStep == Typed /\ [Next]_vars => Typed'
  BY TypeStep, PlacesStep DEF Typed

(* All variables keep their types. *)
THEOREM TypeCorrect == Spec => []TypeOK
<1>1. Typed => TypeOK
  BY DEF Typed
<1> QED
  BY <1>1, TypedInit, TypedStep, PTL DEF Spec
-----------------------------------------------------------------------------
(* How far an installation is, as a function of the tasks left to run. *)

Managed == "iree.install_dir" \notin user
Active == command = "setup" /\ at \in {"next", "called", "working", "writing"}

(* There are sources; with --rebuild, the wanted ones. *)
Cloned ==
  "clone_iree" \notin todo =>
    /\ "iree.src_dir" \in cache /\ "iree.src_dir" \in changed
    /\ Populated("iree.src_dir")
    /\ (rebuild => \E restored \in {TRUE, ~mended} :
                     disk["iree.src_dir"] = [rev |-> rev, whole |-> restored])

(* Once install_iree was not interrupted, the build directory is there until *)
(* clean_iree works; it is in `changed`, which is why install_iree works     *)
(* even if there is an old installation.                                     *)
Built ==
  "build_iree" \notin todo =>
    /\ "clone_iree" \notin todo
    /\ "iree.build_dir" \in changed
    /\ "iree.install_dir" \in cache
    /\ ("clean_iree" \in todo =>
          /\ "iree.build_dir" \in cache
          /\ \/ interrupted \/ "install_iree" \in todo
             \/ Populated("iree.build_dir")
             \/ (at = "working" /\ task = "clean_iree"))

Placed ==
  "install_iree" \notin todo =>
    /\ "build_iree" \notin todo
    /\ (~interrupted => /\ Populated("iree.install_dir")
                        /\ disk["iree.install_dir"] = disk["iree.src_dir"])

Cleaned ==
  "clean_iree" \notin todo =>
    /\ "install_iree" \notin todo
    /\ ("iree.drop_build_dir" \in user =>
          "iree.build_dir" \notin cache /\ ~Populated("iree.build_dir"))
    /\ ("iree.drop_build_dir" \notin user =>
          "iree.build_dir" \in cache /\ (~interrupted => Populated("iree.build_dir")))

Progress == Active => Cloned /\ (Managed => Built /\ Placed /\ Cleaned)

(* What cache.ini has named is in the cache, but for what has been cleaned   *)
(* up; and there is cmake for build_iree, unless its tasks are rejected.     *)
Supplied ==
  command = "setup" /\ at \in {"next", "called", "working"} =>
    /\ "download_cmake" \notin todo => "cmake.exe" \in cache \/ "cmake.use_system" \in user
    /\ file \ {"iree.build_dir"} \subseteq cache
    /\ "clean_iree" \in todo => file \subseteq cache

Inv ==
  /\ Typed /\ Progress /\ Supplied
  /\ InstalledIsCurrent /\ CacheNamesWhatIsThere /\ InputsAreSet

(* The task that is running has all that it needs behind it, and what comes  *)
(* after it ahead.                                                           *)
LEMMA Where ==
  ASSUME Typed, Progress, command = "setup", at \in {"called", "working"}
  PROVE  /\ Active /\ Cloned
         /\ task \in Tasks /\ task \in todo /\ todo \subseteq Tasks
         /\ task = "clone_iree" /\ Managed =>
              "build_iree" \in todo /\ "install_iree" \in todo /\ "clean_iree" \in todo
         /\ task = "build_iree" =>
              /\ Managed /\ "clone_iree" \notin todo /\ "download_cmake" \notin todo
              /\ "install_iree" \in todo /\ "clean_iree" \in todo
         /\ task = "install_iree" =>
              /\ Managed /\ "clone_iree" \notin todo /\ "build_iree" \notin todo
              /\ "clean_iree" \in todo
         /\ task = "clean_iree" =>
              /\ "build_iree" \notin todo /\ "install_iree" \notin todo
              /\ "iree.drop_build_dir" \in user
         /\ Managed => Built /\ Placed /\ Cleaned
<1>1. task \in todo /\ todo \subseteq Tasks /\ task \notin Rejected
  BY DEF Typed, Places
<1>2. \A s \in todo : ~Before(s, task)
  BY DEF Typed, Places
<1>3. Active /\ Cloned /\ (Managed => Built /\ Placed /\ Cleaned)
  BY DEF Active, Progress
<1>4. task = "clone_iree" /\ Managed =>
        "build_iree" \in todo /\ "install_iree" \in todo /\ "clean_iree" \in todo
  BY <1>1, <1>3 DEF Built, Placed, Cleaned
<1>5. task = "build_iree" =>
        /\ Managed /\ "clone_iree" \notin todo /\ "download_cmake" \notin todo
        /\ "install_iree" \in todo /\ "clean_iree" \in todo
  BY <1>1, <1>2, <1>3, Order DEF Placed, Cleaned, Managed, Rejected
<1>6. task = "install_iree" =>
        /\ Managed /\ "clone_iree" \notin todo /\ "build_iree" \notin todo
        /\ "clean_iree" \in todo
  BY <1>1, <1>2, <1>3, Order DEF Built, Cleaned, Managed, Rejected
<1>7. task = "clean_iree" =>
        /\ "build_iree" \notin todo /\ "install_iree" \notin todo
        /\ "iree.drop_build_dir" \in user
  BY <1>1, <1>2, Order DEF Rejected
<1> QED
  BY <1>1, <1>3, <1>4, <1>5, <1>6, <1>7

LEMMA SkipStep ==
  ASSUME Typed, Progress, NEW t \in Tasks, Skip(t)
  PROVE  Progress'
<1> SUFFICES ASSUME Active' PROVE (Cloned /\ (Managed => Built /\ Placed /\ Cleaned))'
  BY DEF Progress
<1>1. /\ todo' = todo \ {t} /\ at' = at /\ at = "next" /\ t \in todo
      /\ t \in {"download_cmake", "build_iree", "install_iree", "clean_iree"}
      /\ \A s \in todo : ~Before(s, t)
  BY DEF Skip, Selected, Rejected
<1>2. UNCHANGED <<rev, disk, file, command, user, rebuild, interrupted, mended, cache, changed,
                  task>>
  BY DEF Skip, program
<1>3. Active /\ Cloned /\ (Managed => Built /\ Placed /\ Cleaned)
  BY <1>1, <1>2 DEF Active, Progress
<1>4. Cloned'
  BY <1>1, <1>2, <1>3 DEF Cloned, Populated
<1>5. ASSUME Managed'
      PROVE  (Built /\ Placed /\ Cleaned)'
  <2>1. /\ Managed
        /\ t = "download_cmake" \/ (t = "clean_iree" /\ "iree.drop_build_dir" \notin user)
    BY <1>2, <1>5 DEF Managed, Skip, Rejected
  <2>2. Built /\ Placed /\ Cleaned
    BY <1>3, <2>1
  <2>3. CASE t = "download_cmake"
    BY <1>1, <1>2, <2>2, <2>3 DEF Built, Placed, Cleaned, Populated
  <2>4. CASE t = "clean_iree" /\ "iree.drop_build_dir" \notin user
    <3>1. "build_iree" \notin todo /\ "install_iree" \notin todo
      BY <1>1, <2>4, Order
    <3>2. "iree.build_dir" \in cache /\ (~interrupted => Populated("iree.build_dir"))
      BY <1>1, <2>2, <2>4, <3>1 DEF Built
    <3> QED
      BY <1>1, <1>2, <2>2, <2>4, <3>1, <3>2 DEF Built, Placed, Cleaned, Populated
  <2> QED
    BY <2>1, <2>3, <2>4
<1> QED
  BY <1>4, <1>5

LEMMA WorkStep ==
  ASSUME Typed, Progress, Work
  PROVE  Progress'
<1> SUFFICES ASSUME Active' PROVE (Cloned /\ (Managed => Built /\ Placed /\ Cleaned))'
  BY DEF Progress
<1>1. /\ at = "called" /\ at' = "working" /\ command = "setup"
      /\ UNCHANGED <<rev, command, user, rebuild, interrupted, todo, task, cache, changed>>
      /\ task # "clone_iree" => mended' = mended
  BY DEF Work, Active, memory, Typed, TypeOK
<1>2. \A k \in Keys : k # Dir[task] => disk'[k] = disk[k]
  BY DEF Work, Typed, TypeOK
<1>3. "iree.src_dir" \in Keys /\ "iree.build_dir" \in Keys /\ "iree.install_dir" \in Keys
  BY DEF Keys
<1>4. CASE task = "clone_iree"
  BY <1>1, <1>4, Where DEF Cloned, Built, Placed, Cleaned, Managed
<1>5. CASE task = "build_iree"
  <2>1. disk'["iree.src_dir"] = disk["iree.src_dir"]
    BY <1>2, <1>3, <1>5, Tables
  <2> QED
    BY <1>1, <1>5, <2>1, Where DEF Cloned, Built, Placed, Cleaned, Managed, Populated
<1>6. CASE task = "install_iree"
  <2>1. /\ disk'["iree.src_dir"] = disk["iree.src_dir"]
        /\ disk'["iree.build_dir"] = disk["iree.build_dir"]
    BY <1>2, <1>3, <1>6, Tables
  <2> QED
    BY <1>1, <1>6, <2>1, Where DEF Cloned, Built, Placed, Cleaned, Managed, Populated
<1>7. CASE task = "clean_iree"
  <2>1. /\ disk'["iree.src_dir"] = disk["iree.src_dir"]
        /\ disk'["iree.install_dir"] = disk["iree.install_dir"]
    BY <1>2, <1>3, <1>7, Tables
  <2> QED
    BY <1>1, <1>7, <2>1, Where DEF Cloned, Built, Placed, Cleaned, Managed, Populated
<1>8. CASE task = "download_cmake"
  <2>1. /\ disk'["iree.src_dir"] = disk["iree.src_dir"]
        /\ disk'["iree.build_dir"] = disk["iree.build_dir"]
        /\ disk'["iree.install_dir"] = disk["iree.install_dir"]
    BY <1>2, <1>3, <1>8, Tables
  <2> QED
    BY <1>1, <1>8, <2>1, Where DEF Cloned, Built, Placed, Cleaned, Managed, Populated
<1> QED
  BY <1>1, <1>4, <1>5, <1>6, <1>7, <1>8, Where DEF Tasks

(* An installation always has something to do: the build has just provided   *)
(* a build directory.                                                        *)
LEMMA InstallWorks ==
  ASSUME Typed, Progress, command = "setup", at \in {"called", "working"},
         task = "install_iree"
  PROVE  Works
<1>1. "iree.build_dir" \in changed
  BY Where DEF Built
<1>2. redo = Rebuilds(task)
  BY DEF Typed, Places
<1> QED
  BY <1>1, <1>2, Tables DEF Rebuilds, Works

LEMMA FinishStep ==
  ASSUME Typed, Progress, Finish
  PROVE  Progress'
<1> SUFFICES ASSUME Active' PROVE (Cloned /\ (Managed => Built /\ Placed /\ Cleaned))'
  BY DEF Progress
<1>1. /\ at \in {"called", "working"} /\ at' = "next" /\ command = "setup"
      /\ todo' = todo \ {task} /\ cache' = CacheAfter(task)
      /\ changed' = IF ReturnsTrue(task) THEN changed \cup Provides[task] ELSE changed
      /\ UNCHANGED <<rev, command, user, rebuild, interrupted, mended>>
  BY DEF Finish, Return, Active
<1>2. PICK restored \in {TRUE, ~mended} :
             \/ at = "working" /\ disk' = Made(task, restored)
             \/ ~Works /\ disk' = disk
  BY DEF Finish
<1>3. /\ "iree.src_dir" \in Keys /\ "iree.build_dir" \in Keys /\ "iree.install_dir" \in Keys
  BY DEF Keys
<1>4. CASE task = "clone_iree"
  <2>1. /\ cache' = cache \cup {"iree.src_dir"}
        /\ changed' = changed \cup {"iree.src_dir"}
    BY <1>1, <1>4, Tables DEF CacheAfter, ReturnsTrue
  <2>2. CASE at = "working" /\ disk' = Made(task, restored)
    <3>1. disk'["iree.src_dir"] = [rev |-> rev, whole |-> restored]
      BY <1>3, <1>4, <2>2 DEF Made
    <3>2. rev # 0
      BY Ranges DEF Typed
    <3>3. disk'["iree.src_dir"] # Absent
      BY <3>1, <3>2 DEF Absent
    <3> QED
      BY <1>1, <1>2, <1>4, <2>1, <3>1, <3>3, Where DEF Cloned, Built, Placed, Cleaned, Managed, Populated
  <2>3. CASE ~Works /\ disk' = disk
    <3>1. ~rebuild /\ Populated("iree.src_dir")
      BY <1>1, <1>4, <2>3, Tables DEF Works, Rebuilds, Typed, Places
    <3> QED
      BY <1>1, <1>4, <2>1, <2>3, <3>1, Where DEF Cloned, Built, Placed, Cleaned, Managed, Populated
  <2> QED
    BY <1>2, <2>2, <2>3
<1>5. CASE task = "build_iree"
  <2>1. /\ cache' = cache \cup {"iree.build_dir", "iree.install_dir"}
        /\ changed' = changed \cup {"iree.build_dir"}
    BY <1>1, <1>5, Tables DEF CacheAfter, ReturnsTrue
  <2>2. disk'["iree.src_dir"] = disk["iree.src_dir"]
    BY <1>2, <1>3, <1>5 DEF Made
  <2> QED
    BY <1>1, <1>5, <2>1, <2>2, Where DEF Cloned, Built, Placed, Cleaned, Managed, Populated
<1>6. CASE task = "install_iree"
  <2>1. /\ cache' = cache \cup {"iree.install_dir"}
        /\ changed' = changed \cup {"iree.install_dir"}
    BY <1>1, <1>6, Tables DEF CacheAfter, ReturnsTrue
  <2>2. disk' = Made(task, restored)
    BY <1>1, <1>2, <1>6, InstallWorks
  <2>3. /\ disk'["iree.src_dir"] = disk["iree.src_dir"]
        /\ disk'["iree.build_dir"] = disk["iree.src_dir"]
        /\ disk'["iree.install_dir"] = disk["iree.src_dir"]
    BY <1>3, <1>6, <2>2 DEF Made
  <2>4. Populated("iree.src_dir")
    BY <1>1, <1>6, Where DEF Cloned
  <2> QED
    BY <1>1, <1>6, <2>1, <2>3, <2>4, Where
    DEF Cloned, Built, Placed, Cleaned, Managed, Populated
<1>7. CASE task = "clean_iree"
  <2>1. cache' = cache \ {"iree.build_dir"} /\ changed' = changed
    BY <1>1, <1>7 DEF CacheAfter, ReturnsTrue
  <2>2. disk' = Made(task, restored)
    BY <1>2, <1>7 DEF Works
  <2>3. /\ disk'["iree.src_dir"] = disk["iree.src_dir"]
        /\ disk'["iree.build_dir"] = Absent
        /\ disk'["iree.install_dir"] = disk["iree.install_dir"]
    BY <1>3, <1>7, <2>2 DEF Made
  <2> QED
    BY <1>1, <1>7, <2>1, <2>3, Where DEF Cloned, Built, Placed, Cleaned, Managed, Populated
<1>8. CASE task = "download_cmake"
  <2>1. cache' = cache \cup {"cmake.exe"} /\ changed' = changed
    BY <1>1, <1>8, Tables DEF CacheAfter, ReturnsTrue
  <2>2. /\ disk'["iree.src_dir"] = disk["iree.src_dir"]
        /\ disk'["iree.build_dir"] = disk["iree.build_dir"]
        /\ disk'["iree.install_dir"] = disk["iree.install_dir"]
    BY <1>2, <1>3, <1>8 DEF Made
  <2> QED
    BY <1>1, <1>8, <2>1, <2>2, Where DEF Cloned, Built, Placed, Cleaned, Managed, Populated
<1> QED
  BY <1>1, <1>4, <1>5, <1>6, <1>7, <1>8, Where DEF Tasks

(* An interrupted task counts as finished.                                   *)
LEMMA InterruptStep ==
  ASSUME Typed, Progress, Interrupt
  PROVE  Progress'
<1> SUFFICES ASSUME Active' PROVE (Cloned /\ (Managed => Built /\ Placed /\ Cleaned))'
  BY DEF Progress
<1>1. /\ at \in {"called", "working"} /\ at' = "next" /\ command = "setup"
      /\ todo' = todo \ {task} /\ cache' = CacheAfter(task)
      /\ changed' = IF ReturnsTrue(task) THEN changed \cup Provides[task] ELSE changed
      /\ interrupted' = (interrupted \/ task = "install_iree")
      /\ UNCHANGED <<rev, disk, command, user, rebuild, mended>>
  BY DEF Interrupt, Return, Active
<1>2. CASE task = "build_iree"
  <2>1. /\ cache' = cache \cup {"iree.build_dir", "iree.install_dir"}
        /\ changed' = changed \cup {"iree.build_dir"}
    BY <1>1, <1>2, Tables DEF CacheAfter, ReturnsTrue
  <2> QED
    BY <1>1, <1>2, <2>1, Where DEF Cloned, Built, Placed, Cleaned, Managed, Populated
<1>3. CASE task = "install_iree"
  <2>1. /\ cache' = cache \cup {"iree.install_dir"}
        /\ changed' = changed \cup {"iree.install_dir"}
    BY <1>1, <1>3, Tables DEF CacheAfter, ReturnsTrue
  <2> QED
    BY <1>1, <1>3, <2>1, Where DEF Cloned, Built, Placed, Cleaned, Managed, Populated
<1>4. CASE task = "download_cmake"
  <2>1. cache' = cache \cup {"cmake.exe"} /\ changed' = changed
    BY <1>1, <1>4, Tables DEF CacheAfter, ReturnsTrue
  <2> QED
    BY <1>1, <1>4, <2>1, Where DEF Cloned, Built, Placed, Cleaned, Managed, Populated
<1> QED
  BY <1>2, <1>3, <1>4 DEF Interrupt

LEMMA ProgressStep == Typed /\ Progress /\ [Next]_vars => Progress'
<1> SUFFICES ASSUME Typed, Progress, [Next]_vars PROVE Progress'
  OBVIOUS
<1>1. ASSUME NEW t \in Tasks, Begin(t)
      PROVE  Progress'
  <2>1. at = "next" /\ at' = "called"
    BY <1>1 DEF Begin, Selected
  <2>2. UNCHANGED <<rev, disk, command, user, rebuild, interrupted, mended, todo, cache, changed>>
    BY <1>1 DEF Begin, program
  <2> QED
    BY <2>1, <2>2 DEF Progress, Active, Cloned, Managed, Built, Placed, Cleaned, Populated
<1>2. CASE LookupFails \/ Raise \/ Kill \/ WriteCache \/ CleanedUp
  BY <1>2 DEF LookupFails, Raise, Kill, WriteCache, CleanedUp, Abort, End, Progress, Active
<1>3. CASE OpenCache
  <2>1. at = "next" /\ at' = "writing"
    BY <1>3 DEF OpenCache
  <2>2. UNCHANGED <<rev, disk, command, user, rebuild, interrupted, mended, todo, cache, changed>>
    BY <1>3 DEF OpenCache, program, memory
  <2> QED
    BY <2>1, <2>2 DEF Progress, Active, Cloned, Managed, Built, Placed, Cleaned, Populated
<1>4. CASE \/ \E first, second \in BOOLEAN : RemoveCache(first, second)
           \/ \E k \in Keys : RemoveDir(k)
           \/ NewRevision
           \/ \E dirs \in {{}, Keys} : Cleanup(dirs)
  BY <1>4 DEF RemoveCache, RemoveDir, NewRevision, Cleanup, Call, Progress, Active
<1>5. CASE \E u \in Settings, r \in BOOLEAN : Setup(u, r)
  BY <1>5 DEF Setup, Call, Progress, Tasks, Cloned, Built, Placed, Cleaned
<1>6. CASE \E u \in Settings, r \in BOOLEAN, t \in Tasks : SetupTask(t, u, r)
  BY <1>6 DEF SetupTask, Call, Progress, Active
<1>7. CASE UNCHANGED vars
  BY <1>7 DEF vars, program, memory, Progress, Active, Cloned, Managed, Built, Placed, Cleaned, Populated
<1> QED
  BY <1>1, <1>2, <1>3, <1>4, <1>5, <1>6, <1>7, Cases, SkipStep, WorkStep, FinishStep, InterruptStep
LEMMA SuppliedStep == Typed /\ Supplied /\ [Next]_vars => Supplied'
<1> SUFFICES ASSUME Typed, Supplied, [Next]_vars, command' = "setup",
                    at' \in {"next", "called", "working"}
             PROVE  Supplied'
  BY DEF Supplied
<1>1. ASSUME NEW t \in Tasks, Skip(t)
      PROVE  Supplied'
  <2>1. /\ at = "next" /\ todo' = todo \ {t}
        /\ UNCHANGED <<command, user, cache, file>>
        /\ t = "download_cmake" => "cmake.use_system" \in user
    BY <1>1 DEF Skip, Selected, Rejected, program
  <2> QED
    BY <2>1 DEF Supplied
<1>2. CASE Work \/ \E t \in Tasks : Begin(t)
  <2>1. at \in {"next", "called"} /\ UNCHANGED <<command, user, cache, file, todo>>
    BY <1>2 DEF Work, Begin, Selected, program, memory
  <2> QED
    BY <2>1 DEF Supplied
<1>3. CASE Finish \/ Interrupt
  <2>1. /\ at \in {"called", "working"} /\ todo' = todo \ {task} /\ cache' = CacheAfter(task)
        /\ UNCHANGED <<command, user, file>>
    BY <1>3 DEF Finish, Interrupt, Return
  <2>2. CASE task = "clean_iree"
    BY <2>1, <2>2 DEF Supplied, CacheAfter
  <2>3. CASE task = "download_cmake"
    BY <2>1, <2>3, Tables DEF Supplied, CacheAfter
  <2>4. CASE task \notin {"clean_iree", "download_cmake"}
    <3>1. cache \subseteq cache'
      BY <2>1, <2>4 DEF CacheAfter
    <3> QED
      BY <2>1, <2>4, <3>1 DEF Supplied
  <2> QED
    BY <2>2, <2>3, <2>4
<1>4. CASE \E u \in Settings, r \in BOOLEAN : Setup(u, r)
  BY <1>4 DEF Supplied, Setup, Call, Tasks
<1>5. CASE \/ LookupFails \/ Raise \/ Kill \/ OpenCache \/ WriteCache \/ CleanedUp \/ NewRevision
           \/ \E first, second \in BOOLEAN : RemoveCache(first, second)
           \/ \E k \in Keys : RemoveDir(k)
           \/ \E u \in Settings, r \in BOOLEAN, t \in Tasks : SetupTask(t, u, r)
           \/ \E dirs \in {{}, Keys} : Cleanup(dirs)
  BY <1>5 DEF LookupFails, Raise, Kill, Abort, End, OpenCache, WriteCache, CleanedUp, NewRevision,
              RemoveCache, RemoveDir, SetupTask, Cleanup, Call
<1>6. CASE UNCHANGED vars
  BY <1>6 DEF vars, program, memory, Supplied
<1> QED
  BY <1>1, <1>2, <1>3, <1>4, <1>5, <1>6, Cases
-----------------------------------------------------------------------------
(* What holds when an installation has ended. *)

LEMMA Written ==
  ASSUME Typed, Progress, WriteCache, Installed'
  PROVE  ~interrupted' =>
           /\ Populated("iree.install_dir")'
           /\ disk'["iree.install_dir"] = disk'["iree.src_dir"]
           /\ file' \ {"cmake.exe"} = {k \in Keys : Populated(k)'} \ {"cmake.exe"}
           /\ rebuild' => \E restored \in {TRUE, ~mended'} :
                            disk'["iree.install_dir"] = [rev |-> rev', whole |-> restored]
<1> SUFFICES ASSUME ~interrupted'
             PROVE  /\ Populated("iree.install_dir")'
                    /\ disk'["iree.install_dir"] = disk'["iree.src_dir"]
                    /\ file' \ {"cmake.exe"} = {k \in Keys : Populated(k)'} \ {"cmake.exe"}
                    /\ rebuild' => \E restored \in {TRUE, ~mended'} :
                           disk'["iree.install_dir"] = [rev |-> rev', whole |-> restored]
  OBVIOUS
<1>1. /\ at = "writing" /\ file' = cache /\ ~interrupted
      /\ UNCHANGED <<rev, disk, command, user, rebuild, interrupted, mended>>
  BY DEF WriteCache, End, program
<1>2. Active /\ Managed /\ todo = {}
  BY <1>1 DEF Installed, Active, Managed, Typed, Places
<1>3. Cloned /\ Built /\ Placed /\ Cleaned
  BY <1>2 DEF Progress
<1>4. /\ "iree.src_dir" \in cache /\ "iree.install_dir" \in cache
      /\ Populated("iree.src_dir") /\ Populated("iree.install_dir")
      /\ disk["iree.install_dir"] = disk["iree.src_dir"]
      /\ "iree.build_dir" \in cache <=> Populated("iree.build_dir")
      /\ rebuild => \E restored \in {TRUE, ~mended} :
                      disk["iree.src_dir"] = [rev |-> rev, whole |-> restored]
  BY <1>1, <1>2, <1>3 DEF Cloned, Built, Placed, Cleaned
<1>6. cache \ {"cmake.exe"} = {k \in Keys : Populated(k)} \ {"cmake.exe"}
  <2>1. cache \subseteq Keys
    BY DEF Typed, TypeOK
  <2>2. \A k \in Keys \ {"cmake.exe"} : k \in cache <=> Populated(k)
    BY <1>4 DEF Keys
  <2> QED
    BY <2>1, <2>2
<1>7. \A k : Populated(k)' <=> Populated(k)
  BY <1>1 DEF Populated
<1> QED
  BY <1>1, <1>4, <1>6, <1>7

(* No other step ends an installation, and none disturbs it before the next  *)
(* command.                                                                  *)
LEMMA OnlyWriteInstalls ==
  ASSUME Typed, [Next]_vars, Installed'
  PROVE  \/ WriteCache
         \/ Installed /\ at = "idle" /\ UNCHANGED <<disk, file, interrupted>>
<1>1. ASSUME NEW t \in Tasks, Skip(t) \/ Begin(t)
      PROVE  FALSE
  BY <1>1 DEF Skip, Begin, Selected, Installed
<1>2. CASE LookupFails \/ Raise \/ Kill
  BY <1>2 DEF LookupFails, Raise, Kill, Abort, End, Installed
<1>3. CASE Work \/ Finish \/ Interrupt \/ OpenCache
  BY <1>3 DEF Work, Finish, Interrupt, Return, OpenCache, Installed
<1>4. CASE CleanedUp
  BY <1>4 DEF CleanedUp, End, program, Typed, Places, Installed
<1>5. CASE \/ \E first, second \in BOOLEAN : RemoveCache(first, second)
           \/ \E k \in Keys : RemoveDir(k)
  BY <1>5 DEF RemoveCache, RemoveDir, Installed
<1>6. CASE NewRevision
  BY <1>6 DEF NewRevision, program, Installed
<1>7. CASE \/ \E u \in Settings, r \in BOOLEAN : Setup(u, r)
           \/ \E u \in Settings, r \in BOOLEAN, t \in Tasks : SetupTask(t, u, r)
           \/ \E dirs \in {{}, Keys} : Cleanup(dirs)
  BY <1>7 DEF Setup, SetupTask, Cleanup, Installed
<1>8. CASE UNCHANGED vars
  BY <1>8 DEF vars, program, Installed
<1> QED
  BY <1>1, <1>2, <1>3, <1>4, <1>5, <1>6, <1>7, <1>8, Cases

LEMMA InstalledStep ==
  Inv /\ [Next]_vars => InstalledIsCurrent' /\ CacheNamesWhatIsThere'
<1> SUFFICES ASSUME Inv, [Next]_vars, Installed', ~interrupted'
             PROVE  (/\ Populated("iree.install_dir")
                     /\ disk["iree.install_dir"] = disk["iree.src_dir"]
                     /\ file \ {"cmake.exe"} = {k \in Keys : Populated(k)} \ {"cmake.exe"})'
  BY DEF InstalledIsCurrent, CacheNamesWhatIsThere
<1>1. CASE WriteCache
  BY <1>1, Written DEF Inv
<1>2. CASE Installed /\ UNCHANGED <<disk, file, interrupted>>
  BY <1>2 DEF Inv, InstalledIsCurrent, CacheNamesWhatIsThere, Populated
<1> QED
  BY <1>1, <1>2, OnlyWriteInstalls DEF Inv

(* What a task of an installation looks up is in the cache, unless it is one *)
(* of the two names that InputsAreSet excepts.                               *)
LEMMA Lookup ==
  ASSUME Typed, Progress, Supplied, command = "setup", at = "called", ~Found
  PROVE  \/ {"iree.install_dir", "iree.drop_build_dir"} \subseteq user /\ "iree.build_dir" \notin file
         \/ /\ "cmake.use_system" \in user /\ "iree.install_dir" \notin user
            /\ "cmake.exe" \notin file
<1>1. CASE task = "download_cmake" \/ task = "clone_iree"
  BY <1>1, Tables DEF Found
<1>2. CASE task = "build_iree"
  <2>1. "cmake.exe" \notin cache
    BY <1>2, Where, Tables DEF Found, Cloned
  <2> QED
    BY <1>2, <2>1, Where DEF Supplied, Managed
<1>3. CASE task = "install_iree"
  BY <1>3, Where, Tables DEF Found, Built
<1>4. CASE task = "clean_iree"
  <2>1. "iree.build_dir" \notin cache /\ "iree.build_dir" \notin file
    BY <1>4, Where, Tables DEF Found, Supplied
  <2>2. ~Managed
    BY <1>4, <2>1, Where DEF Built
  <2> QED
    BY <1>4, <2>1, <2>2, Where DEF Managed
<1> QED
  BY <1>1, <1>2, <1>3, <1>4, Where DEF Tasks

LEMMA InputsStep == Inv /\ [Next]_vars => InputsAreSet'
<1> SUFFICES ASSUME Inv, [Next]_vars, command' = "setup", outcome' = "key error"
             PROVE  InputsAreSet'
  BY DEF InputsAreSet
<1>1. CASE LookupFails
  <2>1. at = "called" /\ ~Found /\ UNCHANGED <<command, user, file>>
    BY <1>1 DEF LookupFails, Abort, End, program
  <2> QED
    BY <2>1, Lookup DEF Inv, InputsAreSet
<1>2. CASE Raise \/ Kill \/ WriteCache \/ CleanedUp
  BY <1>2 DEF Raise, Kill, WriteCache, CleanedUp, Abort, End
<1>3. CASE \/ \E u \in Settings, r \in BOOLEAN : Setup(u, r)
           \/ \E u \in Settings, r \in BOOLEAN, t \in Tasks : SetupTask(t, u, r)
           \/ \E dirs \in {{}, Keys} : Cleanup(dirs)
  BY <1>3 DEF Setup, SetupTask, Cleanup, Call
<1>4. CASE \/ \E t \in Tasks : Skip(t) \/ Begin(t)
           \/ Work \/ Finish \/ Interrupt
           \/ \E k \in Keys : RemoveDir(k)
           \/ NewRevision \/ UNCHANGED vars
  <2>1. UNCHANGED <<command, user, outcome, file>>
    BY <1>4 DEF Skip, Begin, Work, Finish, Interrupt, Return, RemoveDir, NewRevision, vars, program
  <2> QED
    BY <2>1 DEF Inv, InputsAreSet
<1>5. CASE OpenCache \/ \E first, second \in BOOLEAN : RemoveCache(first, second)
  <2>1. UNCHANGED <<command, user, outcome>> /\ (file' = {} \/ file' = file)
    BY <1>5 DEF OpenCache, RemoveCache, program
  <2> QED
    BY <2>1 DEF Inv, InputsAreSet
<1> QED
  BY <1>1, <1>2, <1>3, <1>4, <1>5, Cases

LEMMA InvInit == Init => Inv
  BY TypedInit DEF Init, Inv, Progress, Active, Supplied, InstalledIsCurrent,
                   CacheNamesWhatIsThere, Installed, InputsAreSet

LEMMA InvStep == Inv /\ [Next]_vars => Inv'
  BY TypedStep, ProgressStep, SuppliedStep, InstalledStep, InputsStep DEF Inv

LEMMA Invariance == Spec => []Inv
  BY InvInit, InvStep, PTL DEF Spec

(* `mlonmcu setup` leaves an installation of the sources that are on disk.   *)
THEOREM InstallsSources == Spec => []InstalledIsCurrent
<1>1. Inv => InstalledIsCurrent
  BY DEF Inv
<1> QED
  BY <1>1, Invariance, PTL

(* cache.ini then names the directories of IREE that exist, and no other,    *)
(* if the installation was not interrupted.                                  *)
THEOREM CacheFileIsRight == Spec => []CacheNamesWhatIsThere
<1>1. Inv => CacheNamesWhatIsThere
  BY DEF Inv
<1> QED
  BY <1>1, Invariance, PTL

(* No task of an installation misses what an earlier one provides: only what *)
(* none provides can be missing, and then cache.ini did not name it either.  *)
THEOREM OrderProvidesInputs == Spec => []InputsAreSet
<1>1. Inv => InputsAreSet
  BY DEF Inv
<1> QED
  BY <1>1, Invariance, PTL

(* With --rebuild, what is installed is the wanted revision; it is whole if  *)
(* no broken sources had to be refreshed.                                    *)
THEOREM RebuildIsComplete == Spec => RebuildRefreshes
<1>1. Inv /\ [Next]_vars => [Installed' /\ rebuild' /\ ~interrupted' /\ at # "idle"
        => \E restored \in {TRUE, ~mended'} :
             disk'["iree.install_dir"] = [rev |-> rev', whole |-> restored]]_vars
  <2> SUFFICES ASSUME Inv, [Next]_vars, Installed', rebuild', ~interrupted', at # "idle"
               PROVE  \E restored \in {TRUE, ~mended'} :
                        disk'["iree.install_dir"] = [rev |-> rev', whole |-> restored]
    OBVIOUS
  <2> QED
    BY Written, OnlyWriteInstalls DEF Inv
<1> QED
  BY <1>1, Invariance, PTL DEF Spec, RebuildRefreshes
=============================================================================
