# MLonMCU in TLA+

MLonMCU takes machine learning models through the stages load, tune, build,
compile, run and postprocess, for many combinations of frontends, backends,
targets and features, in *sessions* of *runs*.  Most of the repository wraps
external tools.  What can go wrong in MLonMCU itself is the machinery around
them: processes that share an environment, runs that are retried and partly
executed, a scheduler that spreads runs over workers and collects their results.
This directory models that machinery, checks it with TLC and proves parts of it
with TLAPS.

## Inventory

| Component | State | Operations | What is hard, what makes it correct |
|---|---|---|---|
| Reader-writer file lock (`context/read_write_filelock.py`) | track file shared by all processes, a FileLock, the dictionary in memory, atexit callbacks | `acquire`, `release`, `is_locked` | any interleaving of processes, kills, FileLock timeouts; mutual exclusion of writers, no lost entries, nothing left behind |
| Context (`context/context.py`) | list of sessions, `session_idx`, task cache, `latest` link | `__init__`, `__enter__`, `create_session`, `get_session`, `cleanup_sessions`, `__exit__` | several contexts in several processes: the list is reloaded, the index is not; unique session directories |
| Session (`session/session.py`) | status, runs, results, report, session lock | `create_run`, `open`, `process_runs`, `close`, `discard` | lock file removed after its release; truth of the summary |
| Scheduler (`session/schedule.py`) | futures, batches, results, `num_failures`, executor | `process`, `_join_futures`, `print_summary`, `postprocess`, `_process_*` | worker threads share Run objects with the main thread; order of completion, failures of runs and of workers, batches, rounds |
| Run (`session/run.py`) | completed stages, `failing`, `failed_stage`, `locked`, `report`, artifacts | `process`, `load` ... `postprocess`, `get_report`, `export` | partial executions, skipped stages, retries; no stage without its inputs, an honest status |
| Dependency setup (`setup/`) | task registry, `changed`, `TaskCache`, `cache.ini`, the directories of the tasks | `install_dependencies`, `invoke_single_task`, `process` of a task, cache reads and writes, `clean_cache`, `clean_dependencies` | aborted and interrupted installations leave partial directories and stale entries; what is installed is made from the sources that are there |
| Tuning with TVM (`platform/tvm/tvm_tune_platform.py`) | `trials_single`, `early_stopping` shared by threads, records | `_tune_model`, `do_work` | assignments of several threads without a lock, failures of some workers; the same trials for all, no record lost |
| RPC client (`session/rpc.py`) | sockets to tracker and server | `request_server`, `execute`, `free_server`, `connect_tracker` | retries, servers that are never freed, late threads |
| Timeouts (`timeout.py`) | child process, queue | `exec_timeout` | join before get |
| Environment, command line, models, frontends, backends, frameworks, platforms, targets, features, postprocesses, reports | configuration, artifacts | conversions and calls of external tools | sequential; seen by a run as stages that succeed or fail |

How they interact: the command line enters a *context*, which takes the lock of
the environment for as long as the process uses it.  It creates a *session* with
*runs*, and calls `process_runs`.  That creates a *scheduler*, which submits
batches of runs to the workers of an *executor*.  A worker calls `Run.process`,
which calls the stage functions, and returns `RunResult`s through a future.  The
main thread joins the futures, builds the report and prints the summary.

## Modules

**`RWFileLock`** models `ReadFileLock` and `WriteFileLock`.  Every lock object has
a process of its own.  `track` is the set of ids in the track file, `info` the
dictionary a method has read, `mutex` the owner of the FileLock.  A method is
called (`CallAcquire`, `CallRelease`, `CallIsLocked`), waits for the FileLock and
reads the track file (`LockAndRead`, or `FileLockTimeout` if it waits for too
long), decides (`RefuseAcquire`, `OpenToClaim`, `OpenToDrop`, `ReturnIsLocked`),
and writes.  A write has two steps, because `open(.., "w")` truncates the file
before `yaml.dump` fills it (`Truncate`, `Dump`).  `callbacks` counts the atexit
registrations; `Exit`, the releases of an exiting process and `Gone` are its end,
and `Crash` is a kill.  Blocking is modelled as the code has it: the condition
`v["type"] == "write" or "read"` of the writer is always true, so any entry blocks
a writer, which is what a writer needs, while the docstrings only speak of write
processes.  `kept` (the last release of an object timed out) and `torn` (a kill hit
a rewrite) are history variables for the properties.

**`ReadersWriters`** is what the two classes promise: any number of readers or one
writer, and a refusal instead of waiting.  `RWFileLock` refines it, a return of a
successful `acquire` being an `Enter` and a call of `release` a `Leave`.

**`RunStages`** holds the functions on a Run object: which stage is next or last,
which stages a call of `process` executes, what a stage asserts of earlier ones,
and what entering, completing or failing a stage does to the object.  The report
is abstracted to the set of completed stages it was generated from.

**`Run`** is one Run object with its callers: `Process` starts a call, `Enter` is the
top of the loop up to the lock, `Succeed`, `Fail` and `FailCompleted` end a stage
(`postprocess` exports after it has marked itself completed, so it may fail as a
completed stage).

**`SessionScheduler`** is `Session.process_runs`, `SessionScheduler` and the workers
of the executors `thread_pool` and `process_pool`; `executor` is the one that the
configuration chose, among the constant `Executors`.  The main thread submits
batches (`Submit`), joins them in the order of completion (`JoinResult`,
`JoinException`), goes on to the next stage or ends (`EndRound`), prints the
summary and runs the session postprocesses.  A worker takes a batch, and for each
of its runs does `Process`, stages, possibly `ProcessPost` (the second call of
`process`, for the postprocesses alone) and `Collect`.  `AssertSkipNone` is the
assertion that fails for the second initializer of a batch in `_process_pickable`;
`RaiseOutside` is any exception outside of a stage function: in `get_report`, `export` or
`save_artifacts` after the calls of `process`, and with `process_pool` also in `realize`,
`init_directory` or the save of the initializer before the first of them.  A round is a
position in `used_stages`.

**`SessionOutcome`** is the promise of `process_runs`: every run is settled once and
for all, then the session reports success if and only if all are completed.  The report is
the line that `print_summary` prints, not the value that `process_runs` returns: that is
`num_failures == 0` (`session.py:305`), and a failing session postprocess may still change it.
`SessionScheduler` refines it, and each of its runs refines `Run`.

**`Context`** models the contexts of several processes and the session directories
they share.  `Construct`, `CheckVictim`, `RemoveVictim` and `Constructed` are
`__init__` under the lock of the `latest` link, with `cleanup_auto`; `Enter` and
`EnterRefused` take the lock on the environment, which is the abstract
`ReadersWriters` here; `GetSession`, `Unlink` and `Symlink` are `get_session` and
`create_session`; `Open`, `LockSession`, `LockSessionTimeout`, `Close` and `Closed` are
`Session.open` and `close`; `StartCleanup` and `FinishCleanup` enclose the loop of
`cleanup_sessions` for `mlonmcu cleanup`; `Leave` and `CleanedUp` are `__exit__`.
`deps_lock` is released twice, by `__exit__` and by the atexit callback of the lock
(`Release`), and each time the FileLock may be busy for 2 s (`ReleaseTimeout`): then an
exception ends `__exit__`, or the callback, and after the latter the context is `kept` in
the track file.  `EnterRefused` is a refusal or such a timeout.  Only somebody at `acquire`
or `release` can keep the FileLock (`Stalled`).  A kill (`Crash`) at one of these calls may
also hit the rewrite of the track file, which erases the entries of everybody; `torn`
says that others have lost theirs.  A process that has ended has no memory (`Forget`).  `recent` is the set of archived sessions in `self.sessions`; `session`,
`status` and `lock` are the index, the status and the lock of the session that the
context has created last.  A lock on `.lock` is `linked` to that name or an `orphan`
whose file was removed: `flock` locks files, not names.
Programs are assumed to get their sessions from `get_session` and to keep at
least one session in a cleanup; `.latest_session_link_lock` and `.lock` are `FileLock`s
that stay on disk when they are released.

**`TaskSetup`** is `mlonmcu setup`, `mlonmcu setup --task` and `mlonmcu cleanup`, with
the tasks of IREE (clone, build, install, clean) and `download_cmake`, which depend on
each other in all the ways the setup knows: by directories that are provided and needed,
by what is looked up in the cache, by validation functions that skip a task, and by
`changed`.  `cmake.exe` is a name in the cache and the directory of that cmake, which is
whole if the executable runs; `build_iree` reads it, nothing that runs in an environment
with IREE alone sets it, and `cmake.use_system` among the user variables stands for all
ways in which `_validate_cmake` rejects the tasks of cmake.  A directory is the revision of the
sources it was made from and whether it is whole; `disk` and `file` (`cache.ini`) stay
when a command ends.  `Call` enters a context and loads the cache; `Selected` is a task
whose predecessors in the graph are done, since `get_order` is any topological order;
`Skip`, `Begin`, `Work`, `Finish` are the wrapper of `@Tasks.register` and the task function:
`LookupFails` is a missing cache entry (the `KeyError` of a task, `Found`), `Work` the moment
from which the directory is neither old nor new, `Raise` a tool that fails, `Interrupt`
Ctrl-C, which `execute` swallows so that the task goes on as if the tool had succeeded,
maybe before the first file was written, `Kill` the end of the process.  A task may fail
by its own fault, too (`Suffers`): without sources or cmake it has to (`Blocked`), and with
broken ones it may.  In particular `Repo(dest)`, `fetch` and `checkout` may refuse a broken
source directory at every `--rebuild`, or succeed without restoring all of its files
(`mended`).
`OpenCache` and `WriteCache` are the two steps of writing `cache.ini`.  `RemoveCache` and
`RemoveDir` are the cleanup, with both questions.  Assumed of the tools: git updates
sources that are whole, `ninja install` brings the build directory up to date, and a
build of incomplete sources fails or gives something that is not whole.
`interrupted` and `mended` are history variables for the properties.

**`Tuning`** is `_tune_model` of the TVM platform.  A worker checks `trials_single`
(`Check`), replaces it by its share (`SetTrials`) and then `early_stopping`
(`SetStopping`), both shared with all other workers, and calls tvmc with what it reads
then (`CallTvmc`), with `--early-stopping` only if that is positive (`StoppingArgument`);
`Tuned` and `Raise` are what comes back.  When all are done the main
thread collects in the order of the tasks (`CollectRecords`, `CollectFailure`, `Abort`).

**`ExecTimeout`** is `exec_timeout`, with the one fact about `multiprocessing` that
matters: a child with a queue does not exit before the queue is flushed into a pipe of
limited size.

The `MC...` modules only give constants their values.  Operators called *Mutant* in
a comment are plausible bugs; they show that the properties depend on the code and
are used by no action.

## Runs

| Run | Instance | Shows |
|---|---|---|
| `lock` | 2 readers, 1 writer, 2 acquires each, kills, timeouts, fair | mutual exclusion, the inductive invariant `Consistent`, no lost update, refinement of `ReadersWriters`; calls return, and a terminating process leaves no entry unless killed or timed out |
| `run_one` | 1 caller, all stages | honest `failing` and report, no stage twice, calls return |
| `per_stage` | 3 runs of different kinds, 2 workers | no run in two workers, no stage before its turn, failures counted once and for all, no stage twice, and both refinements |
| `pool` | the same runs, both executors, shuffled batches of two, workers may raise | results belong to their runs, exactly those of batches that raised are missing, failures are counted once, the session ends |
| `masked` | thread pool, not per stage | *violation*: "All runs completed successfuly!" after a failure |
| `until_done` | the default `until=DONE` | *violation*: postprocesses are executed twice, the second fails |
| `contexts` | 2 readers, 1 writer, 2 session directories, kills, timeouts, fair | `mlonmcu cleanup` is alone, the link is replaced undisturbed, no `.lock` file is left without a process that will remove it, a writer's session is safe, the lock on the environment is given back |
| `readers` | 2 readers | *violation*: a session in progress without a `.lock` file |
| `setup` | IREE and its cmake, 4 settings of user variables, 2 revisions, 2 faults, fair | an installation is made from the sources on disk, `cache.ini` names what is there, inputs are there, `--rebuild` gives the wanted revision and in the end repairs whatever was left, but for two leftovers that it cannot repair |
| `tuning` | 3 tasks, 0 to 3 workers, with and without `trials_single`, early stopping (off, too) and old records | the same trials for all workers, true marks, no record lost |
| `unlimited` | the same | *violation*: "None: do not limit per task", but it is limited |
| `timeout` | results of size 1 and 2, a pipe of size 1 | *violation*: a function that has completed in time is reported as timed out |

Bounds.  Two readers and a writer are the smallest instance with reader/reader,
reader/writer and, through exits and the track file, stale-entry conflicts; two
writers behave like a writer and a reader seen from the writer, because any entry
blocks it.  `MaxAcquires = 2` lets an object acquire, release and acquire again,
and pile up callbacks.  The three runs of `Mixed` cover a run with every stage but
tuning, one without postprocess, and a program that is not built; with
`BatchSize = 2` there is a full and a shorter batch; two workers are enough for
two runs in parallel.  A run may fail in every stage.  With `process_pool` a batch of two
always raises, by `AssertSkipNone`; with `thread_pool` both of its results are joined, in
either order of the batches, unless it raises.  In `contexts`, two readers can
have the same session directory while a writer waits to clean it up, and two indices
(`MaxIdx = 1`) let a context that was constructed early reuse an old directory while
a newer one exists.  `CleanupAuto` is off there: with it, `WriterSessionSafe` does not
hold (see the findings).

In `setup`, two faults let a command be interrupted, its repair fail, and the next one
succeed, or an interrupted build be followed by a failing installation; two revisions
give old and new sources, and with the four settings every validation function answers
both ways: nothing set, the build directory dropped, the installation provided and the
build directory dropped, and no task of cmake.  The other combinations only skip
more tasks at once; the theorems have all of them.  In `tuning` three tasks let one worker share the trials while a second
is between the two assignments and a third has not started; 7 trials over 3 tasks have a
remainder; one task has fewer configurations than trials; early stopping is by default,
off (0), and less than the trials (1).  In `timeout` a result fits
into the pipe or does not.

`MayCrash`, `MayStall` and `MayRaise` switch failures on.  `CHECK_DEADLOCK FALSE`
in the runs of locks, contexts and timeouts, where all processes may have ended.

Fairness.  A method of the lock that was called goes on, and an exiting process
runs its callbacks (weak fairness); the FileLock polls, so getting it needs strong
fairness.  Nobody is required to acquire, exit or be killed.  The main thread and
every worker thread of an executor keep running, and a stage function returns or
raises (weak fairness); there is no fairness between batches, and the queue is
taken in order as in `concurrent.futures`.  A process that constructs, cleans up,
opens, closes, leaves or ends goes on (weak fairness); a program leaves the block of its
context, whatever it repeats inside (strong fairness of `Leave`).  A command of the
setup goes on or fails (weak fairness of `Running \/ Raise`), and the user tries
`mlonmcu setup --rebuild` again and again (strong fairness: other commands may come
in between); faults are limited, so from some point on nothing fails by itself.

## Findings

* Without `per_stage`, the second call of `process` for the postprocesses resets
  `failing`: a failed run counts as completed (`masked`).
* With `until=DONE`, the default of `process_runs`, the postprocesses are executed
  twice and the second time fails on `assert last_stage is not None` (`until_done`).
* A session in progress may lose its `.lock` file, which is what protects it from
  `cleanup_sessions`: two readers get the same index, and closing one session
  removes the lock file of the other (`readers`).
* `exec_timeout` joins the child before it reads the queue: a function with a large
  result always times out, however fast it is (`timeout`).
* Without `autotuning_trials_single` a comment promises not to limit the trials per task;
  the code gives every task a share of `autotuning_trials`, as for 0 (`unlimited`).

Seen while modelling, without a run: `Run.lock` refuses a second caller with an
exception, but `Run.process` catches it and unlocks the run (`run.py:1346`), so a third
call gets in; the scheduler never does this (`NoParallelProcessing`).  With `per_stage`,
a worker's exception is counted again in every stage, so `num_failures` may exceed the
number of runs and `print_summary` a negative number of completed ones; and the
results then keep what an earlier stage has returned.  A `per_stage` session in which no
run has any of the stages returns None for every run.  `cleanup_auto` cleans up in `__init__`, without
the lock on the environment, and may remove the directory of a session that a
writer has just opened (`Context` with `CleanupAuto = TRUE` violates
`WriterSessionSafe`); `get_session` returns a new session, not "an active session"; the
command line calls `get_session` twice and drops the first session, with the
initializers it has added to it (`cli/load.py:67-76`); `docs/ENVIRONMENTS.md:134`
promises one user of an environment at a time, which is not so for readers; with
`per_stage` and `batch_size > 1` the healthy runs of a batch with a failed run are
skipped and count as completed;
`process_pool` fails for every second initializer of a batch (modelled as
`AssertSkipNone`); a process that is killed inside a rewrite of the track file
erases everybody's entries (the escape `torn` of the properties of the lock and, through
it, of `CleanupAlone` and `WriterSessionSafe`: without it TLC finds a cleanup next to a
reader, and a session with two owners).

In the setup: the check of `@Tasks.needs` (`task.py:232-242`) is never executed by
`Setup`, since the registry holds the function without it, and a missing input is a
`KeyError` in the task.  The tasks of IREE always return True, so every setup builds
and installs IREE again, while those of TVM and ETISS return nothing, so what depends
on them is not rebuilt.  An interrupted clone (`utils.py:388-391`) leaves a directory that
counts as complete until `--rebuild`; and if the pieces are not a repository, or git
has left an `index.lock`, `Repo(dest)`, `fetch` or `checkout` raise at every `--rebuild`, until
somebody removes the directory (hence `Stuck` in `RebuildRecovers`).  Ctrl-C in a tool counts as success (`utils.py:282`,
`310`): an interrupted `ninja install` ends as a complete installation, or as a name in `cache.ini`
without a directory, which only a later setup repairs.  `del context.cache._vars[key]` removes the plain name and
`del context.cache[...]` the tuple, never both.  `clean_dependencies` asks twice, so
that cache and directories may part.  With `iree.install_dir` set and the build directory
to be removed, `clean_iree` raises a `KeyError`, and so does `build_iree` for `cmake.exe`
(`iree.py:127`) where the tasks of cmake are rejected: in an environment with IREE alone, or
with `cmake.use_system` (hence the two exceptions of `InputsAreSet`).  `resolve_cmake_wrapper`
passes the cached cmake in the place of the user's (`utils.py:749`), so that one that does
not run is an error at every setup and never installed again (the other part of `Stuck`).
`resolve_required_config` tests `(key, flags + hints)` and reads `cache[key, flags]`
(`config.py:181`, `206`).  `download_boost` and `download_cmake_source` ignore `--rebuild`.

In the tuning: a worker may read the new `trials_single` with the old `early_stopping`,
and stop early without being marked so; with `early_stopping` 0 a worker is never told to
stop early, but it is marked as "Early Stopped" if it has lost records; an `early_stopping` that the user has given is
overwritten in automatic mode; an exception other than an assertion, or a worker without records
(a division by zero in line 396), loses the records of all workers; with `append`, old
records are repeated for every worker, and lost if all fail.

In `exec_timeout`: if the child dies without a result, `get` waits forever.

## Proofs

`RWFileLock_proofs`, for any finite or infinite sets of readers and writers and any
bounds: types, `ExclusiveUnlessTorn`, `Consistent`, `OnlyOwnEntry` and
`ImplementsRW`; where no process is killed, `Spec => RW!Spec` without an exception
(`WithoutKillsIsRW`).  Mutual exclusion alone is not inductive: that a granted
owner is safe rests on its entry in the file (`OwnersRecorded`), on the entry of a
writer being alone (`WriterEntryAlone`), and on the dictionary in memory being the
file as long as the FileLock is held (`InfoFresh`, `Rewriting`, `MutexOwner`,
`Busy`).  Their conjunction `Consistent` is inductive up to `torn`, and TLC checks it.

`Run_proofs`, for any set of stages: types for any number of
callers; `FailingStageOpen`, `ReportUpToDate` and `NoStageTwice` for callers that take turns
(`TakeTurns`: of any two, one has nothing left to do), of which a single caller is the
simplest case (two at a time break them, see the findings), and
runs whose model is a program only if they are neither tuned nor built (they have
no backend).  The strengthening says that what a call of `process` has left is not
completed yet (`TodoOpen`), because stages are completed in their order
(`CompletedInOrder`), and that a run inside a stage has neither a failing flag nor an
old report (`InStage`).

`Context_proofs`, for any number of readers and writers, whatever `Keep` and `MaxIdx`
are: types, `SymlinkIsFree`, `CleanupAlone` and `LockFilesOwned`, all with kills and
timeouts, and `WriterSessionSafe` where `cleanup_auto` is off.  `CleanupAlone` and
`WriterSessionSafe` hold until a kill has erased entries of others (`torn`): a kill that
empties a track file with the own entry alone, or with none, does no harm, and nor
does an entry that a timeout leaves behind.  The arguments are that
whoever is at work under the lock of the link owns it (`LinkOwner`); that a context in
its block has its entry in the track file, a writer the only one (`DepsHeld`,
`DepsExclusive`), and only writers clean up (`CleanersWrite`); that a session is open,
and locked, only in certain places of the program (`SessionPlaces`); that sessions
left to remove exist only during a cleanup (`TodoPlaces`); and that a process that ends
takes all this with it (`Ends`).  `WriterSessionSafe` follows
because no other context is in its block while a writer has a session locked
(`WriterAlone`), so none removes a directory or a lock file.

`SessionScheduler_proofs`, for any runs, stages, workers, batch sizes and executors: types,
`NoParallelProcessing`, `ResultsMatchRuns` and `FailuresCountedOnce`.  No two workers have the same run because
batches partition the runs (`order` is a permutation, `OneToOne`) and every batch is
either to be submitted, queued, with one worker, or finished (`Handed`).  A result belongs
to its run because what a worker has returned is still true when it is joined
(`Collected`), and what was joined stays true, as nobody touches the run again
(`Stored`).  With `per_stage` this needs that no worker raises, and that there is a round
at all (`Undisturbed`); without it the theorem is false, see above.  Under the same assumption
`num_failures` is at all times the number of runs whose failure, or loss, was joined (`Tally`): a
batch is left out of the later rounds as soon as it has failed, so that no run is
counted a second time (`Accounted`).  And until `process_runs` has returned somebody can
take a step (`SessionNeverStuck`): a future that is not joined has its batch in the queue,
with a worker, or completed (`Pending`), and a worker that has a batch can always go on.
`SomebodyCanStep` writes the guards of the actions out, since `ENABLED` is out of the
prover's reach.  This is the part of `ProcessRunsReturns` that is not liveness.

`SchedulerStages_proofs`, for sessions with `per_stage` whose workers do not raise outside
of the stage functions (`Separate`): `StageBarrier`, `FailedIsFinal`, `NothingTwice`,
`SummaryIsTrue` and, with batches of one run, the refinement of `SessionOutcome` up to its
fairness (`SessionKeepsPromise`).  The strengthening (`InStep`) gives every run its place
with respect to the current round: a run of a batch that is still to come has completed
exactly its stages of the earlier rounds (`Due`), one that is done also that of the round
unless it is failing (`Passed`), a worker is on the way from the one to the other (`Own`),
and batches with a failed run are left out.  All three conditions are needed.  Without
`per_stage` the second call of `process` clears `failing`: `SummaryIsTrue`,
`FailedIsFinal` and `NothingTwice` can be false (`masked`, `until_done`).  A worker that
raises leaves the rest of its batch one stage behind the round.  And with larger batches a
healthy run next to a failed one is skipped in all later rounds, so that it is neither
completed nor failed in the end.

`SchedulerRuns_proofs` first has the sessions without `per_stage`, with either executor.
Here the boundary is whether the postprocesses are a second call of `process`:

| theorem | property | holds, without `per_stage`, if |
|---|---|---|
| `OnePassExecutesOnce` | `NothingTwice` | not both calls postprocess (`PostOnce`: `until` is not `DONE`, or there are no postprocesses) |
| `OnePassFailedStaysFailed` | `FailedIsFinal` | there is no second call (`NoSecondCall`: runs have postprocesses only if `until` is `POSTPROCESS`) |
| `OnePassSummaryIsTrue` | `SummaryIsTrue` | there is no second call |
| `OnePassKeepsPromise` | `SessionOutcome` without its fairness | there is no second call, and no worker raises (`Harmless`) |

All but the last hold even if workers raise, and all for batches of any size.  The runs
`until_done` and `masked` show what happens on the other side of the first and the second
condition.  `Harmless` also excludes batches of more than one run where `Executors` has
`process_pool`, whose second run fails an assertion.  The strengthening (`Pass`) says
that a run is new until a worker comes to it (`Waiting`), that during the first call it has completed exactly what was
planned and is no longer left to do (`Working`, with `First` and `Second` for the two calls),
and that a run which a worker has left has failed or completed all it was asked for, up
to its result (`Behind`).

The second half is about single runs, with `per_stage` or without: `ImplementsRuns`, that
is, every run of a session is a `Run` whose callers are the workers (`RunsAreRuns`).  The
proof gives for each step of a worker the step of the run, `Process` and `ProcessPost` both
being calls of `process`, and shows that the steps of the main thread and of workers with
other runs change nothing of it.  A worker process builds its runs anew from the
initializers; that is no step of the run, because it is the first one that has them
(`Afresh`).  With that, the theorems of `Run_proofs` hold of each run of a session
(`Sole`, `RunsKeepPromises`): those that ask the callers to
take turns, too, because `NoParallelProcessing` is what makes the workers do so.

`TaskSetup_proofs`, for any numbers of revisions and faults and any user variables:
types, `InstalledIsCurrent`, `CacheNamesWhatIsThere`, `InputsAreSet` and
`RebuildRefreshes`.  The strengthening (`Progress`) says how far an installation is as a
function of the tasks left to run (`Cloned`, `Built`, `Placed`, `Cleaned`), for every
topological order.  The point is `InstallWorks`: an old installation, whole or not, is
never taken as it is, because the build has put its directory into `changed`.
`Supplied` relates the cache of an installation to the `cache.ini` it has found, for what no
task provides: `cmake.exe`, and the build directory beside a provided installation.
Ctrl-C needs no assumption, as the properties exempt the installation that was interrupted,
and `RebuildRefreshes` does not promise whole sources where broken ones were refreshed.

`Tuning_proofs`, for any number of tasks, workers and trials: types, `TrialsAgree`,
`EarlyIsTrue` and `NothingLost`.  `trials_single` only ever goes from the automatic value to the share
(`Settled`), so it is the same for all that have passed `Check`.  Where it was replaced,
`early_stopping` ends up at least as large and nobody is marked; where it was not, both
are still what every worker was given, if it was given a limit at all (`Limited`, `Judged`).  Records are joined only when
all workers have ended, in the order of the tasks, so that the tasks
joined so far are always the first ones (`Joined`).

Assumptions are those on the constants (`RWAssumption`, `RunAssumption`,
`SchedulerAssumption`, `ContextAssumption`, `SetupAssumption`, `TuningAssumption`), which TLC evaluates in every run.

Only model-checked: all liveness (`ExitUnlocks`, `CallsReturn`, `ProcessReturns`,
`ProcessRunsReturns`, `DepsReleased`, `RebuildRecovers`, and the fairness in
`ImplementsOutcome`), which TLAPS cannot prove.  Every invariant and every action property
of a passing run is a theorem.  `TimeoutIsTrue` is only refuted: that it holds for results
that fit into the pipe rests on the bounds of the model and says little more.

## Plan

1. Done: the lock, runs, the scheduler, contexts, the setup, tuning and timeouts, and
   proofs of the safety of all but the last.
2. Open: a measure that every step of a session decreases; with `SessionNeverStuck` it
   would leave only the fairness of the threads to liveness.
3. Open: the same two facts for installations and contexts, where faults and kills are
   bounded by the model only.
4. Open: the tasks of other frameworks in `TaskSetup`, whose constants would become the
   graph of tasks.

## Not modelled

The executors `cmdline` and `context` of the scheduler: their workers return lists of
None, and `_join_futures` rejects them with an assertion (`schedule.py:579`).  The
executor `rpc` and its client: `rpc.py` talks to a tracker and to servers that are not
in the repository, and what they do with a lost connection or a server that is never
freed is unknown; a model would be about an invented server.  Artifacts and their
contents, the progress bars, reports beyond their age, `Session.discard`, and the import
and export of sessions.  In the setup: the tasks of other frameworks (the same
operations with other directories), the two of cmake that serve `cmake.from_source`, a
source directory provided by the user, `paths.sh`.

Most of the repository by lines is outside of the models: example notebooks, wrappers of
compilers, simulators and build systems, conversions of models, transformations of data
frames, merging of dictionaries.  This code is sequential, keeps no state between
calls, and consists of command lines and formats; what matters of it here is that a
stage or task succeeds or fails, and that is what the models have.
