-------------------------- MODULE SessionScheduler --------------------------
(***************************************************************************)
(* SessionScheduler (mlonmcu/session/schedule.py): the runs of a session   *)
(* are cut into batches, which the main thread submits to a pool of        *)
(* workers and whose results it collects in the order in which they are    *)
(* completed.  A worker takes the runs of a batch one after the other      *)
(* through the stages of Run.process.  With per_stage the main thread does *)
(* so for one stage after the other and waits for all batches in between.  *)
(* Modelled are the executors thread_pool, whose workers share the Run     *)
(* objects with the main thread, and process_pool, whose workers build     *)
(* them from initializers.                                                 *)
(***************************************************************************)
EXTENDS RunStages, FiniteSets

CONSTANTS
  NumRuns,      \* number of runs
  Workers,      \* the workers of the executor
  Available,    \* per run: its optional stages
  Programs,     \* the runs whose model is a program
  Executors,    \* the executors that a session may be given
  PerStage,     \* per_stage
  Until,        \* the last stage asked for
  BatchSize,    \* batch_size
  Shuffle,      \* shuffle
  MayRaise      \* may a worker raise outside of the stage functions?

Runs == 1 .. NumRuns

ASSUME SchedulerAssumption ==
  /\ NumRuns \in Nat \ {0}
  /\ Available \in [Runs -> SUBSET OptionalStages]
  /\ Programs \subseteq Runs
  /\ Executors \subseteq {"thread_pool", "process_pool"}
  /\ PerStage \in BOOLEAN
  /\ Until \in LOAD .. DONE
  /\ BatchSize \in Nat \ {0}
  /\ Shuffle \in BOOLEAN
  /\ MayRaise \in BOOLEAN
  /\ PerStage => Executors = {"thread_pool"}     \* asserted by _check

NoBatch == 0
NoResult == [failing |-> FALSE, failed_stage |-> NoStage, report |-> {}]

VARIABLES
  (* the main thread *)
  executor,       \* the executor that the session was given
  main,           \* where it is in process_runs
  order,          \* the runs in the order in which the batches are cut
  round,          \* position in the list of used stages
  nextBatch,      \* the batch to be submitted next
  futures,        \* batches submitted in this round and not joined yet
  results,        \* per run: its RunResult; NoResult is None
  num_failures,
  summary,        \* what print_summary has said
  (* the executor *)
  queued,         \* batches no worker has taken yet
  finished,       \* batches whose future has a result
  raised,         \* batches whose last future has an exception
  rets,           \* per run: the result in the list its worker returns
  (* the workers *)
  batch,          \* the batch a worker is processing
  pos,            \* the position in order of its current run
  phase,          \* where it is in _process_default or _process_pickable
  todo,           \* the stages the call of Run.process has left
  stage,          \* the stage function it is in
  (* the runs *)
  run

mainVars   == <<executor, main, order, round, nextBatch, futures, results, num_failures,
                summary>>
poolVars   == <<queued, finished, raised, rets>>
workerVars == <<batch, pos, phase, todo, stage>>
vars       == <<mainVars, poolVars, workerVars, run>>

-----------------------------------------------------------------------------
(* Batches: chunks(run_it, batch_size). *)

BatchOf(i) == ((i - 1) \div BatchSize) + 1
Batches == {BatchOf(i) : i \in Runs}
Positions(b) == {i \in Runs : BatchOf(i) = b}
RunsOf(b) == {order[i] : i \in Positions(b)}

(* used_stages: the range LOAD .. until, and POSTPROCESS (once more), each *)
(* if some run has the stage.  Rounds are the positions in that list.      *)
StageAt(k) == IF k <= Until THEN k ELSE POSTPROCESS
Rounds == {k \in 1 .. (Until + 1) : \E r \in Runs : StageAt(k) \in Available[r]}
UsedStages == {StageAt(k) : k \in Rounds}
IsLast(k) == StageAt(k) = StageAt(Greatest(Rounds))

RoundsAfter(k) == {j \in Rounds : k < j}

(* What submit_runs asks of the workers: until, skip and needs_post.       *)
WorkerUntil == IF PerStage THEN StageAt(round) ELSE Until

(* Mutant: postprocesses are not put off to the last stage. *)
SkippedUnusedOnly(r) ==
  IF executor = "process_pool"
    THEN RunStage \ {s \in Available[r] : s \in LOAD .. Until \/ s = POSTPROCESS}
    ELSE RunStage \ UsedStages

Skipped(r) ==
  IF executor = "process_pool"
    THEN RunStage \ {s \in Available[r] : s \in LOAD .. Until \/ s = POSTPROCESS}
    ELSE (RunStage \ UsedStages)
           \cup (IF PerStage /\ ~IsLast(round) THEN {POSTPROCESS} ELSE {})

(* Mutant: postprocesses are always done separately. *)
NeedsPostAlways(b, r) == POSTPROCESS \in Available[r] \ Skipped(r)

NeedsPost(b, r) ==
  /\ \E q \in (IF executor = "process_pool" THEN {r} ELSE RunsOf(b)) :
       POSTPROCESS \in Available[q]
  /\ POSTPROCESS \notin Skipped(r)
  /\ WorkerUntil # POSTPROCESS

-----------------------------------------------------------------------------
Init ==
  /\ executor \in Executors
  /\ main = IF Rounds = {} /\ PerStage THEN "joined" ELSE "submit"
  /\ order \in IF Shuffle THEN {p \in [Runs -> Runs] : \A r \in Runs : \E i \in Runs : p[i] = r}
                          ELSE {[i \in Runs |-> i]}
  /\ round = IF Rounds = {} THEN 0 ELSE Least(Rounds)
  /\ nextBatch = 1
  /\ futures = {}
  /\ results = [r \in Runs |-> NoResult]
  /\ num_failures = 0
  /\ summary = "none"
  /\ queued = {} /\ finished = {} /\ raised = {}
  /\ rets = [r \in Runs |-> NoResult]
  /\ batch = [w \in Workers |-> NoBatch]
  /\ pos = [w \in Workers |-> 0]
  /\ phase = [w \in Workers |-> "idle"]
  /\ todo = [w \in Workers |-> {}]
  /\ stage = [w \in Workers |-> NoStage]
  /\ run = [r \in Runs |-> NewRun]

-----------------------------------------------------------------------------
(* The main thread. *)

(* Mutants: batches with failed runs are submitted too; the last batch is  *)
(* never submitted.                                                        *)
SubmitFailedToo ==
  /\ main = "submit"
  /\ queued' = queued \cup {nextBatch}
  /\ futures' = futures \cup {nextBatch}
  /\ main' = IF nextBatch + 1 \in Batches THEN "submit" ELSE "join"
  /\ nextBatch' = nextBatch + 1
  /\ UNCHANGED <<executor, order, round, results, num_failures, summary, finished, raised, rets,
                 workerVars, run>>

SubmitAllButLast ==
  /\ main = "submit"
  /\ LET skip == \E r \in RunsOf(nextBatch) : run[r].failing
     IN  /\ queued' = IF skip THEN queued ELSE queued \cup {nextBatch}
         /\ futures' = IF skip THEN futures ELSE futures \cup {nextBatch}
  /\ main' = IF nextBatch + 2 \in Batches THEN "submit" ELSE "join"
  /\ nextBatch' = nextBatch + 1
  /\ UNCHANGED <<executor, order, round, results, num_failures, summary, finished, raised, rets,
                 workerVars, run>>

(* executor.submit_runs; with per_stage a batch is skipped if one of its   *)
(* runs has failed.                                                        *)
Submit ==
  /\ main = "submit"
  /\ LET b == nextBatch
         skip == PerStage /\ \E r \in RunsOf(b) : run[r].failing
     IN  /\ queued' = IF skip THEN queued ELSE queued \cup {b}
         /\ futures' = IF skip THEN futures ELSE futures \cup {b}
         /\ raised' = IF skip THEN raised ELSE raised \ {b}
         /\ main' = IF b + 1 \in Batches THEN "submit" ELSE "join"
         /\ nextBatch' = b + 1
  /\ UNCHANGED <<executor, order, round, results, num_failures, summary, finished, rets,
                 workerVars, run>>

(* Mutant: results are stored by position. *)
JoinByPosition(b) ==
  /\ main = "join" /\ b \in futures \cap finished
  /\ futures' = futures \ {b}
  /\ finished' = finished \ {b}
  /\ results' = [i \in Runs |-> IF i \in Positions(b) THEN rets[order[i]] ELSE results[i]]
  /\ num_failures' = num_failures + Cardinality({r \in RunsOf(b) : rets[r].failing})
  /\ UNCHANGED <<executor, main, order, round, nextBatch, summary, queued, raised, rets,
                 workerVars, run>>

(* _join_futures: the result of a batch ...                                *)
JoinResult(b) ==
  /\ main = "join" /\ b \in futures \cap finished
  /\ futures' = futures \ {b}
  /\ finished' = finished \ {b}
  /\ results' = [r \in Runs |-> IF r \in RunsOf(b) THEN rets[r] ELSE results[r]]
  /\ num_failures' = num_failures + Cardinality({r \in RunsOf(b) : rets[r].failing})
  /\ UNCHANGED <<executor, main, order, round, nextBatch, summary, queued, raised, rets,
                 workerVars, run>>

(* Mutant: an exception counts as one failure.                             *)
JoinExceptionOnce(b) ==
  /\ main = "join" /\ b \in futures \cap raised
  /\ futures' = futures \ {b}
  /\ num_failures' = num_failures + 1
  /\ UNCHANGED <<executor, main, order, round, nextBatch, results, summary, poolVars,
                 workerVars, run>>

(* ... or its exception, which counts as a failure of all of its runs.     *)
JoinException(b) ==
  /\ main = "join" /\ b \in futures \cap raised
  /\ futures' = futures \ {b}
  /\ num_failures' = num_failures + Cardinality(RunsOf(b))
  /\ UNCHANGED <<executor, main, order, round, nextBatch, results, summary, poolVars,
                 workerVars, run>>

(* Mutants: the futures are not waited for; the next stage is taken from   *)
(* RunStage and not from the used ones.                                    *)
EndRoundUnjoined ==
  /\ main = "join"
  /\ IF PerStage /\ RoundsAfter(round) # {}
       THEN /\ main' = "submit"
            /\ round' = Least(RoundsAfter(round))
            /\ nextBatch' = 1
       ELSE main' = "joined" /\ UNCHANGED <<round, nextBatch>>
  /\ UNCHANGED <<executor, order, futures, results, num_failures, summary, poolVars,
                 workerVars, run>>

EndRoundUnused ==
  /\ main = "join" /\ futures = {}
  /\ IF PerStage /\ RoundsAfter(round) # {}
       THEN main' = "submit" /\ round' = round + 1 /\ nextBatch' = 1
       ELSE main' = "joined" /\ UNCHANGED <<round, nextBatch>>
  /\ UNCHANGED <<executor, order, futures, results, num_failures, summary, poolVars,
                 workerVars, run>>

(* All futures are joined: the next stage, or the end of process.          *)
EndRound ==
  /\ main = "join" /\ futures = {}
  /\ IF PerStage /\ RoundsAfter(round) # {}
       THEN /\ main' = "submit"
            /\ round' = Least(RoundsAfter(round))
            /\ nextBatch' = 1
       ELSE main' = "joined" /\ UNCHANGED <<round, nextBatch>>
  /\ UNCHANGED <<executor, order, futures, results, num_failures, summary, poolVars,
                 workerVars, run>>

PrintSummary ==
  /\ main = "joined"
  /\ main' = "printed"
  /\ summary' = CASE num_failures = 0       -> "all completed"
                  [] num_failures = NumRuns -> "all failed"
                  [] OTHER                  -> "some completed"
  /\ UNCHANGED <<executor, order, round, nextBatch, futures, results, num_failures, poolVars,
                 workerVars, run>>

(* scheduler.postprocess: the first session postprocess that raises ends   *)
(* the loop and counts as one more failure; process_pool has none.         *)
PostprocessSession ==
  /\ main = "printed"
  /\ main' = "returned"
  /\ num_failures' \in IF executor = "thread_pool"
                         THEN {num_failures, num_failures + 1} ELSE {num_failures}
  /\ UNCHANGED <<executor, order, round, nextBatch, futures, results, summary, poolVars,
                 workerVars, run>>

(* process_runs has returned  num_failures == 0 .                          *)
Returned == main = "returned" /\ UNCHANGED vars

Main ==
  \/ Submit
  \/ \E b \in Batches : JoinResult(b) \/ JoinException(b)
  \/ EndRound
  \/ PrintSummary
  \/ PostprocessSession

-----------------------------------------------------------------------------
(* The workers. *)

CurrentRun(w) == order[pos[w]]

(* The executor hands the oldest submitted batch to an idle worker.        *)
Take(w) ==
  /\ phase[w] = "idle" /\ queued # {}
  /\ LET b == Least(queued)
     IN  /\ queued' = queued \ {b}
         /\ batch' = [batch EXCEPT ![w] = b]
         /\ pos' = [pos EXCEPT ![w] = Least(Positions(b))]
  /\ phase' = [phase EXCEPT ![w] = "next"]
  /\ UNCHANGED <<mainVars, finished, raised, rets, todo, stage, run>>

GoIdle(w) ==
  /\ batch' = [batch EXCEPT ![w] = NoBatch]
  /\ pos' = [pos EXCEPT ![w] = 0]
  /\ phase' = [phase EXCEPT ![w] = "idle"]

(* Mutant: the future never learns of the exception.                       *)
RaiseUnnoticed(w) == GoIdle(w) /\ UNCHANGED raised

(* An exception leaves _process_default: the results of the batch are lost *)
Raise(w) ==
  /\ raised' = raised \cup {batch[w]}
  /\ GoIdle(w)

(* The first call of Run.process.  In process_pool the run is built first, *)
(* and  assert skip is None  holds for the first run of the batch only.    *)
SecondOfPickable(w) == executor = "process_pool" /\ pos[w] # Least(Positions(batch[w]))

Process(w) ==
  /\ phase[w] = "next" /\ ~SecondOfPickable(w)
  /\ LET r == CurrentRun(w)
         fresh == IF executor = "process_pool" THEN NewRun ELSE run[r]
     IN  /\ run' = [run EXCEPT ![r] = fresh]
         /\ todo' = [todo EXCEPT ![w] = Planned(Available[r], NextStage(Available[r], fresh),
                                                WorkerUntil, Skipped(r))]
  /\ phase' = [phase EXCEPT ![w] = "process"]
  /\ UNCHANGED <<mainVars, poolVars, batch, pos, stage>>

AssertSkipNone(w) ==
  /\ phase[w] = "next" /\ SecondOfPickable(w)
  /\ Raise(w)
  /\ UNCHANGED <<mainVars, queued, finished, rets, todo, stage, run>>

Current(w) == Least(todo[w])

(* Mutant: the run is not locked. *)
EnterUnlocked(w) ==
  /\ todo[w] # {} /\ stage[w] = NoStage
  /\ run' = [run EXCEPT ![CurrentRun(w)] = Prepared(@, Current(w))]
  /\ stage' = [stage EXCEPT ![w] = Current(w)]
  /\ UNCHANGED <<mainVars, poolVars, batch, pos, phase, todo>>

Enter(w) ==
  /\ todo[w] # {} /\ stage[w] = NoStage
  /\ LET r == CurrentRun(w)
     IN  /\ run' = [run EXCEPT ![r] = Entered(@, Current(w))]
         /\ stage' = [stage EXCEPT ![w] = IF run[r].locked THEN NoStage ELSE Current(w)]
         /\ todo' = [todo EXCEPT ![w] = IF run[r].locked THEN {} ELSE @]
  /\ UNCHANGED <<mainVars, poolVars, batch, pos, phase>>

Leave(w) ==
  /\ stage' = [stage EXCEPT ![w] = NoStage]
  /\ UNCHANGED <<mainVars, poolVars, batch, pos, phase>>

StageReady(w, s) ==
  Ready(Available[CurrentRun(w)], CurrentRun(w) \in Programs, run[CurrentRun(w)], s)

Succeed(w) ==
  /\ stage[w] # NoStage /\ StageReady(w, stage[w])
  /\ run' = [run EXCEPT ![CurrentRun(w)] = Completed(@, stage[w])]
  /\ todo' = [todo EXCEPT ![w] = @ \ {stage[w]}]
  /\ Leave(w)

Fail(w) ==
  /\ stage[w] # NoStage
  /\ run' = [run EXCEPT ![CurrentRun(w)] = Failed(@, stage[w])]
  /\ todo' = [todo EXCEPT ![w] = {}]
  /\ Leave(w)

FailCompleted(w) ==
  /\ stage[w] = POSTPROCESS /\ StageReady(w, POSTPROCESS)
  /\ run' = [run EXCEPT ![CurrentRun(w)] = Failed(Completed(@, POSTPROCESS), POSTPROCESS)]
  /\ todo' = [todo EXCEPT ![w] = {}]
  /\ Leave(w)

ProcessEnded(w) == phase[w] \in {"process", "post"} /\ todo[w] = {} /\ stage[w] = NoStage

(* The second call of Run.process, for the postprocesses alone.            *)
ProcessPost(w) ==
  /\ ProcessEnded(w) /\ phase[w] = "process" /\ NeedsPost(batch[w], CurrentRun(w))
  /\ phase' = [phase EXCEPT ![w] = "post"]
  /\ todo' = [todo EXCEPT ![w] = Planned(Available[CurrentRun(w)], POSTPROCESS, POSTPROCESS,
                                         Skipped(CurrentRun(w)))]
  /\ UNCHANGED <<mainVars, poolVars, batch, pos, stage, run>>

(* run.result(), and the artifacts are saved: the next run, or the end.    *)
Collect(w) ==
  /\ ProcessEnded(w) /\ (phase[w] = "process" => ~NeedsPost(batch[w], CurrentRun(w)))
  /\ rets' = [rets EXCEPT ![CurrentRun(w)] = Result(run[CurrentRun(w)])]
  /\ IF pos[w] + 1 \in Positions(batch[w])
       THEN /\ pos' = [pos EXCEPT ![w] = @ + 1]
            /\ phase' = [phase EXCEPT ![w] = "next"]
            /\ UNCHANGED <<batch, finished>>
       ELSE /\ finished' = finished \cup {batch[w]}
            /\ GoIdle(w)
  /\ UNCHANGED <<mainVars, queued, raised, todo, stage, run>>

(* get_report, export, report.export or save_artifacts raises; or, before  *)
(* the first call, realize, init_directory or the save of the initializer. *)
RaiseOutside(w) ==
  /\ MayRaise
  /\ ProcessEnded(w) \/ (phase[w] = "next" /\ executor = "process_pool")
  /\ Raise(w)
  /\ UNCHANGED <<mainVars, queued, finished, rets, todo, stage, run>>

Worker(w) ==
  \/ Take(w) \/ Process(w) \/ AssertSkipNone(w)
  \/ Enter(w) \/ Succeed(w) \/ Fail(w) \/ FailCompleted(w)
  \/ ProcessPost(w) \/ Collect(w) \/ RaiseOutside(w)

Next == Main \/ Returned \/ \E w \in Workers : Worker(w)

Spec == Init /\ [][Next]_vars

(* The main thread and every worker thread keep running; a stage function  *)
(* returns or raises.                                                      *)
FairSpec == Spec /\ WF_vars(Main) /\ \A w \in Workers : WF_vars(Worker(w))

-----------------------------------------------------------------------------
(* Properties. *)

(* The types of what the main thread, the executor and the workers keep.   *)
TypeOK ==
  /\ executor \in Executors
  /\ main \in {"submit", "join", "joined", "printed", "returned"}
  /\ order \in [Runs -> Runs]
  /\ round \in Rounds \cup {0}
  /\ nextBatch \in Nat
  /\ futures \in SUBSET Batches
  /\ results \in [Runs -> ResultType]
  /\ num_failures \in Nat
  /\ summary \in {"none", "all completed", "all failed", "some completed"}
  /\ queued \in SUBSET Batches /\ finished \in SUBSET Batches /\ raised \in SUBSET Batches
  /\ rets \in [Runs -> ResultType]
  /\ batch \in [Workers -> Batches \cup {NoBatch}]
  /\ pos \in [Workers -> Runs \cup {0}]
  /\ phase \in [Workers -> {"idle", "next", "process", "post"}]
  /\ todo \in [Workers -> SUBSET OptionalStages]
  /\ stage \in [Workers -> OptionalStages \cup {NoStage}]
  /\ run \in [Runs -> RunType]

(* No two workers ever have the same run, so that lock() never raises      *)
(* "Parallel processing of the same run is not allowed": not within a      *)
(* round, and not between two rounds either.                               *)
NoParallelProcessing ==
  \A v, w \in Workers :
    phase[v] # "idle" /\ phase[w] # "idle" /\ v # w => CurrentRun(v) # CurrentRun(w)

(* per_stage is a barrier: all stage functions that run at the same time   *)
(* belong to the stage of the round, whatever has failed before.           *)
StageBarrier ==
  PerStage => \A w \in Workers : stage[w] # NoStage => stage[w] = StageAt(round)

(* The results that process returns are those of the runs, each at the     *)
(* index of its run, in whatever order batches are shuffled and completed; *)
(* only a worker that raises loses results, and no others than those of    *)
(* its batch.                                                              *)
ResultsMatchRuns ==
  main \notin {"submit", "join"} =>
    \A r \in Runs : results[r] = IF \E b \in raised : r \in RunsOf(b)
                                  THEN NoResult ELSE Result(run[r])

(* Every run that has failed, or whose result is lost, is counted once,    *)
(* and nothing else is: not once per stage, and no other run of the batch. *)
FailuresCountedOnce ==
  main = "joined" =>
    num_failures = Cardinality({r \in Runs : results[r].failing \/ results[r] = NoResult})

(* The stages that until asks of a run; postprocesses are always wanted.   *)
Wanted(r) == {s \in Available[r] : s <= Until \/ s = POSTPROCESS}

(* "All runs completed successfuly!" (print_summary) is only said if every *)
(* run has completed every stage it was asked for.                         *)
SummaryIsTrue ==
  summary = "all completed" =>
    \A r \in Runs : ~run[r].failing /\ Wanted(r) \subseteq run[r].completed

(* A run that has failed is left alone: its verdict is final.              *)
FailedIsFinal == [][\A r \in Runs : run[r].failing => run'[r] = run[r]]_vars

(* No stage of a run is executed again once it is completed, not even      *)
(* postprocess, whose second execution would find nothing left to do.      *)
NothingTwice ==
  [][\A w \in Workers :
       stage[w] = NoStage /\ stage'[w] # NoStage
         => stage'[w] \notin run[CurrentRun(w)].completed]_vars

(* process_runs returns: no future is waited for that nobody completes.    *)
ProcessRunsReturns == <>(main = "returned")

-----------------------------------------------------------------------------
(* The promise of process_runs. *)

Outcome == INSTANCE SessionOutcome WITH
  verdict <- [r \in Runs |->
                IF run[r].failing THEN "failed"
                ELSE IF Wanted(r) \subseteq run[r].completed THEN "completed" ELSE "open"],
  outcome <- CASE summary = "none"          -> "none"
               [] summary = "all completed" -> "success"
               [] OTHER                     -> "failure"

ImplementsOutcome == Outcome!FairSpec

(* Every run of the session behaves like a single run whose callers are    *)
(* the workers.                                                            *)
SingleRun(r) == INSTANCE Run WITH
  Callers <- Workers,
  Available <- Available[r],
  Program <- r \in Programs,
  run <- run[r],
  todo <- [w \in Workers |-> IF pos[w] # 0 /\ CurrentRun(w) = r THEN todo[w] ELSE {}],
  stage <- [w \in Workers |-> IF pos[w] # 0 /\ CurrentRun(w) = r THEN stage[w] ELSE NoStage]

ImplementsRuns ==
  /\ \A r \in Runs : SingleRun(r)!Init
  /\ [][\A r \in Runs : SingleRun(r)!Next \/ UNCHANGED SingleRun(r)!vars]_vars
=============================================================================
