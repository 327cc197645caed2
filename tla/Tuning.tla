------------------------------- MODULE Tuning -------------------------------
(***************************************************************************)
(* The tune stage with TVM (mlonmcu/platform/tvm/tvm_tune_platform.py,     *)
(* _tune_model, for AutoTVM and AutoScheduler): the tasks of a model are   *)
(* tuned by a pool of threads, one call of do_work each, and the main      *)
(* thread then joins their records.  The threads share trials_single and   *)
(* early_stopping, which are nonlocal, without a lock.  Without workers,   *)
(* a single tvmc tunes all tasks.                                          *)
(*                                                                         *)
(* What a worker returns is the old records (with append) and the new ones *)
(* of its task: `content` is the sequence of the tasks whose records it    *)
(* has, Everything standing for those of the single tvmc.                  *)
(***************************************************************************)
EXTENDS Integers, Sequences, FiniteSets

CONSTANTS
  NumTasks,      \* tasks that tvmc lists
  Sizes,         \* the size of the configuration space of each
  MaxWorkers,    \* bound: the values of num_workers
  trials_global, \* autotuning_trials
  Singles,       \* values of autotuning_trials_single ...
  Stoppings,     \* ... and of autotuning_early_stopping, if there is one
  NotSet         \* None

Tasks == 1 .. NumTasks

ASSUME TuningAssumption ==
  /\ NumTasks \in Nat /\ MaxWorkers \in Nat /\ trials_global \in Nat
  /\ Sizes \in [Tasks -> Nat \ {0}]
  /\ Singles \subseteq Nat \cup {NotSet} /\ Stoppings \subseteq Nat \cup {NotSet}
  /\ NotSet \notin Nat

Greater(a, b) == IF a > b THEN a ELSE b
Less(a, b) == IF a < b THEN a ELSE b

Everything == 0

VARIABLES
  (* configuration *)
  num_workers,    \* 0 if it is None, too
  append,         \* there is a results file whose records are prepended
  asked,          \* autotuning_trials_single
  (* shared by the workers *)
  trials_single,
  early_stopping,
  (* of each worker *)
  at,             \* where it is
  given,          \* the arguments of its tvmc
  result,         \* the records that its tvmc has added, and how many of them failed
  (* of the main thread *)
  collected,      \* tasks whose worker has been looked at
  content,        \* all_content
  failed,         \* tasks with the metric "Failed Tuning"
  stopped,        \* tasks with "Early Stopped"
  outcome

config == <<num_workers, append, asked>>
shared == <<trials_single, early_stopping>>
workers == <<at, given, result>>
main == <<collected, content, failed, stopped, outcome>>
vars == <<config, shared, workers, main>>

(* Mutant: there is no default *)
NoDefault(trials) == NotSet

DefaultStopping(trials) == Greater(trials, 10)

Init ==
  /\ num_workers \in 0 .. MaxWorkers /\ append \in BOOLEAN
  /\ asked \in Singles /\ trials_single = asked
  /\ \E e \in Stoppings :
       early_stopping =
         IF e # NotSet THEN e
         ELSE DefaultStopping(IF asked # NotSet THEN asked ELSE trials_global)
  /\ at = [t \in Tasks |-> "waiting"]
  /\ given = [t \in Tasks |-> [trials |-> 0, early |-> NotSet]]
  /\ result = [t \in Tasks |-> [tuned |-> 0, bad |-> 0]]
  /\ collected = {} /\ content = <<>> /\ failed = {} /\ stopped = {}
  /\ outcome = "none"

Running == {t \in Tasks : at[t] \notin {"waiting", "tuned", "failed", "raised"}}

(* get_tune_tasks, which calls tvmc, may fail before there are any workers. *)
ListFails ==
  /\ outcome = "none" /\ num_workers > 0 /\ \A t \in Tasks : at[t] = "waiting"
  /\ outcome' = "aborted"
  /\ UNCHANGED <<config, shared, workers, collected, content, failed, stopped>>

(* A thread of the pool takes the next task. *)
Start(t) ==
  /\ outcome = "none"
  /\ at[t] = "waiting" /\ \A s \in 1 .. t - 1 : at[s] # "waiting"
  /\ Cardinality(Running) < num_workers
  /\ at' = [at EXCEPT ![t] = "started"]
  /\ UNCHANGED <<config, shared, given, result, main>>

Automatic(trials) == trials \in {0, NotSet}

Check(t) ==
  /\ at[t] = "started"
  /\ at' = [at EXCEPT ![t] = IF Automatic(trials_single) THEN "sharing" ELSE "ready"]
  /\ UNCHANGED <<config, shared, given, result, main>>

(* Mutant: what is shared out is what is left over by the last who did so, *)
(* as when trials_global was nonlocal, too                                 *)
ShareOfRest ==
  Greater(1, (IF Automatic(trials_single) THEN trials_global ELSE trials_single) \div NumTasks)

Share == Greater(1, trials_global \div NumTasks)

(* Two assignments: another worker may see the first without the second. *)
SetTrials(t) ==
  /\ at[t] = "sharing"
  /\ trials_single' = Share
  /\ at' = [at EXCEPT ![t] = "limiting"]
  /\ UNCHANGED <<config, early_stopping, given, result, main>>

SetStopping(t) ==
  /\ at[t] = "limiting"
  /\ early_stopping' = DefaultStopping(trials_single)
  /\ at' = [at EXCEPT ![t] = "ready"]
  /\ UNCHANGED <<config, trials_single, given, result, main>>

(* --early-stopping is an argument only if it is positive. *)
StoppingArgument == IF early_stopping > 0 THEN early_stopping ELSE NotSet

(* get_autotvm_tune_args, get_autoscheduler_tune_args *)
CallTvmc(t) ==
  /\ at[t] = "ready"
  /\ given' = [given EXCEPT ![t] = [trials |-> trials_single, early |-> StoppingArgument]]
  /\ at' = [at EXCEPT ![t] = "tuning"]
  /\ UNCHANGED <<config, shared, result, main>>

(* tvmc: as many trials as it may make, unless it was told to stop early and *)
(* does so, or writes no records at all                                      *)
NewRecords(t) ==
  LET most == Less(given[t].trials, Sizes[t])
  IN  {0, most} \cup {n \in 0 .. most : given[t].early # NotSet /\ n >= given[t].early}

Tuned(t) ==
  /\ at[t] = "tuning"
  /\ \E n \in NewRecords(t) : \E b \in {0, n} :
       result' = [result EXCEPT ![t] = [tuned |-> n, bad |-> b]]
  /\ at' = [at EXCEPT ![t] = "tuned"]
  /\ UNCHANGED <<config, shared, given, main>>

(* An assertion, as when tvmc exits with an error, or another exception *)
Raise(t) ==
  /\ at[t] = "tuning"
  /\ \E how \in {"failed", "raised"} : at' = [at EXCEPT ![t] = how]
  /\ UNCHANGED <<config, shared, given, result, main>>

(* Leaving the block of the executor waits for all workers. *)
AllDone ==
  /\ outcome = "none" /\ num_workers > 0
  /\ \A t \in Tasks : at[t] \in {"tuned", "failed", "raised"}

(* Mutant: in the order of completion *)
TurnOfAny(t) == t \notin collected

(* The workers are looked at in the order of their tasks. *)
Turn(t) == t \notin collected /\ 1 .. t - 1 \subseteq collected

(* The records in what a worker returns; there is at least one old record. *)
Records(t) == result[t].tuned + IF append THEN 1 ELSE 0

(* Mutant: early stopping was never asked for *)
StoppedEver(t) == Records(t) + result[t].bad < trials_single

Stopped(t) ==
  /\ early_stopping < trials_single
  /\ Records(t) + result[t].bad < Less(trials_single, Sizes[t])

CollectRecords(t) ==
  /\ AllDone /\ Turn(t) /\ at[t] = "tuned" /\ Records(t) > 0
  /\ collected' = collected \cup {t}
  /\ content' = Append(content, t)
  /\ stopped' = IF Stopped(t) THEN stopped \cup {t} ELSE stopped
  /\ UNCHANGED <<config, shared, workers, failed, outcome>>

(* except AssertionError *)
CollectFailure(t) ==
  /\ AllDone /\ Turn(t) /\ at[t] = "failed"
  /\ collected' = collected \cup {t}
  /\ failed' = failed \cup {t}
  /\ UNCHANGED <<config, shared, workers, content, stopped, outcome>>

(* Everything is lost: by another exception, or by "Tune Duration per Trial" *)
(* for a worker without records, a division by zero.                         *)
Abort(t) ==
  /\ AllDone /\ Turn(t)
  /\ at[t] = "raised" \/ (at[t] = "tuned" /\ Records(t) = 0)
  /\ outcome' = "aborted"
  /\ UNCHANGED <<config, shared, workers, collected, content, failed, stopped>>

(* Without workers *)
TuneAll ==
  /\ outcome = "none" /\ num_workers = 0 /\ content = <<>>
  /\ \/ content' = <<Everything>> /\ UNCHANGED outcome
     \/ outcome' = "aborted" /\ UNCHANGED content
  /\ UNCHANGED <<config, shared, workers, collected, failed, stopped>>

(* _pick_best, which calls tvm *)
PickBest ==
  /\ outcome = "none"
  /\ IF num_workers = 0 THEN content # <<>> ELSE collected = Tasks
  /\ outcome' \in {"done", "aborted"}
  /\ UNCHANGED <<config, shared, workers, collected, content, failed, stopped>>

Ended == outcome # "none" /\ UNCHANGED vars

Next ==
  \/ \E t \in Tasks :
       \/ Start(t) \/ Check(t) \/ SetTrials(t) \/ SetStopping(t) \/ CallTvmc(t)
       \/ Tuned(t) \/ Raise(t)
       \/ CollectRecords(t) \/ CollectFailure(t) \/ Abort(t)
  \/ ListFails \/ TuneAll \/ PickBest \/ Ended

Spec == Init /\ [][Next]_vars

-----------------------------------------------------------------------------

TypeOK ==
  /\ num_workers \in 0 .. MaxWorkers /\ append \in BOOLEAN
  /\ asked \in Nat \cup {NotSet}
  /\ trials_single \in Nat \cup {NotSet} /\ early_stopping \in Nat
  /\ at \in [Tasks -> {"waiting", "started", "sharing", "limiting", "ready", "tuning",
                       "tuned", "failed", "raised"}]
  /\ given \in [Tasks -> [trials : Nat, early : Nat \cup {NotSet}]]
  /\ result \in [Tasks -> [tuned : Nat, bad : Nat]]
  /\ collected \subseteq Tasks /\ failed \subseteq collected /\ stopped \subseteq collected
  /\ content \in Seq(Tasks \cup {Everything})
  /\ outcome \in {"none", "done", "aborted"}

Called == {t \in Tasks : at[t] \in {"tuning", "tuned", "failed", "raised"}}

(* All workers get the same number of trials, whichever of them have set     *)
(* trials_single before, and how often: no worker divides what another has   *)
(* already divided.  It is the number that was asked for, and the share if   *)
(* that is 0 ("auto").  What None should give is not said here, but in       *)
(* NoneIsNoLimit.                                                            *)
TrialsAgree ==
  /\ \A s, t \in Called : given[s].trials = given[t].trials
  /\ \A t \in Called :
       /\ asked \notin {0, NotSet} => given[t].trials = asked
       /\ asked = 0 => given[t].trials = Greater(1, trials_global \div NumTasks)

(* "None: do not limit per task" (tvm_tune_platform.py:336): without         *)
(* autotuning_trials_single a worker may make all the trials.                *)
NoneIsNoLimit ==
  asked = NotSet => \A t \in Called : given[t].trials >= trials_global

(* "Early Stopped", which the main thread decides by what trials_single and  *)
(* early_stopping are in the end, is only said of a worker that has made     *)
(* fewer trials than it had, and whose --early-stopping, if it got one, was  *)
(* less than its trials.  A worker that got none because early_stopping is 0 *)
(* is marked, too, if it has lost records.                                   *)
EarlyIsTrue ==
  \A t \in stopped :
    /\ given[t].early # NotSet => given[t].early < given[t].trials
    /\ result[t].tuned < Less(given[t].trials, Sizes[t])

Contents == {content[i] : i \in DOMAIN content}
InOrder == \A i, j \in DOMAIN content : i < j => content[i] < content[j]

(* If the tune stage comes to an end, it has the records of every worker     *)
(* that did not fail, in the order of the tasks whatever the order in which  *)
(* the workers ended, and has marked the others as failed: an assertion of   *)
(* one worker costs the records of its own task only.                        *)
NothingLost ==
  outcome = "done" /\ num_workers > 0 =>
    /\ Contents = {t \in Tasks : at[t] = "tuned"} /\ InOrder
    /\ failed = {t \in Tasks : at[t] = "failed"}
    /\ \A t \in Tasks : at[t] # "raised"
=============================================================================
