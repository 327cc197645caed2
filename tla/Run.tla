-------------------------------- MODULE Run --------------------------------
(***************************************************************************)
(* One Run object (mlonmcu/session/run.py) and the threads that call its   *)
(* process method.  A stage of a run (load, tune, build, ...) takes long   *)
(* and may fail at any time; the run is locked meanwhile.                  *)
(***************************************************************************)
EXTENDS RunStages

CONSTANTS
  Callers,      \* threads that call process
  Available,    \* optional stages of the run (has_stage)
  Program       \* the model of the run is a program and not a Model

ASSUME RunAssumption ==
  /\ Available \subseteq OptionalStages
  /\ Program \in BOOLEAN

VARIABLES
  run,          \* the Run object
  todo,         \* per caller: stages that its call of process has left
  stage         \* per caller: the stage function it is in, or NoStage

vars == <<run, todo, stage>>

Init ==
  /\ run = NewRun
  /\ todo = [c \in Callers |-> {}]
  /\ stage = [c \in Callers |-> NoStage]

(* process(until, start, skip): start is None, that is next_stage, or, in  *)
(* the second call of the executors, POSTPROCESS.                          *)
Process(c, until, skip) ==
  /\ todo[c] = {} /\ stage[c] = NoStage
  /\ \E start \in {NextStage(Available, run), POSTPROCESS} :
       todo' = [todo EXCEPT ![c] = Planned(Available, start, until, skip)]
  /\ UNCHANGED <<run, stage>>

Current(c) == Least(todo[c])

(* The stage function locks the run.  If it is locked already, the call of *)
(* process is over.                                                        *)
Enter(c) ==
  /\ todo[c] # {} /\ stage[c] = NoStage
  /\ run' = Entered(run, Current(c))
  /\ stage' = [stage EXCEPT ![c] = IF run.locked THEN NoStage ELSE Current(c)]
  /\ todo' = [todo EXCEPT ![c] = IF run.locked THEN {} ELSE @]

Leave(c) == stage' = [stage EXCEPT ![c] = NoStage]

Succeed(c) ==
  /\ stage[c] # NoStage
  /\ Ready(Available, Program, run, stage[c])
  /\ run' = Completed(run, stage[c])
  /\ todo' = [todo EXCEPT ![c] = @ \ {stage[c]}]
  /\ Leave(c)

(* Mutant: the loop does not break, the stage is tried again. *)
FailAndRetry(c) ==
  /\ stage[c] # NoStage
  /\ run' = Failed(run, stage[c])
  /\ UNCHANGED todo
  /\ Leave(c)

Fail(c) ==
  /\ stage[c] # NoStage
  /\ run' = Failed(run, stage[c])
  /\ todo' = [todo EXCEPT ![c] = {}]
  /\ Leave(c)

(* postprocess exports its artifacts once the stage is marked completed,   *)
(* so it may still fail then.                                              *)
FailCompleted(c) ==
  /\ stage[c] = POSTPROCESS
  /\ Ready(Available, Program, run, POSTPROCESS)
  /\ run' = Failed(Completed(run, POSTPROCESS), POSTPROCESS)
  /\ todo' = [todo EXCEPT ![c] = {}]
  /\ Leave(c)

Work(c) == Enter(c) \/ Succeed(c) \/ Fail(c) \/ FailCompleted(c)

Next ==
  \E c \in Callers :
    \/ \E until \in LOAD .. DONE, skip \in SUBSET OptionalStages : Process(c, until, skip)
    \/ Work(c)

Spec == Init /\ [][Next]_vars

(* A stage function returns or raises: what it starts has a timeout or an  *)
(* end of its own.                                                         *)
FairSpec == Spec /\ \A c \in Callers : WF_vars(Work(c))

-----------------------------------------------------------------------------
(* Properties. *)

(* The types of the Run object and of its callers. *)
TypeOK ==
  /\ run \in RunType
  /\ todo \in [Callers -> SUBSET Available]
  /\ stage \in [Callers -> OptionalStages \cup {NoStage}]

(* The failing flag names the stage to look at: that stage is still open   *)
(* (postprocess alone can fail once it is marked completed).               *)
FailingStageOpen ==
  run.failing => \/ run.failed_stage \in Available \ run.completed
                 \/ run.failed_stage = POSTPROCESS /\ POSTPROCESS \in Available

(* The report of a run is never older than its stages: a stage that runs   *)
(* after a postprocess makes the cached report invalid.                    *)
ReportUpToDate == run.completed \subseteq Report(run) \cup {POSTPROCESS}

(* A completed stage is never executed again by a later call of process;   *)
(* only postprocess is.                                                    *)
NoStageTwice ==
  [][\A c \in Callers :
       stage[c] = NoStage /\ stage'[c] # NoStage
         => stage'[c] \notin run.completed \/ stage'[c] = POSTPROCESS]_vars

(* A call of process comes to an end. *)
ProcessReturns == \A c \in Callers : todo[c] # {} ~> todo[c] = {}
=============================================================================
