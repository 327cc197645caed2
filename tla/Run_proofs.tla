----------------------------- MODULE Run_proofs -----------------------------
(***************************************************************************)
(* Theorems about a Run object, for every set of stages and every set of   *)
(* callers.  What a retry after a failure may do is proved for callers     *)
(* that take turns (TakeTurns), like a single one (OneCaller), and for     *)
(* programs that are neither tuned nor built (ProgramsNotBuilt).           *)
(***************************************************************************)
EXTENDS Run, TLAPS

USE DEF NOP, LOAD, TUNE, BUILD, COMPILE, RUN, POSTPROCESS, DONE, NoStage

-----------------------------------------------------------------------------
(* Lemmas about the operators of RunStages. *)

(* A non-empty set of stages has a least member. *)
LEMMA LeastStage ==
  ASSUME NEW S \in SUBSET RunStage, S # {}
  PROVE  Least(S) \in S /\ \A t \in S : Least(S) <= t
<1>1. \E s \in S : \A t \in S : s <= t
  <2> SUFFICES ASSUME \A s \in S : \E t \in S : ~(s <= t)
               PROVE  FALSE
    OBVIOUS
  <2>1. S \subseteq 0 .. 7
    BY DEF RunStage
  <2>2. 0 \notin S
    BY <2>1
  <2>3. 1 \notin S
    BY <2>1, <2>2
  <2>4. 2 \notin S /\ 3 \notin S
    BY <2>1, <2>2, <2>3
  <2>5. 4 \notin S /\ 5 \notin S
    BY <2>1, <2>2, <2>3, <2>4
  <2>6. 6 \notin S /\ 7 \notin S
    BY <2>1, <2>2, <2>3, <2>4, <2>5
  <2>7. PICK s \in S : s \in 0 .. 7
    BY <2>1
  <2>8. s \in {0, 1, 2, 3, 4, 5, 6, 7}
    BY <2>7
  <2> QED
    BY <2>2, <2>3, <2>4, <2>5, <2>6, <2>8
<1> QED
  BY <1>1 DEF Least

(* process() executes only stages that the run has. *)
LEMMA PlannedAvailable ==
  ASSUME NEW start, NEW until, NEW skip
  PROVE  Planned(Available, start, until, skip) \subseteq Available
  BY DEF Planned

(* next_stage is DONE, or a stage of the run that is not completed.        *)
LEMMA NextStageIncomplete ==
  ASSUME run \in RunType, NOP \in run.completed
  PROVE  \/ NextStage(Available, run) = DONE
         \/ /\ NextStage(Available, run) \in Available \ run.completed
            /\ NextStage(Available, run) \in OptionalStages
<1> DEFINE I == Incomplete(Available, run)
<1>1. I \in SUBSET RunStage /\ I \subseteq Available \ run.completed
  BY RunAssumption DEF Incomplete, HasStage
<1>2. CASE I = {}
  BY <1>2 DEF NextStage
<1>3. CASE I # {}
  <2>1. Least(I) \in I
    BY <1>1, <1>3, LeastStage
  <2> QED
    BY <1>1, <1>3, <2>1, RunAssumption DEF NextStage
<1> QED
  BY <1>2, <1>3

-----------------------------------------------------------------------------
(* Types. *)

LEMMA TypeInit == Init => TypeOK
  BY DEF Init, TypeOK, NewRun, RunType, RunStage, OptionalStages

LEMMA TypeStep == TypeOK /\ [Next]_vars => TypeOK'
<1> SUFFICES ASSUME TypeOK, [Next]_vars
             PROVE  TypeOK'
  OBVIOUS
<1> USE DEF TypeOK
<1>1. ASSUME NEW c \in Callers, NEW until \in LOAD .. DONE, NEW skip \in SUBSET OptionalStages,
             Process(c, until, skip)
      PROVE  TypeOK'
  BY <1>1, PlannedAvailable DEF Process
<1>2. ASSUME NEW c \in Callers, Enter(c)
      PROVE  TypeOK'
  <2>0. todo[c] # {} /\ todo[c] \subseteq OptionalStages
    BY <1>2, RunAssumption DEF Enter
  <2>1. todo[c] \in SUBSET RunStage /\ todo[c] # {}
    BY <2>0 DEF OptionalStages, RunStage
  <2>2. Current(c) \in todo[c]
    BY <2>1, LeastStage DEF Current
  <2>3. Current(c) \in OptionalStages /\ Current(c) \in RunStage
    BY <2>0, <2>1, <2>2
  <2>4. Entered(run, Current(c)) \in RunType
    BY <2>3 DEF Entered, Prepared, Failed, RunType
  <2> QED
    BY <1>2, <2>3, <2>4 DEF Enter
<1>3. ASSUME NEW c \in Callers, Succeed(c)
      PROVE  TypeOK'
  <2>1. stage[c] \in RunStage
    BY <1>3 DEF Succeed, OptionalStages, RunStage
  <2>2. Completed(run, stage[c]) \in RunType
    BY <2>1 DEF Completed, Report, RunType
  <2> QED
    BY <1>3, <2>2 DEF Succeed, Leave
<1>4. ASSUME NEW c \in Callers, Fail(c)
      PROVE  TypeOK'
  <2>1. stage[c] \in RunStage
    BY <1>4 DEF Fail, OptionalStages, RunStage
  <2>2. Failed(run, stage[c]) \in RunType
    BY <2>1 DEF Failed, RunType
  <2> QED
    BY <1>4, <2>2 DEF Fail, Leave
<1>5. ASSUME NEW c \in Callers, FailCompleted(c)
      PROVE  TypeOK'
  <2>1. POSTPROCESS \in RunStage
    BY DEF RunStage
  <2>2. Completed(run, POSTPROCESS) \in RunType
    BY <2>1 DEF Completed, Report, RunType
  <2>3. Failed(Completed(run, POSTPROCESS), POSTPROCESS) \in RunType
    BY <2>1, <2>2 DEF Failed, RunType
  <2> QED
    BY <1>5, <2>3 DEF FailCompleted, Leave
<1>6. CASE UNCHANGED vars
  BY <1>6 DEF vars
<1> QED
  BY <1>1, <1>2, <1>3, <1>4, <1>5, <1>6 DEF Next, Work

(* The Run object and its callers keep their types.                        *)
THEOREM TypeCorrect == Spec => []TypeOK
  BY TypeInit, TypeStep, PTL DEF Spec

-----------------------------------------------------------------------------
(* Completed stages. *)

(* What Ready has asked of a stage stays completed. *)
BuiltOnCompleted ==
  \A s \in run.completed : Requires(Available, Program, s) \subseteq run.completed

Grounded == NOP \in run.completed /\ BuiltOnCompleted

LEMMA GroundedStep == TypeOK /\ Grounded /\ [Next]_vars => Grounded'
<1> SUFFICES ASSUME TypeOK, Grounded, [Next]_vars
             PROVE  Grounded'
  OBVIOUS
<1> USE DEF TypeOK, Grounded, BuiltOnCompleted
<1>0. ASSUME run'.completed = run.completed
      PROVE  Grounded'
  BY <1>0
<1>1. ASSUME NEW c \in Callers, Enter(c)
      PROVE  run'.completed = run.completed
  BY <1>1 DEF Enter, Entered, Prepared, Failed, RunType
<1>2. ASSUME NEW c \in Callers, Fail(c)
      PROVE  run'.completed = run.completed
  BY <1>2 DEF Fail, Failed, RunType
<1>3. ASSUME NEW c \in Callers, Succeed(c)
      PROVE  Grounded'
  <2>1. run'.completed = run.completed \cup {stage[c]}
    BY <1>3 DEF Succeed, Completed, RunType
  <2>2. Requires(Available, Program, stage[c]) \subseteq run.completed
    BY <1>3 DEF Succeed, Ready
  <2> QED
    BY <2>1, <2>2
<1>4. ASSUME NEW c \in Callers, FailCompleted(c)
      PROVE  Grounded'
  <2>1. run'.completed = run.completed \cup {POSTPROCESS}
    BY <1>4 DEF FailCompleted, Failed, Completed, RunType
  <2>2. Requires(Available, Program, POSTPROCESS) \subseteq run.completed
    BY <1>4 DEF FailCompleted, Ready
  <2> QED
    BY <2>1, <2>2
<1>5. ASSUME NEW c \in Callers, NEW until \in LOAD .. DONE, NEW skip \in SUBSET OptionalStages,
             Process(c, until, skip)
      PROVE  run'.completed = run.completed
  BY <1>5 DEF Process
<1>6. CASE UNCHANGED vars
  BY <1>6 DEF vars
<1> QED
  BY <1>0, <1>1, <1>2, <1>3, <1>4, <1>5, <1>6 DEF Next, Work

LEMMA GroundedInit == Init => Grounded
  BY DEF Init, NewRun, Grounded, BuiltOnCompleted, Requires

LEMMA GroundedAlways == Spec => [](TypeOK /\ Grounded)
<1>1. Init => TypeOK /\ Grounded
  BY TypeInit, GroundedInit
<1>2. TypeOK /\ Grounded /\ [Next]_vars => (TypeOK /\ Grounded)'
  BY TypeStep, GroundedStep
<1> QED
  BY <1>1, <1>2, PTL DEF Spec

-----------------------------------------------------------------------------
(* Callers that take turns. *)

OneCaller == \A c, d \in Callers : c = d
TakeTurns == \A c, d \in Callers : c # d => todo[c] = {} \/ todo[d] = {}
ProgramsNotBuilt == Program => TUNE \notin Available /\ BUILD \notin Available

(* The requirements form a chain: the stages of a run are completed in     *)
(* their order.                                                            *)
LEMMA CompletedInOrder ==
  ASSUME ProgramsNotBuilt, BuiltOnCompleted,
         NEW s \in run.completed, s \in LOAD .. RUN,
         NEW n \in Available, n \in LOAD .. RUN, n < s
  PROVE  n \in run.completed
<1>1. TUNE \in run.completed => LOAD \in run.completed
  BY DEF BuiltOnCompleted, Requires
<1>2. BUILD \in run.completed =>
        LOAD \in run.completed /\ (TUNE \in Available => TUNE \in run.completed)
  BY <1>1 DEF BuiltOnCompleted, Requires
<1>3. COMPILE \in run.completed =>
        IF Program THEN LOAD \in run.completed ELSE BUILD \in run.completed
  BY DEF BuiltOnCompleted, Requires
<1>4. RUN \in run.completed =>
        IF COMPILE \in Available THEN COMPILE \in run.completed ELSE BUILD \in run.completed
  BY DEF BuiltOnCompleted, Requires
<1>5. s \in {LOAD, TUNE, BUILD, COMPILE, RUN} /\ n \in {LOAD, TUNE, BUILD, COMPILE, RUN}
  OBVIOUS
<1>6. n = RUN => FALSE
  BY <1>5
<1> QED
  BY <1>1, <1>2, <1>3, <1>4, <1>5, <1>6 DEF ProgramsNotBuilt

(* What the caller has left is not completed yet, except for postprocess,  *)
(* and while it is in a stage the run is not failing and has no old report.*)
TodoOpen == \A c \in Callers : todo[c] \cap run.completed \subseteq {POSTPROCESS}

InStage ==
  \A c \in Callers : stage[c] # NoStage =>
    /\ stage[c] \in todo[c]
    /\ ~run.failing
    /\ stage[c] # POSTPROCESS => run.report = {}

Retriable == TodoOpen /\ InStage /\ FailingStageOpen /\ ReportUpToDate

LEMMA PlannedOpen ==
  ASSUME TypeOK, Grounded, ProgramsNotBuilt, NEW until, NEW skip,
         NEW start \in {NextStage(Available, run), POSTPROCESS}
  PROVE  Planned(Available, start, until, skip) \cap run.completed \subseteq {POSTPROCESS}
<1> SUFFICES ASSUME NEW s \in Planned(Available, start, until, skip), s \in run.completed,
                    s # POSTPROCESS
             PROVE  FALSE
  OBVIOUS
<1>1. s \in Available /\ s \in LOAD .. POSTPROCESS
  BY PlannedAvailable, RunAssumption DEF OptionalStages
<1>2. CASE start = POSTPROCESS
  BY <1>1, <1>2 DEF Planned
<1>3. CASE start = DONE
  BY <1>1, <1>3 DEF Planned
<1>4. CASE start \in Available \ run.completed /\ start \in OptionalStages
  <2>1. start \in LOAD .. POSTPROCESS /\ start <= s
    BY <1>1, <1>4 DEF Planned, OptionalStages
  <2>2. start < s /\ s \in LOAD .. RUN /\ start \in LOAD .. RUN
    BY <1>1, <1>4, <2>1
  <2> QED
    BY <1>4, <2>2, CompletedInOrder DEF Grounded
<1> QED
  BY <1>2, <1>3, <1>4, NextStageIncomplete DEF TypeOK, Grounded

LEMMA RetriableInit == Init => Retriable
  BY DEF Init, NewRun, Retriable, TodoOpen, InStage, FailingStageOpen, ReportUpToDate, Report

LEMMA CurrentOpen ==
  ASSUME TypeOK, TodoOpen, NEW c \in Callers, todo[c] # {}
  PROVE  /\ Current(c) \in todo[c]
         /\ Current(c) \in Available
         /\ Current(c) \in OptionalStages
         /\ Current(c) \notin run.completed \/ Current(c) = POSTPROCESS
<1>1. todo[c] \subseteq Available /\ todo[c] \subseteq OptionalStages
  BY RunAssumption DEF TypeOK
<1>2. todo[c] \in SUBSET RunStage
  BY <1>1 DEF OptionalStages, RunStage
<1> QED
  BY <1>1, <1>2, LeastStage DEF Current, TodoOpen

LEMMA RetriableStep ==
  ASSUME TakeTurns, ProgramsNotBuilt, TypeOK, Grounded, Retriable, [Next]_vars
  PROVE  Retriable'
<1> USE DEF TypeOK, Retriable
<1>0. ASSUME NEW c \in Callers, todo[c] # {}, NEW d \in Callers, d # c
      PROVE  todo[d] = {} /\ stage[d] = NoStage
  BY <1>0 DEF TakeTurns, InStage
<1>1. ASSUME NEW c \in Callers, NEW until \in LOAD .. DONE, NEW skip \in SUBSET OptionalStages,
             Process(c, until, skip)
      PROVE  Retriable'
  <2>1. PICK start \in {NextStage(Available, run), POSTPROCESS} :
          todo' = [todo EXCEPT ![c] = Planned(Available, start, until, skip)]
    BY <1>1 DEF Process
  <2>2. run' = run /\ stage' = stage /\ stage[c] = NoStage
    BY <1>1 DEF Process
  <2>3. TodoOpen'
    BY <2>1, <2>2, PlannedOpen DEF TodoOpen
  <2>4. InStage'
    BY <2>1, <2>2 DEF InStage
  <2> QED
    BY <2>2, <2>3, <2>4 DEF FailingStageOpen, ReportUpToDate
<1>2. ASSUME NEW c \in Callers, Enter(c)
      PROVE  Retriable'
  <2>1. todo[c] # {} /\ stage[c] = NoStage
    BY <1>2 DEF Enter
  <2> DEFINE s == Current(c)
  <2>2. /\ s \in todo[c] /\ s \in Available /\ s \in OptionalStages
        /\ s \notin run.completed \/ s = POSTPROCESS
    BY <2>1, CurrentOpen
  <2>3. \A d \in Callers \ {c} : todo[d] = {} /\ stage[d] = NoStage
    BY <1>0, <2>1
  <2> HIDE DEF s
  <2>4. run' = Entered(run, s)
    BY <1>2 DEF Enter, s
  <2>5. run'.completed = run.completed
    BY <2>4 DEF Entered, Prepared, Failed, RunType
  <2>6. run'.report = IF s < POSTPROCESS THEN {} ELSE run.report
    BY <2>4 DEF Entered, Prepared, Failed, RunType
  <2>7. s \in 1 .. 6
    BY <2>2 DEF OptionalStages
  <2>8. ReportUpToDate'
    BY <2>5, <2>6 DEF ReportUpToDate, Report
  <2>9. CASE run.locked
    <3>1. todo' = [todo EXCEPT ![c] = {}] /\ stage' = [stage EXCEPT ![c] = NoStage]
      BY <1>2, <2>9 DEF Enter
    <3>2. run'.failed_stage = s
      BY <2>4, <2>9 DEF Entered, Prepared, Failed, RunType
    <3>3. TodoOpen' /\ InStage'
      BY <2>3, <3>1 DEF TodoOpen, InStage
    <3>4. FailingStageOpen'
      BY <2>2, <2>5, <3>2 DEF FailingStageOpen
    <3> QED
      BY <2>8, <3>3, <3>4
  <2>10. CASE ~run.locked
    <3>1. todo' = todo /\ stage' = [stage EXCEPT ![c] = s]
      BY <1>2, <2>10 DEF Enter, s
    <3>2. run'.failing = FALSE
      BY <2>4, <2>10 DEF Entered, Prepared, Failed, RunType
    <3>3. TodoOpen'
      BY <2>5, <3>1 DEF TodoOpen
    <3>4. stage'[c] = s /\ (s # POSTPROCESS => run'.report = {})
      BY <2>6, <2>7, <3>1
    <3>5. InStage'
      BY <2>2, <2>3, <3>1, <3>2, <3>4 DEF InStage
    <3>6. FailingStageOpen'
      BY <3>2 DEF FailingStageOpen
    <3> QED
      BY <2>8, <3>3, <3>5, <3>6
  <2> QED
    BY <2>9, <2>10
<1>3. ASSUME NEW c \in Callers, Succeed(c)
      PROVE  Retriable'
  <2>1. \A d \in Callers \ {c} : todo[d] = {} /\ stage[d] = NoStage
    BY <1>0, <1>3 DEF Succeed, InStage
  <2>2. stage[c] # NoStage /\ ~run.failing /\ (stage[c] # POSTPROCESS => run.report = {})
    BY <1>3 DEF Succeed, InStage
  <2>3. run' = Completed(run, stage[c]) /\ todo' = [todo EXCEPT ![c] = @ \ {stage[c]}]
    BY <1>3 DEF Succeed
  <2>4. stage' = [stage EXCEPT ![c] = NoStage]
    BY <1>3 DEF Succeed, Leave
  <2>5. /\ run'.completed = run.completed \cup {stage[c]}
        /\ run'.failing = run.failing
        /\ run'.report = IF stage[c] = POSTPROCESS THEN Report(run) ELSE run.report
    BY <2>3 DEF Completed, RunType
  <2>6. TodoOpen' /\ InStage'
    BY <2>1, <2>3, <2>4, <2>5 DEF TodoOpen, InStage
  <2>7. FailingStageOpen'
    BY <2>2, <2>5 DEF FailingStageOpen
  <2>8. ReportUpToDate'
    BY <2>2, <2>5 DEF ReportUpToDate, Report
  <2> QED
    BY <2>6, <2>7, <2>8
<1>4. ASSUME NEW c \in Callers, Fail(c)
      PROVE  Retriable'
  <2>1. \A d \in Callers \ {c} : todo[d] = {} /\ stage[d] = NoStage
    BY <1>0, <1>4 DEF Fail, InStage
  <2>2. /\ stage[c] \in Available
        /\ stage[c] \notin run.completed \/ stage[c] = POSTPROCESS
    BY <1>4 DEF Fail, InStage, TodoOpen
  <2>3. run' = Failed(run, stage[c]) /\ todo' = [todo EXCEPT ![c] = {}]
    BY <1>4 DEF Fail
  <2>4. stage' = [stage EXCEPT ![c] = NoStage]
    BY <1>4 DEF Fail, Leave
  <2>5. /\ run'.completed = run.completed
        /\ run'.failed_stage = stage[c]
        /\ run'.report = run.report
    BY <2>3 DEF Failed, RunType
  <2>6. TodoOpen' /\ InStage'
    BY <2>1, <2>3, <2>4 DEF TodoOpen, InStage
  <2>7. FailingStageOpen'
    BY <2>2, <2>5 DEF FailingStageOpen
  <2>8. ReportUpToDate'
    BY <2>5 DEF ReportUpToDate, Report
  <2> QED
    BY <2>6, <2>7, <2>8
<1>5. ASSUME NEW c \in Callers, FailCompleted(c)
      PROVE  Retriable'
  <2>1. \A d \in Callers \ {c} : todo[d] = {} /\ stage[d] = NoStage
    BY <1>0, <1>5 DEF FailCompleted, InStage
  <2>2. POSTPROCESS \in Available
    BY <1>5 DEF FailCompleted, InStage
  <2>3. /\ run' = Failed(Completed(run, POSTPROCESS), POSTPROCESS)
        /\ todo' = [todo EXCEPT ![c] = {}]
    BY <1>5 DEF FailCompleted
  <2>4. stage' = [stage EXCEPT ![c] = NoStage]
    BY <1>5 DEF FailCompleted, Leave
  <2>5. /\ run'.completed = run.completed \cup {POSTPROCESS}
        /\ run'.failed_stage = POSTPROCESS
        /\ run'.report = Report(run)
    BY <2>3 DEF Failed, Completed, RunType
  <2>6. TodoOpen' /\ InStage'
    BY <2>1, <2>3, <2>4 DEF TodoOpen, InStage
  <2>7. FailingStageOpen'
    BY <2>2, <2>5 DEF FailingStageOpen
  <2>8. ReportUpToDate'
    BY <2>5 DEF ReportUpToDate, Report
  <2> QED
    BY <2>6, <2>7, <2>8
<1>6. CASE UNCHANGED vars
  BY <1>6 DEF vars, TodoOpen, InStage, FailingStageOpen, ReportUpToDate
<1> QED
  BY <1>1, <1>2, <1>3, <1>4, <1>5, <1>6 DEF Next, Work

LEMMA RetriableAlways ==
  ASSUME ProgramsNotBuilt
  PROVE  Spec /\ []TakeTurns => [](TypeOK /\ Grounded /\ Retriable)
<1>1. Init => TypeOK /\ Grounded /\ Retriable
  BY TypeInit, GroundedInit, RetriableInit
<1>2. TakeTurns /\ TypeOK /\ Grounded /\ Retriable /\ [Next]_vars
        => (TypeOK /\ Grounded /\ Retriable)'
  BY TypeStep, GroundedStep, RetriableStep
<1> QED
  BY <1>1, <1>2, PTL DEF Spec

LEMMA RetriableByOne ==
  ASSUME OneCaller, ProgramsNotBuilt
  PROVE  Spec => [](TypeOK /\ Grounded /\ Retriable)
<1>1. TakeTurns
  BY DEF OneCaller, TakeTurns
<1> QED
  BY <1>1, RetriableAlways, PTL

(* What callers that take turns may rely on, whoever they are. *)
LEMMA TurnsKeepPromises ==
  ASSUME ProgramsNotBuilt
  PROVE  Spec /\ []TakeTurns => []FailingStageOpen /\ []ReportUpToDate
<1>1. TypeOK /\ Grounded /\ Retriable => FailingStageOpen /\ ReportUpToDate
  BY DEF Retriable
<1> QED
  BY <1>1, RetriableAlways, PTL

(* A failing run says which of its stages is open, after any sequence of   *)
(* partial executions and retries.                                         *)
THEOREM FailingStageOpenHolds ==
  ASSUME OneCaller, ProgramsNotBuilt
  PROVE  Spec => []FailingStageOpen
<1>1. TypeOK /\ Grounded /\ Retriable => FailingStageOpen
  BY DEF Retriable
<1> QED
  BY <1>1, RetriableByOne, PTL

(* The report that a postprocess has left is dropped as soon as a further  *)
(* stage of the run is executed.                                           *)
THEOREM ReportUpToDateHolds ==
  ASSUME OneCaller, ProgramsNotBuilt
  PROVE  Spec => []ReportUpToDate
<1>1. TypeOK /\ Grounded /\ Retriable => ReportUpToDate
  BY DEF Retriable
<1> QED
  BY <1>1, RetriableByOne, PTL

(* A completed stage that is entered again is postprocess. *)
Once ==
  \A c \in Callers :
    stage[c] = NoStage /\ stage'[c] # NoStage
      => stage'[c] \notin run.completed \/ stage'[c] = POSTPROCESS

LEMMA EntersOnce == TypeOK /\ Grounded /\ Retriable /\ [Next]_vars => [Once]_vars
<1> SUFFICES ASSUME TypeOK, Retriable, [Next]_vars,
                    NEW c \in Callers, stage[c] = NoStage, stage'[c] # NoStage
             PROVE  stage'[c] \notin run.completed \/ stage'[c] = POSTPROCESS
  BY DEF Once
<1>1. Enter(c)
  BY DEF Next, Work, Process, Enter, Succeed, Fail, FailCompleted, Leave, vars, TypeOK
<1>2. stage'[c] = Current(c) /\ todo[c] # {}
  BY <1>1 DEF Enter, TypeOK
<1> QED
  BY <1>2, CurrentOpen DEF Retriable

LEMMA TurnsEnterOnce ==
  ASSUME ProgramsNotBuilt
  PROVE  Spec /\ []TakeTurns => NoStageTwice
<1>1. Once => \A c \in Callers :
                stage[c] = NoStage /\ stage'[c] # NoStage
                  => stage'[c] \notin run.completed \/ stage'[c] = POSTPROCESS
  BY DEF Once
<1> QED
  BY <1>1, EntersOnce, RetriableAlways, PTL DEF Spec, NoStageTwice

(* Only postprocess is ever executed again once it is completed.           *)
THEOREM NoStageTwiceHolds ==
  ASSUME OneCaller, ProgramsNotBuilt
  PROVE  Spec => NoStageTwice
<1>1. TakeTurns
  BY DEF OneCaller, TakeTurns
<1> QED
  BY <1>1, TurnsEnterOnce, PTL
=============================================================================
