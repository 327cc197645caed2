----------------------- MODULE SessionScheduler_proofs -----------------------
(***************************************************************************)
(* Theorems about the scheduler, for any number of runs and workers, any   *)
(* batch size, any order, and both executors.                              *)
(***************************************************************************)
EXTENDS SessionScheduler, WellFoundedInduction, FiniteSetTheorems, TLAPS

USE SchedulerAssumption DEF SchedulerAssumption,
    NOP, LOAD, TUNE, BUILD, COMPILE, RUN, POSTPROCESS, DONE, NoStage, NoBatch

-----------------------------------------------------------------------------
(* Lemmas about the operators. *)

LEMMA LeastNatural ==
  ASSUME NEW S \in SUBSET Nat, S # {}
  PROVE  Least(S) \in S /\ \A t \in S : Least(S) <= t
<1>1. PICK x \in S : \A y \in S : ~(<<y, x>> \in OpToRel(<, Nat))
  BY NatLessThanWellFounded, WFMin
<1>2. ASSUME NEW y \in S
      PROVE  x <= y
  <2>1. x \in Nat /\ y \in Nat /\ <<y, x>> \in Nat \X Nat
    OBVIOUS
  <2>2. ~(y < x)
    BY <1>1, <2>1 DEF OpToRel
  <2> QED
    BY <2>1, <2>2
<1> QED
  BY <1>2 DEF Least

LEMMA BatchNumbers ==
  /\ \A i \in Runs : BatchOf(i) \in Nat /\ BatchOf(i) >= 1
  /\ Batches \subseteq Nat /\ NoBatch \notin Batches
  /\ 1 \in Batches
<1>1. ASSUME NEW i \in Runs
      PROVE  BatchOf(i) \in Nat /\ BatchOf(i) >= 1
  <2>1. i - 1 \in Nat /\ BatchSize \in Nat /\ BatchSize > 0
    BY DEF Runs
  <2>2. (i - 1) \div BatchSize \in Nat
    BY <2>1
  <2> QED
    BY <2>2 DEF BatchOf
<1>2. BatchOf(1) = 1
  <2>1. 0 \div BatchSize = 0
    OBVIOUS
  <2> QED
    BY <2>1 DEF BatchOf
<1> QED
  BY <1>1, <1>2 DEF Batches, Runs

(* A batch is not empty. *)
LEMMA FirstPosition ==
  ASSUME NEW b \in Batches
  PROVE  Least(Positions(b)) \in Positions(b)
<1>1. Positions(b) \subseteq Nat
  BY DEF Positions, Runs
<1>2. Positions(b) # {}
  BY DEF Positions, Batches
<1> QED
  BY <1>1, <1>2, LeastNatural

LEMMA RoundNumbers ==
  /\ Rounds \subseteq Nat
  /\ Rounds # {} => Least(Rounds) \in Rounds
  /\ \A k : RoundsAfter(k) # {} => Least(RoundsAfter(k)) \in RoundsAfter(k)
<1>1. Rounds \subseteq Nat
  BY DEF Rounds
<1>2. \A k : RoundsAfter(k) \subseteq Nat
  BY <1>1 DEF RoundsAfter
<1> QED
  BY <1>1, <1>2, LeastNatural

LEMMA FiniteRuns ==
  ASSUME NEW S \in SUBSET Runs
  PROVE  IsFiniteSet(S) /\ Cardinality(S) \in Nat
<1>1. IsFiniteSet(Runs)
  BY FS_Interval DEF Runs
<1>2. IsFiniteSet(S)
  BY <1>1, FS_Subset
<1> QED
  BY <1>2, FS_CardinalityType

(* Division by the batch size. *)
LEMMA Division ==
  ASSUME NEW x \in Nat, NEW y \in Nat, x <= y
  PROVE  /\ x \div BatchSize <= y \div BatchSize
         /\ x \div BatchSize \in Nat
         /\ x >= BatchSize => (x - BatchSize) \div BatchSize = (x \div BatchSize) - 1
         /\ x < BatchSize => x \div BatchSize = 0
<1> DEFINE a == x \div BatchSize
           b == y \div BatchSize
<1>1. BatchSize \in Nat /\ BatchSize > 0
  OBVIOUS
<1>2. a \in Nat /\ b \in Nat
  BY <1>1
<1>3. a <= b
  <2>1. x = BatchSize * a + (x % BatchSize) /\ y = BatchSize * b + (y % BatchSize)
    BY <1>1
  <2>2. x % BatchSize \in Nat /\ y % BatchSize \in Nat /\ y % BatchSize < BatchSize
    BY <1>1
  <2>3. BatchSize * a < BatchSize * b + BatchSize
    <3> DEFINE p == BatchSize * a
               q == BatchSize * b
               m == x % BatchSize
               n == y % BatchSize
    <3>1. p \in Nat /\ q \in Nat
      BY <1>1, <1>2
    <3>2. m \in Nat /\ n \in Nat /\ n < BatchSize
      BY <2>2
    <3>3. x = p + m /\ y = q + n
      BY <2>1
    <3> HIDE DEF p, q, m, n
    <3>4. p < q + BatchSize
      BY <1>1, <3>1, <3>2, <3>3
    <3> QED
      BY <3>4 DEF p, q
  <2>4. ASSUME a >= b + 1
        PROVE  FALSE
    <3> HIDE DEF a, b
    <3>1. PICK d \in Nat : a = b + 1 + d
      <4>1. a - b - 1 \in Nat /\ a = b + 1 + (a - b - 1)
        BY <1>2, <2>4
      <4> QED
        BY <4>1
    <3>2. BatchSize * a = BatchSize * b + BatchSize + BatchSize * d
      BY <1>1, <1>2, <3>1
    <3>3. BatchSize * d \in Nat /\ BatchSize * b \in Nat
      BY <1>1, <1>2, <3>1
    <3> QED
      BY <1>1, <2>3, <3>2, <3>3
  <2> QED
    BY <1>2, <2>4
<1>4. x >= BatchSize => (x - BatchSize) \div BatchSize = (x \div BatchSize) - 1
  BY <1>1, <1>2
<1>5. x < BatchSize => x \div BatchSize = 0
  BY <1>1, <1>2
<1> QED
  BY <1>2, <1>3, <1>4, <1>5

(* The positions of a batch are consecutive, ... *)
LEMMA BatchOrder ==
  /\ \A i, j \in Runs : i <= j => BatchOf(i) <= BatchOf(j)
  /\ \A b : \A i, j \in Positions(b) : i < j => i + 1 \in Positions(b)
<1>1. ASSUME NEW i \in Runs, NEW j \in Runs, i <= j
      PROVE  BatchOf(i) <= BatchOf(j)
  <2>1. i - 1 \in Nat /\ j - 1 \in Nat /\ i - 1 <= j - 1
    BY <1>1 DEF Runs
  <2>2. /\ (i - 1) \div BatchSize <= (j - 1) \div BatchSize
        /\ (i - 1) \div BatchSize \in Nat /\ (j - 1) \div BatchSize \in Nat
    BY <2>1, Division
  <2> QED
    BY <2>2 DEF BatchOf
<1>2. ASSUME NEW b, NEW i \in Positions(b), NEW j \in Positions(b), i < j
      PROVE  i + 1 \in Positions(b)
  <2>1. i \in Runs /\ j \in Runs /\ i + 1 \in Runs /\ i <= i + 1 /\ i + 1 <= j
    BY <1>2 DEF Positions, Runs
  <2>2. BatchOf(i) = b /\ BatchOf(j) = b
    BY DEF Positions
  <2>3. b <= BatchOf(i + 1) /\ BatchOf(i + 1) <= b
    BY <1>1, <2>1, <2>2
  <2>4. b \in Nat /\ BatchOf(i + 1) \in Nat
    BY <2>1, <2>2, BatchNumbers
  <2> QED
    BY <2>1, <2>3, <2>4 DEF Positions
<1> QED
  BY <1>1, <1>2

(* ... and so are the numbers of the batches. *)
LEMMA LastBatch ==
  ASSUME NEW b \in Batches, b + 1 \notin Batches
  PROVE  \A c \in Batches : c <= b
<1> DEFINE Higher == {c \in Batches : c > b}
<1>1. Batches \subseteq Nat
  BY BatchNumbers
<1>2. SUFFICES ASSUME Higher # {} PROVE FALSE
  BY <1>1
<1> DEFINE c == Least(Higher)
<1>3. c \in Batches /\ c > b /\ \A d \in Batches : d > b => c <= d
  BY <1>1, <1>2, LeastNatural
<1> HIDE DEF c
<1>4. PICK i \in Runs : c = BatchOf(i)
  BY <1>3 DEF Batches
<1>5. i - 1 \in Nat /\ c = ((i - 1) \div BatchSize) + 1 /\ b \in Nat /\ c \in Nat
  BY <1>1, <1>3, <1>4 DEF BatchOf, Runs
<1>6. b >= 1
  BY BatchNumbers DEF Batches
<1>7. i - 1 >= BatchSize
  <2>1. i - 1 < BatchSize => c = 1
    BY <1>5, Division
  <2> QED
    BY <1>3, <1>5, <1>6, <2>1
<1>8. ((i - 1) - BatchSize) \div BatchSize = ((i - 1) \div BatchSize) - 1
  BY <1>5, <1>7, Division
<1>9. (i - BatchSize) \in Runs /\ (i - BatchSize) - 1 = (i - 1) - BatchSize
  BY <1>5, <1>7 DEF Runs
<1>10. BatchOf(i - BatchSize) = ((i - 1) \div BatchSize)
  <2>1. (i - 1) \div BatchSize \in Nat
    BY <1>5, Division
  <2> QED
    BY <1>8, <1>9, <2>1 DEF BatchOf
<1>11. c - 1 \in Batches
  <2>1. (i - 1) \div BatchSize \in Nat
    BY <1>5, Division
  <2>2. c - 1 = (i - 1) \div BatchSize
    BY <1>5, <2>1
  <2> QED
    BY <1>9, <1>10, <2>2 DEF Batches
<1>12. c - 1 # b
  BY <1>3, <1>5
<1> QED
  BY <1>3, <1>5, <1>11, <1>12
(* What a stage does to a run *)
LEMMA StageTypes ==
  ASSUME NEW r \in RunType, NEW s \in OptionalStages
  PROVE  /\ Prepared(r, s) \in RunType /\ Entered(r, s) \in RunType
         /\ Completed(r, s) \in RunType /\ Failed(r, s) \in RunType
         /\ Failed(Completed(r, s), s) \in RunType
<1>1. s \in RunStage
  BY DEF OptionalStages, RunStage
<1>2. Prepared(r, s) \in RunType
  BY DEF Prepared, RunType
<1>3. Entered(r, s) \in RunType
  BY <1>1, <1>2 DEF Entered, Failed, RunType
<1>4. Completed(r, s) \in RunType
  BY <1>1 DEF Completed, Report, RunType
<1> QED
  BY <1>1, <1>2, <1>3, <1>4 DEF Failed, RunType

LEMMA ResultTypes == ASSUME NEW r \in RunType PROVE Result(r) \in ResultType
  BY DEF Result, Report, ResultType, RunType

LEMMA NewRunType == NewRun \in RunType /\ NoResult \in ResultType
  BY DEF NewRun, RunType, RunStage, NoResult, ResultType

(* Cases of a step: every action, and the stutter. *)
LEMMA Cases ==
  ASSUME [Next]_vars
  PROVE  \/ Submit \/ EndRound \/ PrintSummary \/ PostprocessSession
         \/ \E b \in Batches : JoinResult(b) \/ JoinException(b)
         \/ \E w \in Workers :
              \/ Take(w) \/ Process(w) \/ AssertSkipNone(w)
              \/ Enter(w) \/ Succeed(w) \/ Fail(w) \/ FailCompleted(w)
              \/ ProcessPost(w) \/ Collect(w) \/ RaiseOutside(w)
         \/ UNCHANGED vars
  BY DEF Next, Main, Worker, Returned

-----------------------------------------------------------------------------
(* Types, and where a worker is. *)

(* A worker that is not idle has a batch, and a position in it; it executes  *)
(* the next stage of those that are left to it.                              *)
Seats ==
  \A w \in Workers :
    /\ phase[w] # "idle" => batch[w] \in Batches /\ pos[w] \in Positions(batch[w])
    /\ phase[w] \in {"idle", "next"} => todo[w] = {} /\ stage[w] = NoStage
    /\ stage[w] # NoStage => stage[w] \in todo[w]

(* The main thread submits batches in the order of their numbers, and starts *)
(* again with the first one when nothing is left to join.                    *)
Cut ==
  /\ main = "submit" => nextBatch \in Batches /\ \A b \in futures : b < nextBatch
  /\ main \notin {"submit", "join"} => futures = {}

Typed == TypeOK /\ Seats /\ Cut

LEMMA TypedInit == Init => Typed
<1> SUFFICES ASSUME Init PROVE Typed
  OBVIOUS
<1>1. order \in [Runs -> Runs]
  BY DEF Init
<1>2. round \in Rounds \cup {0}
  BY RoundNumbers DEF Init
<1>3. TypeOK
  BY <1>1, <1>2, NewRunType DEF Init, TypeOK
<1>4. Seats /\ Cut
  BY BatchNumbers DEF Init, Seats, Cut
<1> QED
  BY <1>3, <1>4 DEF Typed

(* The run and the stage of a worker. *)
LEMMA AtWork ==
  ASSUME Typed, NEW w \in Workers, phase[w] # "idle"
  PROVE  /\ batch[w] \in Batches /\ pos[w] \in Runs /\ pos[w] \in Positions(batch[w])
         /\ CurrentRun(w) \in Runs /\ run[CurrentRun(w)] \in RunType
<1>1. pos[w] \in Positions(batch[w]) /\ batch[w] \in Batches
  BY DEF Typed, Seats
<1>2. pos[w] \in Runs
  BY <1>1 DEF Positions
<1> QED
  BY <1>1, <1>2 DEF Typed, TypeOK, CurrentRun

LEMMA Staged ==
  ASSUME Typed, NEW w \in Workers, todo[w] # {}
  PROVE  /\ phase[w] \in {"process", "post"}
         /\ Current(w) \in todo[w] /\ Current(w) \in OptionalStages
         /\ stage[w] # NoStage => stage[w] \in OptionalStages
<1>1. phase[w] \in {"process", "post"}
  BY DEF Typed, TypeOK, Seats
<1>2. todo[w] \subseteq OptionalStages
  BY DEF Typed, TypeOK
<1>3. todo[w] \subseteq Nat
  BY <1>2 DEF OptionalStages
<1>4. Current(w) \in todo[w]
  BY <1>3, LeastNatural DEF Current
<1> QED
  BY <1>1, <1>2, <1>4 DEF Typed, Seats

LEMMA SeatsStep == Typed /\ [Next]_vars => Seats'
<1> SUFFICES ASSUME Typed, [Next]_vars PROVE Seats'
  OBVIOUS
<1>1. CASE \/ Submit \/ EndRound \/ PrintSummary \/ PostprocessSession \/ UNCHANGED vars
           \/ \E b \in Batches : JoinResult(b) \/ JoinException(b)
  <2>1. UNCHANGED <<batch, pos, phase, todo, stage>>
    BY <1>1 DEF Submit, EndRound, PrintSummary, PostprocessSession, JoinResult, JoinException,
                vars, workerVars
  <2> QED
    BY <2>1 DEF Typed, Seats
<1>2. ASSUME NEW w \in Workers, Take(w)
      PROVE  Seats'
  <2> DEFINE b == Least(queued)
  <2>1. b \in Batches
    BY <1>2, LeastNatural, BatchNumbers DEF Take, Typed, TypeOK
  <2>2. /\ batch' = [batch EXCEPT ![w] = b]
        /\ pos' = [pos EXCEPT ![w] = Least(Positions(b))]
        /\ phase[w] = "idle" /\ phase' = [phase EXCEPT ![w] = "next"]
        /\ UNCHANGED <<todo, stage>>
    BY <1>2 DEF Take
  <2>3. Least(Positions(b)) \in Positions(b)
    BY <2>1, FirstPosition
  <2> HIDE DEF b
  <2> QED
    BY <2>1, <2>2, <2>3 DEF Typed, TypeOK, Seats, Positions
<1>3. ASSUME NEW w \in Workers, AssertSkipNone(w) \/ RaiseOutside(w)
      PROVE  Seats'
  <2>1. todo[w] = {} /\ stage[w] = NoStage
    BY <1>3 DEF AssertSkipNone, RaiseOutside, ProcessEnded, Typed, Seats
  <2>2. /\ phase' = [phase EXCEPT ![w] = "idle"]
        /\ batch' = [batch EXCEPT ![w] = NoBatch] /\ pos' = [pos EXCEPT ![w] = 0]
        /\ UNCHANGED <<todo, stage>>
    BY <1>3 DEF AssertSkipNone, RaiseOutside, Raise, GoIdle
  <2> QED
    BY <2>1, <2>2 DEF Typed, TypeOK, Seats, Positions
<1>4. ASSUME NEW w \in Workers, Process(w) \/ ProcessPost(w)
      PROVE  Seats'
  <2>1. /\ phase[w] # "idle" /\ stage[w] = NoStage
        /\ phase'[w] \in {"process", "post"}
        /\ \A v \in Workers : v # w => phase'[v] = phase[v] /\ todo'[v] = todo[v]
        /\ UNCHANGED <<batch, pos, stage>>
    BY <1>4 DEF Process, ProcessPost, ProcessEnded, Typed, TypeOK, Seats
  <2> QED
    BY <2>1 DEF Typed, Seats, Positions
<1>5. ASSUME NEW w \in Workers, Enter(w)
      PROVE  Seats'
  <2>1. Current(w) \in todo[w] /\ phase[w] \in {"process", "post"}
    BY <1>5, Staged DEF Enter
  <2>2. /\ \/ stage'[w] = NoStage
           \/ stage'[w] = Current(w) /\ todo'[w] = todo[w]
        /\ \A v \in Workers : v # w => stage'[v] = stage[v] /\ todo'[v] = todo[v]
        /\ UNCHANGED <<batch, pos, phase>>
    BY <1>5 DEF Enter, Typed, TypeOK
  <2> QED
    BY <2>1, <2>2 DEF Typed, Seats, Positions
<1>6. ASSUME NEW w \in Workers, Succeed(w) \/ Fail(w) \/ FailCompleted(w)
      PROVE  Seats'
  <2>1. phase[w] \in {"process", "post"}
    BY <1>6, Staged DEF Succeed, Fail, FailCompleted, Typed, Seats
  <2>2. /\ stage'[w] = NoStage
        /\ \A v \in Workers : v # w => stage'[v] = stage[v] /\ todo'[v] = todo[v]
        /\ UNCHANGED <<batch, pos, phase>>
    BY <1>6 DEF Succeed, Fail, FailCompleted, Leave, Typed, TypeOK
  <2> QED
    BY <2>1, <2>2 DEF Typed, Seats, Positions
<1>7. ASSUME NEW w \in Workers, Collect(w)
      PROVE  Seats'
  <2>1. todo[w] = {} /\ stage[w] = NoStage /\ UNCHANGED <<todo, stage>>
    BY <1>7 DEF Collect, ProcessEnded
  <2>2. \/ /\ pos[w] + 1 \in Positions(batch[w])
           /\ pos' = [pos EXCEPT ![w] = pos[w] + 1]
           /\ phase' = [phase EXCEPT ![w] = "next"] /\ batch' = batch
        \/ /\ phase' = [phase EXCEPT ![w] = "idle"]
           /\ batch' = [batch EXCEPT ![w] = NoBatch] /\ pos' = [pos EXCEPT ![w] = 0]
    BY <1>7 DEF Collect, GoIdle
  <2>3. batch[w] \in Batches
    BY <1>7, AtWork DEF Collect, ProcessEnded
  <2> QED
    BY <2>1, <2>2, <2>3 DEF Typed, TypeOK, Seats, Positions
<1> QED
  BY <1>1, <1>2, <1>3, <1>4, <1>5, <1>6, <1>7, Cases

(* The counters of the main thread, and the runs of a batch. *)
LEMMA Counters ==
  ASSUME Typed
  PROVE  /\ nextBatch \in Nat /\ nextBatch + 1 \in Nat
         /\ num_failures \in Nat /\ num_failures + 1 \in Nat
         /\ \A n \in Nat : num_failures + n \in Nat
         /\ order \in [Runs -> Runs] /\ \A b : RunsOf(b) \subseteq Runs
<1>1. nextBatch \in Nat /\ num_failures \in Nat /\ order \in [Runs -> Runs]
  BY DEF Typed, TypeOK
<1>2. \A b : Positions(b) \subseteq Runs
  BY DEF Positions
<1>3. \A b : RunsOf(b) \subseteq Runs
  BY <1>1, <1>2 DEF RunsOf
<1> QED
  BY <1>1, <1>3

LEMMA TypeStep == Typed /\ [Next]_vars => TypeOK'
<1> SUFFICES ASSUME Typed, [Next]_vars PROVE TypeOK'
  OBVIOUS
<1>1. CASE Submit
  <2>1. nextBatch \in Batches
    BY <1>1 DEF Submit, Typed, Cut
  <2>2. queued \subseteq Batches /\ futures \subseteq Batches
    BY DEF Typed, TypeOK
  <2>3. nextBatch' \in Nat
    BY <1>1, Counters DEF Submit
  <2>4. /\ queued' \in SUBSET Batches /\ futures' \in SUBSET Batches
        /\ main' \in {"submit", "join"}
    BY <1>1, <2>1, <2>2 DEF Submit
  <2> QED
    BY <1>1, <2>3, <2>4 DEF Submit, Typed, TypeOK, workerVars
<1>2. CASE EndRound
  <2>1. nextBatch' \in Nat /\ main' \in {"submit", "joined"}
    BY <1>2, Counters DEF EndRound
  <2>2. round' \in Rounds \cup {0}
    <3>1. CASE round' = round
      BY <3>1 DEF Typed, TypeOK
    <3>2. CASE round' = Least(RoundsAfter(round)) /\ RoundsAfter(round) # {}
      BY <3>2, RoundNumbers DEF RoundsAfter
    <3> QED
      BY <1>2, <3>1, <3>2 DEF EndRound
  <2> QED
    BY <1>2, <2>1, <2>2 DEF EndRound, Typed, TypeOK, poolVars, workerVars
<1>3. CASE PrintSummary
  BY <1>3 DEF PrintSummary, Typed, TypeOK, poolVars, workerVars
<1>4. CASE PostprocessSession
  <2>1. num_failures' \in Nat
    BY <1>4, Counters DEF PostprocessSession
  <2> QED
    BY <1>4, <2>1 DEF PostprocessSession, Typed, TypeOK, poolVars, workerVars
<1>5. ASSUME NEW b \in Batches, JoinResult(b)
      PROVE  TypeOK'
  <2>1. Cardinality({r \in RunsOf(b) : rets[r].failing}) \in Nat
    BY Counters, FiniteRuns
  <2>2. num_failures' \in Nat
    BY <1>5, <2>1, Counters DEF JoinResult
  <2>3. results' \in [Runs -> ResultType]
    BY <1>5 DEF JoinResult, Typed, TypeOK
  <2> QED
    BY <1>5, <2>2, <2>3 DEF JoinResult, Typed, TypeOK, workerVars
<1>6. ASSUME NEW b \in Batches, JoinException(b)
      PROVE  TypeOK'
  <2>1. Cardinality(RunsOf(b)) \in Nat
    BY Counters, FiniteRuns
  <2>2. num_failures' \in Nat
    BY <1>6, <2>1, Counters DEF JoinException
  <2> QED
    BY <1>6, <2>2 DEF JoinException, Typed, TypeOK, poolVars, workerVars
<1>7. ASSUME NEW w \in Workers, Take(w)
      PROVE  TypeOK'
  <2> DEFINE b == Least(queued)
  <2>1. b \in Batches
    BY <1>7, LeastNatural, BatchNumbers DEF Take, Typed, TypeOK
  <2>2. Least(Positions(b)) \in Runs
    BY <2>1, FirstPosition DEF Positions
  <2>3. /\ queued' = queued \ {b}
        /\ batch' = [batch EXCEPT ![w] = b]
        /\ pos' = [pos EXCEPT ![w] = Least(Positions(b))]
        /\ phase' = [phase EXCEPT ![w] = "next"]
    BY <1>7 DEF Take
  <2>4. UNCHANGED <<mainVars, finished, raised, rets, todo, stage, run>>
    BY <1>7 DEF Take
  <2> HIDE DEF b
  <2>5. /\ queued' \in SUBSET Batches /\ batch' \in [Workers -> Batches \cup {NoBatch}]
        /\ pos' \in [Workers -> Runs \cup {0}]
        /\ phase' \in [Workers -> {"idle", "next", "process", "post"}]
    BY <2>1, <2>2, <2>3 DEF Typed, TypeOK
  <2> QED
    BY <2>4, <2>5 DEF Typed, TypeOK, mainVars
<1>8. ASSUME NEW w \in Workers, Process(w)
      PROVE  TypeOK'
  <2> DEFINE r == CurrentRun(w)
             fresh == IF executor = "process_pool" THEN NewRun ELSE run[r]
             plan == Planned(Available[r], NextStage(Available[r], fresh), WorkerUntil, Skipped(r))
  <2>1. r \in Runs /\ fresh \in RunType
    BY <1>8, AtWork, NewRunType DEF Process
  <2>2. plan \subseteq OptionalStages
    BY <2>1 DEF Planned
  <2>3. /\ run' = [run EXCEPT ![r] = fresh] /\ todo' = [todo EXCEPT ![w] = plan]
        /\ phase' = [phase EXCEPT ![w] = "process"]
    BY <1>8 DEF Process
  <2>4. UNCHANGED <<mainVars, poolVars, batch, pos, stage>>
    BY <1>8 DEF Process
  <2> HIDE DEF r, fresh, plan
  <2>5. /\ run' \in [Runs -> RunType] /\ todo' \in [Workers -> SUBSET OptionalStages]
        /\ phase' \in [Workers -> {"idle", "next", "process", "post"}]
    BY <2>1, <2>2, <2>3 DEF Typed, TypeOK
  <2> QED
    BY <2>4, <2>5 DEF Typed, TypeOK, mainVars, poolVars
<1>9. ASSUME NEW w \in Workers, ProcessPost(w)
      PROVE  TypeOK'
  <2> DEFINE plan == Planned(Available[CurrentRun(w)], POSTPROCESS, POSTPROCESS,
                             Skipped(CurrentRun(w)))
  <2>1. plan \subseteq OptionalStages
    BY <1>9, AtWork DEF ProcessPost, ProcessEnded, Planned
  <2>2. todo' = [todo EXCEPT ![w] = plan] /\ phase' = [phase EXCEPT ![w] = "post"]
    BY <1>9 DEF ProcessPost
  <2> HIDE DEF plan
  <2> QED
    BY <1>9, <2>1, <2>2 DEF ProcessPost, Typed, TypeOK, mainVars, poolVars
<1>10. ASSUME NEW w \in Workers, AssertSkipNone(w) \/ RaiseOutside(w)
       PROVE  TypeOK'
  <2>1. batch[w] \in Batches
    BY <1>10, AtWork DEF AssertSkipNone, RaiseOutside, ProcessEnded
  <2> QED
    BY <1>10, <2>1 DEF AssertSkipNone, RaiseOutside, Raise, GoIdle, Typed, TypeOK, mainVars
<1>11. ASSUME NEW w \in Workers, Enter(w)
       PROVE  TypeOK'
  <2>1. /\ Current(w) \in OptionalStages
        /\ CurrentRun(w) \in Runs /\ run[CurrentRun(w)] \in RunType
    BY <1>11, Staged, AtWork DEF Enter
  <2>2. Entered(run[CurrentRun(w)], Current(w)) \in RunType
    BY <2>1, StageTypes
  <2>3. run' = [run EXCEPT ![CurrentRun(w)] = Entered(run[CurrentRun(w)], Current(w))]
    BY <1>11 DEF Enter
  <2>4. run' \in [Runs -> RunType]
    BY <2>2, <2>3 DEF Typed, TypeOK
  <2>5. /\ stage' \in [Workers -> OptionalStages \cup {NoStage}]
        /\ todo' \in [Workers -> SUBSET OptionalStages]
    BY <1>11, <2>1 DEF Enter, Typed, TypeOK
  <2> QED
    BY <1>11, <2>4, <2>5 DEF Enter, Typed, TypeOK, mainVars, poolVars
<1>12. ASSUME NEW w \in Workers, Succeed(w) \/ Fail(w) \/ FailCompleted(w)
       PROVE  TypeOK'
  <2> DEFINE r == CurrentRun(w)
  <2>1. stage[w] \in OptionalStages /\ r \in Runs /\ run[r] \in RunType
    BY <1>12, Staged, AtWork DEF Succeed, Fail, FailCompleted, Typed, Seats
  <2>2. \E q \in RunType : run' = [run EXCEPT ![r] = q]
    <3>1. CASE Succeed(w)
      BY <2>1, <3>1, StageTypes DEF Succeed
    <3>2. CASE Fail(w)
      BY <2>1, <3>2, StageTypes DEF Fail
    <3>3. CASE FailCompleted(w)
      <4>1. stage[w] = POSTPROCESS
        BY <3>3 DEF FailCompleted
      <4>2. Failed(Completed(run[r], stage[w]), stage[w]) \in RunType
        BY <2>1, StageTypes
      <4> QED
        BY <3>3, <4>1, <4>2 DEF FailCompleted
    <3> QED
      BY <1>12, <3>1, <3>2, <3>3
  <2>3. todo' \in [Workers -> SUBSET OptionalStages]
    <3>1. todo \in [Workers -> SUBSET OptionalStages]
      BY DEF Typed, TypeOK
    <3>2. todo' = [todo EXCEPT ![w] = todo[w] \ {stage[w]}] \/ todo' = [todo EXCEPT ![w] = {}]
      BY <1>12 DEF Succeed, Fail, FailCompleted
    <3> QED
      BY <3>1, <3>2
  <2> HIDE DEF r
  <2>4. run' \in [Runs -> RunType]
    BY <2>2 DEF Typed, TypeOK
  <2>5. /\ stage' \in [Workers -> OptionalStages \cup {NoStage}]
        /\ UNCHANGED <<mainVars, poolVars, batch, pos, phase>>
    BY <1>12 DEF Succeed, Fail, FailCompleted, Leave, Typed, TypeOK
  <2> QED
    BY <2>3, <2>4, <2>5 DEF Typed, TypeOK, mainVars, poolVars
<1>13. ASSUME NEW w \in Workers, Collect(w)
       PROVE  TypeOK'
  <2>1. /\ CurrentRun(w) \in Runs /\ run[CurrentRun(w)] \in RunType
        /\ batch[w] \in Batches /\ pos[w] \in Runs
    BY <1>13, AtWork DEF Collect, ProcessEnded
  <2>2. rets' \in [Runs -> ResultType]
    BY <1>13, <2>1, ResultTypes DEF Collect, Typed, TypeOK
  <2>3. /\ finished' \in SUBSET Batches
        /\ batch' \in [Workers -> Batches \cup {NoBatch}]
        /\ pos' \in [Workers -> Runs \cup {0}]
        /\ phase' \in [Workers -> {"idle", "next", "process", "post"}]
    <3>1. CASE /\ pos[w] + 1 \in Positions(batch[w])
               /\ pos' = [pos EXCEPT ![w] = pos[w] + 1]
               /\ phase' = [phase EXCEPT ![w] = "next"] /\ UNCHANGED <<batch, finished>>
      <4>1. pos[w] + 1 \in Runs
        BY <3>1 DEF Positions
      <4> QED
        BY <3>1, <4>1 DEF Typed, TypeOK
    <3>2. CASE finished' = finished \cup {batch[w]} /\ GoIdle(w)
      BY <2>1, <3>2 DEF GoIdle, Typed, TypeOK
    <3> QED
      BY <1>13, <3>1, <3>2 DEF Collect
  <2> QED
    BY <1>13, <2>2, <2>3 DEF Collect, Typed, TypeOK, mainVars
<1>14. CASE UNCHANGED vars
  BY <1>14 DEF Typed, TypeOK, vars, mainVars, poolVars, workerVars
<1> QED
  BY <1>1, <1>2, <1>3, <1>4, <1>5, <1>6, <1>7, <1>8, <1>9, <1>10, <1>11, <1>12, <1>13, <1>14, Cases

LEMMA CutStep == Typed /\ [Next]_vars => Cut'
<1> SUFFICES ASSUME Typed, [Next]_vars PROVE Cut'
  OBVIOUS
<1>1. CASE Submit
  <2>1. nextBatch \in Batches /\ Batches \subseteq Nat /\ futures \subseteq Batches
    BY <1>1, BatchNumbers DEF Submit, Typed, TypeOK, Cut
  <2>2. \A b \in futures \cup {nextBatch} : b < nextBatch + 1
    BY <1>1, <2>1 DEF Submit, Typed, Cut
  <2> QED
    BY <1>1, <2>2 DEF Submit, Cut
<1>2. CASE EndRound
  BY <1>2, BatchNumbers DEF EndRound, Cut
<1>3. CASE PrintSummary \/ PostprocessSession
  BY <1>3 DEF PrintSummary, PostprocessSession, Typed, Cut
<1>4. CASE \E b \in Batches : JoinResult(b) \/ JoinException(b)
  BY <1>4 DEF JoinResult, JoinException, Cut
<1>5. CASE \/ \E w \in Workers :
               \/ Take(w) \/ Process(w) \/ AssertSkipNone(w)
               \/ Enter(w) \/ Succeed(w) \/ Fail(w) \/ FailCompleted(w)
               \/ ProcessPost(w) \/ Collect(w) \/ RaiseOutside(w)
           \/ UNCHANGED vars
  <2>1. UNCHANGED mainVars
    BY <1>5 DEF Take, Process, AssertSkipNone, Enter, Succeed, Fail, FailCompleted, Leave,
                ProcessPost, Collect, RaiseOutside, vars
  <2> QED
    BY <2>1 DEF mainVars, Typed, Cut
<1> QED
  BY <1>1, <1>2, <1>3, <1>4, <1>5, Cases

LEMMA TypedStep == Typed /\ [Next]_vars => Typed'
  BY TypeStep, SeatsStep, CutStep DEF Typed

(* All variables keep their types. *)
THEOREM TypeCorrect == Spec => []TypeOK
<1>1. Typed => TypeOK
  BY DEF Typed
<1> QED
  BY <1>1, TypedInit, TypedStep, PTL DEF Spec

-----------------------------------------------------------------------------
(* No two workers have the same run. *)

(* Every run is at one position of the order, *)
OneToOne ==
  /\ \A r \in Runs : \E i \in Runs : order[i] = r
  /\ \A i, j \in Runs : order[i] = order[j] => i = j

(* and a batch that was submitted is waiting, with one worker, or done.      *)
Handed ==
  /\ queued \subseteq futures /\ finished \subseteq futures
  /\ queued \cap finished = {} /\ queued \cap raised = {} /\ finished \cap raised = {}
  /\ \A w \in Workers :
       phase[w] # "idle" => batch[w] \in futures \ (queued \cup finished \cup raised)
  /\ \A v, w \in Workers :
       phase[v] # "idle" /\ phase[w] # "idle" /\ v # w => batch[v] # batch[w]

Served == Typed /\ OneToOne /\ Handed

LEMMA ServedInit == Init => Served
<1> SUFFICES ASSUME Init PROVE Served
  OBVIOUS
<1>1. OneToOne
  <2>1. CASE Shuffle = FALSE
    BY <2>1 DEF Init, OneToOne
  <2>2. CASE Shuffle = TRUE
    <3>1. order \in Surjection(Runs, Runs)
      BY <2>2 DEF Init, Surjection
    <3>2. IsFiniteSet(Runs)
      BY FS_Interval DEF Runs
    <3>3. order \in Injection(Runs, Runs)
      BY <3>1, <3>2, FS_SurjSameCardinalityImpliesInj
    <3> QED
      BY <3>1, <3>3 DEF OneToOne, Surjection, Injection, IsInjective
  <2> QED
    BY <2>1, <2>2
<1>2. Handed
  BY DEF Init, Handed
<1> QED
  BY <1>1, <1>2, TypedInit DEF Served

(* What the actions of a worker leave alone. *)
LEMMA OrderStays == [Next]_vars => order' = order
  BY Cases DEF Submit, EndRound, PrintSummary, PostprocessSession, JoinResult, JoinException,
               Take, Process, AssertSkipNone, Enter, Succeed, Fail, FailCompleted, Leave,
               ProcessPost, Collect, RaiseOutside, vars, mainVars

LEMMA HandedStep == Served /\ [Next]_vars => Handed'
<1> SUFFICES ASSUME Served, [Next]_vars PROVE Handed'
  OBVIOUS
<1>1. CASE Submit
  <2>1. nextBatch \notin futures
    <3>1. nextBatch \in Nat
      BY Counters DEF Served
    <3>2. \A b \in futures : b < nextBatch
      BY <1>1 DEF Submit, Served, Typed, Cut
    <3> QED
      BY <3>1, <3>2
  <2>2. /\ \/ UNCHANGED <<queued, futures, raised>>
           \/ /\ queued' = queued \cup {nextBatch} /\ futures' = futures \cup {nextBatch}
              /\ raised' = raised \ {nextBatch}
        /\ UNCHANGED <<finished, batch, phase>>
    BY <1>1 DEF Submit, workerVars
  <2>3. \A w \in Workers : phase[w] # "idle" => batch[w] # nextBatch
    BY <2>1 DEF Served, Handed
  <2>4. nextBatch \notin finished
    BY <2>1 DEF Served, Handed
  <2>5. CASE UNCHANGED <<queued, futures, raised>>
    BY <2>2, <2>5 DEF Served, Handed
  <2>6. CASE /\ queued' = queued \cup {nextBatch} /\ futures' = futures \cup {nextBatch}
             /\ raised' = raised \ {nextBatch}
    BY <2>2, <2>3, <2>4, <2>6 DEF Served, Handed
  <2> QED
    BY <2>2, <2>5, <2>6
<1>2. ASSUME NEW b \in Batches, JoinResult(b) \/ JoinException(b)
      PROVE  Handed'
  <2>1. futures' = futures \ {b} /\ UNCHANGED <<queued, batch, phase>>
    BY <1>2 DEF JoinResult, JoinException, poolVars, workerVars
  <2>2. CASE JoinResult(b)
    <3>1. b \in finished /\ finished' = finished \ {b} /\ raised' = raised
      BY <2>2 DEF JoinResult
    <3> QED
      BY <2>1, <3>1 DEF Served, Handed
  <2>3. CASE JoinException(b)
    <3>1. b \in raised /\ raised' = raised /\ finished' = finished
      BY <2>3 DEF JoinException, poolVars
    <3> QED
      BY <2>1, <3>1 DEF Served, Handed
  <2> QED
    BY <1>2, <2>2, <2>3
<1>3. CASE EndRound \/ PrintSummary \/ PostprocessSession \/ UNCHANGED vars
  <2>1. UNCHANGED <<futures, queued, finished, raised, batch, phase>>
    BY <1>3 DEF EndRound, PrintSummary, PostprocessSession, vars, mainVars, poolVars, workerVars
  <2> QED
    BY <2>1 DEF Served, Handed
<1>4. ASSUME NEW w \in Workers, Take(w)
      PROVE  Handed'
  <2> DEFINE b == Least(queued)
  <2>1. b \in queued
    BY <1>4, LeastNatural, BatchNumbers DEF Take, Served, Typed, TypeOK
  <2>2. /\ queued' = queued \ {b} /\ batch' = [batch EXCEPT ![w] = b]
        /\ phase' = [phase EXCEPT ![w] = "next"]
        /\ UNCHANGED <<futures, finished, raised>>
    BY <1>4 DEF Take, mainVars
  <2>3. /\ phase \in [Workers -> {"idle", "next", "process", "post"}]
        /\ batch \in [Workers -> Batches \cup {NoBatch}]
    BY DEF Served, Typed, TypeOK
  <2> HIDE DEF b
  <2>4. /\ batch'[w] = b /\ b \in queued
        /\ \A v \in Workers : v # w => batch'[v] = batch[v] /\ phase'[v] = phase[v]
    BY <2>1, <2>2, <2>3
  <2> QED
    BY <2>2, <2>4 DEF Served, Handed
<1>5. ASSUME NEW w \in Workers, AssertSkipNone(w) \/ RaiseOutside(w)
      PROVE  Handed'
  <2>1. /\ phase[w] # "idle"
        /\ raised' = raised \cup {batch[w]} /\ phase' = [phase EXCEPT ![w] = "idle"]
        /\ batch' = [batch EXCEPT ![w] = NoBatch]
        /\ UNCHANGED <<futures, queued, finished>>
    BY <1>5 DEF AssertSkipNone, RaiseOutside, ProcessEnded, Raise, GoIdle, mainVars
  <2>2. /\ phase'[w] = "idle"
        /\ \A v \in Workers : v # w => batch'[v] = batch[v] /\ phase'[v] = phase[v]
    BY <2>1 DEF Served, Typed, TypeOK
  <2> QED
    BY <2>1, <2>2 DEF Served, Handed
<1>6. ASSUME NEW w \in Workers,
             \/ Process(w) \/ ProcessPost(w)
             \/ Enter(w) \/ Succeed(w) \/ Fail(w) \/ FailCompleted(w)
      PROVE  Handed'
  <2>1. /\ UNCHANGED <<futures, queued, finished, raised, batch>>
        /\ \A v \in Workers : phase'[v] # "idle" => phase[v] # "idle"
    BY <1>6 DEF Process, ProcessPost, ProcessEnded, Enter, Succeed, Fail, FailCompleted, Leave,
                mainVars, poolVars, Served, Typed, TypeOK
  <2> QED
    BY <2>1 DEF Served, Handed
<1>7. ASSUME NEW w \in Workers, Collect(w)
      PROVE  Handed'
  <2>1. phase[w] # "idle" /\ UNCHANGED <<futures, queued, raised>>
    BY <1>7 DEF Collect, ProcessEnded, mainVars
  <2>2. CASE UNCHANGED <<batch, finished>> /\ phase' = [phase EXCEPT ![w] = "next"]
    BY <2>1, <2>2 DEF Served, Typed, TypeOK, Handed
  <2>3. CASE finished' = finished \cup {batch[w]} /\ GoIdle(w)
    BY <2>1, <2>3 DEF GoIdle, Served, Typed, TypeOK, Handed
  <2> QED
    BY <1>7, <2>2, <2>3 DEF Collect
<1> QED
  BY <1>1, <1>2, <1>3, <1>4, <1>5, <1>6, <1>7, Cases

LEMMA ServedStep == Served /\ [Next]_vars => Served'
<1>1. Served /\ [Next]_vars => OneToOne'
  BY OrderStays DEF Served, OneToOne
<1> QED
  BY <1>1, TypedStep, HandedStep DEF Served

(* Workers have different batches, which have no position in common, and     *)
(* every run is at one position only.                                        *)
LEMMA ServedApart == Served => NoParallelProcessing
<1> SUFFICES ASSUME Served, NEW v \in Workers, NEW w \in Workers,
                    phase[v] # "idle", phase[w] # "idle", v # w
             PROVE  CurrentRun(v) # CurrentRun(w)
  BY DEF NoParallelProcessing
<1>1. /\ pos[v] \in Positions(batch[v]) /\ pos[w] \in Positions(batch[w])
      /\ pos[v] \in Runs /\ pos[w] \in Runs
  BY AtWork DEF Served
<1>2. batch[v] # batch[w]
  BY DEF Served, Handed
<1>3. pos[v] # pos[w]
  BY <1>1, <1>2 DEF Positions
<1> QED
  BY <1>1, <1>3 DEF Served, OneToOne, CurrentRun

(* No two workers ever have the same run: lock() never raises because of     *)
(* parallel processing.                                                      *)
THEOREM WorkersApart == Spec => []NoParallelProcessing
  BY ServedInit, ServedStep, ServedApart, PTL DEF Spec

-----------------------------------------------------------------------------
(* The results are those of the runs. *)

(* What the theorem needs to know of a session whose stages are separated:   *)
(* no result of an earlier stage remains because a worker raised, and there  *)
(* is a stage.                                                               *)
Undisturbed == PerStage => ~MayRaise /\ Rounds # {}

(* Nothing has happened to the runs of a batch, ... *)
Fresh(b) == \A r \in RunsOf(b) : run[r] = NewRun /\ results[r] = NoResult

(* ... or the right results are stored for them, or all are lost.            *)
Known(b) ==
  \A r \in RunsOf(b) : results[r] = IF b \in raised THEN NoResult ELSE Result(run[r])

(* What a worker has collected stays right until it is joined. *)
Collected ==
  /\ \A b \in finished : \A r \in RunsOf(b) : rets[r] = Result(run[r])
  /\ \A w \in Workers : phase[w] # "idle" =>
       \A i \in Positions(batch[w]) : i < pos[w] => rets[order[i]] = Result(run[order[i]])

(* A batch that is not submitted is fresh, or the results of it are known;   *)
(* with a single round a batch that is submitted has no results yet.         *)
Stored ==
  /\ \A b \in Batches \ futures :
       \/ main = "submit" /\ b >= nextBatch /\ Fresh(b)
       \/ Known(b)
  /\ ~PerStage => /\ \A b \in futures : \A r \in RunsOf(b) : results[r] = NoResult
                  /\ main = "submit" => \A b \in Batches : b >= nextBatch => Fresh(b)
  /\ raised # {} => MayRaise \/ "process_pool" \in Executors
  /\ main = "submit" => \A b \in raised : b < nextBatch

Reported == Served /\ Collected /\ Stored

LEMMA ReportedInit == Undisturbed /\ Init => Reported
<1> SUFFICES ASSUME Undisturbed, Init PROVE Reported
  OBVIOUS
<1>1. Typed /\ Served
  BY TypedInit, ServedInit
<1>2. Collected
  BY DEF Init, Collected
<1>3. main = "submit" /\ nextBatch = 1 /\ futures = {} /\ raised = {}
  BY DEF Init, Undisturbed
<1>4. \A b : RunsOf(b) \subseteq Runs
  BY <1>1, Counters
<1>5. \A b : Fresh(b)
  BY <1>4 DEF Init, Fresh
<1>6. \A b \in Batches : b >= 1
  BY BatchNumbers DEF Batches
<1> QED
  BY <1>1, <1>2, <1>3, <1>5, <1>6 DEF Reported, Stored

(* The runs of a batch are the same all the time, and no other batch has     *)
(* them.                                                                     *)
LEMMA Shares ==
  ASSUME Served
  PROVE  \A b, c : \A r \in RunsOf(b) : r \in RunsOf(c) => b = c
<1> SUFFICES ASSUME NEW b, NEW c, NEW r \in RunsOf(b), r \in RunsOf(c)
             PROVE  b = c
  OBVIOUS
<1>1. PICK i \in Positions(b) : r = order[i]
  BY DEF RunsOf
<1>2. PICK j \in Positions(c) : r = order[j]
  BY DEF RunsOf
<1>3. i = j
  BY <1>1, <1>2 DEF Served, OneToOne, Positions
<1> QED
  BY <1>3 DEF Positions

LEMMA RunsStay == [Next]_vars => \A b : RunsOf(b)' = RunsOf(b)
  BY OrderStays DEF RunsOf, Positions

(* The run of a worker belongs to its batch alone. *)
LEMMA OwnRun ==
  ASSUME Served, NEW w \in Workers, phase[w] # "idle"
  PROVE  /\ CurrentRun(w) \in RunsOf(batch[w])
         /\ batch[w] \in futures /\ batch[w] \notin finished
         /\ \A b : b # batch[w] => CurrentRun(w) \notin RunsOf(b)
         /\ \A v \in Workers : phase[v] # "idle" =>
              \A i \in Positions(batch[v]) : i < pos[v] => order[i] # CurrentRun(w)
<1>1. pos[w] \in Positions(batch[w]) /\ pos[w] \in Runs
  BY AtWork DEF Served
<1>2. CurrentRun(w) \in RunsOf(batch[w])
  BY <1>1 DEF RunsOf, CurrentRun
<1>3. batch[w] \in futures /\ batch[w] \notin finished
  BY DEF Served, Handed
<1>4. \A b : b # batch[w] => CurrentRun(w) \notin RunsOf(b)
  BY <1>2, Shares
<1>5. ASSUME NEW v \in Workers, phase[v] # "idle", NEW i \in Positions(batch[v]), i < pos[v],
             order[i] = CurrentRun(w)
      PROVE  FALSE
  <2>1. i \in Runs /\ BatchOf(i) = batch[v] /\ BatchOf(pos[w]) = batch[w]
    BY <1>1 DEF Positions
  <2>2. i = pos[w]
    BY <1>1, <1>5, <2>1 DEF Served, OneToOne, CurrentRun
  <2>3. v = w
    BY <1>5, <2>1, <2>2 DEF Served, Handed
  <2> QED
    BY <1>1, <1>5, <2>2, <2>3 DEF Runs
<1> QED
  BY <1>2, <1>3, <1>4, <1>5

(* Steps that change neither what is collected nor what is stored. *)
LEMMA StoredStays ==
  ASSUME Reported, [Next]_vars, UNCHANGED <<run, results, futures, nextBatch, raised>>,
         main' = main \/ {main, main'} \subseteq {"join", "joined", "printed", "returned"}
  PROVE  Stored'
<1>1. \A b : RunsOf(b)' = RunsOf(b)
  BY RunsStay
<1>2. \A b : Fresh(b)' <=> Fresh(b)
  BY <1>1 DEF Fresh
<1>3. \A b : Known(b)' <=> Known(b)
  BY <1>1 DEF Known
<1> QED
  BY <1>1, <1>2, <1>3 DEF Reported, Stored

LEMMA CollectedStays ==
  ASSUME Reported, [Next]_vars, UNCHANGED <<run, rets>>, finished' \subseteq finished,
         \A w \in Workers : phase'[w] # "idle" =>
           \/ phase[w] # "idle" /\ batch'[w] = batch[w] /\ pos'[w] = pos[w]
           \/ \A i \in Positions(batch'[w]) : ~(i < pos'[w])
  PROVE  Collected'
<1>1. \A b : RunsOf(b)' = RunsOf(b)
  BY RunsStay
<1>2. order' = order
  BY OrderStays
<1>3. \A b : Positions(b)' = Positions(b)
  BY DEF Positions
<1> QED
  BY <1>1, <1>2, <1>3 DEF Reported, Collected

LEMMA SubmitReports == Reported /\ Submit => Reported'
<1> SUFFICES ASSUME Reported, Submit PROVE Reported'
  OBVIOUS
<1> USE DEF Reported
<1>1. [Next]_vars
  BY DEF Next, Main
<1>2. Served'
  BY <1>1, ServedStep
<1>3. Collected'
  BY <1>1, CollectedStays DEF Submit, workerVars
<1>4. /\ \A b : RunsOf(b)' = RunsOf(b)
      /\ \A b : Fresh(b)' <=> Fresh(b)
      /\ UNCHANGED <<results, run>>
  BY <1>1, RunsStay DEF Fresh, Submit
<1>5. main = "submit" /\ nextBatch \in Batches /\ nextBatch \in Nat /\ nextBatch' = nextBatch + 1
  BY Counters DEF Submit, Served, Typed, Cut
<1>12. raised' = raised
  <2>1. nextBatch \notin raised
    BY <1>5 DEF Stored
  <2> QED
    BY <2>1 DEF Submit
<1>13. \A b : Known(b)' <=> Known(b)
  BY <1>4, <1>12 DEF Known
<1>6. ASSUME NEW b \in Batches, b >= nextBatch, b # nextBatch
      PROVE  main' = "submit" /\ b >= nextBatch'
  <2>1. b \in Nat /\ b >= nextBatch + 1
    BY <1>5, <1>6, BatchNumbers
  <2>2. nextBatch + 1 \in Batches
    BY <1>5, <2>1, LastBatch
  <2> QED
    BY <1>5, <2>1, <2>2 DEF Submit
<1>7. \/ futures' = futures \cup {nextBatch}
      \/ futures' = futures /\ PerStage /\ ~Fresh(nextBatch)
  BY DEF Submit, Fresh, NewRun
<1>8. ASSUME NEW b \in Batches \ futures'
      PROVE  \/ main' = "submit" /\ b >= nextBatch' /\ Fresh(b)
             \/ Known(b)
  <2>1. b \notin futures
    BY <1>7, <1>8
  <2>2. CASE Known(b)
    BY <2>2
  <2>3. CASE b >= nextBatch /\ Fresh(b)
    <3>1. b # nextBatch
      BY <1>7, <1>8, <2>3
    <3> QED
      BY <1>6, <2>3, <3>1
  <2> QED
    BY <1>8, <2>1, <2>2, <2>3 DEF Stored
<1>9. ASSUME ~PerStage
      PROVE  /\ \A b \in futures' : \A r \in RunsOf(b) : results[r] = NoResult
             /\ main' = "submit" => \A b \in Batches : b >= nextBatch' => Fresh(b)
  <2>1. \A b \in Batches : b >= nextBatch => Fresh(b)
    BY <1>5, <1>9 DEF Stored
  <2>2. Fresh(nextBatch)
    BY <1>5, <2>1
  <2>3. \A b \in Batches : b >= nextBatch' => b >= nextBatch
    BY <1>5, BatchNumbers
  <2>4. \A b \in futures' : \A r \in RunsOf(b) : results[r] = NoResult
    BY <1>7, <1>9, <2>2 DEF Stored, Fresh
  <2> QED
    BY <2>1, <2>3, <2>4
<1>10. \A b \in raised' : b < nextBatch'
  <2>1. \A b \in raised : b \in Nat /\ b < nextBatch
    BY <1>5, BatchNumbers DEF Stored, Served, Typed, TypeOK
  <2> QED
    BY <1>5, <1>12, <2>1
<1>11. Stored'
  BY <1>4, <1>8, <1>9, <1>10, <1>12, <1>13 DEF Stored
<1> QED
  BY <1>2, <1>3, <1>11

LEMMA JoinReports ==
  ASSUME Undisturbed, Reported, NEW b \in Batches, JoinResult(b) \/ JoinException(b)
  PROVE  Reported'
<1> USE DEF Reported
<1>1. [Next]_vars
  BY DEF Next, Main
<1>2. Served'
  BY <1>1, ServedStep
<1>3. Collected'
  BY <1>1, CollectedStays DEF JoinResult, JoinException, poolVars, workerVars
<1>4. \A c : RunsOf(c)' = RunsOf(c)
  BY <1>1, RunsStay
<1>5. /\ main = "join" /\ main' = "join" /\ futures' = futures \ {b} /\ b \in futures
      /\ UNCHANGED <<run, nextBatch>>
  BY DEF JoinResult, JoinException
<1>6. \A c \in Batches \ futures : Known(c)
  BY <1>5 DEF Stored
<1>7. /\ Known(b)'
      /\ \A r \in Runs : r \notin RunsOf(b) => results'[r] = results[r]
      /\ raised' = raised
  <2>1. \A c : RunsOf(c) \subseteq Runs
    BY Counters DEF Served
  <2>2. CASE JoinResult(b)
    <3>1. /\ \A r \in RunsOf(b) : results'[r] = Result(run[r])
          /\ \A r \in Runs : r \notin RunsOf(b) => results'[r] = results[r]
          /\ raised' = raised /\ b \notin raised
      BY <2>1, <2>2 DEF JoinResult, Collected, Served, Handed
    <3> QED
      BY <1>4, <1>5, <3>1 DEF Known
  <2>3. CASE JoinException(b)
    <3>1. results' = results /\ b \in raised /\ raised' = raised
      BY <2>3 DEF JoinException, poolVars
    <3>2. MayRaise \/ "process_pool" \in Executors
      BY <3>1 DEF Stored
    <3>3. ~PerStage
      BY <3>2 DEF Undisturbed
    <3>4. \A r \in RunsOf(b) : results[r] = NoResult
      BY <1>5, <3>3 DEF Stored
    <3> QED
      BY <1>4, <3>1, <3>4 DEF Known
  <2> QED
    BY <2>2, <2>3
<1>8. \A c : RunsOf(c) \subseteq Runs
  BY Counters DEF Served
<1>9. \A c \in Batches \ futures' : Known(c)'
  <2>1. ASSUME NEW c \in Batches \ futures, c # b
        PROVE  Known(c)'
    <3>1. \A r \in RunsOf(c) : results'[r] = results[r]
      BY <1>7, <1>8, <2>1, Shares
    <3> QED
      BY <1>4, <1>5, <1>6, <1>7, <3>1 DEF Known
  <2> QED
    BY <1>5, <1>7, <2>1
<1>10. ~PerStage => \A c \in futures' : \A r \in RunsOf(c) : results'[r] = NoResult
  <2>1. \A c \in futures' : \A r \in RunsOf(c) : results'[r] = results[r]
    BY <1>5, <1>7, <1>8, Shares
  <2> QED
    BY <1>5, <2>1 DEF Stored
<1>11. Stored'
  BY <1>4, <1>5, <1>7, <1>9, <1>10 DEF Stored
<1> QED
  BY <1>2, <1>3, <1>11

LEMMA MainReports ==
  ASSUME Undisturbed, Reported, EndRound \/ PrintSummary \/ PostprocessSession \/ UNCHANGED vars
  PROVE  Reported'
<1> USE DEF Reported
<1>1. [Next]_vars
  BY DEF Next, Main
<1>2. Served'
  BY <1>1, ServedStep
<1>3. UNCHANGED <<run, rets, results, futures, finished, raised, batch, pos, phase>>
  BY DEF EndRound, PrintSummary, PostprocessSession, vars, mainVars, poolVars, workerVars
<1>4. Collected'
  BY <1>1, <1>3, CollectedStays
<1>5. CASE PrintSummary \/ PostprocessSession \/ UNCHANGED vars
  <2>1. /\ nextBatch' = nextBatch
        /\ main' = main \/ {main, main'} \subseteq {"join", "joined", "printed", "returned"}
    BY <1>5 DEF PrintSummary, PostprocessSession, vars, mainVars
  <2> QED
    BY <1>1, <1>2, <1>3, <1>4, <2>1, StoredStays
<1>6. CASE EndRound
  <2>1. /\ main = "join" /\ futures = {}
        /\ main' = "submit" => PerStage
    BY <1>6 DEF EndRound
  <2>2. \A b \in Batches : Known(b)
    BY <2>1 DEF Stored
  <2>3. (\A b : RunsOf(b)' = RunsOf(b)) /\ \A b : Known(b)' <=> Known(b)
    BY <1>1, <1>3, RunsStay DEF Known
  <2>5. PerStage => raised = {}
    BY DEF Stored, Undisturbed
  <2>4. Stored'
    BY <1>3, <2>1, <2>2, <2>3, <2>5 DEF Stored
  <2> QED
    BY <1>2, <1>4, <2>4
<1> QED
  BY <1>5, <1>6

LEMMA TakeReports ==
  ASSUME Reported, NEW w \in Workers, Take(w)
  PROVE  Reported'
<1> USE DEF Reported
<1>1. [Next]_vars
  BY DEF Next, Worker
<1>2. Served'
  BY <1>1, ServedStep
<1>3. UNCHANGED <<run, results, futures, nextBatch, raised, main, rets, finished>>
  BY DEF Take, mainVars
<1> DEFINE b == Least(queued)
<1>4. b \in Batches
  BY LeastNatural, BatchNumbers DEF Take, Served, Typed, TypeOK
<1>5. Positions(b) \in SUBSET Nat /\ Positions(b) # {}
  BY <1>4, FirstPosition DEF Positions, Runs
<1>6. \A i \in Positions(b) : ~(i < Least(Positions(b)))
  <2>1. \A i \in Positions(b) : Least(Positions(b)) <= i
    BY <1>5, LeastNatural
  <2>2. Least(Positions(b)) \in Nat /\ \A i \in Positions(b) : i \in Nat
    BY <1>5, LeastNatural
  <2> QED
    BY <2>1, <2>2
<1>7. /\ batch'[w] = b /\ pos'[w] = Least(Positions(b))
      /\ \A v \in Workers : v # w =>
           batch'[v] = batch[v] /\ pos'[v] = pos[v] /\ phase'[v] = phase[v]
  BY DEF Take, Served, Typed, TypeOK
<1> HIDE DEF b
<1>8. Collected'
  BY <1>1, <1>3, <1>6, <1>7, CollectedStays
<1>9. Stored'
  BY <1>1, <1>3, StoredStays
<1> QED
  BY <1>2, <1>8, <1>9

LEMMA RaiseReports ==
  ASSUME Reported, NEW w \in Workers, AssertSkipNone(w) \/ RaiseOutside(w)
  PROVE  Reported'
<1> USE DEF Reported
<1>1. [Next]_vars
  BY DEF Next, Worker
<1>2. Served'
  BY <1>1, ServedStep
<1>3. UNCHANGED <<run, results, futures, nextBatch, main, rets, finished>>
  BY DEF AssertSkipNone, RaiseOutside, mainVars
<1>4. /\ phase'[w] = "idle"
      /\ \A v \in Workers : v # w =>
           batch'[v] = batch[v] /\ pos'[v] = pos[v] /\ phase'[v] = phase[v]
  BY DEF AssertSkipNone, RaiseOutside, Raise, GoIdle, Served, Typed, TypeOK
<1>5. Collected'
  BY <1>1, <1>3, <1>4, CollectedStays
<1>6. MayRaise \/ "process_pool" \in Executors
  BY DEF AssertSkipNone, RaiseOutside, SecondOfPickable, Served, Typed, TypeOK
<1>9. raised' = raised \cup {batch[w]} /\ phase[w] # "idle"
  BY DEF AssertSkipNone, RaiseOutside, ProcessEnded, Raise
<1>10. batch[w] \in futures
  BY <1>9, OwnRun
<1>7. /\ \A b : RunsOf(b)' = RunsOf(b)
      /\ \A b : Fresh(b)' <=> Fresh(b)
      /\ \A b : b # batch[w] => (Known(b)' <=> Known(b))
  BY <1>1, <1>3, <1>9, RunsStay DEF Fresh, Known
<1>8. Stored'
  BY <1>3, <1>6, <1>7, <1>9, <1>10 DEF Stored, Served, Typed, Cut
<1> QED
  BY <1>2, <1>5, <1>8

(* A worker only changes its own run, of which nothing is collected yet. *)
LEMMA StageReports ==
  ASSUME Reported, NEW w \in Workers,
         \/ Process(w) \/ ProcessPost(w)
         \/ Enter(w) \/ Succeed(w) \/ Fail(w) \/ FailCompleted(w)
  PROVE  Reported'
<1> USE DEF Reported
<1>1. [Next]_vars
  BY DEF Next, Worker
<1>2. Served'
  BY <1>1, ServedStep
<1>3. /\ UNCHANGED <<results, futures, nextBatch, raised, main, rets, finished, batch, pos, order>>
      /\ \A v \in Workers : phase'[v] # "idle" => phase[v] # "idle"
  BY DEF Process, ProcessPost, ProcessEnded, Enter, Succeed, Fail, FailCompleted, Leave,
         mainVars, poolVars, Served, Typed, TypeOK
<1>4. phase[w] # "idle"
  BY DEF Process, ProcessPost, ProcessEnded, Enter, Succeed, Fail, FailCompleted,
         Served, Typed, Seats, StageReady
<1> DEFINE own == CurrentRun(w)
<1>5. \A r \in Runs : r # own => run'[r] = run[r]
  BY DEF Process, ProcessPost, Enter, Succeed, Fail, FailCompleted, Served, Typed, TypeOK
<1>6. /\ batch[w] \in futures /\ batch[w] \notin finished
      /\ \A b : b # batch[w] => own \notin RunsOf(b)
      /\ \A v \in Workers : phase[v] # "idle" =>
           \A i \in Positions(batch[v]) : i < pos[v] => order[i] # own
  BY <1>4, OwnRun
<1> HIDE DEF own
<1>7. /\ \A b : RunsOf(b)' = RunsOf(b) /\ RunsOf(b) \subseteq Runs
      /\ \A b : Positions(b)' = Positions(b) /\ Positions(b) \subseteq Runs
  BY <1>1, RunsStay, Counters DEF Served, Positions
<1>8. Collected'
  <2>1. \A b \in finished : \A r \in RunsOf(b) : rets'[r] = Result(run'[r])
    <3>1. \A b \in finished : \A r \in RunsOf(b) : r \in Runs /\ r # own
      BY <1>6, <1>7
    <3> QED
      BY <1>3, <1>5, <3>1 DEF Collected
  <2>2. ASSUME NEW v \in Workers, phase'[v] # "idle",
               NEW i \in Positions(batch[v]), i < pos[v]
        PROVE  rets'[order[i]] = Result(run'[order[i]])
    <3>1. order[i] # own /\ order[i] \in Runs
      BY <1>3, <1>6, <1>7, <2>2, Counters DEF Served
    <3> QED
      BY <1>3, <1>5, <2>2, <3>1 DEF Collected
  <2> QED
    BY <1>3, <1>7, <2>1, <2>2 DEF Collected
<1>9. \A b : own \notin RunsOf(b) => (Fresh(b)' <=> Fresh(b)) /\ (Known(b)' <=> Known(b))
  <2>1. ASSUME NEW b, own \notin RunsOf(b)
        PROVE  \A r \in RunsOf(b) : run'[r] = run[r]
    BY <1>5, <1>7, <2>1
  <2> QED
    BY <1>3, <1>7, <2>1 DEF Fresh, Known
<1>10. \A b \in Batches \ futures : own \notin RunsOf(b)
  BY <1>6
<1>11. main = "submit" => \A b \in Batches : b >= nextBatch => own \notin RunsOf(b)
  <2>1. main = "submit" => batch[w] < nextBatch
    BY <1>6 DEF Served, Typed, Cut
  <2>2. \A b \in Batches : b \in Nat
    BY BatchNumbers
  <2>3. batch[w] \in Nat /\ nextBatch \in Nat
    BY <1>4, <2>2, AtWork, Counters DEF Served
  <2> QED
    BY <1>6, <2>1, <2>2, <2>3
<1>12. Stored'
  <2>1. \A b \in Batches \ futures' :
          \/ main' = "submit" /\ b >= nextBatch' /\ Fresh(b)'
          \/ Known(b)'
    BY <1>3, <1>7, <1>9, <1>10 DEF Stored
  <2>2. ~PerStage =>
          /\ \A b \in futures' : \A r \in RunsOf(b)' : results'[r] = NoResult
          /\ main' = "submit" => \A b \in Batches : b >= nextBatch' => Fresh(b)'
    BY <1>3, <1>7, <1>9, <1>11 DEF Stored
  <2> QED
    BY <1>3, <2>1, <2>2 DEF Stored
<1> QED
  BY <1>2, <1>8, <1>12

(* The result of a run is collected when it is right, and the last one of a  *)
(* batch makes the batch finished.                                           *)
LEMMA CollectReports ==
  ASSUME Reported, NEW w \in Workers, Collect(w)
  PROVE  Reported'
<1> USE DEF Reported
<1>1. [Next]_vars
  BY DEF Next, Worker
<1>2. Served'
  BY <1>1, ServedStep
<1>3. UNCHANGED <<results, futures, nextBatch, raised, main, run, order>>
  BY DEF Collect, mainVars
<1>4. phase[w] # "idle"
  BY DEF Collect, ProcessEnded
<1>5. Stored'
  BY <1>1, <1>3, StoredStays
<1> DEFINE own == CurrentRun(w)
           b == batch[w]
<1>6. own \in Runs /\ pos[w] \in Positions(b) /\ pos[w] \in Runs
  BY <1>4, AtWork DEF Served
<1>7. /\ b \notin finished
      /\ \A c : c # b => own \notin RunsOf(c)
      /\ \A v \in Workers : phase[v] # "idle" =>
           \A i \in Positions(batch[v]) : i < pos[v] => order[i] # own
  BY <1>4, OwnRun
<1>8. /\ rets'[own] = Result(run[own])
      /\ \A r \in Runs : r # own => rets'[r] = rets[r]
  BY <1>6 DEF Collect, Served, Typed, TypeOK
<1>9. /\ \A c : RunsOf(c)' = RunsOf(c) /\ RunsOf(c) \subseteq Runs
      /\ \A c : Positions(c)' = Positions(c) /\ Positions(c) \subseteq Runs
      /\ \A i \in Runs : order[i] \in Runs
  BY <1>1, RunsStay, Counters DEF Served, Positions
<1>10. \A v \in Workers : v # w =>
         batch'[v] = batch[v] /\ pos'[v] = pos[v] /\ phase'[v] = phase[v]
  BY DEF Collect, GoIdle, Served, Typed, TypeOK
<1>11. order[pos[w]] = own
  BY DEF CurrentRun
<1> HIDE DEF own, b
<1>12. \A c \in finished : \A r \in RunsOf(c) : rets'[r] = Result(run'[r])
  <2>1. \A c \in finished : \A r \in RunsOf(c) : r \in Runs /\ r # own
    BY <1>7, <1>9
  <2> QED
    BY <1>3, <1>8, <2>1 DEF Collected
<1>13. ASSUME NEW v \in Workers, phase[v] # "idle", NEW i \in Positions(batch[v]), i < pos[v]
       PROVE  rets'[order[i]] = Result(run'[order[i]])
  <2>1. order[i] \in Runs /\ order[i] # own
    BY <1>7, <1>9, <1>13
  <2> QED
    BY <1>3, <1>8, <1>13, <2>1 DEF Collected
<1>14. \A i \in Positions(b) : i <= pos[w] => rets'[order[i]] = Result(run'[order[i]])
  <2>1. ASSUME NEW i \in Positions(b), i <= pos[w]
        PROVE  i < pos[w] \/ i = pos[w]
    BY <1>6, <1>9, <2>1 DEF Runs
  <2> QED
    BY <1>3, <1>4, <1>8, <1>11, <1>13, <2>1 DEF b
<1>15. CASE /\ pos[w] + 1 \in Positions(b) /\ finished' = finished
            /\ pos'[w] = pos[w] + 1 /\ batch'[w] = b
  <2>1. \A i \in Positions(b) : i < pos[w] + 1 => i <= pos[w]
    BY <1>6, <1>9 DEF Runs
  <2>2. \A v \in Workers : phase'[v] # "idle" =>
          \A i \in Positions(batch'[v]) : i < pos'[v] => rets'[order[i]] = Result(run'[order[i]])
    BY <1>10, <1>13, <1>14, <1>15, <2>1
  <2>3. Collected'
    BY <1>3, <1>9, <1>12, <1>15, <2>2 DEF Collected
  <2> QED
    BY <1>2, <1>5, <2>3
<1>16. CASE /\ pos[w] + 1 \notin Positions(b) /\ finished' = finished \cup {b}
            /\ phase'[w] = "idle"
  <2>1. \A i \in Positions(b) : i <= pos[w]
    BY <1>6, <1>9, <1>16, BatchOrder DEF Runs
  <2>2. \A r \in RunsOf(b) : rets'[r] = Result(run'[r])
    BY <1>14, <2>1 DEF RunsOf
  <2>3. \A v \in Workers : phase'[v] # "idle" =>
          \A i \in Positions(batch'[v]) : i < pos'[v] => rets'[order[i]] = Result(run'[order[i]])
    BY <1>10, <1>13, <1>16
  <2>4. Collected'
    BY <1>3, <1>9, <1>12, <1>16, <2>2, <2>3 DEF Collected
  <2> QED
    BY <1>2, <1>5, <2>4
<1>17. \/ /\ pos[w] + 1 \in Positions(b) /\ finished' = finished
          /\ pos'[w] = pos[w] + 1 /\ batch'[w] = b
       \/ /\ pos[w] + 1 \notin Positions(b) /\ finished' = finished \cup {b}
          /\ phase'[w] = "idle"
  BY DEF Collect, GoIdle, Served, Typed, TypeOK, b
<1> QED
  BY <1>15, <1>16, <1>17

LEMMA ReportedStep == Undisturbed /\ Reported /\ [Next]_vars => Reported'
  BY SubmitReports, JoinReports, MainReports, TakeReports, RaiseReports, StageReports,
     CollectReports, Cases

LEMMA ReportedMatches == Reported => ResultsMatchRuns
<1> SUFFICES ASSUME Reported, main \notin {"submit", "join"}, NEW r \in Runs
             PROVE  results[r] = IF \E b \in raised : r \in RunsOf(b)
                                 THEN NoResult ELSE Result(run[r])
  BY DEF ResultsMatchRuns
<1>1. PICK i \in Runs : order[i] = r
  BY DEF Reported, Served, OneToOne
<1>2. r \in RunsOf(BatchOf(i)) /\ BatchOf(i) \in Batches
  BY <1>1 DEF RunsOf, Positions, Batches
<1>3. futures = {}
  BY DEF Reported, Served, Typed, Cut
<1>4. Known(BatchOf(i))
  BY <1>2, <1>3 DEF Reported, Stored
<1>5. (\E b \in raised : r \in RunsOf(b)) <=> BatchOf(i) \in raised
  BY <1>2, Shares DEF Reported
<1> QED
  BY <1>2, <1>4, <1>5 DEF Known

(* In whatever order the batches are shuffled and completed, the results     *)
(* that process returns are those of the runs, each at the index of its run, *)
(* but for the batches whose worker raised, whose runs have none.            *)
THEOREM ResultsAreRight ==
  ASSUME Undisturbed
  PROVE  Spec => []ResultsMatchRuns
<1>1. Init => Reported
  BY ReportedInit
<1>2. Reported /\ [Next]_vars => Reported'
  BY ReportedStep
<1> QED
  BY <1>1, <1>2, ReportedMatches, PTL DEF Spec

-----------------------------------------------------------------------------
(* The number of failures. *)

(* A report is never empty: NOP is always completed. *)
Grounded == \A r \in Runs : NOP \in run[r].completed

(* A batch that the main thread has left behind in this round, and a run     *)
(* whose result is lost with it.                                             *)
Left(b) == b \notin futures /\ ~(main = "submit" /\ b >= nextBatch)
Missing(r) == results[r] = NoResult /\ \E b \in Batches : r \in RunsOf(b) /\ Left(b)

Counted == {r \in Runs : results[r].failing \/ Missing(r)}

(* A batch with a failed run is not submitted again, so that each of its     *)
(* failures is counted in one round only.                                    *)
Tally ==
  /\ main # "returned" => num_failures = Cardinality(Counted)
  /\ \A b \in futures : \A r \in RunsOf(b) : ~results[r].failing

Accounted == Reported /\ Grounded /\ Tally

LEMMA RealResults ==
  ASSUME Grounded, NEW r \in Runs
  PROVE  Result(run[r]) # NoResult
  BY DEF Grounded, Result, Report, NoResult

LEMMA GroundedStep == Served /\ Grounded /\ [Next]_vars => Grounded'
<1> SUFFICES ASSUME Served, Grounded, [Next]_vars PROVE Grounded'
  OBVIOUS
<1>1. run \in [Runs -> RunType] /\ \A r \in Runs : NOP \in run[r].completed
  BY DEF Served, Typed, TypeOK, Grounded
<1>2. ASSUME NEW w \in Workers, phase[w] # "idle", NEW x, run' = [run EXCEPT ![CurrentRun(w)] = x],
             NOP \in x.completed
      PROVE  Grounded'
  BY <1>1, <1>2 DEF Grounded
<1>3. ASSUME NEW x \in RunType, NEW s
      PROVE  /\ Prepared(x, s).completed = x.completed
             /\ Entered(x, s).completed = x.completed
             /\ Failed(x, s).completed = x.completed
             /\ x.completed \subseteq Completed(x, s).completed
             /\ Failed(Completed(x, s), s).completed = Completed(x, s).completed
  BY DEF Prepared, Entered, Failed, Completed, RunType
<1>4. ASSUME NEW w \in Workers, Enter(w) \/ Succeed(w) \/ Fail(w) \/ FailCompleted(w)
      PROVE  Grounded'
  <2>1. todo[w] # {}
    BY <1>4 DEF Enter, Succeed, Fail, FailCompleted, Served, Typed, Seats
  <2>2. phase[w] # "idle"
    BY <2>1, Staged DEF Served
  <2> DEFINE x == run[CurrentRun(w)]
  <2>3. x \in RunType /\ NOP \in x.completed
    BY <1>1, <2>2, AtWork DEF Served
  <2>4. \/ run' = [run EXCEPT ![CurrentRun(w)] = Entered(x, Current(w))]
        \/ run' = [run EXCEPT ![CurrentRun(w)] = Completed(x, stage[w])]
        \/ run' = [run EXCEPT ![CurrentRun(w)] = Failed(x, stage[w])]
        \/ run' = [run EXCEPT ![CurrentRun(w)] = Failed(Completed(x, POSTPROCESS), POSTPROCESS)]
    BY <1>4 DEF Enter, Succeed, Fail, FailCompleted
  <2> HIDE DEF x
  <2> QED
    BY <1>2, <1>3, <2>2, <2>3, <2>4
<1>5. ASSUME NEW w \in Workers, Process(w)
      PROVE  Grounded'
  <2>1. phase[w] # "idle"
    BY <1>5 DEF Process
  <2>2. CurrentRun(w) \in Runs
    BY <2>1, AtWork DEF Served
  <2> QED
    BY <1>1, <1>2, <1>5, <2>1, <2>2 DEF Process, NewRun
<1>6. ASSUME \/ Submit \/ EndRound \/ PrintSummary \/ PostprocessSession \/ UNCHANGED vars
             \/ \E b \in Batches : JoinResult(b) \/ JoinException(b)
             \/ \E w \in Workers : \/ Take(w) \/ AssertSkipNone(w) \/ ProcessPost(w)
                                   \/ Collect(w) \/ RaiseOutside(w)
      PROVE  Grounded'
  <2>1. run' = run
    BY <1>6 DEF Submit, EndRound, PrintSummary, PostprocessSession, JoinResult, JoinException,
                Take, AssertSkipNone, ProcessPost, Collect, RaiseOutside, vars
  <2> QED
    BY <1>1, <2>1 DEF Grounded
<1> QED
  BY <1>4, <1>5, <1>6, Cases

LEMMA TallyInit == Undisturbed /\ Init => Grounded /\ Tally
<1> SUFFICES ASSUME Undisturbed, Init PROVE Grounded /\ Tally
  OBVIOUS
<1>1. main = "submit" /\ nextBatch = 1 /\ futures = {} /\ num_failures = 0
  BY DEF Init, Undisturbed
<1>2. \A b \in Batches : b >= 1
  BY BatchNumbers DEF Batches
<1>3. \A b \in Batches : ~Left(b)
  BY <1>1, <1>2 DEF Left
<1>4. Counted = {}
  BY <1>3 DEF Init, Counted, Missing, NoResult
<1>5. Cardinality(Counted) = 0
  BY <1>4, FS_EmptySet
<1> QED
  BY <1>1, <1>5 DEF Init, Grounded, NewRun, Tally

(* More runs are counted. *)
LEMMA CountMore ==
  ASSUME NEW S \in SUBSET Runs, NEW T \in SUBSET Runs, S \cap T = {}
  PROVE  Cardinality(S \cup T) = Cardinality(S) + Cardinality(T)
<1>1. IsFiniteSet(S) /\ IsFiniteSet(T) /\ Cardinality(S) \in Nat /\ Cardinality(T) \in Nat
  BY FiniteRuns
<1>2. Cardinality(S \cup T) = Cardinality(S) + Cardinality(T) - Cardinality(S \cap T)
  BY <1>1, FS_Union
<1>3. Cardinality(S \cap T) = 0
  BY FS_EmptySet
<1> QED
  BY <1>1, <1>2, <1>3

(* The runs of a batch that is not joined are not counted. *)
LEMMA Uncounted ==
  ASSUME Accounted, NEW b \in futures
  PROVE  Counted \cap RunsOf(b) = {}
<1> SUFFICES ASSUME NEW r \in RunsOf(b), r \in Counted PROVE FALSE
  OBVIOUS
<1>1. Missing(r)
  BY DEF Accounted, Tally, Counted
<1>2. PICK c \in Batches : r \in RunsOf(c) /\ Left(c)
  BY <1>1 DEF Missing
<1>3. b = c
  BY <1>2, Shares DEF Accounted, Reported
<1> QED
  BY <1>2, <1>3 DEF Left

LEMMA JoinTallies ==
  ASSUME Undisturbed, Accounted, NEW b \in Batches, JoinResult(b) \/ JoinException(b)
  PROVE  Tally'
<1>1. [Next]_vars
  BY DEF Next, Main
<1>2. \A c : RunsOf(c)' = RunsOf(c) /\ RunsOf(c) \subseteq Runs
  BY <1>1, RunsStay, Counters DEF Accounted, Reported, Served
<1>3. main = "join" /\ main' = "join" /\ futures' = futures \ {b} /\ b \in futures
  BY DEF JoinResult, JoinException
<1>4. /\ num_failures = Cardinality(Counted) /\ Counted \subseteq Runs
      /\ \A c \in futures : \A r \in RunsOf(c) : ~results[r].failing
  BY <1>3 DEF Accounted, Tally, Counted
<1>5. \A c : Left(c)' <=> Left(c) \/ c = b
  BY <1>3 DEF Left
<1>6. \A c, d : \A r \in RunsOf(c) : r \in RunsOf(d) => c = d
  BY Shares DEF Accounted, Reported
<1> DEFINE T == {r \in RunsOf(b) : results'[r].failing \/ results'[r] = NoResult}
<1>7. \A r \in Runs : r \notin RunsOf(b) => results'[r] = results[r]
  BY DEF JoinResult, JoinException
<1>8. Counted' = Counted \cup T
  <2>1. ASSUME NEW r \in Runs, r \in RunsOf(b)
        PROVE  (r \in Counted' <=> r \in T) /\ r \notin Counted
    <3>1. Missing(r)' <=> results'[r] = NoResult
      BY <1>2, <1>5, <2>1 DEF Missing
    <3>2. r \notin Counted
      BY <1>3, <2>1, Uncounted
    <3> QED
      BY <2>1, <3>1, <3>2 DEF Counted
  <2>2. ASSUME NEW r \in Runs, r \notin RunsOf(b)
        PROVE  r \in Counted' <=> r \in Counted
    <3>1. Missing(r)' <=> Missing(r)
      BY <1>2, <1>5, <1>7, <2>2 DEF Missing
    <3> QED
      BY <1>7, <2>2, <3>1 DEF Counted
  <2>3. Counted' \subseteq Runs /\ Counted \subseteq Runs /\ T \subseteq RunsOf(b)
    BY DEF Counted
  <2> QED
    BY <1>2, <2>1, <2>2, <2>3
<1>9. num_failures' = num_failures + Cardinality(T)
  <2>1. CASE JoinResult(b)
    <3>1. \A r \in RunsOf(b) : results'[r] = rets[r]
      BY <1>2, <2>1 DEF JoinResult
    <3>2. \A r \in RunsOf(b) : results'[r] # NoResult
      BY <1>2, <2>1, <3>1, RealResults DEF JoinResult, Accounted, Reported, Collected
    <3>3. T = {r \in RunsOf(b) : rets[r].failing}
      BY <3>1, <3>2
    <3> QED
      BY <2>1, <3>3 DEF JoinResult
  <2>2. CASE JoinException(b)
    <3>1. b \in raised
      BY <2>2 DEF JoinException
    <3>2. ~PerStage
      BY <3>1 DEF Accounted, Reported, Stored, Undisturbed
    <3>3. \A r \in RunsOf(b) : results[r] = NoResult
      BY <1>3, <3>2 DEF Accounted, Reported, Stored
    <3>4. T = RunsOf(b)
      BY <2>2, <3>3 DEF JoinException
    <3> QED
      BY <2>2, <3>4 DEF JoinException
  <2> QED
    BY <2>1, <2>2
<1>10. Counted \cap T = {} /\ T \in SUBSET Runs
  BY <1>2, <1>3, Uncounted
<1> HIDE DEF T
<1>11. num_failures' = Cardinality(Counted')
  BY <1>4, <1>8, <1>9, <1>10, CountMore
<1>12. \A c \in futures' : \A r \in RunsOf(c) : results'[r] = results[r]
  BY <1>2, <1>3, <1>6, <1>7
<1> QED
  BY <1>2, <1>3, <1>4, <1>11, <1>12 DEF Tally

LEMMA SubmitTallies == Undisturbed /\ Accounted /\ Submit => Tally'
<1> SUFFICES ASSUME Undisturbed, Accounted, Submit PROVE Tally'
  OBVIOUS
<1>1. [Next]_vars
  BY DEF Next, Main
<1>2. \A b : RunsOf(b)' = RunsOf(b) /\ RunsOf(b) \subseteq Runs
  BY <1>1, RunsStay, Counters DEF Accounted, Reported, Served
<1>3. /\ main = "submit" /\ nextBatch \in Batches /\ nextBatch \in Nat
      /\ nextBatch' = nextBatch + 1 /\ main' \in {"submit", "join"}
      /\ main' = "join" => nextBatch + 1 \notin Batches
      /\ \A b \in futures : b < nextBatch
      /\ UNCHANGED <<results, num_failures, run>>
  BY Counters DEF Submit, Accounted, Reported, Served, Typed, Cut
<1>4. \/ /\ futures' = futures \cup {nextBatch}
         /\ PerStage => \A r \in RunsOf(nextBatch) : ~run[r].failing
      \/ futures' = futures /\ PerStage /\ ~Fresh(nextBatch)
  BY DEF Submit, Fresh, NewRun
<1>5. nextBatch \notin futures /\ ~Left(nextBatch)
  BY <1>3 DEF Left
<1>6. ASSUME NEW b \in Batches
      PROVE  Left(b)' <=> Left(b) \/ (b = nextBatch /\ futures' = futures)
  <2>1. b \in Nat
    BY BatchNumbers
  <2>2. main' = "join" => b <= nextBatch
    BY <1>3, LastBatch
  <2>3. b \in futures' <=> b \in futures \/ (b = nextBatch /\ futures' # futures)
    BY <1>4, <1>5
  <2> QED
    BY <1>3, <1>5, <2>1, <2>2, <2>3 DEF Left
<1>7. ASSUME futures' = futures, NEW r \in RunsOf(nextBatch)
      PROVE  results[r] # NoResult
  <2>1. PerStage /\ ~Fresh(nextBatch)
    BY <1>4, <1>5, <1>7
  <2>2. Known(nextBatch) /\ r \in Runs
    BY <1>2, <1>3, <1>5, <1>7, <2>1 DEF Accounted, Reported, Stored
  <2>3. ~MayRaise /\ "process_pool" \notin Executors
    BY <2>1 DEF Undisturbed
  <2>4. raised = {}
    BY <2>3 DEF Accounted, Reported, Stored
  <2> QED
    BY <1>7, <2>2, <2>4, RealResults DEF Known, Accounted
<1>8. Counted' = Counted
  <2>1. \A r \in Runs : Missing(r)' <=> Missing(r)
    BY <1>2, <1>3, <1>6, <1>7 DEF Missing
  <2> QED
    BY <1>3, <2>1 DEF Counted
<1>9. ASSUME futures' = futures \cup {nextBatch}, NEW r \in RunsOf(nextBatch)
      PROVE  ~results[r].failing
  <2>1. CASE PerStage
    <3>1. futures' # futures
      BY <1>5, <1>9
    <3>2. ~run[r].failing
      BY <1>4, <1>9, <2>1, <3>1
    <3>3. Fresh(nextBatch) \/ Known(nextBatch)
      BY <1>3, <1>5, <1>9 DEF Accounted, Reported, Stored
    <3>4. results[r] \in {NoResult, Result(run[r])}
      BY <3>3 DEF Fresh, Known
    <3> QED
      BY <3>2, <3>4 DEF NoResult, Result
  <2>2. CASE ~PerStage
    <3>1. Fresh(nextBatch)
      BY <1>3, <2>2 DEF Accounted, Reported, Stored
    <3> QED
      BY <1>9, <3>1 DEF Fresh, NoResult
  <2> QED
    BY <2>1, <2>2
<1>10. \A b \in futures' : \A r \in RunsOf(b) : ~results[r].failing
  BY <1>4, <1>9 DEF Accounted, Tally
<1>11. num_failures = Cardinality(Counted)
  BY <1>3 DEF Accounted, Tally
<1> QED
  BY <1>2, <1>3, <1>8, <1>10, <1>11 DEF Tally

LEMMA EndRoundTallies == Undisturbed /\ Accounted /\ EndRound => Tally'
<1> SUFFICES ASSUME Undisturbed, Accounted, EndRound PROVE Tally'
  OBVIOUS
<1>1. [Next]_vars
  BY DEF Next, Main
<1>2. \A b : RunsOf(b)' = RunsOf(b)
  BY <1>1, RunsStay
<1>3. main = "join" /\ futures = {} /\ UNCHANGED <<results, num_failures, futures>>
  BY DEF EndRound
<1>4. CASE main' = "joined"
  <2>1. \A b : Left(b)' <=> Left(b)
    BY <1>3, <1>4 DEF Left
  <2>2. \A r : Missing(r)' <=> Missing(r)
    BY <1>2, <1>3, <2>1 DEF Missing
  <2>3. Counted' = Counted
    BY <1>3, <2>2 DEF Counted
  <2> QED
    BY <1>2, <1>3, <1>4, <2>3 DEF Accounted, Tally
<1>5. CASE PerStage /\ main' = "submit" /\ nextBatch' = 1
  <2>1. \A b \in Batches : b >= 1
    BY BatchNumbers DEF Batches
  <2>2. \A b \in Batches : ~Left(b)'
    BY <1>5, <2>1 DEF Left
  <2>3. ~MayRaise /\ "process_pool" \notin Executors
    BY <1>5 DEF Undisturbed
  <2>4. raised = {} /\ \A b \in Batches : Known(b)
    BY <1>3, <2>3 DEF Accounted, Reported, Stored
  <2>5. \A r \in Runs : ~Missing(r)
    BY <2>4, RealResults DEF Missing, Known, Accounted
  <2>6. \A r \in Runs : ~Missing(r)'
    BY <2>2 DEF Missing
  <2>7. Counted' = Counted
    BY <1>3, <2>5, <2>6 DEF Counted
  <2> QED
    BY <1>2, <1>3, <1>5, <2>7 DEF Accounted, Tally
<1> QED
  BY <1>4, <1>5 DEF EndRound

LEMMA OtherTallies ==
  ASSUME Accounted,
         \/ PrintSummary \/ PostprocessSession \/ UNCHANGED vars
         \/ \E w \in Workers :
              \/ Take(w) \/ Process(w) \/ AssertSkipNone(w)
              \/ Enter(w) \/ Succeed(w) \/ Fail(w) \/ FailCompleted(w)
              \/ ProcessPost(w) \/ Collect(w) \/ RaiseOutside(w)
  PROVE  Tally'
<1>1. [Next]_vars
  BY DEF Next, Main, Worker
<1>2. \A b : RunsOf(b)' = RunsOf(b)
  BY <1>1, RunsStay
<1>3. /\ UNCHANGED <<results, futures, nextBatch>>
      /\ \/ UNCHANGED <<main, num_failures>>
         \/ main = "joined" /\ main' = "printed" /\ num_failures' = num_failures
         \/ main = "printed" /\ main' = "returned"
  BY DEF PrintSummary, PostprocessSession, Take, Process, AssertSkipNone, Enter, Succeed, Fail,
         FailCompleted, Leave, ProcessPost, Collect, RaiseOutside, vars, mainVars
<1>4. \A b : Left(b)' <=> Left(b)
  BY <1>3 DEF Left
<1>5. \A r : Missing(r)' <=> Missing(r)
  BY <1>2, <1>3, <1>4 DEF Missing
<1>6. Counted' = Counted
  BY <1>3, <1>5 DEF Counted
<1> QED
  BY <1>2, <1>3, <1>6 DEF Accounted, Tally

LEMMA AccountedStep == Undisturbed /\ Accounted /\ [Next]_vars => Accounted'
<1>1. Undisturbed /\ Accounted /\ [Next]_vars => Tally'
  BY JoinTallies, SubmitTallies, EndRoundTallies, OtherTallies, Cases
<1>2. Accounted /\ [Next]_vars => Grounded'
  BY GroundedStep DEF Accounted, Reported
<1> QED
  BY <1>1, <1>2, ReportedStep DEF Accounted

LEMMA CountedOnce == Accounted => FailuresCountedOnce
<1> SUFFICES ASSUME Accounted, main = "joined"
             PROVE  num_failures =
                      Cardinality({r \in Runs : results[r].failing \/ results[r] = NoResult})
  BY DEF FailuresCountedOnce
<1>1. \A b \in Batches : Left(b)
  BY DEF Accounted, Reported, Served, Typed, Cut, Left
<1>2. \A r \in Runs : \E b \in Batches : r \in RunsOf(b)
  BY DEF Accounted, Reported, Served, OneToOne, RunsOf, Positions, Batches
<1>3. Counted = {r \in Runs : results[r].failing \/ results[r] = NoResult}
  BY <1>1, <1>2 DEF Counted, Missing
<1> QED
  BY <1>3 DEF Accounted, Tally

(* Every run that has failed, or whose result is lost with its batch, is     *)
(* counted once, in whatever round it fails and however many batches raise.  *)
THEOREM FailuresAreCountedOnce ==
  ASSUME Undisturbed
  PROVE  Spec => []FailuresCountedOnce
<1>1. Init => Accounted
  BY ReportedInit, TallyInit DEF Accounted
<1>2. Accounted /\ [Next]_vars => Accounted'
  BY AccountedStep
<1> QED
  BY <1>1, <1>2, CountedOnce, PTL DEF Spec

-----------------------------------------------------------------------------
(* No future is waited for that nobody completes. *)

(* A batch whose future is not joined is waiting, done, or with a worker. *)
Pending ==
  \A b \in futures : \/ b \in queued \cup finished \cup raised
                     \/ \E w \in Workers : phase[w] # "idle" /\ batch[w] = b

LEMMA PendingStep == Served /\ Pending /\ [Next]_vars => Pending'
<1> SUFFICES ASSUME Served, Pending, [Next]_vars PROVE Pending'
  OBVIOUS
<1> USE DEF Pending
<1>1. CASE Submit
  <2>1. /\ \/ UNCHANGED <<queued, futures, raised>>
           \/ /\ queued' = queued \cup {nextBatch} /\ futures' = futures \cup {nextBatch}
              /\ raised' = raised \ {nextBatch}
        /\ UNCHANGED <<finished, batch, phase>>
    BY <1>1 DEF Submit, workerVars
  <2> QED
    BY <2>1
<1>2. ASSUME NEW b \in Batches, JoinResult(b) \/ JoinException(b)
      PROVE  Pending'
  <2>1. /\ futures' = futures \ {b} /\ UNCHANGED <<queued, batch, phase>>
        /\ finished \ {b} \subseteq finished' /\ raised \ {b} \subseteq raised'
    BY <1>2 DEF JoinResult, JoinException, poolVars, workerVars
  <2> QED
    BY <2>1
<1>3. CASE EndRound \/ PrintSummary \/ PostprocessSession \/ UNCHANGED vars
  <2>1. UNCHANGED <<futures, queued, finished, raised, batch, phase>>
    BY <1>3 DEF EndRound, PrintSummary, PostprocessSession, vars, mainVars, poolVars, workerVars
  <2> QED
    BY <2>1
<1>0. /\ phase \in [Workers -> {"idle", "next", "process", "post"}]
      /\ batch \in [Workers -> Batches \cup {NoBatch}]
  BY DEF Served, Typed, TypeOK
<1>4. ASSUME NEW w \in Workers, Take(w)
      PROVE  Pending'
  <2> DEFINE b == Least(queued)
  <2>1. /\ queued' = queued \ {b} /\ batch' = [batch EXCEPT ![w] = b]
        /\ phase' = [phase EXCEPT ![w] = "next"] /\ phase[w] = "idle"
        /\ UNCHANGED <<futures, finished, raised>>
    BY <1>4 DEF Take, mainVars
  <2> HIDE DEF b
  <2>2. /\ batch'[w] = b /\ phase'[w] = "next"
        /\ \A v \in Workers : v # w => batch'[v] = batch[v] /\ phase'[v] = phase[v]
    BY <1>0, <2>1
  <2> QED
    BY <2>1, <2>2
<1>5. ASSUME NEW w \in Workers, AssertSkipNone(w) \/ RaiseOutside(w) \/ Collect(w)
      PROVE  Pending'
  <2>1. CASE GoIdle(w) /\ batch[w] \in finished' \cup raised'
    <3>1. \A v \in Workers : v # w => batch'[v] = batch[v] /\ phase'[v] = phase[v]
      BY <1>0, <2>1 DEF GoIdle
    <3>2. /\ UNCHANGED <<futures, queued>>
          /\ finished \subseteq finished' /\ raised \subseteq raised'
      BY <1>5 DEF AssertSkipNone, RaiseOutside, Collect, Raise, GoIdle, mainVars
    <3> QED
      BY <2>1, <3>1, <3>2
  <2>2. CASE /\ phase' = [phase EXCEPT ![w] = "next"]
             /\ UNCHANGED <<futures, queued, finished, raised, batch>>
    <3>1. \A v \in Workers : phase[v] # "idle" => phase'[v] # "idle"
      BY <1>0, <2>2
    <3> QED
      BY <2>2, <3>1
  <2>3. CASE AssertSkipNone(w) \/ RaiseOutside(w)
    BY <2>1, <2>3 DEF AssertSkipNone, RaiseOutside, Raise
  <2>4. CASE Collect(w)
    <3>1. CASE pos[w] + 1 \in Positions(batch[w])
      <4>1. /\ phase' = [phase EXCEPT ![w] = "next"]
            /\ UNCHANGED <<mainVars, queued, finished, raised, batch>>
        BY <2>4, <3>1 DEF Collect
      <4> QED
        BY <2>2, <4>1 DEF mainVars
    <3>2. CASE pos[w] + 1 \notin Positions(batch[w])
      <4>1. GoIdle(w) /\ finished' = finished \cup {batch[w]}
        BY <2>4, <3>2 DEF Collect
      <4> QED
        BY <2>1, <4>1
    <3> QED
      BY <3>1, <3>2
  <2> QED
    BY <1>5, <2>3, <2>4
<1>6. ASSUME NEW w \in Workers,
             \/ Process(w) \/ ProcessPost(w)
             \/ Enter(w) \/ Succeed(w) \/ Fail(w) \/ FailCompleted(w)
      PROVE  Pending'
  <2>1. /\ UNCHANGED <<futures, queued, finished, raised, batch>>
        /\ \/ phase' \in {[phase EXCEPT ![w] = "process"], [phase EXCEPT ![w] = "post"]}
           \/ UNCHANGED phase
    BY <1>6 DEF Process, ProcessPost, Enter, Succeed, Fail, FailCompleted, Leave,
                mainVars, poolVars
  <2>2. \A v \in Workers : phase[v] # "idle" => phase'[v] # "idle"
    BY <1>0, <2>1
  <2> QED
    BY <2>1, <2>2
<1> QED
  BY <1>1, <1>2, <1>3, <1>4, <1>5, <1>6, Cases

(* The guards of the actions: what the main thread, or a worker, can do. *)
MainCanStep ==
  \/ main \in {"submit", "joined", "printed"}
  \/ main = "join" /\ (futures = {} \/ futures \cap (finished \cup raised) # {})

WorkerCanStep(w) ==
  \/ phase[w] = "idle" /\ queued # {}            \* Take
  \/ phase[w] = "next"                           \* Process, AssertSkipNone
  \/ todo[w] # {} /\ stage[w] = NoStage          \* Enter
  \/ stage[w] # NoStage                          \* Fail
  \/ ProcessEnded(w)                             \* ProcessPost, Collect

SomebodyCanStep == main = "returned" \/ MainCanStep \/ \E w \in Workers : WorkerCanStep(w)

LEMMA PendingMoves ==
  ASSUME Workers # {}, Served, Pending
  PROVE  SomebodyCanStep
<1>1. SUFFICES ASSUME ~MainCanStep, main # "returned"
               PROVE  \E w \in Workers : WorkerCanStep(w)
  BY DEF SomebodyCanStep
<1>2. ASSUME NEW w \in Workers, phase[w] # "idle"
      PROVE  WorkerCanStep(w)
  BY <1>2 DEF WorkerCanStep, ProcessEnded, Served, Typed, TypeOK
<1>3. PICK b \in futures : b \notin finished \cup raised
  BY <1>1 DEF MainCanStep, Served, Typed, TypeOK
<1>4. CASE b \in queued
  BY <1>2, <1>4 DEF WorkerCanStep
<1>5. CASE \E w \in Workers : phase[w] # "idle"
  BY <1>2, <1>5
<1> QED
  BY <1>3, <1>4, <1>5 DEF Pending

(* Nobody waits for ever: until process_runs has returned, the main thread   *)
(* can go on, or the future it waits for is in the hands of a worker that    *)
(* can, whatever fails or raises.  What is missing to ProcessRunsReturns is  *)
(* that they do.                                                             *)
THEOREM SessionNeverStuck ==
  ASSUME Workers # {}
  PROVE  Spec => []SomebodyCanStep
<1>1. Init => Served /\ Pending
  <2>1. Init => Pending
    BY DEF Init, Pending
  <2> QED
    BY <2>1, ServedInit
<1>2. Served /\ Pending /\ [Next]_vars => (Served /\ Pending)'
  BY ServedStep, PendingStep
<1>3. Served /\ Pending => SomebodyCanStep
  BY PendingMoves
<1> QED
  BY <1>1, <1>2, <1>3, PTL DEF Spec
=============================================================================
