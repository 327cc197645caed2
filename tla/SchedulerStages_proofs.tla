----------------------- MODULE SchedulerStages_proofs -----------------------
(***************************************************************************)
(* Theorems about a session whose stages are separated (per_stage), for    *)
(* any number of runs and workers, any stages, any until, any batch size   *)
(* and any order.                                                          *)
(***************************************************************************)
EXTENDS SessionScheduler_proofs

USE SchedulerAssumption DEF SchedulerAssumption,
    NOP, LOAD, TUNE, BUILD, COMPILE, RUN, POSTPROCESS, DONE, NoStage, NoBatch

(* No worker raises outside of the stage functions: a batch that does not  *)
(* come to its end leaves runs behind that are one stage late.             *)
Separate == PerStage /\ ~MayRaise

-----------------------------------------------------------------------------
(* How far a run is.  x is the Run object of r, k a round.                 *)

Before(k) == {j \in Rounds : j < k}

(* It has completed its stages of the rounds in K, and nothing else. *)
Done(x, r, K) ==
  /\ ~x.failing /\ NOP \in x.completed
  /\ \A k \in K : StageAt(k) \in Available[r] => StageAt(k) \in x.completed
  /\ x.completed \subseteq {NOP} \cup {StageAt(k) : k \in K}

Due(x, r, k) == Done(x, r, Before(k))
Passed(x, r, k) == x.failing \/ Done(x, r, Before(k) \cup {k})

(* A worker with the stages t left is before the stage, or behind it. *)
Own(t, x, r, k) ==
  \/ t = {} /\ Passed(x, r, k)
  \/ /\ t = {StageAt(k)} /\ Due(x, r, k)
     /\ StageAt(k) \in Available[r] \ x.completed

(* The rounds, and what the main thread asks of the workers in a round. *)
LEMMA RoundStages ==
  /\ \A k \in Rounds : /\ k \in 1 .. (Until + 1) /\ StageAt(k) \in OptionalStages
                       /\ StageAt(k) = IF k <= Until THEN k ELSE POSTPROCESS
                       /\ StageAt(k) \in UsedStages
  /\ \A r \in Runs : \A s \in Available[r] : s <= Until => s \in Rounds
  /\ \A r \in Runs : POSTPROCESS \in Available[r] => Until + 1 \in Rounds
  /\ StageAt(Until + 1) = POSTPROCESS
  /\ \A r \in Runs : Available[r] \subseteq OptionalStages
<1>1. ASSUME NEW k \in Rounds
      PROVE  /\ k \in 1 .. (Until + 1) /\ StageAt(k) \in OptionalStages
             /\ StageAt(k) = IF k <= Until THEN k ELSE POSTPROCESS
             /\ StageAt(k) \in UsedStages
  BY DEF Rounds, StageAt, UsedStages
<1>2. ASSUME NEW r \in Runs, NEW s \in Available[r], s <= Until
      PROVE  s \in Rounds
  <2>1. s \in 1 .. (Until + 1)
    BY <1>2 DEF OptionalStages
  <2> QED
    BY <1>2, <2>1 DEF Rounds, StageAt
<1>3. ASSUME NEW r \in Runs, POSTPROCESS \in Available[r]
      PROVE  Until + 1 \in Rounds
  <2>1. Until + 1 \in 1 .. (Until + 1) /\ ~(Until + 1 <= Until)
    OBVIOUS
  <2> QED
    BY <1>3, <2>1 DEF Rounds, StageAt
<1>4. \A r \in Runs : Available[r] \subseteq OptionalStages
  OBVIOUS
<1>5. StageAt(Until + 1) = POSTPROCESS
  <2>1. ~(Until + 1 <= Until)
    OBVIOUS
  <2> QED
    BY <2>1 DEF StageAt
<1> QED
  BY <1>1, <1>2, <1>3, <1>4, <1>5

(* If a run has postprocesses, their stage is the last one. *)
LEMMA PostIsLast ==
  ASSUME NEW r \in Runs, POSTPROCESS \in Available[r]
  PROVE  StageAt(Greatest(Rounds)) = POSTPROCESS
<1>1. Until + 1 \in Rounds
  BY RoundStages
<1>2. \A k \in Rounds : k \in Int /\ k <= Until + 1
  BY RoundStages
<1>3. Greatest(Rounds) \in Rounds /\ \A k \in Rounds : k <= Greatest(Rounds)
  BY <1>1, <1>2 DEF Greatest
<1>4. Greatest(Rounds) = Until + 1
  BY <1>1, <1>2, <1>3
<1> QED
  BY <1>4, RoundStages

LEMMA SkippedStages ==
  ASSUME Separate, Typed, NEW r
  PROVE  Skipped(r) = (RunStage \ UsedStages)
                        \cup (IF IsLast(round) THEN {} ELSE {POSTPROCESS})
<1>1. executor = "thread_pool"
  BY DEF Separate, Typed, TypeOK
<1>2. executor # "process_pool"
  BY <1>1
<1> QED
  BY <1>2 DEF Separate, Skipped

(* The second call of Run.process is never made: postprocesses are put off *)
(* to the last stage.                                                      *)
LEMMA NoPost ==
  ASSUME Separate, Typed, NEW b, NEW r
  PROVE  ~NeedsPost(b, r)
<1> SUFFICES ASSUME NeedsPost(b, r) PROVE FALSE
  OBVIOUS
<1>1. /\ executor # "process_pool" /\ WorkerUntil = StageAt(round)
  <2>1. executor = "thread_pool"
    BY DEF Separate, Typed, TypeOK
  <2> QED
    BY <2>1 DEF Separate, WorkerUntil
<1>2. PICK q \in RunsOf(b) : POSTPROCESS \in Available[q]
  BY <1>1 DEF NeedsPost
<1>3. q \in Runs
  BY Counters
<1>4. ~IsLast(round)
  BY <1>1, <1>2, <1>3, PostIsLast DEF NeedsPost, IsLast
<1>5. POSTPROCESS \in Skipped(r)
  BY <1>4, SkippedStages
<1> QED
  BY <1>5 DEF NeedsPost

(* process executes the stage of the round, if the run has it and has not  *)
(* completed it, and no other one.                                         *)
LEMMA PlannedInRound ==
  ASSUME Separate, Typed, round \in Rounds,
         NEW r \in Runs, NEW x \in RunType, Due(x, r, round)
  PROVE  LET P == Planned(Available[r], NextStage(Available[r], x), WorkerUntil, Skipped(r))
         IN  Own(P, x, r, round)
<1> DEFINE st == StageAt(round)
           I  == Incomplete(Available[r], x)
           n  == NextStage(Available[r], x)
           P  == Planned(Available[r], n, WorkerUntil, Skipped(r))
<1>1. /\ round \in 1 .. (Until + 1) /\ st \in OptionalStages
      /\ st = (IF round <= Until THEN round ELSE POSTPROCESS)
      /\ st \in UsedStages /\ WorkerUntil = st
  BY RoundStages DEF Separate, WorkerUntil
<1>2. /\ NOP \in x.completed
      /\ \A k \in Rounds : k < round /\ StageAt(k) \in Available[r] => StageAt(k) \in x.completed
      /\ \A s \in x.completed : s = NOP \/ \E k \in Rounds : k < round /\ s = StageAt(k)
  BY DEF Due, Done, Before
<1>3. Available[r] \subseteq OptionalStages
  BY RoundStages
<1>4. I \subseteq Available[r] \ x.completed
  BY <1>2 DEF Incomplete, HasStage
<1>5. \A s \in Available[r] \ x.completed : s \in I
  BY <1>3 DEF Incomplete, HasStage, OptionalStages, RunStage
<1>6. /\ I = {} => n = DONE
      /\ I # {} => n \in I /\ \A s \in I : n <= s
  <2>1. I \subseteq Nat
    BY DEF Incomplete, RunStage
  <2> QED
    BY <2>1, LeastNatural DEF NextStage
<1>7. P = {s \in n .. st : s \in Available[r] /\ s \notin Skipped(r)}
  BY <1>1 DEF Planned, OptionalStages
<1> HIDE DEF n, I, P
<1>8. ASSUME NEW m \in Available[r], m <= Until, m < round
      PROVE  m \in x.completed
  <2>1. m \in Rounds
    BY <1>8, RoundStages
  <2>2. StageAt(m) = m
    BY <1>8, <2>1, RoundStages
  <2> QED
    BY <1>2, <1>8, <2>1, <2>2
<1>9. ASSUME NEW s \in P
      PROVE  s = st /\ s \in Available[r] \ x.completed
  <2>1. s \in n .. st /\ s \in Available[r] /\ s \notin Skipped(r)
    BY <1>7
  <2>2. s \in UsedStages
    BY <1>3, <2>1, SkippedStages DEF OptionalStages, RunStage
  <2>3. PICK j \in Rounds : s = StageAt(j)
    BY <2>2 DEF UsedStages
  <2>4. s \in OptionalStages /\ j \in 1 .. (Until + 1) /\ s = (IF j <= Until THEN j ELSE POSTPROCESS)
    BY <2>3, RoundStages
  <2>5. s <= st /\ s <= 6 /\ st <= 6
    BY <1>1, <2>1, <2>4 DEF OptionalStages
  <2>6. I # {}
    BY <1>6, <2>1, <2>4, <2>5 DEF OptionalStages
  <2>7. n \in Available[r] \ x.completed /\ n \in 1 .. 6 /\ n <= s
    <3>1. n \in I
      BY <1>6, <2>6
    <3>2. n \in Available[r] \ x.completed /\ n \in OptionalStages
      BY <1>3, <1>4, <3>1
    <3> QED
      BY <2>1, <3>2 DEF OptionalStages
  <2>8. ~(n <= Until /\ n < round)
    BY <1>8, <2>7
  <2>9. s = st
    <3> SUFFICES ASSUME s # st PROVE FALSE
      OBVIOUS
    <3>1. s < st /\ s < 6 /\ s = j /\ j <= Until
      BY <1>1, <2>4, <2>5 DEF OptionalStages
    <3>2. s < round
      BY <1>1, <2>4, <3>1 DEF OptionalStages
    <3> QED
      BY <1>1, <2>7, <2>8, <2>4, <3>1, <3>2 DEF OptionalStages
  <2>10. s \notin x.completed
    <3> SUFFICES ASSUME s \in x.completed PROVE FALSE
      OBVIOUS
    <3>1. s # NOP /\ n # s
      BY <2>4, <2>7 DEF OptionalStages
    <3>2. PICK k \in Rounds : k < round /\ s = StageAt(k)
      BY <1>2, <3>1
    <3>3. k \in 1 .. (Until + 1) /\ s = (IF k <= Until THEN k ELSE POSTPROCESS)
      BY <3>2, RoundStages
    <3>4. k <= Until /\ s = k
      BY <1>1, <3>2, <3>3
    <3>5. n <= Until /\ n < round
      BY <1>1, <2>7, <3>1, <3>2, <3>3, <3>4
    <3> QED
      BY <2>8, <3>5
  <2> QED
    BY <2>1, <2>9, <2>10
<1>10. ASSUME st \in Available[r], st \notin x.completed
       PROVE  st \in P
  <2>1. st \in I
    BY <1>5, <1>10
  <2>2. n <= st /\ n \in Int
    BY <1>3, <1>4, <1>6, <2>1 DEF OptionalStages
  <2>3. st \in n .. st
    BY <1>1, <2>2 DEF OptionalStages
  <2>4. st = POSTPROCESS => IsLast(round)
    BY <1>10, PostIsLast DEF IsLast
  <2>5. st \notin Skipped(r)
    BY <1>1, <2>4, SkippedStages
  <2> QED
    BY <1>7, <1>10, <2>3, <2>5
<1>11. CASE P = {}
  <2>1. st \in Available[r] => st \in x.completed
    BY <1>10, <1>11
  <2>2. Done(x, r, Before(round) \cup {round})
    BY <2>1 DEF Due, Done
  <2> QED
    BY <1>11, <2>2 DEF Own, Passed, P, n
<1>12. CASE P # {}
  <2>1. P = {st} /\ st \in Available[r] \ x.completed
    BY <1>9, <1>12
  <2> QED
    BY <2>1 DEF Own, P, n
<1> QED
  BY <1>11, <1>12

-----------------------------------------------------------------------------
(* The runs are in step with the round. *)

(* The runs of a batch that a worker has before it are due, those behind it  *)
(* have passed the round.                                                    *)
Halfway(w) ==
  /\ \A i \in Positions(batch[w]) :
       /\ i > pos[w] \/ (i = pos[w] /\ phase[w] = "next")
            => Due(run[order[i]], order[i], round)
       /\ i < pos[w] => Passed(run[order[i]], order[i], round)
  /\ phase[w] # "next" =>
       phase[w] = "process" /\ Own(todo[w], run[CurrentRun(w)], CurrentRun(w), round)

(* A batch with a failed run is not submitted any more. *)
Cold(b) == \E r \in RunsOf(b) : run[r].failing

(* A batch is processed in the round, or is left out. *)
Over(b) ==
  \/ b \in finished
  \/ b \notin futures /\ (main = "join" \/ (main = "submit" /\ b < nextBatch))

(* After the last round the batches without a failed run have completed all  *)
(* rounds.                                                                   *)
Complete ==
  \A b \in Batches : Cold(b) \/ \A r \in RunsOf(b) : Done(run[r], r, Rounds)

InStep ==
  /\ main \in {"submit", "join"} => round \in Rounds
  /\ main \notin {"submit", "join"} => Complete
  /\ raised = {}
  /\ \A b \in queued : \A r \in RunsOf(b) : Due(run[r], r, round)
  /\ \A w \in Workers : phase[w] # "idle" => Halfway(w)
  /\ \A b \in Batches :
       /\ main = "submit" /\ b >= nextBatch =>
            Cold(b) \/ \A r \in RunsOf(b) : Due(run[r], r, round)
       /\ Over(b) => Cold(b) \/ \A r \in RunsOf(b) : Passed(run[r], r, round)

Inv == Served /\ InStep

LEMMA InvInit == Separate /\ Init => Inv
<1> SUFFICES ASSUME Separate, Init PROVE InStep
  BY ServedInit DEF Inv
<1>1. Served /\ Typed
  BY ServedInit, TypedInit
<1>2. CASE Rounds = {}
  <2>1. Complete
    <3>1. \A b : RunsOf(b) \subseteq Runs
      BY <1>1, Counters
    <3> QED
      BY <1>2, <3>1 DEF Init, NewRun, Complete, Done
  <2> QED
    BY <1>2, <2>1 DEF Separate, Init, InStep, Over
<1>3. CASE Rounds # {}
  <2>1. round \in Rounds /\ \A k \in Rounds : round <= k
    BY <1>3, RoundNumbers, LeastNatural DEF Init
  <2>2. Before(round) = {}
    <3>1. \A k \in Rounds : ~(k < round)
      BY <2>1, RoundNumbers
    <3> QED
      BY <3>1 DEF Before
  <2>3. \A r \in Runs : Due(run[r], r, round)
    BY <2>2 DEF Init, NewRun, Due, Done
  <2>4. \A b : RunsOf(b) \subseteq Runs
    BY <1>1, Counters
  <2>5. \A b \in Batches : b \in Nat /\ b >= 1
    BY BatchNumbers DEF Batches
  <2>6. /\ main = "submit" /\ nextBatch = 1 /\ finished = {} /\ queued = {} /\ raised = {}
        /\ \A w \in Workers : phase[w] = "idle"
    BY <1>3 DEF Init
  <2>7. \A b \in Batches : ~Over(b)
    BY <2>5, <2>6 DEF Over
  <2> QED
    BY <2>1, <2>3, <2>4, <2>6, <2>7 DEF InStep
<1> QED
  BY <1>2, <1>3

(* While a worker has a batch, the main thread is in the round. *)
LEMMA InRound ==
  ASSUME Inv, NEW w \in Workers, phase[w] # "idle"
  PROVE  /\ main \in {"submit", "join"} /\ round \in Rounds
         /\ ~Over(batch[w]) /\ (main = "submit" => batch[w] < nextBatch)
         /\ Halfway(w)
<1>1. batch[w] \in futures /\ batch[w] \notin finished
  BY DEF Inv, Served, Handed
<1>2. main \in {"submit", "join"} /\ (main = "submit" => batch[w] < nextBatch)
  BY <1>1 DEF Inv, Served, Typed, Cut
<1> QED
  BY <1>1, <1>2 DEF Inv, InStep, Over

LEMMA SubmitInStep == Inv /\ Separate /\ Submit => InStep'
<1> SUFFICES ASSUME Inv, Separate, Submit PROVE InStep'
  OBVIOUS
<1>1. [Next]_vars
  BY DEF Next, Main
<1>2. \A b : RunsOf(b)' = RunsOf(b) /\ Positions(b)' = Positions(b)
  BY <1>1, RunsStay DEF Positions
<1>3. UNCHANGED <<run, round, raised, finished, order, batch, pos, phase, todo>>
  <2>1. raised = {}
    BY DEF Inv, InStep
  <2> QED
    BY <2>1 DEF Submit, workerVars
<1>4. /\ main = "submit" /\ nextBatch \in Batches /\ nextBatch \in Nat
      /\ nextBatch' = nextBatch + 1 /\ main' \in {"submit", "join"}
      /\ main' = "join" => nextBatch + 1 \notin Batches
  BY Counters DEF Submit, Inv, Served, Typed, Cut
<1>5. \/ /\ queued' = queued \cup {nextBatch} /\ futures' = futures \cup {nextBatch}
         /\ ~Cold(nextBatch)
      \/ queued' = queued /\ futures' = futures /\ Cold(nextBatch)
  BY DEF Submit, Separate, Cold
<1>6. \A b : Cold(b)' <=> Cold(b)
  BY <1>2, <1>3 DEF Cold
<1>7. \A b \in queued' : \A r \in RunsOf(b)' : Due(run'[r], r, round')
  BY <1>2, <1>3, <1>4, <1>5 DEF Inv, InStep
<1>8. \A w \in Workers : phase'[w] # "idle" => Halfway(w)'
  BY <1>2, <1>3 DEF Inv, InStep, Halfway, CurrentRun
<1>9. \A b \in Batches : b >= nextBatch' => b >= nextBatch
  BY <1>4, BatchNumbers
<1>10. ASSUME NEW b \in Batches, Over(b)', ~Cold(b)
       PROVE  Over(b)
  <2>1. CASE b \in finished'
    BY <1>3, <2>1 DEF Over
  <2>2. CASE b \notin finished'
    <3>1. b \notin futures /\ (main' = "join" \/ b < nextBatch + 1)
      BY <1>4, <1>5, <1>10, <2>2 DEF Over
    <3>2. b <= nextBatch
      BY <1>4, <3>1, LastBatch, BatchNumbers
    <3>3. b # nextBatch
      BY <1>5, <1>10, <2>2, <3>1 DEF Over
    <3>4. b < nextBatch
      BY <1>4, <3>2, <3>3, BatchNumbers
    <3> QED
      BY <1>4, <3>1, <3>4 DEF Over
  <2> QED
    BY <2>1, <2>2
<1>11. \A b \in Batches :
         /\ main' = "submit" /\ b >= nextBatch' =>
              Cold(b)' \/ \A r \in RunsOf(b)' : Due(run'[r], r, round')
         /\ Over(b)' => Cold(b)' \/ \A r \in RunsOf(b)' : Passed(run'[r], r, round')
  BY <1>2, <1>3, <1>4, <1>6, <1>9, <1>10 DEF Inv, InStep
<1>12. round' \in Rounds /\ raised' = {}
  BY <1>3, <1>4 DEF Inv, InStep
<1> QED
  BY <1>4, <1>7, <1>8, <1>11, <1>12 DEF InStep

LEMMA JoinInStep ==
  ASSUME Inv, NEW b \in Batches, JoinResult(b) \/ JoinException(b)
  PROVE  InStep'
<1>1. [Next]_vars
  BY DEF Next, Main
<1>2. \A c : RunsOf(c)' = RunsOf(c) /\ Positions(c)' = Positions(c)
  BY <1>1, RunsStay DEF Positions
<1>3. JoinResult(b)
  BY DEF JoinException, Inv, InStep
<1>4. /\ UNCHANGED <<run, round, raised, queued, order, batch, pos, phase, todo, main, nextBatch>>
      /\ main = "join" /\ b \in finished /\ futures' = futures \ {b} /\ finished' = finished \ {b}
  BY <1>3 DEF JoinResult, workerVars
<1>5. \A c : Cold(c)' <=> Cold(c)
  BY <1>2, <1>4 DEF Cold
<1>6. \A c : Over(c)' => Over(c)
  BY <1>4 DEF Over
<1>7. \A w \in Workers : phase'[w] # "idle" => Halfway(w)'
  BY <1>2, <1>4 DEF Inv, InStep, Halfway, CurrentRun
<1> QED
  BY <1>2, <1>4, <1>5, <1>6, <1>7 DEF Inv, InStep

(* All runs that have not failed have passed the round, and are due in the   *)
(* next one.                                                                 *)
LEMMA EndRoundInStep == Inv /\ Separate /\ EndRound => InStep'
<1> SUFFICES ASSUME Inv, Separate, EndRound PROVE InStep'
  OBVIOUS
<1>1. [Next]_vars
  BY DEF Next, Main
<1>2. \A b : RunsOf(b)' = RunsOf(b)
  BY <1>1, RunsStay
<1>3. /\ main = "join" /\ futures = {} /\ round \in Rounds
      /\ UNCHANGED <<run, raised, queued, finished, futures, batch, phase>>
  BY DEF EndRound, Inv, InStep, poolVars, workerVars
<1>4. /\ queued = {} /\ finished = {} /\ raised = {} /\ \A w \in Workers : phase[w] = "idle"
  BY <1>3 DEF Inv, Served, Handed, InStep
<1>5. \A b \in Batches : Cold(b) \/ \A r \in RunsOf(b) : Passed(run[r], r, round)
  BY <1>3 DEF Over, Inv, InStep
<1>6. CASE RoundsAfter(round) = {}
  <2>1. main' = "joined"
    BY <1>6 DEF EndRound
  <2>2. Before(round) \cup {round} = Rounds
    <3>1. \A k \in Rounds : k \in Nat /\ round \in Nat /\ ~(round < k)
      BY <1>3, <1>6, RoundNumbers DEF RoundsAfter
    <3>2. \A k \in Rounds : k < round \/ k = round
      BY <3>1
    <3> QED
      BY <1>3, <3>2 DEF Before
  <2>5. Complete
    BY <1>5, <2>2 DEF Complete, Cold, Passed
  <2>6. Complete'
    BY <1>2, <1>3, <2>5 DEF Complete, Cold
  <2> QED
    BY <1>3, <1>4, <2>1, <2>6 DEF InStep, Over
<1>7. CASE RoundsAfter(round) # {}
  <2>1. main' = "submit" /\ nextBatch' = 1 /\ round' = Least(RoundsAfter(round))
    BY <1>7 DEF EndRound, Separate
  <2>2. RoundsAfter(round) \subseteq Nat
    BY RoundNumbers DEF RoundsAfter
  <2>3. round' \in RoundsAfter(round) /\ \A k \in RoundsAfter(round) : round' <= k
    BY <1>7, <2>1, <2>2, LeastNatural
  <2>4. round' \in Rounds /\ round < round' /\ \A k \in Rounds : round < k => round' <= k
    BY <2>3 DEF RoundsAfter
  <2>5. Before(round') = Before(round) \cup {round}
    <3>1. ASSUME NEW k \in Rounds
          PROVE  k < round' <=> k < round \/ k = round
      <4>1. k \in Nat /\ round \in Nat /\ round' \in Nat
        BY <1>3, <2>4, RoundNumbers
      <4> QED
        BY <2>4, <4>1
    <3> QED
      BY <1>3, <3>1 DEF Before
  <2>6. \A r : Passed(run[r], r, round) /\ ~run[r].failing => Due(run[r], r, round')
    BY <2>5 DEF Passed, Due
  <2>7. \A b \in Batches : Cold(b)' \/ \A r \in RunsOf(b)' : Due(run'[r], r, round')
    BY <1>2, <1>3, <1>5, <2>6 DEF Cold
  <2>8. \A b \in Batches : ~(b < 1)
    BY BatchNumbers DEF Batches
  <2>9. \A b \in Batches : ~Over(b)'
    BY <1>3, <1>4, <2>1, <2>8 DEF Over
  <2> QED
    BY <1>3, <1>4, <2>1, <2>4, <2>7, <2>9 DEF InStep
<1> QED
  BY <1>6, <1>7

LEMMA PrintInStep ==
  ASSUME Inv, PrintSummary \/ PostprocessSession \/ UNCHANGED vars
  PROVE  InStep'
<1>1. [Next]_vars
  BY DEF Next, Main
<1>2. \A b : RunsOf(b)' = RunsOf(b) /\ Positions(b)' = Positions(b)
  BY <1>1, RunsStay DEF Positions
<1>3. /\ UNCHANGED <<run, round, raised, queued, finished, futures, order, batch, pos, phase, todo,
                     nextBatch>>
      /\ \/ main' = main
         \/ main \notin {"submit", "join"} /\ main' \notin {"submit", "join"}
  BY DEF PrintSummary, PostprocessSession, vars, mainVars, poolVars, workerVars
<1>4. (\A c : Cold(c)' <=> Cold(c)) /\ (Complete' <=> Complete)
  BY <1>2, <1>3 DEF Cold, Complete
<1>5. \A c : Over(c)' => Over(c)
  BY <1>3 DEF Over
<1>6. \A w \in Workers : phase'[w] # "idle" => Halfway(w)'
  BY <1>2, <1>3 DEF Inv, InStep, Halfway, CurrentRun
<1> QED
  BY <1>2, <1>3, <1>4, <1>5, <1>6 DEF Inv, InStep

LEMMA TakeInStep ==
  ASSUME Inv, NEW w \in Workers, Take(w)
  PROVE  InStep'
<1>1. [Next]_vars
  BY DEF Next, Worker
<1>2. \A b : RunsOf(b)' = RunsOf(b) /\ Positions(b)' = Positions(b) /\ Positions(b) \subseteq Nat
  BY <1>1, RunsStay DEF Positions, Runs
<1> DEFINE b == Least(queued)
<1>3. b \in queued /\ b \in Batches
  BY LeastNatural, BatchNumbers DEF Take, Inv, Served, Typed, TypeOK
<1>4. /\ UNCHANGED <<run, round, raised, finished, futures, order, main, nextBatch, todo>>
      /\ queued' = queued \ {b}
      /\ batch'[w] = b /\ pos'[w] = Least(Positions(b)) /\ phase'[w] = "next"
      /\ \A v \in Workers : v # w =>
           batch'[v] = batch[v] /\ pos'[v] = pos[v] /\ phase'[v] = phase[v]
  BY DEF Take, mainVars, Inv, Served, Typed, TypeOK
<1> HIDE DEF b
<1>5. \A i \in Positions(b) : ~(i < Least(Positions(b)))
  <2>1. Least(Positions(b)) \in Positions(b)
    BY <1>3, FirstPosition
  <2>2. \A i \in Positions(b) : Least(Positions(b)) <= i
    BY <1>2, <2>1, LeastNatural
  <2> QED
    BY <1>2, <2>1, <2>2
<1>6. \A i \in Positions(b) : Due(run[order[i]], order[i], round)
  BY <1>3 DEF Inv, InStep, RunsOf
<1>7. ASSUME NEW v \in Workers, phase'[v] # "idle"
      PROVE  Halfway(v)'
  <2>1. CASE v = w
    BY <1>2, <1>4, <1>5, <1>6, <2>1 DEF Halfway
  <2>2. CASE v # w
    BY <1>2, <1>4, <1>7, <2>2 DEF Inv, InStep, Halfway, CurrentRun
  <2> QED
    BY <2>1, <2>2
<1>8. /\ \A c : (Cold(c)' <=> Cold(c)) /\ (Over(c)' <=> Over(c))
      /\ Complete' <=> Complete
  BY <1>2, <1>4 DEF Cold, Over, Complete
<1> QED
  BY <1>2, <1>4, <1>7, <1>8 DEF Inv, InStep

(* A worker only changes its own run, and keeps it in step. *)
LEMMA OwnInStep ==
  ASSUME Inv, [Next]_vars, NEW w \in Workers, phase[w] # "idle",
         UNCHANGED <<round, raised, queued, finished, futures, main, nextBatch, batch, pos>>,
         \A r \in Runs : r # CurrentRun(w) => run'[r] = run[r],
         \A v \in Workers : v # w => phase'[v] = phase[v] /\ todo'[v] = todo[v],
         phase'[w] = "process",
         Own(todo'[w], run'[CurrentRun(w)], CurrentRun(w), round)
  PROVE  InStep'
<1> DEFINE own == CurrentRun(w)
<1>1. /\ \A b : RunsOf(b)' = RunsOf(b) /\ RunsOf(b) \subseteq Runs
      /\ \A b : Positions(b)' = Positions(b) /\ Positions(b) \subseteq Runs
      /\ order' = order
  BY RunsStay, OrderStays, Counters DEF Inv, Served, Positions
<1>2. /\ batch[w] \in Batches /\ pos[w] \in Positions(batch[w]) /\ pos[w] \in Runs
      /\ own = order[pos[w]] /\ own \in RunsOf(batch[w])
      /\ batch[w] \in futures \ (queued \cup finished \cup raised)
      /\ \A b : b # batch[w] => own \notin RunsOf(b)
  BY AtWork, OwnRun DEF Inv, Served, Handed, CurrentRun
<1>3. /\ ~Over(batch[w]) /\ (main = "submit" => batch[w] < nextBatch) /\ Halfway(w)
      /\ main \in {"submit", "join"}
  BY InRound
<1>4. \A v \in Workers : phase[v] # "idle" /\ v # w => own # CurrentRun(v) /\ batch[v] # batch[w]
  BY ServedApart DEF Inv, Served, Handed, NoParallelProcessing
<1>5. \A v \in Workers : CurrentRun(v)' = CurrentRun(v)
  BY <1>1 DEF CurrentRun
<1>6. \A i \in Runs : i # pos[w] => order[i] # own /\ order[i] \in Runs
  BY <1>2, Counters DEF Inv, Served, OneToOne
<1> HIDE DEF own
<1>7. \A b : own \notin RunsOf(b) => \A r \in RunsOf(b) : run'[r] = run[r]
  BY <1>1 DEF own
<1>8. Halfway(w)'
  <2>1. ASSUME NEW i \in Positions(batch[w])
        PROVE  /\ i > pos[w] => Due(run'[order[i]], order[i], round)
               /\ i < pos[w] => Passed(run'[order[i]], order[i], round)
    <3>1. i \in Nat /\ pos[w] \in Nat /\ i \in Runs
      BY <1>1, <1>2 DEF Runs
    <3>2. i # pos[w] => run'[order[i]] = run[order[i]]
      BY <1>6, <3>1 DEF own
    <3> QED
      BY <1>3, <3>1, <3>2 DEF Halfway
  <2> QED
    BY <1>1, <1>5, <2>1 DEF Halfway
<1>9. ASSUME NEW v \in Workers, phase'[v] # "idle", v # w
      PROVE  Halfway(v)'
  <2>1. phase[v] # "idle" /\ Halfway(v) /\ own # CurrentRun(v) /\ own \notin RunsOf(batch[v])
    BY <1>2, <1>4, <1>9 DEF Inv, InStep
  <2>2. CurrentRun(v) \in Runs
    BY <2>1, AtWork DEF Inv, Served
  <2>3. run'[CurrentRun(v)] = run[CurrentRun(v)]
    BY <2>1, <2>2 DEF own
  <2>4. \A i \in Positions(batch[v]) : run'[order[i]] = run[order[i]]
    BY <1>7, <2>1 DEF RunsOf
  <2> QED
    BY <1>1, <1>5, <1>9, <2>1, <2>3, <2>4 DEF Halfway
<1>10. \A b \in queued : \A r \in RunsOf(b) : Due(run'[r], r, round)
  <2>1. \A b \in queued : own \notin RunsOf(b)
    BY <1>2
  <2> QED
    BY <1>7, <2>1 DEF Inv, InStep
<1>11. ASSUME NEW b \in Batches
       PROVE  /\ main = "submit" /\ b >= nextBatch =>
                   Cold(b)' \/ \A r \in RunsOf(b) : Due(run'[r], r, round)
              /\ Over(b)' => Cold(b)' \/ \A r \in RunsOf(b) : Passed(run'[r], r, round)
  <2>1. Over(b)' <=> Over(b)
    BY DEF Over
  <2>2. CASE b = batch[w]
    <3>1. b \in Nat /\ nextBatch \in Nat
      BY BatchNumbers, Counters DEF Inv, Served
    <3> QED
      BY <1>3, <2>1, <2>2, <3>1
  <2>3. CASE b # batch[w]
    <3>1. \A r \in RunsOf(b) : run'[r] = run[r]
      BY <1>2, <1>7, <2>3
    <3>2. Cold(b)' <=> Cold(b)
      BY <1>1, <3>1 DEF Cold
    <3> QED
      BY <2>1, <3>1, <3>2 DEF Inv, InStep
  <2> QED
    BY <2>2, <2>3
<1> QED
  BY <1>1, <1>3, <1>8, <1>9, <1>10, <1>11 DEF Inv, InStep

LEMMA ProcessInStep ==
  ASSUME Inv, Separate, NEW w \in Workers, Process(w)
  PROVE  InStep'
<1> DEFINE own == CurrentRun(w)
<1>1. [Next]_vars
  BY DEF Next, Worker
<1>2. phase[w] = "next" /\ executor # "process_pool"
  <2>1. executor = "thread_pool"
    BY DEF Separate, Inv, Served, Typed, TypeOK
  <2> QED
    BY <2>1 DEF Process
<1>3. own \in Runs /\ run[own] \in RunType /\ run \in [Runs -> RunType]
  BY <1>2, AtWork DEF Inv, Served, Typed, TypeOK
<1>4. run' = [run EXCEPT ![own] = run[own]]
  BY <1>2 DEF Process
<1>5. run' = run
  BY <1>3, <1>4
<1>6. round \in Rounds /\ Halfway(w) /\ pos[w] \in Positions(batch[w])
  BY <1>2, InRound, AtWork DEF Inv, Served
<1>7. Due(run[own], own, round)
  BY <1>2, <1>6 DEF Halfway, CurrentRun
<1>8. todo'[w] = Planned(Available[own], NextStage(Available[own], run[own]), WorkerUntil,
                         Skipped(own))
  BY <1>2 DEF Process, Inv, Served, Typed, TypeOK
<1>9. Own(todo'[w], run'[own], own, round)
  BY <1>3, <1>5, <1>6, <1>7, <1>8, PlannedInRound DEF Inv, Served
<1>10. /\ UNCHANGED <<round, raised, queued, finished, futures, main, nextBatch, batch, pos>>
       /\ \A v \in Workers : v # w => phase'[v] = phase[v] /\ todo'[v] = todo[v]
       /\ phase'[w] = "process"
  BY DEF Process, mainVars, poolVars, Inv, Served, Typed, TypeOK
<1> QED
  BY <1>1, <1>2, <1>5, <1>9, <1>10, OwnInStep

(* What a worker knows that has a stage left. *)
LEMMA BeforeStage ==
  ASSUME Inv, NEW w \in Workers, todo[w] # {}
  PROVE  /\ phase[w] = "process" /\ round \in Rounds
         /\ CurrentRun(w) \in Runs /\ run[CurrentRun(w)] \in RunType
         /\ todo[w] = {StageAt(round)} /\ Current(w) = StageAt(round)
         /\ Due(run[CurrentRun(w)], CurrentRun(w), round)
         /\ ~run[CurrentRun(w)].failing
         /\ StageAt(round) \in Available[CurrentRun(w)] \ run[CurrentRun(w)].completed
<1>1. phase[w] \in {"process", "post"} /\ Current(w) \in todo[w]
  BY Staged DEF Inv, Served
<1>2. Halfway(w) /\ round \in Rounds
  BY <1>1, InRound
<1>3. CurrentRun(w) \in Runs /\ run[CurrentRun(w)] \in RunType
  BY <1>1, AtWork DEF Inv, Served
<1> QED
  BY <1>1, <1>2, <1>3 DEF Halfway, Own, Due, Done

LEMMA StageInStep ==
  ASSUME Inv, NEW w \in Workers, Enter(w) \/ Succeed(w) \/ Fail(w) \/ FailCompleted(w)
  PROVE  InStep'
<1> DEFINE own == CurrentRun(w)
           st  == StageAt(round)
<1>1. [Next]_vars
  BY DEF Next, Worker
<1>2. todo[w] # {} /\ (stage[w] # NoStage => stage[w] \in todo[w])
  BY DEF Enter, Succeed, Fail, FailCompleted, Inv, Served, Typed, Seats
<1>3. /\ phase[w] = "process" /\ own \in Runs /\ run[own] \in RunType
      /\ todo[w] = {st} /\ Current(w) = st /\ Due(run[own], own, round)
      /\ st \in Available[own] \ run[own].completed
  BY <1>2, BeforeStage
<1>4. /\ UNCHANGED <<round, raised, queued, finished, futures, main, nextBatch, batch, pos, phase>>
      /\ \A v \in Workers : v # w => todo'[v] = todo[v]
      /\ \A r \in Runs : r # own => run'[r] = run[r]
  BY DEF Enter, Succeed, Fail, FailCompleted, Leave, mainVars, poolVars,
         Inv, Served, Typed, TypeOK
<1>5. /\ run \in [Runs -> RunType] /\ todo \in [Workers -> SUBSET OptionalStages]
      /\ run[own].completed \in SUBSET RunStage
  BY <1>3 DEF Inv, Served, Typed, TypeOK, RunType
<1>6. CASE Enter(w)
  <2>1. run'[own] = Entered(run[own], st)
    BY <1>3, <1>5, <1>6 DEF Enter
  <2>2. CASE run[own].locked
    <3>1. todo'[w] = {}
      BY <1>5, <1>6, <2>2 DEF Enter
    <3>2. run'[own].failing
      BY <1>3, <2>1, <2>2 DEF Entered, Failed, Prepared, RunType
    <3>3. Own(todo'[w], run'[own], own, round)
      BY <3>1, <3>2 DEF Own, Passed
    <3> QED
      BY <1>1, <1>3, <1>4, <3>3, OwnInStep
  <2>3. CASE ~run[own].locked
    <3>1. todo'[w] = todo[w]
      BY <1>5, <1>6, <2>3 DEF Enter
    <3>2. run'[own].failing = FALSE /\ run'[own].completed = run[own].completed
      BY <1>3, <2>1, <2>3 DEF Entered, Prepared, RunType
    <3>3. Due(run'[own], own, round)
      BY <1>3, <3>2 DEF Due, Done
    <3>4. Own(todo'[w], run'[own], own, round)
      BY <1>3, <3>1, <3>2, <3>3 DEF Own
    <3> QED
      BY <1>1, <1>3, <1>4, <3>4, OwnInStep
  <2> QED
    BY <2>2, <2>3
<1>7. CASE Succeed(w)
  <2>1. stage[w] = st
    BY <1>2, <1>3, <1>7 DEF Succeed
  <2>2. todo'[w] = {} /\ run'[own] = Completed(run[own], st)
    BY <1>3, <1>5, <1>7, <2>1 DEF Succeed
  <2>3. run'[own].failing = run[own].failing /\ run'[own].completed = run[own].completed \cup {st}
    BY <1>3, <2>2 DEF Completed, RunType
  <2>4. Done(run'[own], own, Before(round) \cup {round})
    BY <1>3, <2>3 DEF Due, Done
  <2>5. Own(todo'[w], run'[own], own, round)
    BY <2>2, <2>4 DEF Own, Passed
  <2> QED
    BY <1>1, <1>3, <1>4, <2>5, OwnInStep
<1>8. CASE Fail(w) \/ FailCompleted(w)
  <2>1. todo'[w] = {}
    BY <1>5, <1>8 DEF Fail, FailCompleted
  <2>2. run'[own].failing
    <3>1. \/ run'[own] = Failed(run[own], stage[w])
          \/ run'[own] = Failed(Completed(run[own], POSTPROCESS), POSTPROCESS)
      BY <1>3, <1>5, <1>8 DEF Fail, FailCompleted
    <3> QED
      BY <1>3, <3>1 DEF Failed, Completed, RunType
  <2>3. Own(todo'[w], run'[own], own, round)
    BY <2>1, <2>2 DEF Own, Passed
  <2> QED
    BY <1>1, <1>3, <1>4, <2>3, OwnInStep
<1> QED
  BY <1>6, <1>7, <1>8

(* The run that is collected has passed the round, and with the last one the *)
(* whole batch has.                                                          *)
LEMMA CollectInStep ==
  ASSUME Inv, NEW w \in Workers, Collect(w)
  PROVE  InStep'
<1> DEFINE b == batch[w]
<1>1. [Next]_vars
  BY DEF Next, Worker
<1>2. /\ \A c : RunsOf(c)' = RunsOf(c)
      /\ \A c : Positions(c)' = Positions(c) /\ Positions(c) \subseteq Runs
  BY <1>1, RunsStay DEF Positions
<1>3. /\ UNCHANGED <<run, round, raised, queued, futures, order, main, nextBatch, todo>>
      /\ \A v \in Workers : v # w =>
           batch'[v] = batch[v] /\ pos'[v] = pos[v] /\ phase'[v] = phase[v]
  BY DEF Collect, GoIdle, mainVars, Inv, Served, Typed, TypeOK
<1>4. phase[w] \in {"process", "post"} /\ todo[w] = {}
  BY DEF Collect, ProcessEnded
<1>5. pos[w] \in Positions(b) /\ pos[w] \in Runs /\ b \in Batches
  BY <1>4, AtWork DEF Inv, Served
<1>6. Halfway(w)
  BY <1>4, InRound
<1>7. Passed(run[CurrentRun(w)], CurrentRun(w), round)
  BY <1>4, <1>6 DEF Halfway, Own
<1>8. \A i \in Positions(b) : i \in Nat /\ pos[w] \in Nat
  BY <1>2, <1>5 DEF Runs
<1>9. \A i \in Positions(b) : i <= pos[w] => Passed(run[order[i]], order[i], round)
  <2>1. ASSUME NEW i \in Positions(b), i <= pos[w]
        PROVE  i < pos[w] \/ i = pos[w]
    BY <1>8, <2>1
  <2> QED
    BY <1>6, <1>7, <2>1 DEF Halfway, CurrentRun
<1>10. \A i \in Positions(b) : i > pos[w] => Due(run[order[i]], order[i], round)
  BY <1>6 DEF Halfway
<1>11. (\A c : Cold(c)' <=> Cold(c)) /\ (Complete' <=> Complete)
  BY <1>2, <1>3 DEF Cold, Complete
<1> HIDE DEF b
<1>12. \A v \in Workers : v # w /\ phase'[v] # "idle" => Halfway(v)'
  BY <1>2, <1>3 DEF Inv, InStep, Halfway, CurrentRun
<1>13. CASE /\ finished' = finished /\ pos'[w] = pos[w] + 1
            /\ batch'[w] = b /\ phase'[w] = "next"
  <2>1. \A i \in Positions(b) : /\ (i > pos[w] + 1 \/ i = pos[w] + 1) => i > pos[w]
                                /\ i < pos[w] + 1 => i <= pos[w]
    BY <1>8
  <2>2. Halfway(w)'
    BY <1>2, <1>3, <1>9, <1>10, <1>13, <2>1 DEF Halfway
  <2>3. \A c : Over(c)' <=> Over(c)
    BY <1>3, <1>13 DEF Over
  <2> QED
    BY <1>2, <1>3, <1>11, <1>12, <2>2, <2>3 DEF Inv, InStep
<1>14. CASE /\ pos[w] + 1 \notin Positions(b) /\ finished' = finished \cup {b}
            /\ phase'[w] = "idle"
  <2>1. \A i \in Positions(b) : i <= pos[w]
    BY <1>5, <1>8, <1>14, BatchOrder
  <2>2. \A r \in RunsOf(b) : Passed(run[r], r, round)
    BY <1>9, <2>1 DEF RunsOf
  <2>3. \A c : Over(c)' => Over(c) \/ c = b
    BY <1>3, <1>14 DEF Over
  <2> QED
    BY <1>2, <1>3, <1>11, <1>12, <1>14, <2>2, <2>3 DEF Inv, InStep
<1>15. \/ /\ finished' = finished /\ pos'[w] = pos[w] + 1
          /\ batch'[w] = b /\ phase'[w] = "next"
       \/ /\ pos[w] + 1 \notin Positions(b) /\ finished' = finished \cup {b}
          /\ phase'[w] = "idle"
  BY DEF Collect, GoIdle, Inv, Served, Typed, TypeOK, b
<1> QED
  BY <1>13, <1>14, <1>15

(* The actions that do not occur. *)
LEMMA Excluded ==
  ASSUME Inv, Separate, NEW w \in Workers
  PROVE  ~AssertSkipNone(w) /\ ~RaiseOutside(w) /\ ~ProcessPost(w)
<1>1. executor = "thread_pool"
  BY DEF Separate, Inv, Served, Typed, TypeOK
<1>2. ~SecondOfPickable(w)
  BY <1>1 DEF SecondOfPickable
<1>3. \A b, r : ~NeedsPost(b, r)
  BY NoPost DEF Inv, Served
<1> QED
  BY <1>2, <1>3 DEF AssertSkipNone, RaiseOutside, ProcessPost, Separate

LEMMA InvStep == Separate /\ Inv /\ [Next]_vars => Inv'
<1>1. Separate /\ Inv /\ [Next]_vars => InStep'
  BY SubmitInStep, JoinInStep, EndRoundInStep, PrintInStep, TakeInStep, ProcessInStep,
     StageInStep, CollectInStep, Excluded, Cases
<1> QED
  BY <1>1, ServedStep DEF Inv

LEMMA Invariance ==
  ASSUME Separate
  PROVE  Spec => []Inv
<1>1. Init => Inv
  BY InvInit
<1>2. Inv /\ [Next]_vars => Inv'
  BY InvStep
<1> QED
  BY <1>1, <1>2, PTL DEF Spec

-----------------------------------------------------------------------------
(* The theorems. *)

(* per_stage is a barrier: whatever has failed before, and whatever is       *)
(* skipped for a run, all stage functions that run belong to the round.      *)
THEOREM StagesAreSeparated ==
  ASSUME Separate
  PROVE  Spec => []StageBarrier
<1>1. Inv => StageBarrier
  <2> SUFFICES ASSUME Inv, NEW w \in Workers, stage[w] # NoStage
               PROVE  stage[w] = StageAt(round)
    BY DEF StageBarrier
  <2>1. stage[w] \in todo[w]
    BY DEF Inv, Served, Typed, Seats
  <2> QED
    BY <2>1, BeforeStage
<1> QED
  BY <1>1, Invariance, PTL

(* A step of a stage is a step of a run that has not failed. *)
LEMMA StagesOfHealthyRuns ==
  ASSUME Separate, Inv, [Next]_vars, NEW r \in Runs, run[r].failing
  PROVE  run'[r] = run[r]
<1>1. run \in [Runs -> RunType]
  BY DEF Inv, Served, Typed, TypeOK
<1>2. ASSUME NEW w \in Workers, Enter(w) \/ Succeed(w) \/ Fail(w) \/ FailCompleted(w)
      PROVE  run'[r] = run[r]
  <2>1. todo[w] # {}
    BY <1>2 DEF Enter, Succeed, Fail, FailCompleted, Inv, Served, Typed, Seats
  <2>2. r # CurrentRun(w)
    BY <2>1, BeforeStage
  <2> QED
    BY <1>1, <1>2, <2>2 DEF Enter, Succeed, Fail, FailCompleted
<1>3. ASSUME NEW w \in Workers, Process(w)
      PROVE  run' = run
  <2>1. executor = "thread_pool"
    BY DEF Separate, Inv, Served, Typed, TypeOK
  <2>2. run' = [run EXCEPT ![CurrentRun(w)] = run[CurrentRun(w)]]
    BY <1>3, <2>1 DEF Process
  <2> QED
    BY <1>1, <2>2
<1>4. ASSUME \/ Submit \/ EndRound \/ PrintSummary \/ PostprocessSession \/ UNCHANGED vars
             \/ \E b \in Batches : JoinResult(b) \/ JoinException(b)
             \/ \E w \in Workers : Take(w) \/ Collect(w)
      PROVE  run' = run
  BY <1>4 DEF Submit, EndRound, PrintSummary, PostprocessSession, JoinResult, JoinException,
              Take, Collect, vars
<1> QED
  BY <1>2, <1>3, <1>4, Excluded, Cases

(* A failed run is left alone in all later rounds: its verdict is final.     *)
THEOREM FailedStaysFailed ==
  ASSUME Separate
  PROVE  Spec => FailedIsFinal
<1>1. Inv /\ [Next]_vars => [\A r \in Runs : run[r].failing => run'[r] = run[r]]_vars
  BY StagesOfHealthyRuns
<1> QED
  BY <1>1, Invariance, PTL DEF Spec, FailedIsFinal

(* A stage function is begun by Enter. *)
LEMMA Enters ==
  ASSUME Typed, [Next]_vars, NEW w \in Workers, stage[w] = NoStage, stage'[w] # NoStage
  PROVE  Enter(w) /\ stage'[w] = Current(w) /\ todo[w] # {}
<1>1. stage \in [Workers -> OptionalStages \cup {NoStage}]
  BY DEF Typed, TypeOK
<1>2. ASSUME \/ Submit \/ EndRound \/ PrintSummary \/ PostprocessSession \/ UNCHANGED vars
             \/ \E b \in Batches : JoinResult(b) \/ JoinException(b)
             \/ \E v \in Workers : \/ Take(v) \/ Process(v) \/ AssertSkipNone(v)
                                   \/ ProcessPost(v) \/ Collect(v) \/ RaiseOutside(v)
      PROVE  stage' = stage
  BY <1>2 DEF Submit, EndRound, PrintSummary, PostprocessSession, JoinResult, JoinException,
              Take, Process, AssertSkipNone, ProcessPost, Collect, RaiseOutside, vars, workerVars
<1>3. ASSUME NEW v \in Workers, Succeed(v) \/ Fail(v) \/ FailCompleted(v)
      PROVE  \A u \in Workers : stage'[u] = stage[u] \/ stage'[u] = NoStage
  BY <1>1, <1>3 DEF Succeed, Fail, FailCompleted, Leave
<1>4. \A v \in Workers : Enter(v) /\ v # w => stage'[w] = stage[w]
  BY <1>1 DEF Enter
<1>5. Enter(w)
  BY <1>2, <1>3, <1>4, Cases
<1> QED
  BY <1>1, <1>5 DEF Enter

(* No stage is executed twice, not even postprocess, for which the rounds    *)
(* ask twice if until is late.                                               *)
THEOREM StagesAreExecutedOnce ==
  ASSUME Separate
  PROVE  Spec => NothingTwice
<1>1. ASSUME Inv, [Next]_vars, NEW w \in Workers, stage[w] = NoStage, stage'[w] # NoStage
      PROVE  stage'[w] \notin run[CurrentRun(w)].completed
  <2>1. stage'[w] = Current(w) /\ todo[w] # {}
    BY <1>1, Enters DEF Inv, Served
  <2> QED
    BY <1>1, <2>1, BeforeStage
<1>2. Inv /\ [Next]_vars =>
        [\A w \in Workers : stage[w] = NoStage /\ stage'[w] # NoStage
           => stage'[w] \notin run[CurrentRun(w)].completed]_vars
  BY <1>1
<1> QED
  BY <1>2, Invariance, PTL DEF Spec, NothingTwice

-----------------------------------------------------------------------------
(* What the session reports at its end. *)

(* "All runs completed" is said when no run is counted as a failure. *)
Said ==
  summary = "all completed" =>
    /\ main \notin {"submit", "join"}
    /\ \A r \in Runs : ~results[r].failing /\ results[r] # NoResult

LEMMA SaidStep ==
  ASSUME Accounted, Said, [Next]_vars
  PROVE  Said'
<1>1. CASE PrintSummary
  <2>1. main = "joined" /\ main' = "printed" /\ results' = results
    BY <1>1 DEF PrintSummary
  <2>2. summary' = "all completed" => num_failures = 0
    BY <1>1 DEF PrintSummary
  <2> DEFINE S == {r \in Runs : results[r].failing \/ results[r] = NoResult}
  <2>3. num_failures = Cardinality(S)
    BY <2>1, CountedOnce DEF FailuresCountedOnce
  <2>4. S \in SUBSET Runs
    OBVIOUS
  <2>5. Cardinality(S) = 0 => S = {}
    BY <2>4, FiniteRuns, FS_EmptySet
  <2> QED
    BY <2>1, <2>2, <2>3, <2>5 DEF Said
<1>2. CASE EndRound \/ Submit \/ \E b \in Batches : JoinResult(b) \/ JoinException(b)
  <2>1. main \in {"submit", "join"} /\ summary' = summary
    BY <1>2 DEF EndRound, Submit, JoinResult, JoinException
  <2> QED
    BY <2>1 DEF Said
<1>3. CASE \/ PostprocessSession \/ UNCHANGED vars
           \/ \E w \in Workers :
                \/ Take(w) \/ Process(w) \/ AssertSkipNone(w)
                \/ Enter(w) \/ Succeed(w) \/ Fail(w) \/ FailCompleted(w)
                \/ ProcessPost(w) \/ Collect(w) \/ RaiseOutside(w)
  <2>1. UNCHANGED <<results, summary>> /\ (main' = main \/ main' = "returned")
    BY <1>3 DEF PostprocessSession, Take, Process, AssertSkipNone, Enter, Succeed, Fail,
                FailCompleted, Leave, ProcessPost, Collect, RaiseOutside, vars, mainVars
  <2> QED
    BY <2>1 DEF Said
<1> QED
  BY <1>1, <1>2, <1>3, Cases

(* If a run has completed all rounds, nothing that was asked for is missing. *)
LEMMA WantedDone ==
  ASSUME NEW r \in Runs, Done(run[r], r, Rounds)
  PROVE  Wanted(r) \subseteq run[r].completed
<1> SUFFICES ASSUME NEW s \in Wanted(r) PROVE s \in run[r].completed
  OBVIOUS
<1>1. s \in Available[r] /\ (s <= Until \/ s = POSTPROCESS)
  BY DEF Wanted
<1>2. \E k \in Rounds : s = StageAt(k)
  <2>1. CASE s <= Until
    <3>1. s \in Rounds
      BY <1>1, <2>1, RoundStages
    <3>2. s = StageAt(s)
      BY <2>1 DEF StageAt
    <3> QED
      BY <3>1, <3>2
  <2>2. CASE s = POSTPROCESS
    <3>1. Until + 1 \in Rounds /\ s = StageAt(Until + 1)
      BY <1>1, <2>2, RoundStages
    <3> QED
      BY <3>1
  <2> QED
    BY <1>1, <2>1, <2>2
<1> QED
  BY <1>1, <1>2 DEF Done

LEMMA SaidIsTrue ==
  ASSUME Separate, Inv, Accounted, Said
  PROVE  SummaryIsTrue
<1> SUFFICES ASSUME summary = "all completed", NEW r \in Runs
             PROVE  ~run[r].failing /\ Wanted(r) \subseteq run[r].completed
  BY DEF SummaryIsTrue
<1>1. main \notin {"submit", "join"} /\ \A q \in Runs : ~results[q].failing /\ results[q] # NoResult
  BY DEF Said
<1>2. ResultsMatchRuns
  BY ReportedMatches DEF Accounted
<1>3. ASSUME NEW q \in Runs
      PROVE  ~run[q].failing
  <2>1. results[q] = Result(run[q])
    BY <1>1, <1>2 DEF ResultsMatchRuns
  <2>2. Result(run[q]).failing = run[q].failing
    BY DEF Result
  <2> QED
    BY <1>1, <2>1, <2>2
<1>4. Done(run[r], r, Rounds)
  <2>1. PICK i \in Runs : order[i] = r
    BY DEF Inv, Served, OneToOne
  <2>2. r \in RunsOf(BatchOf(i)) /\ BatchOf(i) \in Batches
    BY <2>1 DEF RunsOf, Positions, Batches
  <2>3. ~Cold(BatchOf(i))
    BY <1>3, Counters DEF Cold, Inv, Served
  <2> QED
    BY <1>1, <2>2, <2>3 DEF Inv, InStep, Complete
<1>5. Wanted(r) \subseteq run[r].completed
  BY <1>4, WantedDone
<1> QED
  BY <1>3, <1>5

(* With separated stages, "All runs completed successfuly!" is never said    *)
(* too early: every run has then completed every stage it was asked for, and *)
(* its postprocesses.  Without per_stage this is not so: a second call of    *)
(* Run.process clears the failing flag.                                      *)
THEOREM SeparateSummaryIsTrue ==
  ASSUME Separate, Rounds # {}
  PROVE  Spec => []SummaryIsTrue
<1>1. Undisturbed
  BY DEF Separate, Undisturbed
<1>2. Init => Accounted /\ Said
  <2>1. Init => Accounted
    BY <1>1, ReportedInit, TallyInit DEF Accounted
  <2>2. Init => Said
    BY DEF Init, Said
  <2> QED
    BY <2>1, <2>2
<1>3. Accounted /\ Said /\ [Next]_vars => (Accounted /\ Said)'
  BY <1>1, AccountedStep, SaidStep
<1>4. Spec => [](Accounted /\ Said)
  BY <1>2, <1>3, PTL DEF Spec
<1>5. Inv /\ Accounted /\ Said => SummaryIsTrue
  BY SaidIsTrue
<1> QED
  BY <1>4, <1>5, Invariance, PTL

-----------------------------------------------------------------------------
(* A session with batches of one run keeps the promise of SessionOutcome.    *)

Verdict(x, r) ==
  IF x.failing THEN "failed"
  ELSE IF Wanted(r) \subseteq x.completed THEN "completed" ELSE "open"

Verdicts == [r \in Runs |-> Verdict(run[r], r)]

Reports == CASE summary = "none"          -> "none"
             [] summary = "all completed" -> "success"
             [] OTHER                     -> "failure"

LEMMA OutcomeForms ==
  /\ Outcome!Init <=> Verdicts \in [Runs -> {"open", "completed"}] /\ Reports = "none"
  /\ Outcome!Next <=>
       \/ /\ Reports = "none" /\ \A r \in Runs : Verdicts[r] # "open"
          /\ Reports' = IF \A r \in Runs : Verdicts[r] = "completed" THEN "success" ELSE "failure"
          /\ UNCHANGED Verdicts
       \/ \E r \in Runs :
            /\ Verdicts[r] = "open"
            /\ \E v \in {"completed", "failed"} : Verdicts' = [Verdicts EXCEPT ![r] = v]
            /\ UNCHANGED Reports
  /\ UNCHANGED Outcome!vars <=> UNCHANGED <<Verdicts, Reports>>
  BY DEF Outcome!Init, Outcome!Next, Outcome!Conclude, Outcome!Settle, Outcome!vars,
         Verdicts, Verdict, Reports

LEMMA OutcomeInit == Init => Outcome!Init
<1> SUFFICES ASSUME Init PROVE Outcome!Init
  OBVIOUS
<1>1. Verdicts \in [Runs -> {"open", "completed"}]
  BY DEF Init, NewRun, Verdicts, Verdict
<1>2. Reports = "none"
  BY DEF Init, Reports
<1> QED
  BY <1>1, <1>2, OutcomeForms

(* A step of a stage settles an open verdict, or leaves it open. *)
LEMMA Settles ==
  ASSUME Typed, NEW w \in Workers, Enter(w) \/ Succeed(w) \/ Fail(w) \/ FailCompleted(w),
         CurrentRun(w) \in Runs, Verdicts[CurrentRun(w)] = "open"
  PROVE  Outcome!Next \/ UNCHANGED Outcome!vars
<1>1. PICK r \in Runs : r = CurrentRun(w)
  OBVIOUS
<1>2. /\ summary' = summary /\ run \in [Runs -> RunType]
      /\ \A q \in Runs : q # r => run'[q] = run[q]
  <2>1. summary' = summary
    BY DEF Enter, Succeed, Fail, FailCompleted, Leave, mainVars
  <2>2. run \in [Runs -> RunType] /\ \A q \in Runs : q # r => run'[q] = run[q]
    BY <1>1 DEF Enter, Succeed, Fail, FailCompleted, Typed, TypeOK
  <2> QED
    BY <2>1, <2>2
<1>3. Reports' = Reports
  BY <1>2 DEF Reports
<1> DEFINE v == Verdict(run'[r], r)
<1>4. Verdicts' = [Verdicts EXCEPT ![r] = v]
  BY <1>2 DEF Verdicts
<1>5. v \in {"failed", "completed", "open"}
  BY DEF Verdict
<1>6. Verdicts = [Verdicts EXCEPT ![r] = Verdicts[r]]
  BY DEF Verdicts
<1> HIDE DEF v
<1>7. CASE v = "open"
  <2>1. Verdicts' = Verdicts
    BY <1>1, <1>4, <1>6, <1>7
  <2> QED
    BY <1>3, <2>1, OutcomeForms
<1>8. CASE v # "open"
  <2>1. v \in {"completed", "failed"}
    BY <1>5, <1>8
  <2> QED
    BY <1>1, <1>3, <1>4, <2>1, OutcomeForms
<1> QED
  BY <1>7, <1>8

(* What a worker has left of its run is wanted: the verdict is open. *)
LEMMA WorkerSettles ==
  ASSUME Inv, NEW w \in Workers, Enter(w) \/ Succeed(w) \/ Fail(w) \/ FailCompleted(w)
  PROVE  Outcome!Next \/ UNCHANGED Outcome!vars
<1>1. todo[w] # {}
  BY DEF Enter, Succeed, Fail, FailCompleted, Inv, Served, Typed, Seats
<1>2. PICK r \in Runs : r = CurrentRun(w)
  BY <1>1, BeforeStage
<1>3. /\ ~run[r].failing /\ round \in Rounds
      /\ StageAt(round) \in Available[r] \ run[r].completed
  BY <1>1, <1>2, BeforeStage
<1>4. StageAt(round) \in Wanted(r)
  BY <1>3, RoundStages DEF Wanted
<1>5. Verdicts[r] = "open"
  BY <1>3, <1>4 DEF Verdicts, Verdict
<1> QED
  BY <1>2, <1>5, Settles DEF Inv, Served

(* With batches of one run, every run is settled after the last round. *)
LEMMA AllSettled ==
  ASSUME BatchSize = 1, Separate, Inv, main \notin {"submit", "join"}, NEW r \in Runs
  PROVE  Verdict(run[r], r) # "open"
<1>1. PICK i \in Runs : order[i] = r
  BY DEF Inv, Served, OneToOne
<1>2. \A j \in Runs : BatchOf(j) = j
  BY DEF BatchOf, Runs
<1>3. RunsOf(i) = {r} /\ i \in Batches
  BY <1>1, <1>2 DEF RunsOf, Positions, Batches
<1>4. run[r].failing \/ Done(run[r], r, Rounds)
  BY <1>3 DEF Inv, InStep, Complete, Cold
<1>5. Done(run[r], r, Rounds) => Wanted(r) \subseteq run[r].completed
  BY WantedDone
<1> QED
  BY <1>4, <1>5 DEF Verdict

(* The session reports when every run is settled and no result is lost. *)
LEMMA SummaryConcludes ==
  ASSUME Accounted, PrintSummary, summary = "none",
         \A r \in Runs : Verdict(run[r], r) # "open" /\ results[r] # NoResult
  PROVE  Outcome!Next
<1>1. main = "joined" /\ run' = run
  BY DEF PrintSummary
<1>2. \A r \in Runs : Verdicts[r] # "open"
  BY DEF Verdicts
<1>3. Verdicts' = Verdicts
  BY <1>1 DEF Verdicts
<1>4. Reports = "none"
  BY DEF Reports
<1> DEFINE S == {r \in Runs : results[r].failing \/ results[r] = NoResult}
<1>5. num_failures = Cardinality(S) /\ S \in SUBSET Runs
  BY <1>1, CountedOnce DEF FailuresCountedOnce
<1>6. num_failures = 0 <=> S = {}
  BY <1>5, FiniteRuns, FS_EmptySet
<1>7. \A r \in Runs : results[r] = Result(run[r]) /\ results[r] # NoResult
  BY <1>1, ReportedMatches DEF ResultsMatchRuns, Accounted
<1>8. \A r \in Runs : r \in S <=> run[r].failing
  <2>1. \A r \in Runs : Result(run[r]).failing = run[r].failing
    BY DEF Result
  <2>2. \A r \in Runs : run[r].failing \in BOOLEAN
    BY DEF Accounted, Reported, Served, Typed, TypeOK, RunType
  <2>3. ASSUME NEW r \in Runs
        PROVE  r \in S <=> results[r].failing
    BY <1>7
  <2> QED
    BY <1>7, <2>1, <2>2, <2>3
<1>9. S = {} <=> \A r \in Runs : Verdicts[r] = "completed"
  <2>1. \A r \in Runs : run[r].failing <=> Verdicts[r] = "failed"
    BY DEF Verdicts, Verdict
  <2>2. \A r \in Runs : Verdicts[r] \in {"failed", "completed", "open"}
    BY DEF Verdicts, Verdict
  <2>3. \A r \in Runs : r \in S <=> Verdicts[r] # "completed"
    BY <1>2, <1>8, <2>1, <2>2
  <2> QED
    BY <2>3
<1>10. Reports' = IF num_failures = 0 THEN "success" ELSE "failure"
  BY DEF PrintSummary, Reports
<1> HIDE DEF S
<1> QED
  BY <1>2, <1>3, <1>4, <1>6, <1>9, <1>10, OutcomeForms

(* The summary is printed once. *)
Once == main \notin {"printed", "returned"} => summary = "none"

LEMMA OnceStep == Once /\ [Next]_vars => Once'
<1> SUFFICES ASSUME Once, [Next]_vars PROVE Once'
  OBVIOUS
<1>1. CASE EndRound \/ Submit \/ \E b \in Batches : JoinResult(b) \/ JoinException(b)
  BY <1>1 DEF EndRound, Submit, JoinResult, JoinException, Once
<1>2. CASE PrintSummary \/ PostprocessSession \/ UNCHANGED vars
  BY <1>2 DEF PrintSummary, PostprocessSession, Once, vars, mainVars
<1>3. ASSUME NEW w \in Workers,
             \/ Take(w) \/ Process(w) \/ AssertSkipNone(w)
             \/ Enter(w) \/ Succeed(w) \/ Fail(w) \/ FailCompleted(w)
             \/ ProcessPost(w) \/ Collect(w) \/ RaiseOutside(w)
      PROVE  Once'
  BY <1>3 DEF Take, Process, AssertSkipNone, Enter, Succeed, Fail, FailCompleted, Leave,
              ProcessPost, Collect, RaiseOutside, mainVars, Once
<1> QED
  BY <1>1, <1>2, <1>3, Cases

LEMMA OutcomeStep ==
  ASSUME BatchSize = 1, Separate, Inv, Accounted, Once, [Next]_vars
  PROVE  Outcome!Next \/ UNCHANGED Outcome!vars
<1>1. CASE PrintSummary
  <2>1. summary = "none" /\ main = "joined"
    BY <1>1 DEF PrintSummary, Once
  <2>2. \A r \in Runs : Verdict(run[r], r) # "open"
    BY <2>1, AllSettled
  <2>3. ~MayRaise /\ "process_pool" \notin Executors
    BY DEF Separate
  <2>4. ResultsMatchRuns
    BY ReportedMatches DEF Accounted
  <2>5. \A r \in Runs : results[r] # NoResult
    <3>1. raised = {}
      BY <2>3 DEF Accounted, Reported, Stored
    <3> QED
      BY <2>1, <2>4, <3>1, RealResults DEF ResultsMatchRuns, Accounted
  <2> QED
    BY <1>1, <2>1, <2>2, <2>5, SummaryConcludes
<1>2. ASSUME run' = run, summary' = summary
      PROVE  UNCHANGED Outcome!vars
  BY <1>2, OutcomeForms DEF Verdicts, Reports
<1>3. CASE \/ Submit \/ EndRound \/ PostprocessSession \/ UNCHANGED vars
           \/ \E b \in Batches : JoinResult(b) \/ JoinException(b)
           \/ \E w \in Workers : Take(w) \/ Collect(w)
  <2>1. run' = run /\ summary' = summary
    BY <1>3 DEF Submit, EndRound, PostprocessSession, JoinResult, JoinException, Take, Collect,
                vars, mainVars
  <2> QED
    BY <1>2, <2>1
<1>4. ASSUME NEW w \in Workers, Process(w)
      PROVE  UNCHANGED Outcome!vars
  <2>1. executor = "thread_pool" /\ run \in [Runs -> RunType]
    BY DEF Separate, Inv, Served, Typed, TypeOK
  <2>2. run' = [run EXCEPT ![CurrentRun(w)] = run[CurrentRun(w)]] /\ summary' = summary
    BY <1>4, <2>1 DEF Process, mainVars
  <2>3. run' = run
    BY <2>1, <2>2
  <2> QED
    BY <1>2, <2>2, <2>3
<1> QED
  BY <1>1, <1>3, <1>4, WorkerSettles, Excluded, Cases

(* With per_stage and batches of one run, every run ends up completed or     *)
(* failed, that verdict is final, and success is reported if and only if all *)
(* runs have completed: the safety part of ImplementsOutcome.                *)
THEOREM SessionKeepsPromise ==
  ASSUME BatchSize = 1, Separate, Rounds # {}
  PROVE  Spec => Outcome!Spec
<1>1. Undisturbed
  BY DEF Separate, Undisturbed
<1>2. Init => Accounted /\ Once
  <2>1. Init => Accounted
    BY <1>1, ReportedInit, TallyInit DEF Accounted
  <2>2. Init => Once
    BY DEF Init, Once
  <2> QED
    BY <2>1, <2>2
<1>3. Accounted /\ Once /\ [Next]_vars => (Accounted /\ Once)'
  BY <1>1, AccountedStep, OnceStep
<1>4. Spec => [](Accounted /\ Once)
  BY <1>2, <1>3, PTL DEF Spec
<1>5. Inv /\ Accounted /\ Once /\ [Next]_vars => [Outcome!Next]_(Outcome!vars)
  BY OutcomeStep
<1> QED
  BY <1>4, <1>5, OutcomeInit, Invariance, PTL DEF Spec, Outcome!Spec
=============================================================================
