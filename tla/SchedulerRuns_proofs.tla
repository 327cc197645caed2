------------------------ MODULE SchedulerRuns_proofs ------------------------
(***************************************************************************)
(* Theorems about the runs of a session, for any number of runs and        *)
(* workers, any batch size, any order, and both executors.  Sessions       *)
(* without per_stage take every run through its stages in one call of      *)
(* Run.process, or two: what they keep of the theorems about separated     *)
(* stages, and when.  The runs of all sessions are runs as Run describes   *)
(* them, with the workers as callers, and keep what Run promises.          *)
(***************************************************************************)
EXTENDS SchedulerStages_proofs

USE SchedulerAssumption DEF SchedulerAssumption,
    NOP, LOAD, TUNE, BUILD, COMPILE, RUN, POSTPROCESS, DONE, NoStage, NoBatch

-----------------------------------------------------------------------------
(* Sessions without per_stage: a batch is submitted once, and its runs go    *)
(* through all of their stages in one call of Run.process, or two.           *)

(* What until asks of the first call. *)
Upto(r) == {s \in Available[r] : s <= Until}

LEMMA FirstCall ==
  ASSUME ~PerStage, NEW r \in Runs
  PROVE  Planned(Available[r], NextStage(Available[r], NewRun), WorkerUntil, Skipped(r)) = Upto(r)
<1> DEFINE start == NextStage(Available[r], NewRun)
<1>1. Available[r] \subseteq OptionalStages /\ WorkerUntil = Until /\ Until \in 1 .. 7
  BY DEF WorkerUntil
<1>2. Incomplete(Available[r], NewRun) = Available[r]
  BY <1>1 DEF Incomplete, HasStage, NewRun, RunStage, OptionalStages
<1>3. \A s \in Available[r] : start \in Nat /\ start <= s
  <2>1. Available[r] \subseteq Nat
    BY <1>1 DEF OptionalStages
  <2> QED
    BY <1>2, <2>1, LeastNatural DEF NextStage
<1>4. \A s \in Available[r] : s <= Until => s \notin Skipped(r)
  <2>1. \A s \in Available[r] : s <= Until => s \in UsedStages
    BY RoundStages DEF StageAt
  <2>2. \A s \in Available[r] : s <= Until => s \in LOAD .. Until
    BY <1>1 DEF OptionalStages
  <2> QED
    BY <2>1, <2>2 DEF Skipped
<1> HIDE DEF start
<1>5. \A s : s \in Planned(Available[r], start, Until, Skipped(r)) <=>
               /\ s \in start .. (IF Until = DONE THEN DONE - 1 ELSE Until)
               /\ s \in Available[r] \ Skipped(r)
  BY DEF Planned
<1>6. \A s \in Available[r] : s \in 1 .. 6
  BY <1>1 DEF OptionalStages
<1>7. \A s \in Available[r] :
        s \in start .. (IF Until = DONE THEN DONE - 1 ELSE Until) <=> s <= Until
  BY <1>1, <1>3, <1>6
<1> QED
  BY <1>1, <1>4, <1>5, <1>7 DEF Upto, start

(* The second call is for the postprocesses. *)
LEMMA SecondCall ==
  ASSUME NEW r \in Runs
  PROVE  Planned(Available[r], POSTPROCESS, POSTPROCESS, Skipped(r))
           \in {{}, {POSTPROCESS} \cap Available[r]}
  BY DEF Planned

(* Where a worker is not. *)
LEMMA Elsewhere ==
  ASSUME Served, NEW w \in Workers, phase[w] # "idle"
  PROVE  /\ \A b : b # batch[w] => \A r \in RunsOf(b) : r # CurrentRun(w)
         /\ \A v \in Workers : phase[v] # "idle" =>
              \A i \in Positions(batch[v]) :
                /\ order[i] \in Runs /\ order[i] \in RunsOf(batch[v])
                /\ v # w \/ i # pos[w] => order[i] # CurrentRun(w)
<1>1. /\ CurrentRun(w) \in RunsOf(batch[w])
      /\ \A b : b # batch[w] => CurrentRun(w) \notin RunsOf(b)
  BY OwnRun
<1>2. pos[w] \in Runs /\ order \in [Runs -> Runs]
  BY AtWork DEF Served, Typed, TypeOK
<1>3. ASSUME NEW v \in Workers, phase[v] # "idle", NEW i \in Positions(batch[v])
      PROVE  /\ order[i] \in Runs /\ order[i] \in RunsOf(batch[v])
             /\ v # w \/ i # pos[w] => order[i] # CurrentRun(w)
  <2>1. i \in Runs /\ order[i] \in Runs /\ order[i] \in RunsOf(batch[v])
    BY <1>2 DEF Positions, RunsOf
  <2>2. v # w => batch[v] # batch[w]
    BY <1>3 DEF Served, Handed
  <2>3. i # pos[w] => order[i] # order[pos[w]]
    BY <1>2, <2>1 DEF Served, OneToOne
  <2> QED
    BY <1>1, <2>1, <2>2, <2>3 DEF CurrentRun
<1> QED
  BY <1>1, <1>3

(* What a worker leaves alone while it is with a run. *)
LEMMA Beside ==
  ASSUME Served, NEW w \in Workers,
         \/ Process(w) \/ ProcessPost(w)
         \/ Enter(w) \/ Succeed(w) \/ Fail(w) \/ FailCompleted(w)
  PROVE  /\ UNCHANGED <<mainVars, poolVars, batch, pos>>
         /\ phase[w] # "idle" /\ phase'[w] \in {"process", "post"}
         /\ \A v \in Workers : v # w =>
              phase'[v] = phase[v] /\ todo'[v] = todo[v] /\ stage'[v] = stage[v]
         /\ \A r \in Runs : r # CurrentRun(w) => run'[r] = run[r]
<1>1. /\ phase \in [Workers -> {"idle", "next", "process", "post"}]
      /\ todo \in [Workers -> SUBSET OptionalStages]
      /\ stage \in [Workers -> OptionalStages \cup {NoStage}]
      /\ run \in [Runs -> RunType]
  BY DEF Served, Typed, TypeOK
<1>2. UNCHANGED <<mainVars, poolVars, batch, pos>>
  BY DEF Process, ProcessPost, Enter, Succeed, Fail, FailCompleted, Leave
<1>3. phase[w] # "idle" /\ phase'[w] \in {"process", "post"}
  <2>1. CASE Process(w) \/ ProcessPost(w)
    BY <1>1, <2>1 DEF Process, ProcessPost, ProcessEnded
  <2>2. CASE Enter(w) \/ Succeed(w) \/ Fail(w) \/ FailCompleted(w)
    <3>1. todo[w] # {} /\ phase' = phase
      BY <2>2 DEF Enter, Succeed, Fail, FailCompleted, Leave, Served, Typed, Seats
    <3> QED
      BY <3>1, Staged DEF Served
  <2> QED
    BY <2>1, <2>2
<1>4. \A v \in Workers : v # w =>
        phase'[v] = phase[v] /\ todo'[v] = todo[v] /\ stage'[v] = stage[v]
  BY <1>1 DEF Process, ProcessPost, Enter, Succeed, Fail, FailCompleted, Leave
<1>5. \A r \in Runs : r # CurrentRun(w) => run'[r] = run[r]
  BY <1>1 DEF Process, ProcessPost, Enter, Succeed, Fail, FailCompleted
<1> QED
  BY <1>2, <1>3, <1>4, <1>5

-----------------------------------------------------------------------------
(* A run is new until a worker comes to it. *)

Waiting ==
  /\ \A b \in queued : \A r \in RunsOf(b) : run[r] = NewRun
  /\ \A w \in Workers : phase[w] # "idle" =>
       \A i \in Positions(batch[w]) :
         i > pos[w] \/ (i = pos[w] /\ phase[w] = "next") => run[order[i]] = NewRun

LEMMA WaitingInit == Init => Waiting
  BY DEF Init, Waiting

LEMMA WaitingStep == ~PerStage /\ Reported /\ Waiting /\ [Next]_vars => Waiting'
<1> SUFFICES ASSUME ~PerStage, Reported, Waiting, [Next]_vars PROVE Waiting'
  OBVIOUS
<1>1. Served /\ Typed
  BY DEF Reported, Served
<1>2. order' = order /\ (\A b : RunsOf(b)' = RunsOf(b)) /\ \A b : Positions(b)' = Positions(b)
  BY OrderStays, RunsStay DEF Positions
<1>3. CASE Submit
  <2>1. /\ nextBatch \in Batches /\ main = "submit" /\ nextBatch \in Nat
        /\ queued' \subseteq queued \cup {nextBatch}
        /\ UNCHANGED <<run, phase, pos, batch>>
    BY <1>1, <1>3, Counters DEF Submit, workerVars, Typed, Cut
  <2>2. Fresh(nextBatch)
    BY <2>1 DEF Reported, Stored
  <2> QED
    BY <1>2, <2>1, <2>2 DEF Waiting, Fresh
<1>4. CASE \/ EndRound \/ PrintSummary \/ PostprocessSession \/ UNCHANGED vars
           \/ \E b \in Batches : JoinResult(b) \/ JoinException(b)
  <2>1. UNCHANGED <<run, queued, phase, pos, batch>>
    BY <1>4 DEF EndRound, PrintSummary, PostprocessSession, JoinResult, JoinException, vars,
                poolVars, workerVars
  <2> QED
    BY <1>2, <2>1 DEF Waiting
<1>5. ASSUME NEW w \in Workers, Take(w)
      PROVE  Waiting'
  <2> DEFINE b == Least(queued)
  <2>1. b \in queued
    BY <1>1, <1>5, LeastNatural, BatchNumbers DEF Take, Typed, TypeOK
  <2>2. /\ queued' = queued \ {b} /\ run' = run /\ batch'[w] = b
        /\ \A v \in Workers : v # w =>
             batch'[v] = batch[v] /\ phase'[v] = phase[v] /\ pos'[v] = pos[v]
    BY <1>1, <1>5 DEF Take, Typed, TypeOK
  <2> HIDE DEF b
  <2>3. \A i \in Positions(b) : run[order[i]] = NewRun
    BY <2>1 DEF Waiting, RunsOf
  <2> QED
    BY <1>2, <2>2, <2>3 DEF Waiting
<1>6. ASSUME NEW w \in Workers, AssertSkipNone(w) \/ RaiseOutside(w)
      PROVE  Waiting'
  <2>1. /\ queued' = queued /\ run' = run /\ phase'[w] = "idle"
        /\ \A v \in Workers : v # w =>
             batch'[v] = batch[v] /\ phase'[v] = phase[v] /\ pos'[v] = pos[v]
    BY <1>1, <1>6 DEF AssertSkipNone, RaiseOutside, Raise, GoIdle, Typed, TypeOK
  <2> QED
    BY <1>2, <2>1 DEF Waiting
<1>7. ASSUME NEW w \in Workers, Collect(w)
      PROVE  Waiting'
  <2>1. /\ queued' = queued /\ run' = run /\ phase[w] # "idle"
        /\ \/ phase'[w] = "idle"
           \/ pos'[w] = pos[w] + 1 /\ batch'[w] = batch[w]
        /\ \A v \in Workers : v # w =>
             batch'[v] = batch[v] /\ phase'[v] = phase[v] /\ pos'[v] = pos[v]
    BY <1>1, <1>7 DEF Collect, ProcessEnded, GoIdle, Typed, TypeOK
  <2>2. pos[w] \in Nat /\ \A i \in Positions(batch[w]) : i \in Nat
    BY <1>1, <2>1, AtWork DEF Positions, Runs
  <2>3. \A i \in Positions(batch[w]) : i > pos[w] + 1 \/ i = pos[w] + 1 => i > pos[w]
    BY <2>2
  <2>4. \A i \in Positions(batch[w]) : i > pos[w] => run[order[i]] = NewRun
    BY <2>1 DEF Waiting
  <2> QED
    BY <1>2, <2>1, <2>3, <2>4 DEF Waiting
<1>8. ASSUME NEW w \in Workers,
             \/ Process(w) \/ ProcessPost(w)
             \/ Enter(w) \/ Succeed(w) \/ Fail(w) \/ FailCompleted(w)
      PROVE  Waiting'
  <2>1. /\ UNCHANGED <<queued, batch, pos>>
        /\ phase[w] # "idle" /\ phase'[w] \in {"process", "post"}
        /\ \A v \in Workers : v # w => phase'[v] = phase[v]
        /\ \A r \in Runs : r # CurrentRun(w) => run'[r] = run[r]
    BY <1>1, <1>8, Beside DEF poolVars
  <2>2. ASSUME NEW b \in queued, NEW r \in RunsOf(b)
        PROVE  run'[r] = NewRun
    <3>1. b # batch[w]
      BY <1>1, <2>1 DEF Served, Handed
    <3>2. r \in Runs /\ r # CurrentRun(w)
      BY <1>1, <2>1, <3>1, Elsewhere, Counters
    <3> QED
      BY <2>1, <3>2 DEF Waiting
  <2>3. ASSUME NEW v \in Workers, phase'[v] # "idle", NEW i \in Positions(batch[v]),
               i > pos[v] \/ (i = pos[v] /\ phase'[v] = "next")
        PROVE  run'[order[i]] = NewRun
    <3>1. phase[v] # "idle" /\ (i > pos[v] \/ (i = pos[v] /\ phase[v] = "next"))
      BY <2>1, <2>3
    <3>2. v # w \/ i # pos[w]
      <4>1. pos[w] \in Nat
        BY <1>1, <2>1, AtWork DEF Runs
      <4> QED
        BY <2>1, <2>3, <4>1
    <3>3. order[i] \in Runs /\ order[i] # CurrentRun(w)
      BY <1>1, <2>1, <3>1, <3>2, Elsewhere
    <3> QED
      BY <2>1, <3>1, <3>3 DEF Waiting
  <2> QED
    BY <1>2, <2>1, <2>2, <2>3 DEF Waiting
<1> QED
  BY <1>3, <1>4, <1>5, <1>6, <1>7, <1>8, Cases

-----------------------------------------------------------------------------
(* How far a worker is with its run x = run[r], t being what is left to it.  *)

First(t, x, r) ==
  /\ t \subseteq Upto(r) /\ x.completed \subseteq {NOP} \cup Upto(r)
  /\ \/ x.failing /\ t = {}
     \/ ~x.failing /\ x.completed = {NOP} \cup (Upto(r) \ t)

Second(t, x, r) ==
  /\ Until # POSTPROCESS /\ \E q \in Runs : POSTPROCESS \in Available[q]
  /\ \/ t = {}
     \/ t = {POSTPROCESS} /\ (POSTPROCESS \in x.completed => Until = DONE)

Working ==
  \A w \in Workers :
    /\ phase[w] = "process" => First(todo[w], run[CurrentRun(w)], CurrentRun(w))
    /\ phase[w] = "post"    => Second(todo[w], run[CurrentRun(w)], CurrentRun(w))

LEMMA WorkingInit == Init => Working
  BY DEF Init, Working

(* The steps of a stage. *)
LEMMA StageMoves ==
  ASSUME Typed, NEW w \in Workers, Enter(w) \/ Succeed(w) \/ Fail(w) \/ FailCompleted(w),
         NEW r, r = CurrentRun(w)
  PROVE  /\ phase' = phase /\ r \in Runs /\ todo[w] # {} /\ todo[w] \subseteq OptionalStages
         /\ \/ /\ run'[r].completed = run[r].completed /\ ~run'[r].failing
               /\ todo'[w] = todo[w]
            \/ /\ run'[r].completed = run[r].completed \cup {stage[w]}
               /\ run'[r].failing = run[r].failing
               /\ todo'[w] = todo[w] \ {stage[w]} /\ stage[w] \in todo[w]
            \/ /\ run'[r].completed = run[r].completed
               /\ run'[r].failing /\ todo'[w] = {}
            \/ /\ run'[r].completed = run[r].completed \cup {POSTPROCESS}
               /\ stage[w] = POSTPROCESS /\ POSTPROCESS \in todo[w]
               /\ run'[r].failing /\ todo'[w] = {}
<1>1. todo[w] # {} /\ phase' = phase
  BY DEF Enter, Succeed, Fail, FailCompleted, Leave, Typed, Seats
<1>2. /\ r \in Runs /\ run[r] \in RunType /\ run \in [Runs -> RunType]
      /\ todo \in [Workers -> SUBSET OptionalStages] /\ todo[w] \subseteq OptionalStages
  <2>1. phase[w] # "idle"
    BY <1>1, Staged
  <2> QED
    BY <2>1, AtWork DEF Typed, TypeOK
<1>3. stage[w] # NoStage => stage[w] \in todo[w]
  BY DEF Typed, Seats
<1>4. CASE Enter(w)
  <2>1. run'[r] = Entered(run[r], Current(w)) /\ todo'[w] = IF run[r].locked THEN {} ELSE todo[w]
    BY <1>2, <1>4 DEF Enter
  <2>2. CASE run[r].locked
    <3>1. run'[r].completed = run[r].completed /\ run'[r].failing
      BY <1>2, <2>1, <2>2 DEF Entered, Prepared, Failed, RunType
    <3> QED
      BY <1>1, <1>2, <2>1, <2>2, <3>1
  <2>3. CASE ~run[r].locked
    <3>1. run'[r].completed = run[r].completed /\ ~run'[r].failing
      BY <1>2, <2>1, <2>3 DEF Entered, Prepared, RunType
    <3> QED
      BY <1>1, <1>2, <2>1, <2>3, <3>1
  <2> QED
    BY <2>2, <2>3
<1>5. CASE Succeed(w)
  <2>1. run'[r] = Completed(run[r], stage[w]) /\ todo'[w] = todo[w] \ {stage[w]}
    BY <1>2, <1>5 DEF Succeed
  <2>2. /\ run'[r].completed = run[r].completed \cup {stage[w]}
        /\ run'[r].failing = run[r].failing
    BY <1>2, <2>1 DEF Completed, RunType
  <2> QED
    BY <1>1, <1>2, <1>3, <1>5, <2>1, <2>2 DEF Succeed
<1>6. CASE Fail(w)
  <2>1. run'[r] = Failed(run[r], stage[w]) /\ todo'[w] = {}
    BY <1>2, <1>6 DEF Fail
  <2>2. run'[r].completed = run[r].completed /\ run'[r].failing
    BY <1>2, <2>1 DEF Failed, RunType
  <2> QED
    BY <1>1, <1>2, <2>1, <2>2
<1>7. CASE FailCompleted(w)
  <2>1. /\ run'[r] = Failed(Completed(run[r], POSTPROCESS), POSTPROCESS) /\ todo'[w] = {}
        /\ stage[w] = POSTPROCESS
    BY <1>2, <1>7 DEF FailCompleted
  <2>2. run'[r].completed = run[r].completed \cup {POSTPROCESS} /\ run'[r].failing
    BY <1>2, <2>1 DEF Failed, Completed, RunType
  <2> QED
    BY <1>1, <1>2, <1>3, <2>1, <2>2
<1> QED
  BY <1>4, <1>5, <1>6, <1>7

LEMMA StageWorking ==
  ASSUME Typed, Working, NEW w \in Workers, Enter(w) \/ Succeed(w) \/ Fail(w) \/ FailCompleted(w),
         NEW r, r = CurrentRun(w)
  PROVE  /\ phase[w] = "process" => First(todo'[w], run'[r], r)
         /\ phase[w] = "post" => Second(todo'[w], run'[r], r)
<1>1. /\ r \in Runs /\ todo[w] # {} /\ todo[w] \subseteq OptionalStages
      /\ \/ /\ run'[r].completed = run[r].completed /\ ~run'[r].failing
            /\ todo'[w] = todo[w]
         \/ /\ run'[r].completed = run[r].completed \cup {stage[w]}
            /\ run'[r].failing = run[r].failing
            /\ todo'[w] = todo[w] \ {stage[w]} /\ stage[w] \in todo[w]
         \/ /\ run'[r].completed = run[r].completed
            /\ run'[r].failing /\ todo'[w] = {}
         \/ /\ run'[r].completed = run[r].completed \cup {POSTPROCESS}
            /\ stage[w] = POSTPROCESS /\ POSTPROCESS \in todo[w]
            /\ run'[r].failing /\ todo'[w] = {}
  BY StageMoves
<1>2. ASSUME phase[w] = "process"
      PROVE  First(todo'[w], run'[r], r)
  <2>1. First(todo[w], run[r], r)
    BY <1>2 DEF Working
  <2>2. todo[w] \subseteq Upto(r) /\ ~run[r].failing
        /\ run[r].completed = {NOP} \cup (Upto(r) \ todo[w])
    BY <1>1, <2>1 DEF First
  <2>3. NOP \notin Upto(r)
    BY <1>1 DEF Upto, OptionalStages
  <2> QED
    BY <1>1, <2>2, <2>3 DEF First
<1>3. ASSUME phase[w] = "post"
      PROVE  Second(todo'[w], run'[r], r)
  BY <1>1, <1>3 DEF Working, Second
<1> QED
  BY <1>2, <1>3

LEMMA WorkingStep == ~PerStage /\ Reported /\ Waiting /\ Working /\ [Next]_vars => Working'
<1> SUFFICES ASSUME ~PerStage, Reported, Waiting, Working, [Next]_vars PROVE Working'
  OBVIOUS
<1>1. Served /\ Typed
  BY DEF Reported, Served
<1>2. order' = order
  BY OrderStays
<1>3. CASE \/ Submit \/ EndRound \/ PrintSummary \/ PostprocessSession \/ UNCHANGED vars
           \/ \E b \in Batches : JoinResult(b) \/ JoinException(b)
  <2>1. UNCHANGED <<run, phase, pos, todo>>
    BY <1>3 DEF Submit, EndRound, PrintSummary, PostprocessSession, JoinResult, JoinException,
                vars, workerVars
  <2> QED
    BY <1>2, <2>1 DEF Working, CurrentRun
<1>4. ASSUME NEW w \in Workers, Take(w) \/ AssertSkipNone(w) \/ RaiseOutside(w) \/ Collect(w)
      PROVE  Working'
  <2>1. /\ UNCHANGED <<run, todo>> /\ phase'[w] \in {"idle", "next"}
        /\ \A v \in Workers : v # w => phase'[v] = phase[v] /\ pos'[v] = pos[v]
    <3>1. /\ phase \in [Workers -> {"idle", "next", "process", "post"}]
          /\ pos \in [Workers -> Runs \cup {0}]
      BY <1>1 DEF Typed, TypeOK
    <3>2. CASE Take(w)
      BY <3>1, <3>2 DEF Take
    <3>3. CASE AssertSkipNone(w) \/ RaiseOutside(w)
      BY <3>1, <3>3 DEF AssertSkipNone, RaiseOutside, Raise, GoIdle
    <3>4. CASE Collect(w)
      BY <3>1, <3>4 DEF Collect, GoIdle
    <3> QED
      BY <1>4, <3>2, <3>3, <3>4
  <2> QED
    BY <1>2, <2>1 DEF Working, CurrentRun
<1>5. ASSUME NEW w \in Workers,
             \/ Process(w) \/ ProcessPost(w)
             \/ Enter(w) \/ Succeed(w) \/ Fail(w) \/ FailCompleted(w),
             /\ phase'[w] = "process" => First(todo'[w], run'[CurrentRun(w)], CurrentRun(w))
             /\ phase'[w] = "post" => Second(todo'[w], run'[CurrentRun(w)], CurrentRun(w))
      PROVE  Working'
  <2>1. /\ UNCHANGED pos /\ phase[w] # "idle"
        /\ \A v \in Workers : v # w => phase'[v] = phase[v] /\ todo'[v] = todo[v]
        /\ \A r \in Runs : r # CurrentRun(w) => run'[r] = run[r]
    BY <1>1, <1>5, Beside
  <2>2. \A v \in Workers : CurrentRun(v)' = CurrentRun(v)
    BY <1>2, <2>1 DEF CurrentRun
  <2>3. ASSUME NEW v \in Workers, v # w, phase[v] \in {"process", "post"}
        PROVE  run'[CurrentRun(v)] = run[CurrentRun(v)]
    <3>1. CurrentRun(v) \in Runs
      BY <1>1, <2>3, AtWork
    <3>2. CurrentRun(v) # CurrentRun(w)
      BY <1>1, <2>1, <2>3, ServedApart DEF NoParallelProcessing
    <3> QED
      BY <2>1, <3>1, <3>2
  <2> QED
    BY <1>5, <2>1, <2>2, <2>3 DEF Working
<1>6. ASSUME NEW w \in Workers, Process(w)
      PROVE  Working'
  <2> DEFINE r == CurrentRun(w)
  <2>1. phase[w] = "next" /\ phase'[w] = "process" /\ pos[w] \in Positions(batch[w])
        /\ r \in Runs /\ run \in [Runs -> RunType]
    BY <1>1, <1>6, AtWork DEF Process, Typed, TypeOK
  <2>2. run[r] = NewRun
    BY <2>1 DEF Waiting, CurrentRun
  <2>3. run'[r] = NewRun
    BY <1>6, <2>1, <2>2 DEF Process
  <2>4. todo'[w] = Planned(Available[r], NextStage(Available[r], NewRun), WorkerUntil, Skipped(r))
    BY <1>1, <1>6, <2>2 DEF Process, Typed, TypeOK
  <2>5. todo'[w] = Upto(r)
    BY <2>1, <2>4, FirstCall
  <2>6. First(todo'[w], run'[r], r)
    BY <2>3, <2>5 DEF First, NewRun
  <2> QED
    BY <1>5, <1>6, <2>1, <2>6
<1>7. ASSUME NEW w \in Workers, ProcessPost(w)
      PROVE  Working'
  <2> DEFINE r == CurrentRun(w)
  <2>1. /\ phase[w] = "process" /\ phase'[w] = "post" /\ r \in Runs /\ run' = run
        /\ NeedsPost(batch[w], r)
    BY <1>1, <1>7, AtWork DEF ProcessPost, Typed, TypeOK
  <2>2. todo'[w] = Planned(Available[r], POSTPROCESS, POSTPROCESS, Skipped(r))
    BY <1>1, <1>7 DEF ProcessPost, Typed, TypeOK
  <2>3. todo'[w] = {} \/ todo'[w] = {POSTPROCESS}
    BY <2>1, <2>2, SecondCall
  <2>4. Until # POSTPROCESS /\ \E q \in Runs : POSTPROCESS \in Available[q]
    BY <1>1, <2>1, Counters DEF NeedsPost, WorkerUntil
  <2>5. POSTPROCESS \in run[r].completed => Until = DONE
    <3>1. run[r].completed \subseteq {NOP} \cup Upto(r)
      BY <2>1 DEF Working, First
    <3> QED
      BY <2>4, <3>1 DEF Upto
  <2>6. Second(todo'[w], run'[r], r)
    BY <2>1, <2>3, <2>4, <2>5 DEF Second
  <2> QED
    BY <1>5, <1>7, <2>1, <2>6
<1>8. ASSUME NEW w \in Workers, Enter(w) \/ Succeed(w) \/ Fail(w) \/ FailCompleted(w)
      PROVE  Working'
  <2>1. phase' = phase
    BY <1>1, <1>8, StageMoves
  <2> QED
    BY <1>1, <1>5, <1>8, <2>1, StageWorking
<1> QED
  BY <1>3, <1>4, <1>6, <1>7, <1>8, Cases

LEMMA AheadInvariance ==
  ASSUME ~PerStage
  PROVE  Spec => [](Reported /\ Waiting /\ Working)
<1>1. Undisturbed
  BY DEF Undisturbed
<1>2. Init => Reported /\ Waiting /\ Working
  BY <1>1, ReportedInit, WaitingInit, WorkingInit
<1>3. Reported /\ Waiting /\ Working /\ [Next]_vars => (Reported /\ Waiting /\ Working)'
  BY <1>1, ReportedStep, WaitingStep, WorkingStep
<1> QED
  BY <1>2, <1>3, PTL DEF Spec

(* The first call does not postprocess what the second one will: until is    *)
(* not DONE, unless there are no postprocesses.                              *)
PostOnce == Until = DONE => \A r \in Runs : POSTPROCESS \notin Available[r]

(* Without per_stage, too, no stage is executed twice, in either executor    *)
(* and whatever raises, unless until is DONE: then both calls postprocess.   *)
THEOREM OnePassExecutesOnce ==
  ASSUME ~PerStage, PostOnce
  PROVE  Spec => NothingTwice
<1>1. ASSUME Reported, Working, [Next]_vars,
             NEW w \in Workers, stage[w] = NoStage, stage'[w] # NoStage
      PROVE  stage'[w] \notin run[CurrentRun(w)].completed
  <2>1. Typed
    BY <1>1 DEF Reported, Served
  <2>2. stage'[w] = Current(w) /\ todo[w] # {}
    BY <1>1, <2>1, Enters
  <2>3. /\ phase[w] \in {"process", "post"} /\ Current(w) \in todo[w]
        /\ Current(w) \in OptionalStages
    BY <2>1, <2>2, Staged
  <2>4. CASE phase[w] = "process"
    <3>1. run[CurrentRun(w)].completed = {NOP} \cup (Upto(CurrentRun(w)) \ todo[w])
      BY <1>1, <2>2, <2>4 DEF Working, First
    <3> QED
      BY <2>2, <2>3, <3>1 DEF OptionalStages
  <2>5. CASE phase[w] = "post"
    BY <1>1, <2>2, <2>3, <2>5 DEF Working, Second, PostOnce
  <2> QED
    BY <2>3, <2>4, <2>5
<1>2. Reported /\ Waiting /\ Working /\ [Next]_vars =>
        [\A w \in Workers : stage[w] = NoStage /\ stage'[w] # NoStage
           => stage'[w] \notin run[CurrentRun(w)].completed]_vars
  BY <1>1
<1> QED
  BY <1>2, AheadInvariance, PTL DEF Spec, NothingTwice

-----------------------------------------------------------------------------
(* Sessions without a second call. *)

(* Whoever has postprocesses runs them in the first call. *)
NoSecondCall == \A r \in Runs : POSTPROCESS \in Available[r] => Until = POSTPROCESS

LEMMA FirstCallOnly ==
  ASSUME NoSecondCall, Typed, Working, NEW w \in Workers, todo[w] # {},
         NEW r, r = CurrentRun(w)
  PROVE  /\ r \in Runs /\ phase[w] = "process" /\ ~run[r].failing
         /\ run[r].completed = {NOP} \cup (Upto(r) \ todo[w])
         /\ todo[w] \subseteq Upto(r) /\ todo[w] \subseteq OptionalStages
<1>1. phase[w] \in {"process", "post"} /\ todo[w] \subseteq OptionalStages
  BY Staged DEF Typed, TypeOK
<1>2. phase[w] # "post"
  BY DEF Working, Second, NoSecondCall
<1> QED
  BY <1>1, <1>2, AtWork DEF Working, First

(* A run that has failed is left alone, if its postprocesses are not called  *)
(* separately: the second call would clear the failing flag.                 *)
THEOREM OnePassFailedStaysFailed ==
  ASSUME ~PerStage, NoSecondCall
  PROVE  Spec => FailedIsFinal
<1>1. ASSUME Reported, Waiting, Working, [Next]_vars, NEW r \in Runs, run[r].failing
      PROVE  run'[r] = run[r]
  <2>1. Served /\ Typed /\ run \in [Runs -> RunType]
    BY <1>1 DEF Reported, Served, Typed, TypeOK
  <2>2. ASSUME NEW w \in Workers, Enter(w) \/ Succeed(w) \/ Fail(w) \/ FailCompleted(w)
        PROVE  run'[r] = run[r]
    <3>1. todo[w] # {}
      BY <2>1, <2>2 DEF Enter, Succeed, Fail, FailCompleted, Typed, Seats
    <3>2. r # CurrentRun(w)
      BY <1>1, <2>1, <3>1, FirstCallOnly
    <3> QED
      BY <2>1, <2>2, <3>2, Beside
  <2>3. ASSUME NEW w \in Workers, Process(w)
        PROVE  run'[r] = run[r]
    <3>1. phase[w] = "next" /\ pos[w] \in Positions(batch[w])
      BY <2>1, <2>3, AtWork DEF Process
    <3>2. run[CurrentRun(w)] = NewRun
      BY <1>1, <3>1 DEF Waiting, CurrentRun
    <3>3. r # CurrentRun(w)
      BY <1>1, <3>2 DEF NewRun
    <3> QED
      BY <2>1, <2>3, <3>3, Beside
  <2>4. ASSUME \/ Submit \/ EndRound \/ PrintSummary \/ PostprocessSession \/ UNCHANGED vars
               \/ \E b \in Batches : JoinResult(b) \/ JoinException(b)
               \/ \E w \in Workers : \/ Take(w) \/ Collect(w) \/ AssertSkipNone(w)
                                     \/ RaiseOutside(w) \/ ProcessPost(w)
        PROVE  run' = run
    BY <2>4 DEF Submit, EndRound, PrintSummary, PostprocessSession, JoinResult, JoinException,
                Take, Collect, AssertSkipNone, RaiseOutside, ProcessPost, vars
  <2> QED
    BY <1>1, <2>2, <2>3, <2>4, Cases
<1>2. Reported /\ Waiting /\ Working /\ [Next]_vars =>
        [\A r \in Runs : run[r].failing => run'[r] = run[r]]_vars
  BY <1>1
<1> QED
  BY <1>2, AheadInvariance, PTL DEF Spec, FailedIsFinal

-----------------------------------------------------------------------------
(* What the session reports at its end. *)

(* No worker raises: process_pool does if a batch has two runs. *)
Harmless == ~MayRaise /\ ("process_pool" \notin Executors \/ BatchSize = 1)

(* A run that a worker has left has failed or completed all it was asked for.*)
Settled(r) == run[r].failing \/ Wanted(r) \subseteq run[r].completed

Behind ==
  /\ \A b \in finished : \A r \in RunsOf(b) : Settled(r)
  /\ \A w \in Workers : phase[w] # "idle" =>
       \A i \in Positions(batch[w]) : i < pos[w] => Settled(order[i])
  /\ \A b \in Batches \ futures :
       \/ main = "submit" /\ b >= nextBatch
       \/ \A r \in RunsOf(b) : IF results[r] = NoResult THEN ~Harmless ELSE Settled(r)
  /\ Harmless => raised = {}

LEMMA BehindInit == ~PerStage /\ Init => Behind
<1> SUFFICES ASSUME ~PerStage, Init PROVE Behind
  OBVIOUS
<1>1. \A b \in Batches : b >= 1
  BY BatchNumbers DEF Batches
<1> QED
  BY <1>1 DEF Init, Behind

LEMMA SettledStays ==
  ASSUME NEW r, run'[r] = run[r]
  PROVE  Settled(r)' <=> Settled(r)
  BY DEF Settled, Wanted

LEMMA MainBehind ==
  ASSUME ~PerStage, Accounted, Behind,
         \/ Submit \/ EndRound \/ PrintSummary \/ PostprocessSession \/ UNCHANGED vars
         \/ \E b \in Batches : JoinResult(b) \/ JoinException(b)
  PROVE  Behind'
<1>1. [Next]_vars /\ Reported /\ Served /\ Typed
  BY DEF Next, Main, Accounted, Reported, Served
<1>2. /\ order' = order /\ (\A b : RunsOf(b)' = RunsOf(b) /\ RunsOf(b) \subseteq Runs)
      /\ \A b : Positions(b)' = Positions(b)
  BY <1>1, OrderStays, RunsStay, Counters DEF Positions
<1>3. UNCHANGED <<run, batch, pos, phase>>
  BY DEF Submit, EndRound, PrintSummary, PostprocessSession, JoinResult, JoinException, vars,
         workerVars
<1>4. \A r : Settled(r)' <=> Settled(r)
  BY <1>3, SettledStays
<1>5. finished' \subseteq finished /\ raised' \subseteq raised
  BY DEF Submit, EndRound, PrintSummary, PostprocessSession, JoinResult, JoinException, vars,
         poolVars
<1>6. SUFFICES ASSUME NEW b \in Batches, b \notin futures', NEW r \in RunsOf(b),
                      ~(main' = "submit" /\ b >= nextBatch')
               PROVE  IF results'[r] = NoResult THEN ~Harmless ELSE Settled(r)
  BY <1>2, <1>3, <1>4, <1>5 DEF Behind
<1>7. CASE Submit
  <2>1. /\ futures' = futures \cup {nextBatch} /\ results' = results /\ main = "submit"
        /\ main' \in {"submit", "join"} /\ nextBatch' = nextBatch + 1
        /\ main' = "join" => nextBatch + 1 \notin Batches
        /\ nextBatch \in Batches
    BY <1>1, <1>7 DEF Submit, Typed, Cut
  <2>2. b \in Nat /\ nextBatch \in Nat /\ b # nextBatch /\ b \notin futures
    BY <1>6, <2>1, BatchNumbers
  <2>3. ~(b >= nextBatch)
    <3>1. CASE main' = "submit"
      BY <1>6, <2>1, <2>2, <3>1
    <3>2. CASE main' = "join"
      BY <2>1, <2>2, <3>2, LastBatch
    <3> QED
      BY <2>1, <3>1, <3>2
  <2> QED
    BY <1>6, <2>1, <2>2, <2>3 DEF Behind
<1>8. ASSUME NEW c \in Batches, JoinResult(c) \/ JoinException(c)
      PROVE  IF results'[r] = NoResult THEN ~Harmless ELSE Settled(r)
  <2>1. futures' = futures \ {c} /\ main = "join" /\ c \in futures
    BY <1>8 DEF JoinResult, JoinException
  <2>2. CASE b # c
    <3>1. r \notin RunsOf(c) /\ r \in Runs
      BY <1>1, <1>2, <1>6, <2>2, Shares
    <3>2. results'[r] = results[r]
      BY <1>8, <3>1 DEF JoinResult, JoinException
    <3> QED
      BY <1>6, <2>1, <2>2, <3>2 DEF Behind
  <2>3. CASE b = c /\ JoinResult(c)
    <3>1. c \in finished /\ results'[r] = rets[r]
      BY <1>2, <1>6, <2>3 DEF JoinResult
    <3>2. results'[r] # NoResult
      BY <1>2, <1>6, <2>3, <3>1, RealResults DEF Accounted, Reported, Collected
    <3> QED
      BY <1>6, <2>3, <3>1, <3>2 DEF Behind
  <2>4. CASE b = c /\ JoinException(c)
    <3>1. c \in raised /\ results' = results
      BY <2>4 DEF JoinException
    <3>2. results[r] = NoResult
      BY <1>1, <1>6, <2>1, <2>4 DEF Reported, Stored
    <3> QED
      BY <3>1, <3>2 DEF Behind
  <2> QED
    BY <1>8, <2>2, <2>3, <2>4
<1>9. CASE EndRound \/ PrintSummary \/ PostprocessSession
  <2>1. /\ futures' = futures /\ results' = results
        /\ main \in {"join", "joined", "printed"} /\ main' # "submit"
    BY <1>9 DEF EndRound, PrintSummary, PostprocessSession
  <2> QED
    BY <1>6, <2>1 DEF Behind
<1>10. CASE UNCHANGED vars
  BY <1>6, <1>10 DEF Behind, vars, mainVars
<1> QED
  BY <1>7, <1>8, <1>9, <1>10

(* What the main thread sees of a worker's step. *)
LEMMA StoreBehind ==
  ASSUME Behind, [Next]_vars, UNCHANGED <<main, nextBatch, futures, results>>,
         \A b \in Batches \ futures : \A r \in RunsOf(b) : Settled(r) => Settled(r)'
  PROVE  \A b \in Batches \ futures' :
           \/ main' = "submit" /\ b >= nextBatch'
           \/ \A r \in RunsOf(b)' : IF results'[r] = NoResult THEN ~Harmless ELSE Settled(r)'
<1>1. \A b : RunsOf(b)' = RunsOf(b)
  BY RunsStay
<1> QED
  BY <1>1 DEF Behind

LEMMA WorkBehind ==
  ASSUME Reported, Behind, NEW w \in Workers,
         \/ Process(w) \/ ProcessPost(w)
         \/ Enter(w) \/ Succeed(w) \/ Fail(w) \/ FailCompleted(w)
  PROVE  Behind'
<1>1. [Next]_vars /\ Served /\ Typed
  BY DEF Next, Worker, Reported, Served
<1>2. /\ order' = order /\ (\A b : RunsOf(b)' = RunsOf(b) /\ RunsOf(b) \subseteq Runs)
      /\ \A b : Positions(b)' = Positions(b)
  BY <1>1, OrderStays, RunsStay, Counters DEF Positions
<1>3. /\ UNCHANGED <<main, nextBatch, futures, results, finished, raised, batch, pos>>
      /\ phase[w] # "idle"
      /\ \A v \in Workers : v # w => phase'[v] = phase[v]
      /\ \A r \in Runs : r # CurrentRun(w) => run'[r] = run[r]
  BY <1>1, Beside DEF mainVars, poolVars
<1>4. ASSUME NEW r \in Runs, r # CurrentRun(w)
      PROVE  Settled(r)' <=> Settled(r)
  BY <1>3, <1>4, SettledStays
<1>5. batch[w] \in futures /\ batch[w] \notin finished
  BY <1>1, <1>3 DEF Served, Handed
<1>6. \A b : b # batch[w] => \A r \in RunsOf(b) : r \in Runs /\ r # CurrentRun(w)
  BY <1>1, <1>2, <1>3, Elsewhere
<1>7. \A b \in finished : \A r \in RunsOf(b) : Settled(r)'
  BY <1>4, <1>5, <1>6 DEF Behind
<1>8. ASSUME NEW v \in Workers, phase'[v] # "idle", NEW i \in Positions(batch[v]), i < pos[v]
      PROVE  Settled(order[i])'
  <2>1. phase[v] # "idle"
    BY <1>3, <1>8
  <2>2. v # w \/ i # pos[w]
    <3>1. pos[w] \in Nat
      BY <1>1, <1>3, AtWork DEF Runs
    <3> QED
      BY <1>8, <3>1
  <2>3. order[i] \in Runs /\ order[i] # CurrentRun(w)
    BY <1>1, <1>3, <1>8, <2>1, <2>2, Elsewhere
  <2>4. Settled(order[i])
    BY <1>8, <2>1 DEF Behind
  <2>5. (order')[i] = order[i]
    BY <1>2
  <2> QED
    BY <1>2, <1>4, <2>3, <2>4 DEF Settled, Wanted
<1>9. \A b \in Batches \ futures : \A r \in RunsOf(b) : Settled(r) => Settled(r)'
  BY <1>4, <1>5, <1>6
<1>10. Harmless => raised' = {}
  BY <1>3 DEF Behind
<1> QED
  BY <1>1, <1>2, <1>3, <1>7, <1>8, <1>9, <1>10, StoreBehind DEF Behind

LEMMA TakeBehind ==
  ASSUME Reported, Behind, NEW w \in Workers, Take(w)
  PROVE  Behind'
<1>1. [Next]_vars /\ Served /\ Typed
  BY DEF Next, Worker, Reported, Served
<1>2. /\ order' = order /\ (\A b : RunsOf(b)' = RunsOf(b))
      /\ \A b : Positions(b)' = Positions(b)
  BY <1>1, OrderStays, RunsStay DEF Positions
<1> DEFINE b == Least(queued)
<1>3. /\ UNCHANGED <<main, nextBatch, futures, results, finished, raised, run>>
      /\ batch'[w] = b /\ pos'[w] = Least(Positions(b))
      /\ \A v \in Workers : v # w =>
           batch'[v] = batch[v] /\ pos'[v] = pos[v] /\ phase'[v] = phase[v]
  BY <1>1 DEF Take, mainVars, Typed, TypeOK
<1>4. \A i \in Positions(b) : Least(Positions(b)) <= i /\ Least(Positions(b)) \in Nat /\ i \in Nat
  <2>1. Positions(b) \subseteq Nat
    BY DEF Positions, Runs
  <2> QED
    BY <2>1, LeastNatural
<1> HIDE DEF b
<1>5. \A r : Settled(r)' <=> Settled(r)
  BY <1>3, SettledStays
<1>6. \A v \in Workers : phase'[v] # "idle" =>
        \A i \in Positions(batch'[v]) : i < pos'[v] => Settled(order[i])'
  BY <1>2, <1>3, <1>4 DEF Behind, Settled, Wanted
<1> QED
  BY <1>1, <1>2, <1>3, <1>5, <1>6, StoreBehind DEF Behind

LEMMA RaiseBehind ==
  ASSUME Reported, Behind, NEW w \in Workers, AssertSkipNone(w) \/ RaiseOutside(w)
  PROVE  Behind'
<1>1. [Next]_vars /\ Served /\ Typed
  BY DEF Next, Worker, Reported, Served
<1>2. /\ order' = order /\ (\A b : RunsOf(b)' = RunsOf(b))
      /\ \A b : Positions(b)' = Positions(b)
  BY <1>1, OrderStays, RunsStay DEF Positions
<1>3. /\ UNCHANGED <<main, nextBatch, futures, results, finished, run>>
      /\ phase'[w] = "idle" /\ phase[w] # "idle"
      /\ \A v \in Workers : v # w =>
           batch'[v] = batch[v] /\ pos'[v] = pos[v] /\ phase'[v] = phase[v]
  BY <1>1 DEF AssertSkipNone, RaiseOutside, ProcessEnded, Raise, GoIdle, mainVars, Typed, TypeOK
<1>4. \A r : Settled(r)' <=> Settled(r)
  BY <1>3, SettledStays
<1>5. ~Harmless
  <2>1. CASE RaiseOutside(w)
    BY <2>1 DEF RaiseOutside, Harmless
  <2>2. CASE AssertSkipNone(w)
    <3>1. executor = "process_pool" /\ pos[w] # Least(Positions(batch[w]))
      BY <2>2 DEF AssertSkipNone, SecondOfPickable
    <3>2. SUFFICES ASSUME BatchSize = 1 PROVE FALSE
      BY <1>1, <3>1 DEF Harmless, Typed, TypeOK
    <3>3. \A i \in Runs : BatchOf(i) = i
      BY <3>2 DEF BatchOf, Runs
    <3>4. pos[w] \in Positions(batch[w]) /\ batch[w] \in Batches
      BY <1>1, <1>3, AtWork
    <3>5. Least(Positions(batch[w])) \in Positions(batch[w])
      BY <3>4, FirstPosition
    <3> QED
      BY <3>1, <3>3, <3>4, <3>5 DEF Positions
  <2> QED
    BY <2>1, <2>2
<1>6. \A v \in Workers : phase'[v] # "idle" =>
        \A i \in Positions(batch'[v]) : i < pos'[v] => Settled(order[i])'
  BY <1>2, <1>3 DEF Behind, Settled, Wanted
<1> QED
  BY <1>1, <1>2, <1>3, <1>4, <1>5, <1>6, StoreBehind DEF Behind

LEMMA CollectBehind ==
  ASSUME NoSecondCall, Reported, Working, Behind, NEW w \in Workers, Collect(w)
  PROVE  Behind'
<1>1. [Next]_vars /\ Served /\ Typed
  BY DEF Next, Worker, Reported, Served
<1>2. /\ order' = order /\ (\A b : RunsOf(b)' = RunsOf(b))
      /\ \A b : Positions(b)' = Positions(b)
  BY <1>1, OrderStays, RunsStay DEF Positions
<1>3. /\ UNCHANGED <<main, nextBatch, futures, results, raised, run>>
      /\ phase[w] # "idle" /\ todo[w] = {} /\ phase[w] \in {"process", "post"}
      /\ \A v \in Workers : v # w =>
           batch'[v] = batch[v] /\ pos'[v] = pos[v] /\ phase'[v] = phase[v]
  BY <1>1 DEF Collect, ProcessEnded, GoIdle, mainVars, Typed, TypeOK
<1>4. \A r : Settled(r)' <=> Settled(r)
  BY <1>3, SettledStays
<1>5. Settled(CurrentRun(w))
  <2>1. CurrentRun(w) \in Runs
    BY <1>1, <1>3, AtWork
  <2>2. phase[w] = "process"
    BY <1>3 DEF Working, Second, NoSecondCall
  <2>3. First({}, run[CurrentRun(w)], CurrentRun(w))
    BY <1>3, <2>2 DEF Working
  <2>4. Wanted(CurrentRun(w)) \subseteq Upto(CurrentRun(w))
    BY <2>1 DEF Wanted, Upto, NoSecondCall
  <2> QED
    BY <2>3, <2>4 DEF First, Settled
<1> DEFINE b == batch[w]
<1>6. pos[w] \in Positions(b) /\ pos[w] \in Nat /\ \A i \in Positions(b) : i \in Nat
  BY <1>1, <1>3, AtWork DEF Positions, Runs
<1>7. \A i \in Positions(b) : i <= pos[w] => Settled(order[i])
  <2>1. \A i \in Positions(b) : i <= pos[w] => i < pos[w] \/ i = pos[w]
    BY <1>6
  <2> QED
    BY <1>3, <1>5, <2>1 DEF Behind, CurrentRun
<1>8. \/ /\ pos[w] + 1 \in Positions(b) /\ finished' = finished
         /\ pos'[w] = pos[w] + 1 /\ batch'[w] = b
      \/ /\ pos[w] + 1 \notin Positions(b) /\ finished' = finished \cup {b}
         /\ phase'[w] = "idle"
  BY <1>1 DEF Collect, GoIdle, Typed, TypeOK
<1> HIDE DEF b
<1>9. \A c \in finished' : \A r \in RunsOf(c) : Settled(r)
  <2>1. CASE finished' = finished
    BY <2>1 DEF Behind
  <2>2. CASE pos[w] + 1 \notin Positions(b) /\ finished' = finished \cup {b}
    <3>1. \A i \in Positions(b) : i <= pos[w]
      BY <1>6, <2>2, BatchOrder
    <3>2. \A r \in RunsOf(b) : Settled(r)
      BY <1>7, <3>1 DEF RunsOf
    <3> QED
      BY <2>2, <3>2 DEF Behind
  <2> QED
    BY <1>8, <2>1, <2>2
<1>10. ASSUME NEW v \in Workers, phase'[v] # "idle", NEW i \in Positions(batch'[v]), i < pos'[v]
       PROVE  Settled(order[i])
  <2>1. CASE v # w
    BY <1>3, <1>10, <2>1 DEF Behind
  <2>2. CASE v = w
    <3>1. i \in Positions(b) /\ i < pos[w] + 1
      BY <1>8, <1>10, <2>2
    <3>2. i <= pos[w]
      BY <1>6, <3>1
    <3> QED
      BY <1>7, <3>1, <3>2
  <2> QED
    BY <2>1, <2>2
<1>11. \A v \in Workers : phase'[v] # "idle" =>
         \A i \in Positions(batch'[v]) : i < pos'[v] => Settled(order[i])'
  BY <1>2, <1>3, <1>10 DEF Settled, Wanted
<1> QED
  BY <1>1, <1>2, <1>3, <1>4, <1>9, <1>11, StoreBehind DEF Behind

LEMMA BehindStep ==
  ASSUME ~PerStage, NoSecondCall, Accounted, Working, Behind, [Next]_vars
  PROVE  Behind'
<1>1. Reported
  BY DEF Accounted
<1> QED
  BY <1>1, MainBehind, WorkBehind, TakeBehind, RaiseBehind, CollectBehind, Cases

(* At the end all runs are settled whose results are not lost. *)
LEMMA AllBehind ==
  ASSUME Reported, Behind, main \notin {"submit", "join"}, NEW r \in Runs
  PROVE  IF results[r] = NoResult THEN ~Harmless ELSE Settled(r)
<1>1. PICK i \in Runs : order[i] = r
  BY DEF Reported, Served, OneToOne
<1>2. r \in RunsOf(BatchOf(i)) /\ BatchOf(i) \in Batches
  BY <1>1 DEF RunsOf, Positions, Batches
<1>3. futures = {}
  BY DEF Reported, Served, Typed, Cut
<1> QED
  BY <1>2, <1>3 DEF Behind

Pass == Accounted /\ Waiting /\ Working /\ Behind /\ Said /\ Once

LEMMA PassInvariance ==
  ASSUME ~PerStage, NoSecondCall
  PROVE  Spec => []Pass
<1>1. Undisturbed
  BY DEF Undisturbed
<1>2. Init => Pass
  <2>1. Init => Accounted
    BY <1>1, ReportedInit, TallyInit DEF Accounted
  <2>2. Init => Said /\ Once
    BY DEF Init, Said, Once
  <2> QED
    BY <2>1, <2>2, WaitingInit, WorkingInit, BehindInit DEF Pass
<1>3. Pass /\ [Next]_vars => Pass'
  <2>1. Accounted => Reported
    BY DEF Accounted
  <2> QED
    BY <1>1, <2>1, AccountedStep, WaitingStep, WorkingStep, BehindStep, SaidStep, OnceStep DEF Pass
<1> QED
  BY <1>2, <1>3, PTL DEF Spec

(* Without per_stage the summary is right if the postprocesses are not       *)
(* called separately, even if workers raise.                                 *)
THEOREM OnePassSummaryIsTrue ==
  ASSUME ~PerStage, NoSecondCall
  PROVE  Spec => []SummaryIsTrue
<1>1. ASSUME Pass, summary = "all completed", NEW r \in Runs
      PROVE  ~run[r].failing /\ Wanted(r) \subseteq run[r].completed
  <2>1. main \notin {"submit", "join"} /\ ~results[r].failing /\ results[r] # NoResult
    BY <1>1 DEF Pass, Said
  <2>2. results[r] = Result(run[r])
    BY <1>1, <2>1, ReportedMatches DEF Pass, Accounted, ResultsMatchRuns
  <2>3. ~run[r].failing
    BY <2>1, <2>2 DEF Result
  <2> QED
    BY <1>1, <2>1, <2>3, AllBehind DEF Pass, Accounted, Settled
<1>2. Pass => SummaryIsTrue
  BY <1>1 DEF SummaryIsTrue
<1> QED
  BY <1>2, PassInvariance, PTL

(* A step of the session is a step of SessionOutcome. *)
LEMMA OnePassOutcomeStep ==
  ASSUME ~PerStage, NoSecondCall, Harmless, Pass, [Next]_vars
  PROVE  Outcome!Next \/ UNCHANGED Outcome!vars
<1>1. Accounted /\ Reported /\ Served /\ Typed /\ Waiting /\ Working /\ Behind /\ Once
  BY DEF Pass, Accounted, Reported, Served
<1>2. CASE PrintSummary
  <2>1. summary = "none" /\ main = "joined"
    BY <1>1, <1>2 DEF PrintSummary, Once
  <2>2. \A r \in Runs : Settled(r) /\ results[r] # NoResult
    BY <1>1, <2>1, AllBehind
  <2>3. \A r \in Runs : Verdict(run[r], r) # "open"
    BY <2>2 DEF Settled, Verdict
  <2> QED
    BY <1>1, <1>2, <2>1, <2>2, <2>3, SummaryConcludes
<1>3. ASSUME run' = run, summary' = summary
      PROVE  UNCHANGED Outcome!vars
  BY <1>3, OutcomeForms DEF Verdicts, Reports
<1>4. CASE \/ Submit \/ EndRound \/ PostprocessSession \/ UNCHANGED vars
           \/ \E b \in Batches : JoinResult(b) \/ JoinException(b)
           \/ \E w \in Workers : \/ Take(w) \/ Collect(w) \/ AssertSkipNone(w)
                                 \/ RaiseOutside(w) \/ ProcessPost(w)
  <2>1. run' = run /\ summary' = summary
    BY <1>4 DEF Submit, EndRound, PostprocessSession, JoinResult, JoinException, Take, Collect,
                AssertSkipNone, RaiseOutside, ProcessPost, vars, mainVars
  <2> QED
    BY <1>3, <2>1
<1>5. ASSUME NEW w \in Workers, Process(w)
      PROVE  UNCHANGED Outcome!vars
  <2>1. /\ phase[w] = "next" /\ pos[w] \in Positions(batch[w])
        /\ CurrentRun(w) \in Runs /\ run \in [Runs -> RunType]
    BY <1>1, <1>5, AtWork DEF Process, Typed, TypeOK
  <2>2. run[CurrentRun(w)] = NewRun
    BY <1>1, <2>1 DEF Waiting, CurrentRun
  <2>3. run' = [run EXCEPT ![CurrentRun(w)] = run[CurrentRun(w)]] /\ summary' = summary
    BY <1>5, <2>2 DEF Process, mainVars
  <2>4. run' = run
    BY <2>1, <2>3
  <2> QED
    BY <1>3, <2>3, <2>4
<1>6. ASSUME NEW w \in Workers, Enter(w) \/ Succeed(w) \/ Fail(w) \/ FailCompleted(w)
      PROVE  Outcome!Next \/ UNCHANGED Outcome!vars
  <2> DEFINE r == CurrentRun(w)
  <2>1. todo[w] # {}
    BY <1>1, <1>6 DEF Enter, Succeed, Fail, FailCompleted, Typed, Seats
  <2>2. /\ r \in Runs /\ ~run[r].failing /\ todo[w] \subseteq Upto(r)
        /\ todo[w] \subseteq OptionalStages
        /\ run[r].completed = {NOP} \cup (Upto(r) \ todo[w])
    BY <1>1, <2>1, FirstCallOnly
  <2>3. \E s \in Wanted(r) : s \notin run[r].completed
    BY <2>1, <2>2 DEF Wanted, Upto, OptionalStages
  <2>4. Verdicts[r] = "open"
    BY <2>2, <2>3 DEF Verdicts, Verdict
  <2> QED
    BY <1>1, <1>6, <2>2, <2>4, Settles
<1> QED
  BY <1>2, <1>4, <1>5, <1>6, Cases

(* Without per_stage, postprocesses that are called separately and workers   *)
(* that raise, every run ends up completed or failed, that verdict is final, *)
(* and success is reported if and only if all runs have completed: the       *)
(* safety part of ImplementsOutcome, for batches of any size.                *)
THEOREM OnePassKeepsPromise ==
  ASSUME ~PerStage, NoSecondCall, Harmless
  PROVE  Spec => Outcome!Spec
<1>1. Pass /\ [Next]_vars => [Outcome!Next]_(Outcome!vars)
  BY OnePassOutcomeStep
<1> QED
  BY <1>1, OutcomeInit, PassInvariance, PTL DEF Spec, Outcome!Spec

-----------------------------------------------------------------------------
(* What the callers of a run are at. *)

TodoOf(r)  == [w \in Workers |-> IF pos[w] # 0 /\ CurrentRun(w) = r THEN todo[w] ELSE {}]
StageOf(r) == [w \in Workers |-> IF pos[w] # 0 /\ CurrentRun(w) = r THEN stage[w] ELSE NoStage]

(* Both modules take the operators from RunStages. *)
LEMMA SameOperators ==
  ASSUME NEW r \in Runs
  PROVE  /\ \A a, s, u, k : SingleRun(r)!Planned(a, s, u, k) = Planned(a, s, u, k)
         /\ \A a, x : SingleRun(r)!NextStage(a, x) = NextStage(a, x)
         /\ \A S : SingleRun(r)!Least(S) = Least(S)
         /\ \A a, p, x, s : SingleRun(r)!Ready(a, p, x, s) <=> Ready(a, p, x, s)
         /\ \A x, s : /\ SingleRun(r)!Entered(x, s) = Entered(x, s)
                      /\ SingleRun(r)!Completed(x, s) = Completed(x, s)
                      /\ SingleRun(r)!Failed(x, s) = Failed(x, s)
         /\ SingleRun(r)!NoStage = NoStage /\ SingleRun(r)!POSTPROCESS = POSTPROCESS
<1>1. \A a, s, u, k : SingleRun(r)!Planned(a, s, u, k) = Planned(a, s, u, k)
  BY DEF Planned, SingleRun!Planned, SingleRun!DONE
<1>2. \A S : SingleRun(r)!Least(S) = Least(S)
  BY DEF Least, SingleRun!Least
<1>3. \A a, x : SingleRun(r)!Incomplete(a, x) = Incomplete(a, x)
  BY DEF Incomplete, HasStage, RunStage, SingleRun!Incomplete, SingleRun!HasStage,
         SingleRun!RunStage, SingleRun!NOP, SingleRun!DONE
<1>4. \A a, x : SingleRun(r)!NextStage(a, x) = NextStage(a, x)
  BY <1>2, <1>3 DEF NextStage, SingleRun!NextStage, SingleRun!DONE
<1>5. \A S : SingleRun(r)!Greatest(S) = Greatest(S)
  BY DEF Greatest, SingleRun!Greatest
<1>6. \A a, x : SingleRun(r)!LastStage(a, x) = LastStage(a, x)
  BY <1>3, <1>4, <1>5 DEF LastStage, SingleRun!LastStage, RunStage, SingleRun!RunStage,
     SingleRun!NoStage, SingleRun!NOP, SingleRun!DONE, HasStage, SingleRun!HasStage
<1>7. \A a, p, s : SingleRun(r)!Requires(a, p, s) = Requires(a, p, s)
  BY DEF Requires, SingleRun!Requires, SingleRun!LOAD, SingleRun!TUNE, SingleRun!BUILD,
         SingleRun!COMPILE, SingleRun!RUN
<1>8. \A a, p, x, s : SingleRun(r)!Ready(a, p, x, s) <=> Ready(a, p, x, s)
  BY <1>6, <1>7 DEF Ready, SingleRun!Ready, SingleRun!POSTPROCESS, SingleRun!NoStage,
     SingleRun!NOP
<1>9. \A x, s : /\ SingleRun(r)!Prepared(x, s) = Prepared(x, s)
                /\ SingleRun(r)!Failed(x, s) = Failed(x, s)
                /\ SingleRun(r)!Report(x) = Report(x)
  BY DEF Prepared, SingleRun!Prepared, Failed, SingleRun!Failed, Report, SingleRun!Report,
         SingleRun!POSTPROCESS
<1>10. \A x, s : /\ SingleRun(r)!Entered(x, s) = Entered(x, s)
                 /\ SingleRun(r)!Completed(x, s) = Completed(x, s)
  BY <1>9 DEF Entered, SingleRun!Entered, Completed, SingleRun!Completed, SingleRun!POSTPROCESS
<1>11. SingleRun(r)!NoStage = NoStage /\ SingleRun(r)!POSTPROCESS = POSTPROCESS
  BY DEF SingleRun!NoStage, SingleRun!POSTPROCESS
<1> QED
  BY <1>1, <1>2, <1>4, <1>8, <1>9, <1>10, <1>11

LEMMA RunsInit == Init => \A r \in Runs : SingleRun(r)!Init
  BY DEF Init, SingleRun!Init, NewRun, SingleRun!NewRun, SingleRun!NOP, SingleRun!NoStage

(* A run is left alone if neither it nor its callers change. *)
LEMMA LeftAlone ==
  ASSUME NEW r \in Runs, run'[r] = run[r], TodoOf(r)' = TodoOf(r), StageOf(r)' = StageOf(r)
  PROVE  UNCHANGED SingleRun(r)!vars
  BY DEF TodoOf, StageOf, SingleRun!vars

(* A worker that goes to another run, or away, has nothing left to do for    *)
(* the run it leaves and nothing yet for the new one.                        *)
LEMMA Moves ==
  ASSUME Typed, [Next]_vars, NEW w \in Workers, NEW r \in Runs,
         UNCHANGED <<todo, stage>>, run'[r] = run[r], todo[w] = {}, stage[w] = NoStage,
         \A v \in Workers : v # w => pos'[v] = pos[v]
  PROVE  UNCHANGED SingleRun(r)!vars
<1>1. \A v \in Workers : v # w => CurrentRun(v)' = CurrentRun(v)
  BY OrderStays DEF CurrentRun
<1>2. TodoOf(r)' = TodoOf(r)
  BY <1>1 DEF TodoOf
<1>3. StageOf(r)' = StageOf(r)
  BY <1>1 DEF StageOf
<1> QED
  BY <1>2, <1>3, LeftAlone

(* A worker changes what its own run knows of it, and no other run. *)
LEMMA OwnCaller ==
  ASSUME Typed, [Next]_vars, NEW w \in Workers, phase[w] # "idle", pos' = pos,
         \A v \in Workers : v # w => todo'[v] = todo[v] /\ stage'[v] = stage[v],
         \A q \in Runs : q # CurrentRun(w) => run'[q] = run[q],
         NEW r \in Runs
  PROVE  /\ r # CurrentRun(w) => UNCHANGED SingleRun(r)!vars
         /\ r = CurrentRun(w) =>
              /\ TodoOf(r)[w] = todo[w] /\ TodoOf(r)' = [TodoOf(r) EXCEPT ![w] = todo'[w]]
              /\ StageOf(r)[w] = stage[w] /\ StageOf(r)' = [StageOf(r) EXCEPT ![w] = stage'[w]]
<1>1. pos[w] # 0
  <2>1. pos[w] \in Runs
    BY AtWork
  <2> QED
    BY <2>1 DEF Runs
<1>2. \A v \in Workers : CurrentRun(v)' = CurrentRun(v)
  BY OrderStays DEF CurrentRun
<1>3. ASSUME r # CurrentRun(w)
      PROVE  UNCHANGED SingleRun(r)!vars
  <2>1. TodoOf(r)' = TodoOf(r) /\ StageOf(r)' = StageOf(r)
    BY <1>2, <1>3 DEF TodoOf, StageOf
  <2> QED
    BY <1>3, <2>1, LeftAlone
<1>4. ASSUME r = CurrentRun(w)
      PROVE  /\ TodoOf(r)[w] = todo[w] /\ TodoOf(r)' = [TodoOf(r) EXCEPT ![w] = todo'[w]]
             /\ StageOf(r)[w] = stage[w] /\ StageOf(r)' = [StageOf(r) EXCEPT ![w] = stage'[w]]
  BY <1>1, <1>2, <1>4 DEF TodoOf, StageOf
<1> QED
  BY <1>3, <1>4

(* A call of Run.process, by the stages it leaves to its caller. *)
LEMMA Calls ==
  ASSUME NEW r \in Runs, NEW w \in Workers, NEW until \in LOAD .. DONE,
         NEW skip \in SUBSET OptionalStages,
         NEW start, start = NextStage(Available[r], run[r]) \/ start = POSTPROCESS,
         TodoOf(r)[w] = {}, StageOf(r)[w] = NoStage,
         TodoOf(r)' = [TodoOf(r) EXCEPT ![w] = Planned(Available[r], start, until, skip)],
         StageOf(r)' = StageOf(r), run'[r] = run[r]
  PROVE  SingleRun(r)!Next
<1>1. SingleRun(r)!Process(w, until, skip) <=>
        /\ TodoOf(r)[w] = {} /\ StageOf(r)[w] = SingleRun(r)!NoStage
        /\ \E s \in {SingleRun(r)!NextStage(Available[r], run[r]), SingleRun(r)!POSTPROCESS} :
             TodoOf(r)' = [TodoOf(r) EXCEPT ![w] =
                             SingleRun(r)!Planned(Available[r], s, until, skip)]
        /\ UNCHANGED <<run[r], StageOf(r)>>
  BY DEF SingleRun!Process, TodoOf, StageOf
<1>4. start \in {SingleRun(r)!NextStage(Available[r], run[r]), SingleRun(r)!POSTPROCESS}
  BY SameOperators
<1>5. SingleRun(r)!Planned(Available[r], start, until, skip)
        = Planned(Available[r], start, until, skip)
  BY SameOperators
<1>6. SingleRun(r)!NoStage = NoStage
  BY SameOperators
<1>7. SingleRun(r)!Process(w, until, skip)
  BY <1>1, <1>4, <1>5, <1>6
<1>2. until \in SingleRun(r)!LOAD .. SingleRun(r)!DONE
  BY DEF SingleRun!LOAD, SingleRun!DONE
<1>3. skip \in SUBSET SingleRun(r)!OptionalStages
  BY DEF OptionalStages, SingleRun!OptionalStages, SingleRun!LOAD, SingleRun!POSTPROCESS
<1> QED
  BY <1>2, <1>3, <1>7 DEF SingleRun!Next

(* Whatever the scheduler asks of process is a call that Run describes. *)
LEMMA Asked ==
  ASSUME Typed, NEW r \in Runs, NEW start \in Nat
  PROVE  \E until \in LOAD .. DONE, skip \in SUBSET OptionalStages :
           Planned(Available[r], start, WorkerUntil, Skipped(r))
             = Planned(Available[r], start, until, skip)
<1>1. Available[r] \subseteq OptionalStages
  OBVIOUS
<1>2. \A until : Planned(Available[r], start, until, Skipped(r))
                   = Planned(Available[r], start, until, Skipped(r) \cap OptionalStages)
  BY <1>1 DEF Planned
<1>3. CASE WorkerUntil \in LOAD .. DONE
  BY <1>2, <1>3
<1>4. CASE WorkerUntil \notin LOAD .. DONE
  <2>1. WorkerUntil = NOP
    <3>1. PerStage /\ WorkerUntil = StageAt(round)
      BY <1>4 DEF WorkerUntil
    <3>2. \A k \in Rounds : StageAt(k) \in LOAD .. DONE
      BY DEF Rounds, StageAt
    <3>3. round = 0
      BY <1>4, <3>1, <3>2 DEF Typed, TypeOK
    <3> QED
      BY <3>1, <3>3 DEF StageAt
  <2>2. Planned(Available[r], start, WorkerUntil, Skipped(r)) = {}
    BY <1>1, <2>1 DEF Planned, OptionalStages
  <2>3. Planned(Available[r], start, DONE, OptionalStages) = {}
    BY <1>1 DEF Planned
  <2>4. DONE \in LOAD .. DONE /\ OptionalStages \in SUBSET OptionalStages
    OBVIOUS
  <2> QED
    BY <2>2, <2>3, <2>4
<1> QED
  BY <1>3, <1>4

(* The runs that process_pool builds are those that nobody has processed. *)
Afresh == ~PerStage => Waiting

LEMMA ProcessCalls ==
  ASSUME Afresh, Typed, NEW w \in Workers, Process(w), NEW r \in Runs
  PROVE  SingleRun(r)!Next \/ UNCHANGED SingleRun(r)!vars
<1>1. [Next]_vars
  BY DEF Next, Worker
<1>2. /\ phase[w] = "next" /\ todo[w] = {} /\ stage[w] = NoStage
      /\ executor = "process_pool" => NewRun = run[CurrentRun(w)]
  <2>1. phase[w] = "next" /\ todo[w] = {} /\ stage[w] = NoStage
    BY DEF Process, Typed, Seats
  <2>2. pos[w] \in Positions(batch[w])
    BY <2>1, AtWork
  <2>3. executor = "process_pool" => Waiting
    BY DEF Afresh, Typed, TypeOK
  <2> QED
    BY <2>1, <2>2, <2>3 DEF Waiting, CurrentRun
<1>3. run' = run
  <2>1. run' = [run EXCEPT ![CurrentRun(w)] = run[CurrentRun(w)]]
    BY <1>2 DEF Process
  <2> QED
    BY <2>1 DEF Typed, TypeOK
<1>4. /\ pos' = pos /\ stage' = stage
      /\ \A v \in Workers : v # w => todo'[v] = todo[v]
  BY DEF Process, Typed, TypeOK
<1>5. CASE r # CurrentRun(w)
  BY <1>1, <1>2, <1>3, <1>4, <1>5, OwnCaller
<1>6. CASE r = CurrentRun(w)
  <2>1. /\ TodoOf(r)[w] = {} /\ StageOf(r)[w] = NoStage
        /\ TodoOf(r)' = [TodoOf(r) EXCEPT ![w] = todo'[w]]
        /\ StageOf(r)' = [StageOf(r) EXCEPT ![w] = stage'[w]]
    BY <1>1, <1>2, <1>3, <1>4, <1>6, OwnCaller
  <2>2. StageOf(r)' = StageOf(r)
    BY <1>2, <1>4, <2>1 DEF StageOf
  <2>3. todo'[w] = Planned(Available[r], NextStage(Available[r], run[r]), WorkerUntil, Skipped(r))
    BY <1>2, <1>6 DEF Process, Typed, TypeOK
  <2>4. NextStage(Available[r], run[r]) \in Nat
    <3>1. Incomplete(Available[r], run[r]) \in SUBSET Nat
      BY DEF Incomplete, RunStage
    <3> QED
      BY <3>1, LeastNatural DEF NextStage
  <2>5. PICK start \in {NextStage(Available[r], run[r])},
             until \in LOAD .. DONE, skip \in SUBSET OptionalStages :
          todo'[w] = Planned(Available[r], start, until, skip)
    BY <2>3, <2>4, Asked
  <2>6. start = NextStage(Available[r], run[r])
    BY <2>5
  <2>7. TodoOf(r)' = [TodoOf(r) EXCEPT ![w] = Planned(Available[r], start, until, skip)]
    BY <2>1, <2>5
  <2>8. run'[r] = run[r]
    BY <1>3
  <2> QED
    BY <2>1, <2>2, <2>6, <2>7, <2>8, Calls
<1> QED
  BY <1>5, <1>6

LEMMA ProcessPostCalls ==
  ASSUME Typed, NEW w \in Workers, ProcessPost(w), NEW r \in Runs
  PROVE  SingleRun(r)!Next \/ UNCHANGED SingleRun(r)!vars
<1>1. [Next]_vars
  BY DEF Next, Worker
<1>2. phase[w] = "process" /\ todo[w] = {} /\ stage[w] = NoStage
  BY DEF ProcessPost, ProcessEnded
<1>3. /\ run' = run /\ pos' = pos /\ stage' = stage
      /\ \A v \in Workers : v # w => todo'[v] = todo[v]
  BY DEF ProcessPost, Typed, TypeOK
<1>4. CASE r # CurrentRun(w)
  BY <1>1, <1>2, <1>3, <1>4, OwnCaller
<1>5. CASE r = CurrentRun(w)
  <2>1. /\ TodoOf(r)[w] = {} /\ StageOf(r)[w] = NoStage
        /\ TodoOf(r)' = [TodoOf(r) EXCEPT ![w] = todo'[w]]
        /\ StageOf(r)' = [StageOf(r) EXCEPT ![w] = stage'[w]]
    BY <1>1, <1>2, <1>3, <1>5, OwnCaller
  <2>2. StageOf(r)' = StageOf(r)
    BY <1>2, <1>3, <2>1 DEF StageOf
  <2>3. todo'[w] = Planned(Available[r], POSTPROCESS, POSTPROCESS, Skipped(r))
    BY <1>5 DEF ProcessPost, Typed, TypeOK
  <2>4. todo'[w] = Planned(Available[r], POSTPROCESS, POSTPROCESS, Skipped(r) \cap OptionalStages)
    <3>1. Available[r] \subseteq OptionalStages
      OBVIOUS
    <3> QED
      BY <2>3, <3>1 DEF Planned
  <2>5. POSTPROCESS \in LOAD .. DONE /\ Skipped(r) \cap OptionalStages \in SUBSET OptionalStages
    OBVIOUS
  <2> QED
    BY <1>3, <2>1, <2>2, <2>4, <2>5, Calls
<1> QED
  BY <1>4, <1>5

(* The steps of a stage, in terms of what the callers are at. *)
LEMMA Forms ==
  ASSUME NEW r \in Runs, NEW w \in Workers
  PROVE  /\ SingleRun(r)!Enter(w) <=>
              /\ TodoOf(r)[w] # {} /\ StageOf(r)[w] = SingleRun(r)!NoStage
              /\ run'[r] = SingleRun(r)!Entered(run[r], SingleRun(r)!Least(TodoOf(r)[w]))
              /\ StageOf(r)' = [StageOf(r) EXCEPT ![w] =
                                  IF run[r].locked THEN SingleRun(r)!NoStage
                                                   ELSE SingleRun(r)!Least(TodoOf(r)[w])]
              /\ TodoOf(r)' = [TodoOf(r) EXCEPT ![w] = IF run[r].locked THEN {} ELSE @]
         /\ SingleRun(r)!Succeed(w) <=>
              /\ StageOf(r)[w] # SingleRun(r)!NoStage
              /\ SingleRun(r)!Ready(Available[r], r \in Programs, run[r], StageOf(r)[w])
              /\ run'[r] = SingleRun(r)!Completed(run[r], StageOf(r)[w])
              /\ TodoOf(r)' = [TodoOf(r) EXCEPT ![w] = @ \ {StageOf(r)[w]}]
              /\ StageOf(r)' = [StageOf(r) EXCEPT ![w] = SingleRun(r)!NoStage]
         /\ SingleRun(r)!Fail(w) <=>
              /\ StageOf(r)[w] # SingleRun(r)!NoStage
              /\ run'[r] = SingleRun(r)!Failed(run[r], StageOf(r)[w])
              /\ TodoOf(r)' = [TodoOf(r) EXCEPT ![w] = {}]
              /\ StageOf(r)' = [StageOf(r) EXCEPT ![w] = SingleRun(r)!NoStage]
         /\ SingleRun(r)!FailCompleted(w) <=>
              /\ StageOf(r)[w] = SingleRun(r)!POSTPROCESS
              /\ SingleRun(r)!Ready(Available[r], r \in Programs, run[r], SingleRun(r)!POSTPROCESS)
              /\ run'[r] = SingleRun(r)!Failed(
                             SingleRun(r)!Completed(run[r], SingleRun(r)!POSTPROCESS),
                             SingleRun(r)!POSTPROCESS)
              /\ TodoOf(r)' = [TodoOf(r) EXCEPT ![w] = {}]
              /\ StageOf(r)' = [StageOf(r) EXCEPT ![w] = SingleRun(r)!NoStage]
  BY DEF TodoOf, StageOf, SingleRun!Enter, SingleRun!Current, SingleRun!Succeed, SingleRun!Fail,
         SingleRun!FailCompleted, SingleRun!Leave

(* What a worker does in a stage, the Run object does. *)
LEMMA StageWorks ==
  ASSUME Typed, NEW w \in Workers, Enter(w) \/ Succeed(w) \/ Fail(w) \/ FailCompleted(w),
         NEW r \in Runs
  PROVE  SingleRun(r)!Next \/ UNCHANGED SingleRun(r)!vars
<1>1. [Next]_vars
  BY DEF Next, Worker
<1>2. todo[w] # {} /\ phase[w] # "idle"
  <2>1. todo[w] # {}
    BY DEF Enter, Succeed, Fail, FailCompleted, Typed, Seats
  <2> QED
    BY <2>1, Staged
<1>3. /\ pos' = pos
      /\ \A v \in Workers : v # w => todo'[v] = todo[v] /\ stage'[v] = stage[v]
      /\ \A q \in Runs : q # CurrentRun(w) => run'[q] = run[q]
  BY DEF Enter, Succeed, Fail, FailCompleted, Leave, Typed, TypeOK
<1>4. CASE r # CurrentRun(w)
  BY <1>1, <1>2, <1>3, <1>4, OwnCaller
<1>5. CASE r = CurrentRun(w)
  <2>1. /\ TodoOf(r)[w] = todo[w] /\ StageOf(r)[w] = stage[w]
        /\ TodoOf(r)' = [TodoOf(r) EXCEPT ![w] = todo'[w]]
        /\ StageOf(r)' = [StageOf(r) EXCEPT ![w] = stage'[w]]
    BY <1>1, <1>2, <1>3, <1>5, OwnCaller
  <2>2. /\ run \in [Runs -> RunType] /\ todo \in [Workers -> SUBSET OptionalStages]
        /\ stage \in [Workers -> OptionalStages \cup {NoStage}]
    BY DEF Typed, TypeOK
  <2>3. CASE Enter(w)
    <3>1. /\ stage[w] = NoStage
          /\ run'[r] = Entered(run[r], Least(todo[w]))
          /\ stage'[w] = IF run[r].locked THEN NoStage ELSE Least(todo[w])
          /\ todo'[w] = IF run[r].locked THEN {} ELSE todo[w]
      BY <1>5, <2>2, <2>3 DEF Enter, Current
    <3>2. SingleRun(r)!Enter(w)
      BY <1>2, <2>1, <3>1, Forms, SameOperators
    <3> QED
      BY <3>2 DEF SingleRun!Next, SingleRun!Work
  <2>4. CASE Succeed(w)
    <3>1. /\ stage[w] # NoStage /\ Ready(Available[r], r \in Programs, run[r], stage[w])
          /\ run'[r] = Completed(run[r], stage[w])
          /\ todo'[w] = todo[w] \ {stage[w]} /\ stage'[w] = NoStage
      BY <1>5, <2>2, <2>4 DEF Succeed, Leave, StageReady
    <3>2. SingleRun(r)!Succeed(w)
      BY <2>1, <3>1, Forms, SameOperators
    <3> QED
      BY <3>2 DEF SingleRun!Next, SingleRun!Work
  <2>5. CASE Fail(w)
    <3>1. /\ stage[w] # NoStage /\ run'[r] = Failed(run[r], stage[w])
          /\ todo'[w] = {} /\ stage'[w] = NoStage
      BY <1>5, <2>2, <2>5 DEF Fail, Leave
    <3>2. SingleRun(r)!Fail(w)
      BY <2>1, <3>1, Forms, SameOperators
    <3> QED
      BY <3>2 DEF SingleRun!Next, SingleRun!Work
  <2>6. CASE FailCompleted(w)
    <3>1. /\ stage[w] = POSTPROCESS /\ Ready(Available[r], r \in Programs, run[r], POSTPROCESS)
          /\ run'[r] = Failed(Completed(run[r], POSTPROCESS), POSTPROCESS)
          /\ todo'[w] = {} /\ stage'[w] = NoStage
      BY <1>5, <2>2, <2>6 DEF FailCompleted, Leave, StageReady
    <3>2. SingleRun(r)!FailCompleted(w)
      BY <2>1, <3>1, Forms, SameOperators
    <3> QED
      BY <3>2 DEF SingleRun!Next, SingleRun!Work
  <2> QED
    BY <2>3, <2>4, <2>5, <2>6
<1> QED
  BY <1>4, <1>5

LEMMA RunsStep ==
  ASSUME Afresh, Typed, [Next]_vars, NEW r \in Runs
  PROVE  SingleRun(r)!Next \/ UNCHANGED SingleRun(r)!vars
<1>1. CASE \/ Submit \/ EndRound \/ PrintSummary \/ PostprocessSession \/ UNCHANGED vars
           \/ \E b \in Batches : JoinResult(b) \/ JoinException(b)
  <2>1. UNCHANGED <<run, pos, todo, stage>> /\ order' = order
    BY <1>1, OrderStays DEF Submit, EndRound, PrintSummary, PostprocessSession, JoinResult,
       JoinException, vars, workerVars
  <2>2. TodoOf(r)' = TodoOf(r) /\ StageOf(r)' = StageOf(r)
    BY <2>1 DEF TodoOf, StageOf, CurrentRun
  <2> QED
    BY <2>1, <2>2, LeftAlone
<1>2. ASSUME NEW w \in Workers, Take(w) \/ AssertSkipNone(w) \/ Collect(w) \/ RaiseOutside(w)
      PROVE  UNCHANGED SingleRun(r)!vars
  <2>1. todo[w] = {} /\ stage[w] = NoStage
    BY <1>2 DEF Take, AssertSkipNone, Collect, RaiseOutside, ProcessEnded, Typed, Seats
  <2>2. /\ UNCHANGED <<todo, stage, run>>
        /\ \A v \in Workers : v # w => pos'[v] = pos[v]
    BY <1>2 DEF Take, AssertSkipNone, Collect, RaiseOutside, Raise, GoIdle, Typed, TypeOK
  <2> QED
    BY <2>1, <2>2, Moves
<1> QED
  BY <1>1, <1>2, ProcessCalls, ProcessPostCalls, StageWorks, Cases

LEMMA AfreshInvariance == Spec => [](Served /\ Afresh)
<1>1. Spec => []Served
  BY ServedInit, ServedStep, PTL DEF Spec
<1>2. CASE PerStage
  <2>1. Afresh
    BY <1>2 DEF Afresh
  <2> QED
    BY <1>1, <2>1, PTL
<1>3. CASE ~PerStage
  <2>1. Reported /\ Waiting /\ Working => Served /\ Afresh
    BY DEF Reported, Afresh
  <2>2. Spec => [](Reported /\ Waiting /\ Working)
    BY <1>3, AheadInvariance
  <2> QED
    BY <2>1, <2>2, PTL
<1> QED
  BY <1>2, <1>3

(* Every run of the session, whoever processes it and in how many rounds, is *)
(* a run as Run describes it.  A worker process builds its runs anew, but it *)
(* is the first one that has them.                                           *)
THEOREM RunsAreRuns == Spec => ImplementsRuns
<1>1. Init => \A r \in Runs : SingleRun(r)!Init
  BY RunsInit
<1>2. Served /\ Afresh /\ [Next]_vars =>
        [\A r \in Runs : SingleRun(r)!Next \/ UNCHANGED SingleRun(r)!vars]_vars
  BY RunsStep DEF Served
<1> QED
  BY <1>1, <1>2, AfreshInvariance, PTL DEF Spec, ImplementsRuns

-----------------------------------------------------------------------------
(* What Run promises, the runs of a session keep. *)

CONSTANT one    \* any of the runs

Sole == INSTANCE Run_proofs WITH
  Callers <- Workers,
  Available <- Available[one],
  Program <- one \in Programs,
  run <- run[one],
  todo <- TodoOf(one),
  stage <- StageOf(one)

LEMMA SoleAssumption ==
  ASSUME one \in Runs
  PROVE  Sole!RunAssumption
  BY DEF Sole!RunAssumption, Sole!OptionalStages, Sole!LOAD, Sole!POSTPROCESS, OptionalStages

(* The operators of RunStages, once more. *)
LEMMA SoleOperators ==
  /\ \A a, s, u, k : Sole!Planned(a, s, u, k) = Planned(a, s, u, k)
  /\ \A a, x : Sole!NextStage(a, x) = NextStage(a, x)
  /\ \A S : Sole!Least(S) = Least(S)
  /\ \A a, p, x, s : Sole!Ready(a, p, x, s) <=> Ready(a, p, x, s)
  /\ \A x, s : /\ Sole!Entered(x, s) = Entered(x, s)
                      /\ Sole!Completed(x, s) = Completed(x, s)
                      /\ Sole!Failed(x, s) = Failed(x, s)
  /\ Sole!NoStage = NoStage /\ Sole!POSTPROCESS = POSTPROCESS
<1>1. \A a, s, u, k : Sole!Planned(a, s, u, k) = Planned(a, s, u, k)
  BY DEF Planned, Sole!Planned, Sole!DONE
<1>2. \A S : Sole!Least(S) = Least(S)
  BY DEF Least, Sole!Least
<1>3. \A a, x : Sole!Incomplete(a, x) = Incomplete(a, x)
  BY DEF Incomplete, HasStage, RunStage, Sole!Incomplete, Sole!HasStage,
         Sole!RunStage, Sole!NOP, Sole!DONE
<1>4. \A a, x : Sole!NextStage(a, x) = NextStage(a, x)
  BY <1>2, <1>3 DEF NextStage, Sole!NextStage, Sole!DONE
<1>5. \A S : Sole!Greatest(S) = Greatest(S)
  BY DEF Greatest, Sole!Greatest
<1>6. \A a, x : Sole!LastStage(a, x) = LastStage(a, x)
  BY <1>3, <1>4, <1>5 DEF LastStage, Sole!LastStage, RunStage, Sole!RunStage,
     Sole!NoStage, Sole!NOP, Sole!DONE, HasStage, Sole!HasStage
<1>7. \A a, p, s : Sole!Requires(a, p, s) = Requires(a, p, s)
  BY DEF Requires, Sole!Requires, Sole!LOAD, Sole!TUNE, Sole!BUILD,
         Sole!COMPILE, Sole!RUN
<1>8. \A a, p, x, s : Sole!Ready(a, p, x, s) <=> Ready(a, p, x, s)
  BY <1>6, <1>7 DEF Ready, Sole!Ready, Sole!POSTPROCESS, Sole!NoStage,
     Sole!NOP
<1>9. \A x, s : /\ Sole!Prepared(x, s) = Prepared(x, s)
                /\ Sole!Failed(x, s) = Failed(x, s)
                /\ Sole!Report(x) = Report(x)
  BY DEF Prepared, Sole!Prepared, Failed, Sole!Failed, Report, Sole!Report,
         Sole!POSTPROCESS
<1>10. \A x, s : /\ Sole!Entered(x, s) = Entered(x, s)
                 /\ Sole!Completed(x, s) = Completed(x, s)
  BY <1>9 DEF Entered, Sole!Entered, Completed, Sole!Completed, Sole!POSTPROCESS
<1>11. Sole!NoStage = NoStage /\ Sole!POSTPROCESS = POSTPROCESS
  BY DEF Sole!NoStage, Sole!POSTPROCESS
<1> QED
  BY <1>1, <1>2, <1>4, <1>8, <1>9, <1>10, <1>11

LEMMA SoleForms ==
  ASSUME one \in Runs
  PROVE  /\ SingleRun(one)!Init <=> Sole!Init
         /\ SingleRun(one)!Next <=> Sole!Next
         /\ UNCHANGED SingleRun(one)!vars <=> UNCHANGED Sole!vars
<1>1. SingleRun(one)!Init <=> Sole!Init
  BY DEF SingleRun!Init, Sole!Init, TodoOf, StageOf, SingleRun!NewRun, Sole!NewRun,
         SingleRun!NoStage, Sole!NoStage, SingleRun!NOP, Sole!NOP
<1>2. UNCHANGED SingleRun(one)!vars <=> UNCHANGED Sole!vars
  BY DEF SingleRun!vars, Sole!vars, TodoOf, StageOf
<1>3. ASSUME NEW w \in Workers
      PROVE  /\ SingleRun(one)!Enter(w) <=> Sole!Enter(w)
             /\ SingleRun(one)!Succeed(w) <=> Sole!Succeed(w)
             /\ SingleRun(one)!Fail(w) <=> Sole!Fail(w)
             /\ SingleRun(one)!FailCompleted(w) <=> Sole!FailCompleted(w)
  <2>1. Sole!Enter(w) <=>
          /\ TodoOf(one)[w] # {} /\ StageOf(one)[w] = NoStage
          /\ run'[one] = Entered(run[one], Least(TodoOf(one)[w]))
          /\ StageOf(one)' = [StageOf(one) EXCEPT ![w] =
                               IF run[one].locked THEN NoStage ELSE Least(TodoOf(one)[w])]
          /\ TodoOf(one)' = [TodoOf(one) EXCEPT ![w] = IF run[one].locked THEN {} ELSE @]
    BY SoleOperators DEF Sole!Enter, Sole!Current
  <2>2. Sole!Succeed(w) <=>
          /\ StageOf(one)[w] # NoStage
          /\ Ready(Available[one], one \in Programs, run[one], StageOf(one)[w])
          /\ run'[one] = Completed(run[one], StageOf(one)[w])
          /\ TodoOf(one)' = [TodoOf(one) EXCEPT ![w] = @ \ {StageOf(one)[w]}]
          /\ StageOf(one)' = [StageOf(one) EXCEPT ![w] = NoStage]
    BY SoleOperators DEF Sole!Succeed, Sole!Leave
  <2>3. Sole!Fail(w) <=>
          /\ StageOf(one)[w] # NoStage
          /\ run'[one] = Failed(run[one], StageOf(one)[w])
          /\ TodoOf(one)' = [TodoOf(one) EXCEPT ![w] = {}]
          /\ StageOf(one)' = [StageOf(one) EXCEPT ![w] = NoStage]
    BY SoleOperators DEF Sole!Fail, Sole!Leave
  <2>4. Sole!FailCompleted(w) <=>
          /\ StageOf(one)[w] = POSTPROCESS
          /\ Ready(Available[one], one \in Programs, run[one], POSTPROCESS)
          /\ run'[one] = Failed(Completed(run[one], POSTPROCESS), POSTPROCESS)
          /\ TodoOf(one)' = [TodoOf(one) EXCEPT ![w] = {}]
          /\ StageOf(one)' = [StageOf(one) EXCEPT ![w] = NoStage]
    BY SoleOperators DEF Sole!FailCompleted, Sole!Leave
  <2> QED
    BY <2>1, <2>2, <2>3, <2>4, Forms, SameOperators
<1>4. ASSUME NEW w \in Workers, NEW until, NEW skip
      PROVE  SingleRun(one)!Process(w, until, skip) <=> Sole!Process(w, until, skip)
  <2>1. SingleRun(one)!Process(w, until, skip) <=>
          /\ TodoOf(one)[w] = {} /\ StageOf(one)[w] = SingleRun(one)!NoStage
          /\ \E s \in {SingleRun(one)!NextStage(Available[one], run[one]),
                      SingleRun(one)!POSTPROCESS} :
               TodoOf(one)' = [TodoOf(one) EXCEPT ![w] =
                                 SingleRun(one)!Planned(Available[one], s, until, skip)]
          /\ UNCHANGED <<run[one], StageOf(one)>>
    BY DEF SingleRun!Process, TodoOf, StageOf
  <2>2. Sole!Process(w, until, skip) <=>
          /\ TodoOf(one)[w] = {} /\ StageOf(one)[w] = Sole!NoStage
          /\ \E s \in {Sole!NextStage(Available[one], run[one]), Sole!POSTPROCESS} :
               TodoOf(one)' = [TodoOf(one) EXCEPT ![w] =
                                 Sole!Planned(Available[one], s, until, skip)]
          /\ UNCHANGED <<run[one], StageOf(one)>>
    BY DEF Sole!Process
  <2> QED
    BY <2>1, <2>2, SameOperators, SoleOperators
<1>5. /\ SingleRun(one)!LOAD .. SingleRun(one)!DONE = Sole!LOAD .. Sole!DONE
      /\ SingleRun(one)!OptionalStages = Sole!OptionalStages
  BY DEF SingleRun!LOAD, SingleRun!DONE, SingleRun!POSTPROCESS, SingleRun!OptionalStages,
         Sole!LOAD, Sole!DONE, Sole!POSTPROCESS, Sole!OptionalStages
<1>6. SingleRun(one)!Next <=> Sole!Next
  BY <1>3, <1>4, <1>5 DEF SingleRun!Next, SingleRun!Work, Sole!Next, Sole!Work
<1> QED
  BY <1>1, <1>2, <1>6

(* The workers of a session take turns. *)
LEMMA SoleTurns ==
  ASSUME Served, one \in Runs
  PROVE  Sole!TakeTurns
<1> SUFFICES ASSUME NEW v \in Workers, NEW w \in Workers, v # w,
                    TodoOf(one)[v] # {}, TodoOf(one)[w] # {}
             PROVE  FALSE
  BY DEF Sole!TakeTurns
<1>1. /\ CurrentRun(v) = one /\ todo[v] # {}
      /\ CurrentRun(w) = one /\ todo[w] # {}
  BY DEF TodoOf
<1>2. phase[v] # "idle" /\ phase[w] # "idle"
  BY <1>1, Staged DEF Served
<1> QED
  BY <1>1, <1>2, ServedApart DEF NoParallelProcessing

LEMMA SoleSpec ==
  ASSUME one \in Runs
  PROVE  Spec => Sole!Spec /\ []Sole!TakeTurns
<1>1. Init => Sole!Init
  BY RunsInit, SoleForms
<1>2. Served /\ Afresh /\ [Next]_vars => [Sole!Next]_(Sole!vars)
  BY RunsStep, SoleForms DEF Served
<1>3. Served /\ Afresh => Sole!TakeTurns
  BY SoleTurns
<1> QED
  BY <1>1, <1>2, <1>3, AfreshInvariance, PTL DEF Spec, Sole!Spec

(* What is proved of a run whose callers take turns holds of the runs of a   *)
(* session: the scheduler never lets two workers have the same run.  A       *)
(* failing run says which of its stages is open, its report is never older   *)
(* than its stages, and only postprocess is ever executed again.             *)
THEOREM RunsKeepPromises ==
  ASSUME one \in Runs, Sole!ProgramsNotBuilt
  PROVE  Spec => /\ []Sole!FailingStageOpen
                 /\ []Sole!ReportUpToDate
                 /\ Sole!NoStageTwice
<1>1. Sole!Spec /\ []Sole!TakeTurns
        => []Sole!FailingStageOpen /\ []Sole!ReportUpToDate
  BY SoleAssumption, Sole!TurnsKeepPromises
<1>2. Sole!Spec /\ []Sole!TakeTurns => Sole!NoStageTwice
  BY SoleAssumption, Sole!TurnsEnterOnce
<1> QED
  BY <1>1, <1>2, SoleSpec, PTL
=============================================================================
