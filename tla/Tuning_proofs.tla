---------------------------- MODULE Tuning_proofs ----------------------------
(***************************************************************************)
(* Theorems about the tune stage, for any number of tasks and workers and  *)
(* any configuration.                                                      *)
(***************************************************************************)
EXTENDS Tuning, TLAPS

USE TuningAssumption DEF TuningAssumption

(* The number of trials that is due to every worker. *)
Due == IF Automatic(asked) THEN Share ELSE asked

AfterCall == {"tuning", "tuned", "failed", "raised"}

LEMMA ShareType ==
  ASSUME NEW t \in Tasks
  PROVE  Share \in Nat /\ ~Automatic(Share)
<1>1. NumTasks \in Nat /\ NumTasks > 0
  BY DEF Tasks
<1>2. trials_global \div NumTasks \in Int
  BY <1>1
<1>3. Share \in Nat /\ Share >= 1
  BY <1>2 DEF Share, Greater
<1> QED
  BY <1>3 DEF Automatic

(* Cases of a step: every action, and the stutter. *)
LEMMA Cases ==
  ASSUME [Next]_vars
  PROVE  \/ \E t \in Tasks :
              \/ Start(t) \/ Check(t) \/ SetTrials(t) \/ SetStopping(t) \/ CallTvmc(t)
              \/ Tuned(t) \/ Raise(t)
              \/ CollectRecords(t) \/ CollectFailure(t) \/ Abort(t)
         \/ ListFails \/ TuneAll \/ PickBest
         \/ UNCHANGED vars
  BY DEF Next, Ended

-----------------------------------------------------------------------------

(* trials_single is what was asked for until a worker replaces it by the     *)
(* share, which happens only if an automatic number was asked for.           *)
Settled ==
  /\ trials_single = asked \/ (Automatic(asked) /\ trials_single = Share)
  /\ \A t \in Tasks :
       /\ at[t] \in {"sharing", "limiting"} => Automatic(asked)
       /\ at[t] \in {"limiting", "ready"} \cup AfterCall => trials_single = Due
       /\ at[t] \in {"ready"} \cup AfterCall => ~Automatic(trials_single)
       /\ at[t] \in AfterCall => given[t].trials = Due

(* If it was replaced, early_stopping either has been replaced by at least   *)
(* as much, or is about to be; if it was not, neither has early_stopping.    *)
Limited ==
  /\ trials_single # asked =>
       early_stopping >= trials_single \/ \E t \in Tasks : at[t] = "limiting"
  /\ \A t \in Tasks :
       ~Automatic(asked) /\ at[t] \in AfterCall => given[t].early = StoppingArgument

(* Who is said to have stopped early has been given what the shared          *)
(* variables still say.                                                      *)
Judged ==
  \A t \in stopped :
    /\ at[t] = "tuned" /\ ~Automatic(asked)
    /\ early_stopping < trials_single
    /\ result[t].tuned < Less(trials_single, Sizes[t])

Inv == TypeOK /\ Settled /\ Limited /\ Judged

LEMMA InvInit == Init => Inv
<1> SUFFICES ASSUME Init PROVE Inv
  OBVIOUS
<1>1. asked \in Nat \cup {NotSet} /\ trials_single = asked
  BY DEF Init
<1>2. early_stopping \in Nat
  <2>1. PICK e \in Stoppings :
          early_stopping = IF e # NotSet THEN e
                           ELSE DefaultStopping(IF asked # NotSet THEN asked ELSE trials_global)
    BY DEF Init
  <2> QED
    BY <1>1, <2>1 DEF DefaultStopping, Greater
<1>3. TypeOK
  BY <1>1, <1>2 DEF Init, TypeOK
<1>4. Settled /\ Limited /\ Judged
  BY <1>1 DEF Init, Settled, Limited, Judged, AfterCall
<1> QED
  BY <1>3, <1>4 DEF Inv

(* A worker makes no more trials than it may. *)
LEMMA NewRecordsType ==
  ASSUME TypeOK, NEW t \in Tasks, NEW n \in NewRecords(t)
  PROVE  n \in Nat
  BY DEF TypeOK, NewRecords, Less

LEMMA TypeStep == Inv /\ [Next]_vars => TypeOK'
<1> SUFFICES ASSUME Inv, [Next]_vars PROVE TypeOK'
  OBVIOUS
<1> USE DEF Inv
<1>1. ASSUME NEW t \in Tasks, Start(t) \/ Check(t) \/ Raise(t)
      PROVE  TypeOK'
  BY <1>1 DEF TypeOK, Start, Check, Raise, config, shared, main
<1>2. ASSUME NEW t \in Tasks, SetTrials(t)
      PROVE  TypeOK'
  BY <1>2, ShareType DEF TypeOK, SetTrials, config, main
<1>3. ASSUME NEW t \in Tasks, SetStopping(t)
      PROVE  TypeOK'
  <2>1. trials_single \in Nat
    BY <1>3, ShareType DEF SetStopping, Settled, Due, Automatic
  <2>2. early_stopping' \in Nat
    BY <1>3, <2>1 DEF SetStopping, DefaultStopping, Greater
  <2> QED
    BY <1>3, <2>2 DEF TypeOK, SetStopping, config, main
<1>4. ASSUME NEW t \in Tasks, CallTvmc(t)
      PROVE  TypeOK'
  <2>1. trials_single \in Nat /\ early_stopping \in Nat
    BY <1>4 DEF CallTvmc, Settled, Automatic, TypeOK
  <2>2. given' \in [Tasks -> [trials : Nat, early : Nat \cup {NotSet}]]
    BY <1>4, <2>1 DEF CallTvmc, TypeOK, StoppingArgument
  <2> QED
    BY <1>4, <2>2 DEF TypeOK, CallTvmc, config, shared, main
<1>5. ASSUME NEW t \in Tasks, Tuned(t)
      PROVE  TypeOK'
  <2>1. PICK n \in NewRecords(t) : \E b \in {0, n} :
          result' = [result EXCEPT ![t] = [tuned |-> n, bad |-> b]]
    BY <1>5 DEF Tuned
  <2>2. n \in Nat
    BY NewRecordsType
  <2>3. result' \in [Tasks -> [tuned : Nat, bad : Nat]]
    BY <2>1, <2>2 DEF TypeOK
  <2> QED
    BY <1>5, <2>3 DEF TypeOK, Tuned, config, shared, main
<1>6. ASSUME NEW t \in Tasks, CollectRecords(t)
      PROVE  TypeOK'
  BY <1>6 DEF TypeOK, CollectRecords, config, shared, workers
<1>7. ASSUME NEW t \in Tasks, CollectFailure(t) \/ Abort(t)
      PROVE  TypeOK'
  BY <1>7 DEF TypeOK, CollectFailure, Abort, config, shared, workers
<1>8. CASE ListFails \/ TuneAll \/ PickBest
  <2>1. <<Everything>> \in Seq(Tasks \cup {Everything})
    OBVIOUS
  <2>2. content' \in Seq(Tasks \cup {Everything}) /\ outcome' \in {"none", "done", "aborted"}
    BY <1>8, <2>1 DEF TypeOK, ListFails, TuneAll, PickBest
  <2> QED
    BY <1>8, <2>2 DEF TypeOK, ListFails, TuneAll, PickBest, config, shared, workers
<1>9. CASE UNCHANGED vars
  BY <1>9 DEF TypeOK, vars, config, shared, workers, main
<1> QED
  BY <1>1, <1>2, <1>3, <1>4, <1>5, <1>6, <1>7, <1>8, <1>9, Cases

(* A step of a worker leaves the others where they are. *)
LEMMA Others ==
  ASSUME TypeOK, NEW t \in Tasks,
         Start(t) \/ Check(t) \/ SetTrials(t) \/ SetStopping(t) \/ CallTvmc(t)
           \/ Tuned(t) \/ Raise(t)
  PROVE  /\ \A s \in Tasks \ {t} :
              at'[s] = at[s] /\ given'[s] = given[s] /\ result'[s] = result[s]
         /\ asked' = asked /\ stopped' = stopped
  BY DEF TypeOK, Start, Check, SetTrials, SetStopping, CallTvmc, Tuned, Raise, config, main

LEMMA SettledStep == Inv /\ [Next]_vars => Settled'
<1> SUFFICES ASSUME Inv, [Next]_vars PROVE Settled'
  OBVIOUS
<1> USE DEF Inv
<1>1. ASSUME NEW t \in Tasks, Start(t)
      PROVE  Settled'
  <2>1. at'[t] = "started" /\ UNCHANGED <<trials_single, given>>
    BY <1>1 DEF Start, shared, TypeOK
  <2> QED
    BY <1>1, <2>1, Others DEF Settled, Due, AfterCall
<1>2. ASSUME NEW t \in Tasks, Check(t)
      PROVE  Settled'
  <2>1. /\ at'[t] = IF Automatic(trials_single) THEN "sharing" ELSE "ready"
        /\ UNCHANGED <<trials_single, given>>
    BY <1>2 DEF Check, shared, TypeOK
  <2>2. Automatic(trials_single) => Automatic(asked)
    BY ShareType DEF Settled
  <2>3. ~Automatic(trials_single) => trials_single = Due
    BY DEF Settled, Due
  <2> QED
    BY <1>2, <2>1, <2>2, <2>3, Others DEF Settled, Due, AfterCall
<1>3. ASSUME NEW t \in Tasks, SetTrials(t)
      PROVE  Settled'
  <2>1. at'[t] = "limiting" /\ trials_single' = Share /\ UNCHANGED given
    BY <1>3 DEF SetTrials, TypeOK
  <2>2. Automatic(asked) /\ Due = Share
    BY <1>3 DEF SetTrials, Settled, Due
  <2> QED
    BY <1>3, <2>1, <2>2, Others, ShareType DEF Settled, Due, AfterCall
<1>4. ASSUME NEW t \in Tasks, SetStopping(t)
      PROVE  Settled'
  <2>1. at[t] = "limiting" /\ at'[t] = "ready" /\ UNCHANGED <<trials_single, given>>
    BY <1>4 DEF SetStopping, TypeOK
  <2>2. trials_single = Due /\ ~Automatic(trials_single)
    BY <2>1, ShareType DEF Settled, Due
  <2> QED
    BY <1>4, <2>1, <2>2, Others DEF Settled, Due, AfterCall
<1>5. ASSUME NEW t \in Tasks, CallTvmc(t)
      PROVE  Settled'
  <2>1. /\ at[t] = "ready" /\ at'[t] = "tuning" /\ given'[t].trials = trials_single
        /\ UNCHANGED trials_single
    BY <1>5 DEF CallTvmc, TypeOK, shared
  <2> QED
    BY <1>5, <2>1, Others DEF Settled, Due, AfterCall
<1>6. ASSUME NEW t \in Tasks, Tuned(t) \/ Raise(t)
      PROVE  Settled'
  <2>1. /\ at[t] = "tuning" /\ at'[t] \in {"tuned", "failed", "raised"}
        /\ UNCHANGED <<trials_single, given>>
    BY <1>6 DEF Tuned, Raise, TypeOK, shared
  <2> QED
    BY <1>6, <2>1, Others DEF Settled, Due, AfterCall
<1>7. ASSUME UNCHANGED <<asked, trials_single, at, given>>
      PROVE  Settled'
  BY <1>7 DEF Settled, Due
<1>8. CASE \/ \E t \in Tasks : CollectRecords(t) \/ CollectFailure(t) \/ Abort(t)
           \/ ListFails \/ TuneAll \/ PickBest
           \/ UNCHANGED vars
  BY <1>7, <1>8 DEF CollectRecords, CollectFailure, Abort, ListFails, TuneAll, PickBest,
                    vars, config, shared, workers
<1> QED
  BY <1>1, <1>2, <1>3, <1>4, <1>5, <1>6, <1>8, Cases

LEMMA LimitedStep == Inv /\ [Next]_vars => Limited'
<1> SUFFICES ASSUME Inv, [Next]_vars PROVE Limited'
  OBVIOUS
<1> USE DEF Inv
<1>1. ASSUME NEW t \in Tasks, Start(t) \/ Check(t)
      PROVE  Limited'
  <2>1. /\ at[t] \in {"waiting", "started"} /\ at'[t] \in {"started", "sharing", "ready"}
        /\ UNCHANGED <<trials_single, early_stopping, given>>
    BY <1>1 DEF Start, Check, shared, TypeOK
  <2> QED
    BY <1>1, <2>1, Others DEF Limited, AfterCall, StoppingArgument
<1>2. ASSUME NEW t \in Tasks, SetTrials(t)
      PROVE  Limited'
  <2>1. at[t] = "sharing" /\ at'[t] = "limiting" /\ UNCHANGED <<early_stopping, given>>
    BY <1>2 DEF SetTrials, TypeOK
  <2> QED
    BY <1>2, <2>1, Others DEF Limited, Settled
<1>3. ASSUME NEW t \in Tasks, SetStopping(t)
      PROVE  Limited'
  <2>1. at[t] = "limiting" /\ at'[t] = "ready" /\ UNCHANGED <<trials_single, given>>
    BY <1>3 DEF SetStopping, TypeOK
  <2>2. Automatic(asked) /\ trials_single \in Nat
    BY <2>1, ShareType DEF Settled, Due
  <2>3. early_stopping' >= trials_single
    BY <1>3, <2>2 DEF SetStopping, DefaultStopping, Greater
  <2> QED
    BY <1>3, <2>1, <2>2, <2>3, Others DEF Limited
<1>4. ASSUME NEW t \in Tasks, CallTvmc(t)
      PROVE  Limited'
  <2>1. /\ at[t] = "ready" /\ at'[t] = "tuning" /\ given'[t].early = StoppingArgument
        /\ UNCHANGED <<trials_single, early_stopping>>
    BY <1>4 DEF CallTvmc, TypeOK, shared
  <2> QED
    BY <1>4, <2>1, Others DEF Limited, AfterCall, StoppingArgument
<1>5. ASSUME NEW t \in Tasks, Tuned(t) \/ Raise(t)
      PROVE  Limited'
  <2>1. /\ at[t] = "tuning" /\ at'[t] \in {"tuned", "failed", "raised"}
        /\ UNCHANGED <<trials_single, early_stopping, given>>
    BY <1>5 DEF Tuned, Raise, TypeOK, shared
  <2> QED
    BY <1>5, <2>1, Others DEF Limited, AfterCall, StoppingArgument
<1>6. ASSUME UNCHANGED <<asked, trials_single, early_stopping, at, given>>
      PROVE  Limited'
  BY <1>6 DEF Limited, StoppingArgument
<1>7. CASE \/ \E t \in Tasks : CollectRecords(t) \/ CollectFailure(t) \/ Abort(t)
           \/ ListFails \/ TuneAll \/ PickBest
           \/ UNCHANGED vars
  BY <1>6, <1>7 DEF CollectRecords, CollectFailure, Abort, ListFails, TuneAll, PickBest,
                    vars, config, shared, workers
<1> QED
  BY <1>1, <1>2, <1>3, <1>4, <1>5, <1>7, Cases

LEMMA JudgedStep == Inv /\ [Next]_vars => Judged'
<1> SUFFICES ASSUME Inv, [Next]_vars PROVE Judged'
  OBVIOUS
<1> USE DEF Inv
<1>1. ASSUME NEW t \in Tasks, Start(t) \/ Check(t) \/ CallTvmc(t) \/ Tuned(t) \/ Raise(t)
      PROVE  Judged'
  <2>1. at[t] # "tuned" /\ UNCHANGED <<trials_single, early_stopping>>
    BY <1>1 DEF Start, Check, CallTvmc, Tuned, Raise, shared
  <2>2. stopped \subseteq Tasks
    BY DEF TypeOK
  <2> QED
    BY <1>1, <2>1, <2>2, Others DEF Judged
<1>2. ASSUME NEW t \in Tasks, SetTrials(t) \/ SetStopping(t)
      PROVE  Judged'
  <2>1. Automatic(asked)
    BY <1>2 DEF SetTrials, SetStopping, Settled
  <2>2. stopped = {}
    BY <2>1 DEF Judged
  <2> QED
    BY <1>2, <2>2, Others DEF Judged
<1>3. ASSUME NEW t \in Tasks, CollectRecords(t)
      PROVE  Judged'
  <2>1. UNCHANGED <<asked, trials_single, early_stopping, at, result>>
    BY <1>3 DEF CollectRecords, config, shared, workers
  <2>2. CASE ~Stopped(t)
    BY <1>3, <2>1, <2>2 DEF CollectRecords, Judged
  <2>3. CASE Stopped(t)
    <3>1. at[t] = "tuned" /\ \A s \in Tasks : at[s] # "limiting"
      BY <1>3 DEF CollectRecords, AllDone
    <3>2. trials_single = Due /\ ~Automatic(trials_single)
      BY <3>1 DEF Settled, AfterCall
    <3>3. trials_single \in Nat /\ early_stopping \in Nat
      BY <3>2 DEF TypeOK, Automatic
    <3>4. early_stopping < trials_single
      BY <2>3 DEF Stopped
    <3>5. ~Automatic(asked)
      BY <3>1, <3>2, <3>3, <3>4 DEF Limited
    <3>6. result[t].tuned < Less(trials_single, Sizes[t])
      <4>1. result[t].tuned \in Nat /\ result[t].bad \in Nat /\ Sizes[t] \in Nat
        BY DEF TypeOK
      <4>2. Less(trials_single, Sizes[t]) \in Nat
        BY <3>3, <4>1 DEF Less
      <4>3. Records(t) \in Nat /\ result[t].tuned <= Records(t)
        BY <4>1 DEF Records, TypeOK
      <4> QED
        BY <2>3, <4>1, <4>2, <4>3 DEF Stopped
    <3> QED
      BY <1>3, <2>1, <3>1, <3>4, <3>5, <3>6 DEF CollectRecords, Judged
  <2> QED
    BY <2>2, <2>3
<1>4. ASSUME UNCHANGED <<asked, trials_single, early_stopping, at, result, stopped>>
      PROVE  Judged'
  BY <1>4 DEF Judged
<1>5. CASE \/ \E t \in Tasks : CollectFailure(t) \/ Abort(t)
           \/ ListFails \/ TuneAll \/ PickBest
           \/ UNCHANGED vars
  BY <1>4, <1>5 DEF CollectFailure, Abort, ListFails, TuneAll, PickBest,
                    vars, config, shared, workers, main
<1> QED
  BY <1>1, <1>2, <1>3, <1>5, Cases

(* Records are joined only when all workers are done, and what is joined     *)
(* are those of the first tasks, in their order.                             *)
Ends == {"tuned", "failed", "raised"}

Joined ==
  num_workers > 0 =>
    /\ collected # {} => \A t \in Tasks : at[t] \in Ends
    /\ \A t \in collected : 1 .. t - 1 \subseteq collected
    /\ Contents = {t \in collected : at[t] = "tuned"} /\ InOrder
    /\ failed = {t \in collected : at[t] = "failed"}
    /\ \A t \in collected : at[t] # "raised"
    /\ outcome = "done" => collected = Tasks

LEMMA JoinedInit == Init => Joined
  BY DEF Init, Joined, Contents, InOrder

(* Nothing is joined yet when a worker takes a step. *)
LEMMA WorkerJoined ==
  ASSUME TypeOK, Joined, NEW t \in Tasks,
         Start(t) \/ Check(t) \/ SetTrials(t) \/ SetStopping(t) \/ CallTvmc(t)
           \/ Tuned(t) \/ Raise(t)
  PROVE  Joined'
<1> SUFFICES ASSUME num_workers' > 0 PROVE Joined'
  BY DEF Joined
<1>1. at[t] \notin Ends /\ UNCHANGED <<num_workers, collected, content, failed, outcome>>
  BY DEF Start, Check, SetTrials, SetStopping, CallTvmc, Tuned, Raise, config, main, Ends
<1>2. collected = {}
  BY <1>1 DEF Joined
<1>3. Contents' = Contents /\ InOrder' = InOrder
  BY <1>1 DEF Contents, InOrder
<1> QED
  BY <1>1, <1>2, <1>3 DEF Joined

(* The next task comes after all that were joined. *)
LEMMA LaterTask ==
  ASSUME TypeOK, Joined, num_workers > 0, NEW t \in Tasks, Turn(t), NEW s \in collected
  PROVE  s < t
<1>1. s \in Tasks /\ s # t
  BY DEF TypeOK, Turn
<1>2. ~(t < s)
  <2> SUFFICES ASSUME t < s PROVE FALSE
    OBVIOUS
  <2>1. t \in 1 .. s - 1
    BY <1>1 DEF Tasks
  <2> QED
    BY <2>1 DEF Joined, Turn
<1> QED
  BY <1>1, <1>2 DEF Tasks

LEMMA RecordsJoined ==
  ASSUME TypeOK, Joined, NEW t \in Tasks, CollectRecords(t)
  PROVE  Joined'
<1>1. /\ num_workers > 0 /\ Turn(t) /\ at[t] = "tuned"
      /\ \A s \in Tasks : at[s] \in Ends
      /\ outcome = "none"
      /\ collected' = collected \cup {t} /\ content' = Append(content, t)
      /\ UNCHANGED <<num_workers, at, failed, outcome>>
  BY DEF CollectRecords, AllDone, config, workers, Ends
<1>2. /\ content \in Seq(Tasks \cup {Everything}) /\ Len(content) \in Nat
      /\ DOMAIN content = 1 .. Len(content)
      /\ DOMAIN content' = 1 .. Len(content) + 1
      /\ \A i \in 1 .. Len(content) : content'[i] = content[i]
      /\ content'[Len(content) + 1] = t
  BY <1>1 DEF TypeOK, Everything
<1>3. Contents' = Contents \cup {t}
  BY <1>2 DEF Contents
<1>4. \A i \in DOMAIN content : content[i] < t
  BY <1>1, LaterTask DEF Joined, Contents
<1>5. InOrder'
  <2> SUFFICES ASSUME NEW i \in DOMAIN content', NEW j \in DOMAIN content', i < j
               PROVE  content'[i] < content'[j]
    BY DEF InOrder
  <2>1. i \in DOMAIN content
    BY <1>2
  <2>2. CASE j \in DOMAIN content
    BY <1>1, <1>2, <2>1, <2>2 DEF Joined, InOrder
  <2>3. CASE j = Len(content) + 1
    BY <1>2, <1>4, <2>1, <2>3
  <2> QED
    BY <1>2, <2>2, <2>3
<1>6. \A s \in collected' : 1 .. s - 1 \subseteq collected'
  BY <1>1 DEF Joined, Turn
<1> QED
  BY <1>1, <1>3, <1>5, <1>6 DEF Joined

LEMMA FailureJoined ==
  ASSUME TypeOK, Joined, NEW t \in Tasks, CollectFailure(t)
  PROVE  Joined'
<1>1. /\ num_workers > 0 /\ Turn(t) /\ at[t] = "failed"
      /\ \A s \in Tasks : at[s] \in Ends
      /\ outcome = "none"
      /\ collected' = collected \cup {t} /\ failed' = failed \cup {t}
      /\ UNCHANGED <<num_workers, at, content, outcome>>
  BY DEF CollectFailure, AllDone, config, workers, Ends
<1>2. Contents' = Contents /\ InOrder' = InOrder
  BY <1>1 DEF Contents, InOrder
<1>3. \A s \in collected' : 1 .. s - 1 \subseteq collected'
  BY <1>1 DEF Joined, Turn
<1> QED
  BY <1>1, <1>2, <1>3 DEF Joined

LEMMA JoinedStep == TypeOK /\ Joined /\ [Next]_vars => Joined'
<1> SUFFICES ASSUME TypeOK, Joined, [Next]_vars PROVE Joined'
  OBVIOUS
<1>1. ASSUME UNCHANGED <<num_workers, at, collected, content, failed>>,
             outcome' = "done" /\ num_workers > 0 => outcome = "done" \/ collected = Tasks
      PROVE  Joined'
  <2>1. Contents' = Contents /\ InOrder' = InOrder
    BY <1>1 DEF Contents, InOrder
  <2> QED
    BY <1>1, <2>1 DEF Joined
<1>2. CASE \/ \E t \in Tasks : Abort(t)
           \/ ListFails \/ PickBest \/ UNCHANGED vars
  BY <1>1, <1>2 DEF Abort, ListFails, PickBest, vars, config, workers, main
<1>3. CASE TuneAll
  BY <1>3 DEF TuneAll, config, Joined
<1> QED
  BY <1>2, <1>3, WorkerJoined, RecordsJoined, FailureJoined, Cases

LEMMA Invariance == Spec => []Inv
<1>1. Inv /\ [Next]_vars => Inv'
  BY TypeStep, SettledStep, LimitedStep, JudgedStep DEF Inv
<1> QED
  BY <1>1, InvInit, PTL DEF Spec

(* All variables keep their types, trials_single and early_stopping among    *)
(* them: tvmc is never called with an automatic number.                      *)
THEOREM TypeCorrect == Spec => []TypeOK
<1>1. Inv => TypeOK
  BY DEF Inv
<1> QED
  BY <1>1, Invariance, PTL

(* All workers get the same number of trials, the one that was asked for or  *)
(* the share, in spite of the race between those that set it.                *)
THEOREM SharesAreEqual == Spec => []TrialsAgree
<1>1. Inv => TrialsAgree
  <2>1. Inv => \A t \in Called : given[t].trials = Due
    BY DEF Inv, Settled, AfterCall, Called
  <2>2. asked \notin {0, NotSet} => Due = asked
    BY DEF Due, Automatic
  <2>3. asked = 0 => Due = Greater(1, trials_global \div NumTasks)
    BY DEF Due, Automatic, Share
  <2> QED
    BY <2>1, <2>2, <2>3 DEF TrialsAgree, Called
<1> QED
  BY <1>1, Invariance, PTL

(* "Early Stopped" is only said of a worker that has made fewer trials than  *)
(* it had, and whose limit, if tvmc was given one, is below its trials.      *)
THEOREM EarlyStoppedIsTrue == Spec => []EarlyIsTrue
<1>1. Inv => EarlyIsTrue
  <2> SUFFICES ASSUME Inv, NEW t \in stopped
               PROVE  /\ given[t].early # NotSet => given[t].early < given[t].trials
                      /\ result[t].tuned < Less(given[t].trials, Sizes[t])
    BY DEF EarlyIsTrue
  <2>1. t \in Tasks
    BY DEF Inv, TypeOK
  <2>2. /\ at[t] = "tuned" /\ ~Automatic(asked)
        /\ early_stopping < trials_single
        /\ result[t].tuned < Less(trials_single, Sizes[t])
    BY DEF Inv, Judged
  <2>3. given[t].trials = trials_single /\ given[t].early = StoppingArgument
    BY <2>1, <2>2 DEF Inv, Settled, Limited, AfterCall
  <2> QED
    BY <2>2, <2>3 DEF StoppingArgument
<1> QED
  BY <1>1, Invariance, PTL

(* A worker that fails costs the records of its own task only, however many  *)
(* workers there are and in whatever order they end.                         *)
THEOREM RecordsAreKept == Spec => []NothingLost
<1>1. Joined => NothingLost
  BY DEF Joined, NothingLost
<1>2. Spec => []Joined
  BY JoinedInit, JoinedStep, TypeCorrect, PTL DEF Spec
<1> QED
  BY <1>1, <1>2, PTL
=============================================================================
