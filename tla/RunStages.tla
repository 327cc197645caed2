----------------------------- MODULE RunStages -----------------------------
(***************************************************************************)
(* The stages of a run and what one stage does to the Run object           *)
(* (mlonmcu/session/run.py).  Everything here is a function of a run       *)
(* record; who executes the stages, and when, is modelled in Run and in    *)
(* SessionScheduler.                                                       *)
(***************************************************************************)
EXTENDS Integers

NOP == 0   LOAD == 1   TUNE == 2   BUILD == 3
COMPILE == 4   RUN == 5   POSTPROCESS == 6   DONE == 7

RunStage == NOP .. DONE

(* The stages has_stage can answer "yes" to, besides NOP. *)
OptionalStages == LOAD .. POSTPROCESS

(* Python's None where a stage is expected. *)
NoStage == -1

Least(S) == CHOOSE s \in S : \A t \in S : s <= t
Greatest(S) == CHOOSE s \in S : \A t \in S : t <= s

-----------------------------------------------------------------------------
(* A run: the completed stages, the status flags, and the cached report,   *)
(* which is the set of stages it was generated from ({} is None).          *)

NewRun == [completed    |-> {NOP},
           failing      |-> FALSE,
           failed_stage |-> NoStage,
           locked       |-> FALSE,
           report       |-> {}]

RunType == [completed    : SUBSET RunStage,
            failing      : BOOLEAN,
            failed_stage : RunStage \cup {NoStage},
            locked       : BOOLEAN,
            report       : SUBSET RunStage]

(* avail: the optional stages that the run was set up with. *)
HasStage(avail, s) == s = NOP \/ s \in avail

Incomplete(avail, run) ==
  {s \in RunStage : HasStage(avail, s) /\ s \notin run.completed}

(* Mutant: processing always starts with LOAD. *)
FirstStage(avail, run) == IF Incomplete(avail, run) = {} THEN DONE ELSE LOAD

NextStage(avail, run) ==
  IF Incomplete(avail, run) = {} THEN DONE ELSE Least(Incomplete(avail, run))

(* The last stage before the first incomplete one; None if there is none   *)
(* left to do.                                                             *)
LastStage(avail, run) ==
  IF Incomplete(avail, run) = {}
    THEN NoStage
    ELSE Greatest({s \in RunStage : HasStage(avail, s) /\ s < NextStage(avail, run)})

(* Mutant: has_stage is not asked. *)
PlannedUnasked(avail, start, until, skip) == (start .. until) \ skip

(* The stages that process(until, start, skip) executes, in this order. *)
Planned(avail, start, until, skip) ==
  {s \in start .. (IF until = DONE THEN DONE - 1 ELSE until) : s \in avail \ skip}

(* The completed stages that the assertions of a stage ask for.  A run of  *)
(* a program, whose model is not a Model, is compiled without a build.     *)
Requires(avail, program, s) ==
  CASE s = TUNE    -> {LOAD}
    [] s = BUILD   -> IF TUNE \in avail THEN {TUNE} ELSE {LOAD}
    [] s = COMPILE -> IF program THEN {LOAD} ELSE {BUILD}
    [] s = RUN     -> IF COMPILE \in avail THEN {COMPILE} ELSE {BUILD}
    [] OTHER       -> {}

(* May the stage succeed?  postprocess looks up the artifacts of the last  *)
(* stage, and NOP has none.                                                *)
Ready(avail, program, run, s) ==
  /\ Requires(avail, program, s) \subseteq run.completed
  /\ s = POSTPROCESS => LastStage(avail, run) \notin {NoStage, NOP}

-----------------------------------------------------------------------------
(* Reports and results. *)

(* get_report: the report of postprocess if there is one, or a new one. *)
Report(run) ==
  IF POSTPROCESS \in run.completed /\ run.report # {} THEN run.report ELSE run.completed

Result(run) == [failing |-> run.failing, failed_stage |-> run.failed_stage,
                report |-> Report(run)]

ResultType == [failing : BOOLEAN, failed_stage : RunStage \cup {NoStage},
               report : SUBSET RunStage]

-----------------------------------------------------------------------------
(* One round of the loop in process(), split at the lock. *)

(* Mutants: the flag, or the cached report, of the last attempt is kept. *)
PreparedStillFailing(run, s) ==
  [run EXCEPT !.report = IF s < POSTPROCESS THEN {} ELSE @]

PreparedOldReport(run, s) == [run EXCEPT !.failing = FALSE]

(* The report is dropped, failing is reset, and the stage locks the run. *)
Prepared(run, s) ==
  [run EXCEPT !.report  = IF s < POSTPROCESS THEN {} ELSE @,
              !.failing = FALSE]

(* The stage function returns. *)
Completed(run, s) ==
  [run EXCEPT !.completed = @ \cup {s},
              !.locked    = FALSE,
              !.report    = IF s = POSTPROCESS THEN Report(run) ELSE @]

(* The stage function raises: the except clause also unlocks the run. *)
Failed(run, s) ==
  [run EXCEPT !.failing = TRUE, !.locked = FALSE, !.failed_stage = s]

(* lock(): a locked run is refused with an exception, whose except clause  *)
(* unlocks the run even so.                                                *)
Entered(run, s) ==
  IF run.locked THEN Failed(Prepared(run, s), s)
                ELSE [Prepared(run, s) EXCEPT !.locked = TRUE]
=============================================================================
