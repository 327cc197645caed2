--------------------------- MODULE SessionOutcome ---------------------------
(***************************************************************************)
(* What Session.process_runs (mlonmcu/session/session.py) promises about   *)
(* the runs it is given: each of them ends up completed or failed, that    *)
(* verdict is final, and only then the session reports success or failure: *)
(* success if and only if all runs have completed.                         *)
(***************************************************************************)
CONSTANT Runs

VARIABLES
  verdict,      \* per run: "open", "completed" or "failed"
  outcome       \* "none" until the session has reported

vars == <<verdict, outcome>>

(* A run that has nothing to do is completed from the start. *)
Init ==
  /\ verdict \in [Runs -> {"open", "completed"}]
  /\ outcome = "none"

Settle(r) ==
  /\ verdict[r] = "open"
  /\ \E v \in {"completed", "failed"} : verdict' = [verdict EXCEPT ![r] = v]
  /\ UNCHANGED outcome

Conclude ==
  /\ outcome = "none"
  /\ \A r \in Runs : verdict[r] # "open"
  /\ outcome' = IF \A r \in Runs : verdict[r] = "completed" THEN "success" ELSE "failure"
  /\ UNCHANGED verdict

Next == Conclude \/ \E r \in Runs : Settle(r)

Spec == Init /\ [][Next]_vars

FairSpec == Spec /\ WF_vars(Next)
=============================================================================
