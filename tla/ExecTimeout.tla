----------------------------- MODULE ExecTimeout -----------------------------
(***************************************************************************)
(* exec_timeout (mlonmcu/timeout.py): a function is executed in a child    *)
(* process, its result comes back through a multiprocessing.Queue.  A      *)
(* child does not exit before its queue is flushed into the pipe, which    *)
(* holds a limited amount as long as nobody reads.                         *)
(***************************************************************************)
EXTENDS Integers

CONSTANTS
  PipeSize,  \* what fits into the pipe
  MaxSize    \* bound: sizes of results

VARIABLES
  child,     \* "running" the function, "flushing" its result, or "exited"
  ret,       \* "value" or "exception", if the function has ended
  size,      \* how much of it is still to be written into the pipe
  received,  \* the parent can get ret
  timer,     \* the timeout: "running", "expired", or "stopped"
  inTime,    \* the function has ended before the timeout
  parent,    \* "joining", "terminating" the child, "getting" the result, "ended"
  outcome    \* how exec_timeout has ended

vars == <<child, ret, size, received, timer, inTime, parent, outcome>>

Init ==
  /\ child = "running" /\ ret = "none" /\ size = 0
  /\ received = FALSE /\ timer = "running" /\ inTime = FALSE
  /\ parent = "joining" /\ outcome = "none"

(* wrap_call *)
Complete ==
  /\ child = "running" /\ child' = "flushing"
  /\ ret' \in {"value", "exception"} /\ size' \in 1 .. MaxSize
  /\ inTime' = (timer = "running")
  /\ UNCHANGED <<received, timer, parent, outcome>>

(* The child ends without a result: killed, or by SystemExit. *)
Die ==
  /\ child = "running" /\ child' = "exited"
  /\ UNCHANGED <<ret, size, received, timer, inTime, parent, outcome>>

Flush ==
  /\ child = "flushing" /\ (size <= PipeSize \/ parent = "getting")
  /\ child' = "exited" /\ received' = TRUE /\ size' = 0
  /\ UNCHANGED <<ret, timer, inTime, parent, outcome>>

(* Bound: to flush what fits into the pipe takes no time. *)
Expire ==
  /\ timer = "running" /\ timer' = "expired"
  /\ child = "flushing" => size > PipeSize
  /\ UNCHANGED <<child, ret, size, received, inTime, parent, outcome>>

(* p.join(timeout), and then is_alive *)
Join ==
  /\ parent = "joining"
  /\ \/ child = "exited" /\ parent' = "getting" /\ timer' = "stopped"
     \/ child # "exited" /\ timer = "expired" /\ parent' = "terminating" /\ UNCHANGED timer
  /\ UNCHANGED <<child, ret, size, received, inTime, outcome>>

(* terminate, and kill if that was not enough *)
Terminate ==
  /\ parent = "terminating"
  /\ child' = "exited" /\ parent' = "ended" /\ outcome' = "TimeoutError"
  /\ UNCHANGED <<ret, size, received, timer, inTime>>

(* retQueue.get() has no timeout. *)
Get ==
  /\ parent = "getting" /\ received
  /\ parent' = "ended" /\ outcome' = ret
  /\ UNCHANGED <<child, ret, size, received, timer, inTime>>

Next == Complete \/ Die \/ Flush \/ Expire \/ Join \/ Terminate \/ Get

Spec == Init /\ [][Next]_vars

-----------------------------------------------------------------------------

(* "Function did not complete within the timeout time" (timeout.py): this is *)
(* only raised of a function that had not returned or raised in time.        *)
TimeoutIsTrue == outcome = "TimeoutError" => ~inTime
=============================================================================
