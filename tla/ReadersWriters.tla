--------------------------- MODULE ReadersWriters ---------------------------
(***************************************************************************)
(* What ReadFileLock and WriteFileLock promise together                    *)
(* (mlonmcu/context/read_write_filelock.py): the environment is shared by  *)
(* any number of readers or owned by a single writer.  An attempt that     *)
(* cannot be granted is refused at once, so nothing here waits.            *)
(***************************************************************************)
CONSTANTS Readers, Writers

VARIABLE holders      \* the lock objects whose owner may use the environment

Locks == Readers \cup Writers

Init == holders = {}

Grantable(l) ==
  IF l \in Writers THEN holders = {} ELSE holders \cap Writers = {}

Enter(l) == l \notin holders /\ Grantable(l) /\ holders' = holders \cup {l}

Leave(l) == l \in holders /\ holders' = holders \ {l}

Next == \E l \in Locks : Enter(l) \/ Leave(l)

Spec == Init /\ [][Next]_holders
=============================================================================
