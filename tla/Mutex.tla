-------------------------------- MODULE Mutex --------------------------------
(***************************************************************************)
(* What LockFile promises to the processes that use one lock file: at most *)
(* one of them is inside the with-block.                                   *)
(***************************************************************************)
CONSTANT Procs

VARIABLE inside   \* the processes inside "with LockFile(f)"

Init == inside = {}

Enter(p) == inside = {} /\ inside' = {p}

Leave(p) == inside = {p} /\ inside' = {}

Next == \E p \in Procs : Enter(p) \/ Leave(p)

Spec == Init /\ [][Next]_inside
=============================================================================
