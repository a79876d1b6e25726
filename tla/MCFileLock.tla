----------------------------- MODULE MCFileLock -----------------------------
(* A process with an initial thread and a worker, and a process of one     *)
(* thread.  The worker may never lock the file: then the two are jobs that *)
(* share a lock file, each from one thread.                                *)
EXTENDS FileLock, TLC

CONSTANTS p1, p2, m1, w1, m2

MCProcs   == {p1, p2}
MCThreads == {m1, w1, m2}
MCProcOf  == m1 :> p1 @@ w1 :> p1 @@ m2 :> p2
MCMain    == p1 :> m1 @@ p2 :> m2
MCSignalled == {p1}
=============================================================================
