----------------------------- MODULE MCDatastore -----------------------------
(* A process with two threads and a process with one.                      *)
EXTENDS Datastore, TLC

CONSTANTS p1, p2, m1, w1, m2, k1

MCProcs   == {p1, p2}
MCThreads == {m1, w1, m2}
MCProcOf  == m1 :> p1 @@ w1 :> p1 @@ m2 :> p2
MCMain    == p1 :> m1 @@ p2 :> m2
NoKeys    == {}
OneKey    == {k1}
TwoValues == {0, 1}
OneValue  == {0}
=============================================================================
