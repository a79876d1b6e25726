---------------------------- MODULE MCDatumCache ----------------------------
(* A process with two threads and a process with one share a product.      *)
EXTENDS DatumCache, TLC

CONSTANTS p1, p2, t1, u1, t2

MCProcs   == {p1, p2}
MCThreads == {t1, u1, t2}
MCProcOf  == t1 :> p1 @@ u1 :> p1 @@ t2 :> p2
MCFields  == {"location", "available"}
Row(l, a) == "location" :> l @@ "available" :> a
MCWrites  == {Row(NoValue, 0), Row(2, 1)}
NoThreads == {}
MainThread == {t1}
OtherProcess == {t2}
Worker    == {u1}
OneWrite  == {Row(0, 0), Row(NoValue, 0)}
SameDefault == Row(0, 0)
MCDefault == Row(1, 0)
=============================================================================
