------------------------------ MODULE MCDelivery ------------------------------
(***************************************************************************)
(* A task with two products that is run twice, and a process that waits    *)
(* for one of them or for a file of another workflow.                      *)
(***************************************************************************)
EXTENDS Delivery

CONSTANTS a, b, u

MCMine     == {a, b}
MCUpstream == {u}
MCLists    == {{a}, {u}}
=============================================================================
