------------------------------- MODULE MCCycling -------------------------------
(***************************************************************************)
(* Restart files at two hours before the end of the window.  A nested      *)
(* forecast of two post jobs with vortex initialisation; one with          *)
(* atm_merge; one domain with analysis, to the end of the window; and a    *)
(* member of the ensemble with one job, whose forecast ends before it.     *)
(***************************************************************************)
EXTENDS Cycling

Case(g, d, l, t, rs) ==
  [groups |-> g, domains |-> d, last |-> l, track |-> t, readers |-> rs]

MCRestarts == {1, 2}
MCCases == {
  Case(2, 2, 2, 2, {<<"vi", 1>>}),
  Case(2, 2, 1, 1, {<<"merge", 1>>}),
  Case(2, 1, 3, 3, {<<"analysis", 2>>}),
  Case(1, 2, 2, 2, {<<"vi", 2>>})}
=============================================================================
