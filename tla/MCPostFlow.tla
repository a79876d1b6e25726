------------------------------ MODULE MCPostFlow ------------------------------
(***************************************************************************)
(* Three forecast hours and two runs of the forecast; hours 0 and 2 belong *)
(* to the first of two atm_post jobs and to gempak, hour 1 to the second.  *)
(* What follows the forecast is, in behaviours of their own: both atm_post *)
(* jobs; the first of them and gempak; ocn_post, which shares nothing with *)
(* the others but the forecast's files.                                    *)
(***************************************************************************)
EXTENDS PostFlow

Apart == {[atm |-> {0, 1}, ocn |-> FALSE, gempak |-> FALSE],
          [atm |-> {0},    ocn |-> FALSE, gempak |-> TRUE],
          [atm |-> {},     ocn |-> TRUE,  gempak |-> FALSE]}
=============================================================================
