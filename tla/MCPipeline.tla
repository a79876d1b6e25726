------------------------------ MODULE MCPipeline ------------------------------
(***************************************************************************)
(* Two threads: one captures the output of a pipe of two programs, one     *)
(* gives a program an input that is longer than a pipe.                    *)
(***************************************************************************)
EXTENDS Pipeline, TLC

CONSTANTS t, u

MCThreads  == {t, u}
MCLast     == t :> 2 @@ u :> 1
MCInput    == t :> 0 @@ u :> 2
MCCaptured == {t}
=============================================================================
