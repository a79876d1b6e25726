------------------------------- MODULE MCWorkflow -------------------------------
(***************************************************************************)
(* The configurations of the repository: one cycle of hafs_basic.conf, of  *)
(* the warm-cycling merge and of the coupled forecast with its graphics;   *)
(* two cycles of vortex initialisation and of the analysis alone; three of *)
(* the forecast alone.                                                     *)
(***************************************************************************)
EXTENDS Workflow

Case(on, n) == [on |-> on, cycles |-> n]

MCCases == {
  Case({"mvnest", "init", "init_fgat", "vi", "vi_fgat", "gsi", "analysis_merge", "ocean"}, 1),
  Case({"init", "init_fgat", "merge", "merge_fgat", "gsi", "analysis_merge"}, 1),
  Case({"ocean", "wave", "gempak", "hrdgraphics", "emcgraphics"}, 1),
  Case({"init", "vi"}, 2),
  Case({"gsi", "warm"}, 2),
  Case({}, 3)}
=============================================================================
