----------------------------- MODULE WorkflowProofs -----------------------------
(***************************************************************************)
(* The theorems about Workflow, for every set of configurations that       *)
(* CaseAssumption admits and any number of cycles, and their proofs.       *)
(* The invariants are layered: Closed says what the dependencies make of   *)
(* the states of the jobs, Made relates a job's state to its directory,    *)
(* Kept says what had ended before something was deleted, Handed what has  *)
(* come to COM.  The last part follows from all of them at once: whatever  *)
(* waits for whatever, there is always a job that can go on.               *)
(***************************************************************************)
EXTENDS Workflow, WellFoundedInduction, FiniteSetTheorems, TLAPS

Closed ==
  \A c \in Cycles : \A j \in Jobs : Is(c, j, {"running", "done"}) =>
    \A o \in After[j] \cap Jobs :
      Is(c, o, {"done"}) \/ (j = "completion" /\ o = "donefile")

Made ==
  \A c \in Cycles : \A m \in Makers :
    /\ dir[c][m] # "none" => m \in Jobs
    /\ m \in Jobs /\ Is(c, m, {"running"}) =>
         dir[c][m] = "part" \/ (m = "analysis" /\ dir[c][m] = "empty")
    /\ m \in Jobs /\ Is(c, m, {"done"}) =>
         dir[c][m] = "whole" \/ (m = "analysis" /\ dir[c][m] = "empty")
    /\ dir[c][m] = "empty" => Guess = "com"

Kept ==
  \A c \in Cycles :
    /\ scrubbed[c] # {} => \A o \in Archives : Is(c, o, {"done"})
    /\ "com" \in scrubbed[c] /\ c + 1 \in Cycles =>
         \A o \in Archives : Is(c + 1, o, {"done"})

-----------------------------------------------------------------------------
(* The job table, entry by entry.                                          *)
LEMMA JobTable ==
  Job = {"launch", "atm_prep", "atm_prep_mvnest", "atm_ic", "atm_ic_fgat", "atm_lbc",
         "ocn_prep", "wav_prep", "obs_prep", "atm_init", "atm_init_fgat", "atm_merge",
         "atm_merge_fgat", "atm_vi", "atm_vi_fgat", "analysis", "analysis_merge",
         "forecast", "unpost", "atm_post", "ocn_post", "wav_post", "product", "output",
         "gempak", "hrdgraphics", "emcgraphics", "archive_disk", "archive_tape",
         "donefile", "scrub_work", "scrub_com", "completion"}
BY DEF Job, After

(* The dependencies of the jobs from the initial conditions to the post    *)
(* jobs, entry by entry.                                                   *)
LEMMA AfterTable ==
  /\ After["atm_prep"] = {"launch"}
  /\ After["atm_ic"] = {"atm_prep"}
  /\ After["atm_init"] = {"atm_ic"}
  /\ After["atm_init_fgat"] = {"atm_ic_fgat"}
  /\ After["atm_merge"] = {"atm_init"}
  /\ After["atm_merge_fgat"] = {"atm_init_fgat"}
  /\ After["atm_vi"] = {"atm_init"}
  /\ After["atm_vi_fgat"] = {"atm_init_fgat"}
  /\ After["analysis"] = {"atm_ic", "obs_prep", "atm_vi_fgat", "atm_merge_fgat"}
  /\ After["analysis_merge"] = {"atm_init", "atm_vi", "analysis"}
  /\ After["forecast"] = {"atm_prep_mvnest", "atm_ic", "atm_lbc", "ocn_prep", "wav_prep",
                          "atm_init", "atm_merge", "atm_vi", "analysis", "analysis_merge"}
  /\ After["atm_post"] = {"unpost"}
BY DEF After

(* The dependencies of the jobs at the end of a cycle, entry by entry.     *)
LEMMA LateTable ==
  /\ {"forecast", "product", "output", "atm_post", "ocn_post", "wav_post",
      "gempak", "hrdgraphics", "emcgraphics"} \subseteq After["archive_disk"]
  /\ After["donefile"] \subseteq {"product", "output", "gempak"} \cup Posts
  /\ Archives \subseteq After["scrub_work"]
  /\ Archives \subseteq After["scrub_com"]
  /\ After["completion"] = Archives \cup Scrubs \cup {"donefile"}
  /\ "product" \in After["donefile"]
BY DEF After, Archives, Posts, Graphics, Scrubs

(* The jobs of a cycle are jobs of the table, and some are in all cycles.  *)
LEMMA JobsOfCase ==
  ASSUME case.on \subseteq Switches
  PROVE  Always \subseteq Jobs /\ Jobs \subseteq Job
<1>1. Always \subseteq Jobs
  BY DEF Jobs
<1>2. ASSUME NEW s \in Switches
      PROVE  Switched[s] \subseteq Job
  BY JobTable DEF Switched, Switches
<1>3. Always \subseteq Job
  BY JobTable DEF Always
<1> QED
  BY <1>1, <1>2, <1>3 DEF Jobs

(* A switched job is in a cycle if and only if its switch is on.           *)
LEMMA JobOfSwitch ==
  ASSUME case.on \subseteq Switches
  PROVE  /\ "analysis" \in Jobs <=> "gsi" \in case.on
         /\ "obs_prep" \in Jobs <=> "gsi" \in case.on
         /\ "analysis_merge" \in Jobs <=> "analysis_merge" \in case.on
         /\ "atm_init" \in Jobs <=> "init" \in case.on
         /\ "atm_init_fgat" \in Jobs <=> "init_fgat" \in case.on
         /\ "atm_ic_fgat" \in Jobs <=> "init_fgat" \in case.on
         /\ "atm_merge" \in Jobs <=> "merge" \in case.on
         /\ "atm_merge_fgat" \in Jobs <=> "merge_fgat" \in case.on
         /\ "atm_vi" \in Jobs <=> "vi" \in case.on
         /\ "atm_vi_fgat" \in Jobs <=> "vi_fgat" \in case.on
<1>1. ("analysis" \in Jobs <=> "gsi" \in case.on)
      /\ ("obs_prep" \in Jobs <=> "gsi" \in case.on)
  BY DEF Jobs, Always, Switched, Switches
<1>2. ("analysis_merge" \in Jobs <=> "analysis_merge" \in case.on)
      /\ ("atm_init" \in Jobs <=> "init" \in case.on)
  BY DEF Jobs, Always, Switched, Switches
<1>3. ("atm_init_fgat" \in Jobs <=> "init_fgat" \in case.on)
      /\ ("atm_ic_fgat" \in Jobs <=> "init_fgat" \in case.on)
  BY DEF Jobs, Always, Switched, Switches
<1>4. ("atm_merge" \in Jobs <=> "merge" \in case.on)
      /\ ("atm_merge_fgat" \in Jobs <=> "merge_fgat" \in case.on)
  BY DEF Jobs, Always, Switched, Switches
<1>5. ("atm_vi" \in Jobs <=> "vi" \in case.on)
      /\ ("atm_vi_fgat" \in Jobs <=> "vi_fgat" \in case.on)
  BY DEF Jobs, Always, Switched, Switches
<1> QED
  BY <1>1, <1>2, <1>3, <1>4, <1>5

(* What the configuration promises about the first guess of the analysis.  *)
LEMMA GuessOfCase ==
  ASSUME case.on \subseteq Switches, Consistent(case.on), "gsi" \in case.on,
         Guess # "com"
  PROVE  /\ Guess \in {"atm_vi_fgat", "atm_merge_fgat"}
         /\ Guess \in Jobs
<1>1. case.on \cap Fgat # {}
  BY DEF Consistent, Guess, Fgat
<1>2. "vi_fgat" \in case.on \/ "merge_fgat" \in case.on
  BY <1>1 DEF Fgat
<1> QED
  BY <1>2, JobOfSwitch DEF Guess

-----------------------------------------------------------------------------
(* The states of jobs, directories and cycles have their types, for any    *)
(* number of cycles and every configuration.                               *)
THEOREM TypeCorrect == Spec => []TypeOK
<1>1. Init => TypeOK
  BY CaseAssumption DEF Init, TypeOK, Cycles
<1>2. TypeOK /\ [Next]_vars => TypeOK'
  <2> SUFFICES ASSUME TypeOK, [Next]_vars
               PROVE  TypeOK'
    OBVIOUS
  <2> USE CaseAssumption DEF TypeOK, Cycles
  <2>1. ASSUME NEW c \in Cycles, NEW j \in Jobs, Start(c, j)
        PROVE  TypeOK'
    <3>0. Jobs' = Jobs BY <2>1 DEF Start, Jobs
    <3>1. status' \in [Cycles -> [Jobs -> {"waiting", "running", "done"}]]
      BY <2>1 DEF Start, Set
    <3>2. dir' \in [Cycles -> [Makers -> {"none", "part", "empty", "whole"}]]
      BY <2>1 DEF Start
    <3>3. from' \in [Cycles -> Makers \cup {"nothing", "com", "cold"}]
      <4>1. ASSUME NEW seen \in BOOLEAN
            PROVE  Source(c, seen) \in Makers \cup {"nothing", "com", "cold"}
        BY DEF Source, Makers
      <4> QED BY <2>1, <4>1 DEF Start
    <3>4. scrubbed' \in [Cycles -> SUBSET {"work", "com"}]
      BY <2>1 DEF Start
    <3> QED BY <2>1, <3>0, <3>1, <3>2, <3>3, <3>4 DEF Start
  <2>2. ASSUME NEW c \in Cycles, NEW j \in Jobs, HandOver(c, j)
        PROVE  TypeOK'
    <3>0. Jobs' = Jobs BY <2>2 DEF HandOver, Jobs
    <3>1. j \in DOMAIN Hands => Hands[j] \in {"restart", "track"} BY DEF Hands
    <3> QED BY <2>2, <3>0, <3>1 DEF HandOver
  <2>3. ASSUME NEW c \in Cycles, NEW j \in Jobs, End(c, j)
        PROVE  TypeOK'
    <3>0. Jobs' = Jobs BY <2>3 DEF End, Jobs
    <3> QED BY <2>3, <3>0 DEF End, Set
  <2>4. ASSUME NEW c \in Cycles, EndUnmarked(c)
        PROVE  TypeOK'
    <3>0. Jobs' = Jobs BY <2>4 DEF EndUnmarked, Jobs
    <3>1. "donefile" \in Jobs BY DEF Jobs, Always
    <3> QED BY <2>4, <3>0, <3>1 DEF EndUnmarked, Set
  <2>5. ASSUME NEW c \in Cycles, NEW j \in Jobs, Fail(c, j)
        PROVE  TypeOK'
    <3>0. Jobs' = Jobs BY <2>5 DEF Fail, Jobs
    <3> QED BY <2>5, <3>0 DEF Fail, Set
  <2>6. CASE UNCHANGED vars
    BY <2>6 DEF vars, Jobs
  <2> QED
    BY <2>1, <2>2, <2>3, <2>4, <2>5, <2>6 DEF Next, Work
<1> QED
  BY <1>1, <1>2, PTL DEF Spec

-----------------------------------------------------------------------------
(* How a step changes the states of the jobs: a job that has ended stays   *)
(* so, one that starts was ready, and only a running one ends.             *)
LEMMA StatusSteps ==
  ASSUME TypeOK, [Next]_vars
  PROVE  /\ case' = case /\ Jobs' = Jobs /\ Cycles' = Cycles /\ Guess' = Guess
         /\ \A c \in Cycles : \A j \in Jobs :
              /\ status[c][j] = "done" => status'[c][j] = "done"
              /\ status'[c][j] = "done" => status[c][j] \in {"running", "done"}
              /\ status'[c][j] = "running" /\ status[c][j] # "running" =>
                   status[c][j] = "waiting" /\ Start(c, j)
<1> USE DEF TypeOK, Is, Set
<1>0. case' = case
  BY DEF Next, Work, Start, HandOver, End, EndUnmarked, Fail, vars
<1>1. Jobs' = Jobs /\ Cycles' = Cycles /\ Guess' = Guess
  BY <1>0 DEF Jobs, Cycles, Guess
<1> SUFFICES ASSUME NEW c \in Cycles, NEW j \in Jobs
             PROVE  /\ status[c][j] = "done" => status'[c][j] = "done"
                    /\ status'[c][j] = "done" => status[c][j] \in {"running", "done"}
                    /\ status'[c][j] = "running" /\ status[c][j] # "running" =>
                         status[c][j] = "waiting" /\ Start(c, j)
  BY <1>0, <1>1
<1>2. ASSUME NEW d \in Cycles, NEW o \in Jobs, Start(d, o)
      PROVE  /\ status[c][j] = "done" => status'[c][j] = "done"
             /\ status'[c][j] = "done" => status[c][j] \in {"running", "done"}
             /\ status'[c][j] = "running" /\ status[c][j] # "running" =>
                  status[c][j] = "waiting" /\ Start(c, j)
  <2>1. status[d][o] = "waiting" /\ status' = [status EXCEPT ![d][o] = "running"]
    BY <1>2 DEF Start
  <2>2. CASE c = d /\ j = o
    BY <2>1, <2>2, <1>2
  <2>3. CASE ~(c = d /\ j = o)
    BY <2>1, <2>3
  <2> QED BY <2>2, <2>3
<1>3. ASSUME NEW d \in Cycles, NEW o \in Jobs, HandOver(d, o)
      PROVE  status' = status
  BY <1>3 DEF HandOver
<1>4. ASSUME NEW d \in Cycles, NEW o \in Jobs, End(d, o)
      PROVE  status[d][o] = "running" /\ status' = [status EXCEPT ![d][o] = "done"]
  BY <1>4 DEF End
<1>5. ASSUME NEW d \in Cycles, EndUnmarked(d)
      PROVE  /\ "donefile" \in Jobs /\ status[d]["donefile"] = "running"
             /\ status' = [status EXCEPT ![d]["donefile"] = "done"]
  BY <1>5 DEF EndUnmarked, Jobs, Always
<1>6. ASSUME NEW d \in Cycles, NEW o \in Jobs, Fail(d, o)
      PROVE  status[d][o] = "running" /\ status' = [status EXCEPT ![d][o] = "waiting"]
  BY <1>6 DEF Fail
<1>7. CASE UNCHANGED vars
  BY <1>7 DEF vars
<1>8. CASE \E d \in Cycles, o \in Jobs : HandOver(d, o)
  BY <1>3, <1>8
<1>9. CASE \E d \in Cycles, o \in Jobs : End(d, o)
  BY <1>4, <1>9
<1>10. CASE \E d \in Cycles : EndUnmarked(d)
  BY <1>5, <1>10
<1>11. CASE \E d \in Cycles, o \in Jobs : Fail(d, o)
  BY <1>6, <1>11
<1> QED
  BY <1>2, <1>7, <1>8, <1>9, <1>10, <1>11 DEF Next, Work

(* When a cycle is archived every job of it has ended but the last few.    *)
LEMMA ArchivesAreLast ==
  ASSUME TypeOK, Closed, NEW c \in Cycles, \A o \in Archives : status[c][o] = "done",
         NEW j \in Jobs \ (Scrubs \cup {"completion", "donefile"})
  PROVE  status[c][j] = "done"
<1> DEFINE Over(o) == o \in Jobs => status[c][o] = "done"
<1>0. case.on \subseteq Switches /\ Consistent(case.on)
  BY CaseAssumption DEF TypeOK
<1>1. Always \subseteq Jobs /\ Jobs \subseteq Job
  BY <1>0, JobsOfCase
<1>2. ASSUME NEW o \in Jobs \ {"completion"}, status[c][o] = "done", NEW p \in After[o]
      PROVE  Over(p)
  BY <1>2 DEF Closed, Is
<1>3. Over("archive_disk") /\ Over("archive_tape")
  BY DEF Archives
<1>4. Over("forecast") /\ Over("product") /\ Over("output") /\ Over("atm_post")
      /\ Over("ocn_post") /\ Over("wav_post")
      /\ Over("gempak") /\ Over("hrdgraphics") /\ Over("emcgraphics")
  <2>1. "archive_disk" \in Jobs
    BY <1>1 DEF Always
  <2> QED BY <1>2, <1>3, <2>1, LateTable
<1>5. {"forecast", "atm_post", "atm_ic", "atm_prep"} \subseteq Jobs
  BY <1>1 DEF Always
<1>6. Over("unpost")
  BY <1>2, <1>4, <1>5, AfterTable
<1>7. Over("atm_prep_mvnest") /\ Over("atm_ic") /\ Over("atm_lbc")
      /\ Over("ocn_prep") /\ Over("wav_prep")
      /\ Over("atm_init") /\ Over("atm_merge") /\ Over("atm_vi")
      /\ Over("analysis") /\ Over("analysis_merge")
  BY <1>2, <1>4, <1>5, AfterTable
<1>8. Over("atm_prep")
  BY <1>2, <1>5, <1>7, AfterTable
<1>9. Over("launch")
  BY <1>2, <1>5, <1>8, AfterTable
<1>10. Over("obs_prep") /\ Over("atm_vi_fgat") /\ Over("atm_merge_fgat")
  <2>1. CASE "gsi" \in case.on
    <3>1. "analysis" \in Jobs
      BY <1>0, <2>1, JobOfSwitch
    <3> QED BY <1>2, <1>7, <3>1, AfterTable
  <2>2. CASE "gsi" \notin case.on
    <3>1. case.on \cap Fgat = {}
      BY <1>0, <2>2 DEF Consistent
    <3> QED BY <1>0, <2>2, <3>1, JobOfSwitch DEF Fgat
  <2> QED BY <2>1, <2>2
<1>11. Over("atm_init_fgat")
  <2>1. ASSUME "atm_init_fgat" \in Jobs
        PROVE  "atm_vi_fgat" \in Jobs \/ "atm_merge_fgat" \in Jobs
    <3>1. case.on \cap Fgat # {}
      BY <1>0, <2>1, JobOfSwitch DEF Consistent
    <3> QED BY <1>0, <3>1, JobOfSwitch DEF Fgat
  <2> QED BY <1>2, <1>10, <2>1, AfterTable
<1>12. Over("atm_ic_fgat")
  <2>1. "atm_ic_fgat" \in Jobs => "atm_init_fgat" \in Jobs
    BY <1>0, JobOfSwitch
  <2> QED BY <1>2, <1>11, <2>1, AfterTable
<1> HIDE DEF Over
<1>13. Over(j)
  <2>1. j \in Job \ {"scrub_work", "scrub_com", "completion", "donefile"}
    BY <1>1 DEF Scrubs
  <2> QED
    BY <2>1, JobTable, <1>3, <1>4, <1>6, <1>7, <1>8, <1>9, <1>10, <1>11, <1>12
<1> QED
  BY <1>13 DEF Over

(* What a job that becomes ready had to wait for.  The short way to        *)
(* donefile and completion asks for no more than the scrub jobs did, but   *)
(* that completion may come before donefile.                               *)
LEMMA ReadyIsMet ==
  ASSUME TypeOK, Closed, NEW c \in Cycles, NEW j \in Jobs,
         status[c][j] = "waiting", Ready(c, j)
  PROVE  /\ \A o \in After[j] \cap Jobs :
              status[c][o] = "done" \/ (j = "completion" /\ o = "donefile")
         /\ j \notin {"donefile", "completion"} => Turn(c, j)
<1>1. CASE Met(c, j, After[j]) /\ HandedOver(c, j) /\ Turn(c, j)
  BY <1>1 DEF Met, Is
<1>2. CASE j \in {"donefile", "completion"} /\ \A s \in Scrubs : Is(c, s, {"done"})
  <2>1. {"scrub_work", "scrub_com"} \cup Archives \subseteq Jobs
    BY DEF Jobs, Always, Archives
  <2>2. status[c]["scrub_work"] = "done" /\ status[c]["scrub_com"] = "done"
    BY <1>2 DEF Scrubs, Is
  <2>3. \A o \in Archives : status[c][o] = "done"
    BY <2>1, <2>2, LateTable DEF Closed, Is
  <2>4. CASE j = "donefile"
    <3>1. After["donefile"] \cap (Scrubs \cup {"completion", "donefile"}) = {}
      BY LateTable DEF Posts, Scrubs
    <3> QED BY <2>3, <2>4, <3>1, ArchivesAreLast
  <2>5. CASE j = "completion"
    BY <2>2, <2>3, <2>5, LateTable DEF Scrubs
  <2> QED
    BY <1>2, <2>4, <2>5
<1> QED
  BY <1>1, <1>2 DEF Ready

(* In every state the jobs that a started job depends on are done, but     *)
(* that completion may come before donefile.                               *)
LEMMA ClosedHolds == Spec => []Closed
<1>1. Init => Closed
  BY DEF Init, Closed, Is
<1>2. TypeOK /\ Closed /\ [Next]_vars => Closed'
  <2> SUFFICES ASSUME TypeOK, Closed, [Next]_vars,
                      NEW c \in Cycles, NEW j \in Jobs,
                      status'[c][j] \in {"running", "done"},
                      NEW o \in After[j] \cap Jobs, ~(j = "completion" /\ o = "donefile")
               PROVE  status'[c][o] = "done"
    BY StatusSteps DEF Closed, Is
  <2>1. CASE status[c][j] \in {"running", "done"}
    BY <2>1, StatusSteps DEF Closed, Is
  <2>2. CASE status[c][j] \notin {"running", "done"}
    <3>1. status[c][j] = "waiting" /\ Start(c, j)
      BY <2>2, StatusSteps
    <3>2. status[c][o] = "done"
      BY <3>1, ReadyIsMet DEF Start
    <3> QED BY <3>2, StatusSteps
  <2> QED BY <2>1, <2>2
<1> QED
  BY <1>1, <1>2, TypeCorrect, PTL DEF Spec

-----------------------------------------------------------------------------
(* A maker whose dependents may run has its directory whole.               *)
LEMMA DoneIsWhole ==
  ASSUME Made, NEW c \in Cycles, NEW m \in Makers \cap Jobs, status[c][m] = "done",
         m # "analysis" \/ Guess # "com"
  PROVE  dir[c][m] = "whole"
BY DEF Made, Is

(* What analysis_merge merges is whole when its dependencies are done.      *)
LEMMA MergedIsWhole ==
  ASSUME TypeOK, Made, NEW c \in Cycles, "analysis_merge" \in Jobs,
         \A o \in After["analysis_merge"] \cap Jobs : status[c][o] = "done",
         NEW m \in {Merged(c), "atm_init"}
  PROVE  dir[c][m] = "whole"
<1>0. case.on \subseteq Switches /\ Consistent(case.on)
  BY CaseAssumption DEF TypeOK
<1>1. "init" \in case.on /\ case.on \cap {"gsi", "vi"} # {}
  BY <1>0, JobOfSwitch DEF Consistent
<1>2. Guess # "com"
  BY <1>1 DEF Guess
<1>3. "atm_init" \in After["analysis_merge"] \cap Jobs
  BY <1>0, <1>1, AfterTable, JobOfSwitch
<1>4. Merged(c) \in After["analysis_merge"] \cap Jobs
  <2>1. CASE dir[c]["analysis"] # "none"
    BY <2>1, AfterTable DEF Merged, Made, Makers
  <2>2. CASE dir[c]["analysis"] = "none"
    <3>1. "analysis" \notin Jobs
      <4> SUFFICES ASSUME "analysis" \in Jobs PROVE FALSE OBVIOUS
      <4>1. status[c]["analysis"] = "done"
        BY AfterTable
      <4> QED BY <1>2, <2>2, <4>1, DoneIsWhole DEF Makers
    <3>2. "vi" \in case.on
      BY <1>0, <1>1, <3>1, JobOfSwitch
    <3> QED BY <1>0, <2>2, <3>2, AfterTable, JobOfSwitch DEF Merged
  <2> QED BY <2>1, <2>2
<1>5. m \in Makers
  BY DEF Merged, Makers
<1> QED BY <1>2, <1>3, <1>4, <1>5, DoneIsWhole

(* Every directory that a ready job chooses is whole.                      *)
LEMMA ChosenIsWhole ==
  ASSUME TypeOK, Closed, Made, NEW c \in Cycles, NEW j \in Jobs,
         status[c][j] = "waiting", Ready(c, j),
         NEW seen \in BOOLEAN, NEW m \in Inputs(c, j, seen)
  PROVE  dir[c][m] = "whole"
<1>0. case.on \subseteq Switches /\ Consistent(case.on)
  BY CaseAssumption DEF TypeOK
<1>1. \A o \in After[j] \cap Jobs : status[c][o] = "done"
  <2>1. j # "completion"
    BY DEF Inputs
  <2> QED BY <2>1, ReadyIsMet
<1>2. CASE j \in {"atm_merge", "atm_vi"}
  <2>1. m = "atm_init"
    BY <1>2 DEF Inputs
  <2>2. "atm_init" \in After[j] \cap Jobs
    BY <1>0, <1>2, AfterTable, JobOfSwitch DEF Consistent
  <2> QED BY <1>1, <2>1, <2>2, DoneIsWhole DEF Makers
<1>3. CASE j \in {"atm_merge_fgat", "atm_vi_fgat"}
  <2>1. m = "atm_init_fgat"
    BY <1>3 DEF Inputs
  <2>2. "atm_init_fgat" \in After[j] \cap Jobs
    BY <1>0, <1>3, AfterTable, JobOfSwitch DEF Consistent, Fgat
  <2> QED BY <1>1, <2>1, <2>2, DoneIsWhole DEF Makers
<1>4. CASE j = "analysis"
  <2>1. m = Guess /\ m \in Makers
    BY <1>4 DEF Inputs
  <2>2. m # "com" /\ "gsi" \in case.on
    BY <1>0, <1>4, <2>1, JobOfSwitch DEF Makers
  <2>3. m \in After[j] \cap Jobs
    BY <1>0, <1>4, <2>1, <2>2, GuessOfCase, AfterTable
  <2> QED BY <1>1, <2>1, <2>2, <2>3, DoneIsWhole
<1>5. CASE j = "analysis_merge"
  <2>1. m \in {Merged(c), "atm_init"}
    BY <1>5 DEF Inputs
  <2> QED BY <1>1, <1>5, <2>1, MergedIsWhole
<1>6. CASE j = "forecast"
  <2>1. m = Source(c, seen) /\ m \in Makers
    BY <1>6 DEF Inputs
  <2>2. m \in Jobs /\ Finds(c, m, seen)
    BY <2>1 DEF Source, Makers
  <2>3. m \in After[j]
    BY <1>6, <2>1, AfterTable DEF Source, Makers
  <2>4. status[c][m] = "done"
    BY <1>1, <2>2, <2>3
  <2>5. dir[c][m] \in {"whole", "empty"}
    BY <2>1, <2>2, <2>4 DEF Made, Is
  <2> QED BY <2>2, <2>5 DEF Finds
<1>7. CASE j \notin {"atm_merge", "atm_vi", "atm_merge_fgat", "atm_vi_fgat",
                     "analysis", "analysis_merge", "forecast"}
  BY <1>7 DEF Inputs
<1> QED
  BY <1>2, <1>3, <1>4, <1>5, <1>6, <1>7

(* How a step changes the directories: the job that writes one, alone.     *)
LEMMA DirSteps ==
  ASSUME TypeOK, [Next]_vars, NEW c \in Cycles, NEW m \in Makers
  PROVE  \/ dir'[c][m] = dir[c][m] /\ (m \in Jobs => status'[c][m] = status[c][m])
         \/ m \in Jobs /\ Start(c, m)
         \/ m \in Jobs /\ End(c, m)
         \/ m \in Jobs /\ Fail(c, m)
<1> USE DEF TypeOK, Set
<1>1. ASSUME NEW d \in Cycles, NEW o \in Jobs, Start(d, o), ~(d = c /\ o = m)
      PROVE  dir'[c][m] = dir[c][m] /\ (m \in Jobs => status'[c][m] = status[c][m])
  BY <1>1 DEF Start
<1>2. ASSUME NEW d \in Cycles, NEW o \in Jobs, HandOver(d, o)
      PROVE  dir'[c][m] = dir[c][m] /\ (m \in Jobs => status'[c][m] = status[c][m])
  BY <1>2 DEF HandOver
<1>3. ASSUME NEW d \in Cycles, NEW o \in Jobs, End(d, o), ~(d = c /\ o = m)
      PROVE  dir'[c][m] = dir[c][m] /\ (m \in Jobs => status'[c][m] = status[c][m])
  BY <1>3 DEF End
<1>4. ASSUME NEW d \in Cycles, EndUnmarked(d)
      PROVE  dir'[c][m] = dir[c][m] /\ (m \in Jobs => status'[c][m] = status[c][m])
  <2>1. m # "donefile" /\ "donefile" \in Jobs
    BY DEF Makers, Jobs, Always
  <2> QED BY <1>4, <2>1 DEF EndUnmarked
<1>5. ASSUME NEW d \in Cycles, NEW o \in Jobs, Fail(d, o), ~(d = c /\ o = m)
      PROVE  dir'[c][m] = dir[c][m] /\ (m \in Jobs => status'[c][m] = status[c][m])
  BY <1>5 DEF Fail
<1>6. CASE UNCHANGED vars
  BY <1>6 DEF vars
<1> QED
  BY <1>1, <1>2, <1>3, <1>4, <1>5, <1>6 DEF Next, Work

(* In every state a directory that is there was made by a job of the       *)
(* cycle: half written while the job runs, whole when it is done; the      *)
(* analysis leaves none if it had nothing to work on.                      *)
LEMMA MadeHolds == Spec => []Made
<1>1. Init => Made
  BY DEF Init, Made, Is
<1>2. TypeOK /\ Closed /\ Made /\ [Next]_vars => Made'
  <2> SUFFICES ASSUME TypeOK, Closed, Made, [Next]_vars, NEW c \in Cycles, NEW m \in Makers
               PROVE  /\ dir'[c][m] # "none" => m \in Jobs
                      /\ m \in Jobs /\ status'[c][m] = "running" =>
                           dir'[c][m] = "part" \/ (m = "analysis" /\ dir'[c][m] = "empty")
                      /\ m \in Jobs /\ status'[c][m] = "done" =>
                           dir'[c][m] = "whole" \/ (m = "analysis" /\ dir'[c][m] = "empty")
                      /\ dir'[c][m] = "empty" => Guess = "com"
    BY StatusSteps DEF Made, Is
  <2>1. CASE dir'[c][m] = dir[c][m] /\ (m \in Jobs => status'[c][m] = status[c][m])
    BY <2>1 DEF Made, Is
  <2>2. CASE m \in Jobs /\ Start(c, m)
    <3>1. status'[c][m] = "running"
          /\ dir'[c][m] = IF m = "analysis" /\ NoGuess(c) THEN "empty" ELSE "part"
      BY <2>2 DEF Start, Set, TypeOK
    <3>2. ASSUME m = "analysis", NoGuess(c)
          PROVE  Guess = "com"
      <4> SUFFICES ASSUME Guess # "com" PROVE FALSE
        OBVIOUS
      <4>1. Guess \in Inputs(c, m, TRUE)
        BY <3>2 DEF Inputs, Guess, Makers
      <4>2. dir[c][Guess] = "whole"
        BY <2>2, <4>1, ChosenIsWhole DEF Start, Is
      <4> QED BY <3>2, <4>2 DEF NoGuess
    <3> QED BY <2>2, <3>1, <3>2
  <2>3. CASE m \in Jobs /\ End(c, m)
    <3>1. /\ status[c][m] = "running" /\ status'[c][m] = "done"
          /\ dir'[c][m] = IF dir[c][m] = "part" THEN "whole" ELSE dir[c][m]
      BY <2>3 DEF End, Set, Is, TypeOK
    <3> QED BY <2>3, <3>1 DEF Made, Is
  <2>4. CASE m \in Jobs /\ Fail(c, m)
    <3>1. status'[c][m] = "waiting" /\ dir' = dir
      BY <2>4 DEF Fail, Set, TypeOK
    <3> QED BY <2>4, <3>1 DEF Made
  <2> QED BY <2>1, <2>2, <2>3, <2>4, DirSteps
<1> QED
  BY <1>1, <1>2, TypeCorrect, ClosedHolds, PTL DEF Spec

(* A job that starts finds the directories that it chooses complete,       *)
(* whatever the configuration: neither the analysis nor the merge nor the  *)
(* forecast reads what another job is writing or has left half written.    *)
THEOREM InputsWholeHolds == Spec => InputsWhole
<1>1. TypeOK /\ Closed /\ Made /\ [Next]_vars =>
        [\A c \in Cycles : \A j \in Jobs : \A seen \in BOOLEAN :
           status[c][j] = "waiting" /\ status'[c][j] = "running" =>
             \A m \in Inputs(c, j, seen) : dir[c][m] = "whole"]_vars
  <2> SUFFICES ASSUME TypeOK, Closed, Made, [Next]_vars,
                      NEW c \in Cycles, NEW j \in Jobs, NEW seen \in BOOLEAN,
                      status[c][j] = "waiting", status'[c][j] = "running",
                      NEW m \in Inputs(c, j, seen)
               PROVE  dir[c][m] = "whole"
    OBVIOUS
  <2>1. Start(c, j)
    BY StatusSteps
  <2> QED BY <2>1, ChosenIsWhole DEF Start
<1> QED
  BY <1>1, TypeCorrect, ClosedHolds, MadeHolds, PTL DEF Spec, InputsWhole

-----------------------------------------------------------------------------
(* The forecast, once started, came from the last of the steps that are    *)
(* switched on, the analysis excepted that had nothing to work on.         *)
THEOREM WarmestStartHolds == Spec => []WarmestStart
<1>1. Init => WarmestStart
  <2>1. ASSUME Init PROVE \A c \in Cycles : "forecast" \in Jobs /\ ~Is(c, "forecast", {"running", "done"})
    BY <2>1 DEF Init, Is, Jobs, Always
  <2> QED BY <2>1 DEF WarmestStart
<1>2. TypeOK /\ Closed /\ Made /\ WarmestStart /\ [Next]_vars => WarmestStart'
  <2> SUFFICES ASSUME TypeOK, Closed, Made, WarmestStart, [Next]_vars, NEW c \in Cycles,
                      status'[c]["forecast"] \in {"running", "done"},
                      NEW m \in DOMAIN Rank \cap Jobs
               PROVE  \/ from'[c] \in DOMAIN Rank /\ Rank[m] <= Rank[from'[c]]
                      \/ m = "analysis" /\ dir'[c][m] = "empty"
    BY StatusSteps DEF WarmestStart, Is
  <2>0. "forecast" \in Jobs /\ m \in Makers /\ m \in After["forecast"]
    BY AfterTable DEF Jobs, Always, Rank, Makers
  <2>1. CASE status[c]["forecast"] \in {"running", "done"}
    <3>1. status[c][m] = "done"
      BY <2>0, <2>1 DEF Closed, Is
    <3>2. dir'[c][m] = dir[c][m]
      BY <2>0, <3>1, DirSteps DEF Start, End, Fail, Is
    <3>3. from'[c] = from[c]
      <4>1. ~Start(c, "forecast")
        BY <2>1 DEF Start, Is
      <4>2. ASSUME NEW d \in Cycles, NEW o \in Jobs, Start(d, o)
            PROVE  from'[c] = from[c]
        <5>1. CASE o # "forecast"
          BY <4>2, <5>1 DEF Start
        <5>2. CASE o = "forecast" /\ d # c
          BY <4>2, <5>2 DEF Start, TypeOK
        <5> QED BY <4>1, <4>2, <5>1, <5>2
      <4>3. (\E d \in Cycles, o \in Jobs : Start(d, o)) \/ from' = from
        BY DEF Next, Work, HandOver, End, EndUnmarked, Fail, vars
      <4> QED BY <4>2, <4>3
    <3> QED BY <2>1, <3>2, <3>3 DEF WarmestStart, Is
  <2>2. CASE status[c]["forecast"] \notin {"running", "done"}
    <3>1. status[c]["forecast"] = "waiting" /\ Start(c, "forecast")
      BY <2>0, <2>2, StatusSteps
    <3>2. PICK seen \in BOOLEAN : from'[c] = Source(c, seen)
      BY <3>1 DEF Start, TypeOK
    <3>3. dir'[c] = dir[c]
      BY <3>1 DEF Start, Makers
    <3>4. ASSUME NEW o \in DOMAIN Rank \cap Jobs
          PROVE  dir[c][o] = "whole" \/ (o = "analysis" /\ dir[c][o] = "empty")
      <4>1. o \in Makers /\ o \in After["forecast"]
        BY AfterTable DEF Rank, Makers
      <4>2. status[c][o] = "done"
        BY <2>0, <3>1, <4>1, ReadyIsMet DEF Start
      <4> QED BY <4>1, <4>2 DEF Made, Is
    <3>5. ASSUME NEW o \in DOMAIN Rank \cap Jobs, dir[c][o] = "whole"
          PROVE  Finds(c, o, seen)
      BY <3>5 DEF Finds
    <3>6. DOMAIN Rank = {"atm_init", "atm_merge", "atm_vi", "analysis", "analysis_merge"}
          /\ Rank["atm_init"] = 1 /\ Rank["atm_merge"] = 2 /\ Rank["atm_vi"] = 3
          /\ Rank["analysis"] = 4 /\ Rank["analysis_merge"] = 5
      BY DEF Rank
    <3>7. CASE m = "analysis" /\ dir[c][m] = "empty"
      BY <3>3, <3>7
    <3>8. CASE dir[c][m] = "whole"
      <4>1. Finds(c, m, seen)
        BY <3>5, <3>8
      <4>2. Source(c, seen) \in DOMAIN Rank /\ Rank[m] <= Rank[Source(c, seen)]
        BY <3>6, <4>1 DEF Source
      <4> QED BY <3>2, <4>2
    <3> QED BY <3>4, <3>7, <3>8
  <2> QED BY <2>1, <2>2
<1> QED
  BY <1>1, <1>2, TypeCorrect, ClosedHolds, MadeHolds, PTL DEF Spec

-----------------------------------------------------------------------------
(* When a cycle has been scrubbed its archives are done, and when its COM  *)
(* is gone so are the archives of the next cycle.                          *)
LEMMA KeptHolds == Spec => []Kept
<1>1. Init => Kept
  BY DEF Init, Kept
<1>2. TypeOK /\ Closed /\ Kept /\ [Next]_vars => Kept'
  <2> SUFFICES ASSUME TypeOK, Closed, Kept, [Next]_vars, NEW c \in Cycles
               PROVE  /\ scrubbed'[c] # {} =>
                           \A o \in Archives : status'[c][o] = "done"
                      /\ "com" \in scrubbed'[c] /\ c + 1 \in Cycles =>
                           \A o \in Archives : status'[c + 1][o] = "done"
    BY StatusSteps DEF Kept, Is
  <2>0. Archives \subseteq Jobs /\ Scrubs \subseteq Jobs
    BY DEF Jobs, Always, Archives, Scrubs
  <2>1. CASE scrubbed'[c] = scrubbed[c]
    BY <2>0, <2>1, StatusSteps DEF Kept, Is
  <2>2. CASE scrubbed'[c] # scrubbed[c]
    <3>1. PICK j \in Scrubs : Start(c, j) /\ ("com" \in scrubbed'[c] =>
                                  "com" \in scrubbed[c] \/ j = "scrub_com")
      <4>1. ASSUME NEW d \in Cycles, NEW o \in Jobs, Start(d, o)
            PROVE  /\ d = c /\ o \in Scrubs
                   /\ "com" \in scrubbed'[c] => "com" \in scrubbed[c] \/ o = "scrub_com"
        <5>1. scrubbed' = [scrubbed EXCEPT ![d] = @ \cup
                             (CASE o = "scrub_work" -> {"work"}
                                [] o = "scrub_com"  -> {"com"}
                                [] OTHER            -> {})]
          BY <4>1 DEF Start
        <5>2. d = c
          BY <2>2, <5>1 DEF TypeOK
        <5>3. scrubbed'[c] = scrubbed[c] \cup (CASE o = "scrub_work" -> {"work"}
                                                [] o = "scrub_com"  -> {"com"}
                                                [] OTHER            -> {})
          BY <5>1, <5>2 DEF TypeOK
        <5> QED BY <2>2, <5>2, <5>3 DEF Scrubs
      <4>2. \E d \in Cycles, o \in Jobs : Start(d, o)
        BY <2>2 DEF Next, Work, HandOver, End, EndUnmarked, Fail, vars
      <4> QED BY <4>1, <4>2
    <3>2. /\ \A o \in After[j] \cap Jobs : status[c][o] = "done"
          /\ Turn(c, j)
      <4>1. j \in Jobs /\ j \notin {"donefile", "completion"}
        BY <2>0 DEF Scrubs
      <4> QED BY <3>1, <4>1, ReadyIsMet DEF Start, Is
    <3>3. \A o \in Archives : status[c][o] = "done"
      BY <2>0, <3>2, LateTable DEF Scrubs
    <3>4. ASSUME "com" \in scrubbed'[c], c + 1 \in Cycles
          PROVE  \A o \in Archives : status[c + 1][o] = "done"
      <4>1. CASE "com" \in scrubbed[c]
        BY <3>4, <4>1 DEF Kept, Is
      <4>2. CASE j = "scrub_com"
        <5>1. \/ \A o \in Archives : status[c + 1][o] = "done"
              \/ status[c + 1]["scrub_com"] = "done"
          BY <3>2, <3>4, <4>2 DEF Turn, Is
        <5>2. ASSUME status[c + 1]["scrub_com"] = "done"
              PROVE  \A o \in Archives : status[c + 1][o] = "done"
          BY <2>0, <3>4, <5>2, LateTable DEF Closed, Is, Scrubs
        <5> QED BY <5>1, <5>2
      <4> QED BY <3>1, <3>4, <4>1, <4>2
    <3> QED BY <2>0, <3>3, <3>4, StatusSteps
  <2> QED BY <2>1, <2>2
<1> QED
  BY <1>1, <1>2, TypeCorrect, ClosedHolds, PTL DEF Spec

(* When the work directory of a cycle is deleted no job waits to use it,   *)
(* and when its COM is, no job of the next cycle waits to read it: for     *)
(* every configuration and any number of cycles.                           *)
THEOREM NotScrubbedHolds == Spec => []NotScrubbed
<1>1. TypeOK /\ Closed /\ Kept => NotScrubbed
  <2> SUFFICES ASSUME TypeOK, Closed, Kept, NEW c \in Cycles
               PROVE  /\ scrubbed[c] # {} =>
                           \A j \in Jobs \ (Scrubs \cup {"donefile", "completion"}) :
                             status[c][j] = "done"
                      /\ "com" \in scrubbed[c] /\ c + 1 \in Cycles =>
                           \A j \in Jobs \cap DOMAIN Old : status[c + 1][j] = "done"
    BY DEF NotScrubbed, Is
  <2>1. ASSUME scrubbed[c] # {}, NEW j \in Jobs \ (Scrubs \cup {"donefile", "completion"})
        PROVE  status[c][j] = "done"
    <3>1. \A o \in Archives : status[c][o] = "done"
      BY <2>1 DEF Kept, Is
    <3> QED BY <2>1, <3>1, ArchivesAreLast
  <2>2. ASSUME "com" \in scrubbed[c], c + 1 \in Cycles, NEW j \in Jobs \cap DOMAIN Old
        PROVE  status[c + 1][j] = "done"
    <3>1. \A o \in Archives : status[c + 1][o] = "done"
      BY <2>2 DEF Kept, Is
    <3>2. j \notin Scrubs \cup {"completion", "donefile"}
      BY DEF Old, Scrubs
    <3> QED BY <2>2, <3>1, <3>2, ArchivesAreLast
  <2> QED BY <2>1, <2>2
<1> QED
  BY <1>1, TypeCorrect, ClosedHolds, KeptHolds, PTL

-----------------------------------------------------------------------------
(* Whatever a job hands over has come to COM when it is done.              *)
Handed ==
  \A c \in Cycles : \A j \in DOMAIN Hands :
    Is(c, j, {"done"}) => Hands[j] \in com[c]

(* What is handed over has come by the time its job is done, and stays.    *)
LEMMA HandedHolds == Spec => []Handed
<1>0. DOMAIN Hands \subseteq Jobs
  BY DEF Hands, Jobs, Always
<1>1. Init => Handed
  BY <1>0 DEF Init, Handed, Is
<1>2. TypeOK /\ Handed /\ [Next]_vars => Handed'
  <2> SUFFICES ASSUME TypeOK, Handed, [Next]_vars, NEW c \in Cycles,
                      NEW j \in DOMAIN Hands, status'[c][j] = "done"
               PROVE  Hands[j] \in com'[c]
    BY StatusSteps DEF Handed, Is
  <2>0. j \in Jobs /\ j # "donefile"
    BY <1>0 DEF Hands
  <2>1. com[c] \subseteq com'[c]
    <3>1. ASSUME NEW d \in Cycles, NEW o \in Jobs, HandOver(d, o)
          PROVE  com[c] \subseteq com'[c]
      BY <3>1 DEF HandOver, TypeOK
    <3>2. (\E d \in Cycles, o \in Jobs : HandOver(d, o)) \/ com' = com
      BY DEF Next, Work, Start, End, EndUnmarked, Fail, vars
    <3> QED BY <3>1, <3>2
  <2>2. CASE status[c][j] = "done"
    BY <2>1, <2>2 DEF Handed, Is
  <2>3. CASE status[c][j] # "done"
    <3>1. End(c, j)
      <4>1. ASSUME NEW d \in Cycles, NEW o \in Jobs, End(d, o)
            PROVE  d = c /\ o = j
        BY <2>0, <2>3, <4>1 DEF End, Set, TypeOK
      <4>2. ~ \E d \in Cycles : EndUnmarked(d)
        <5>1. ASSUME NEW d \in Cycles, EndUnmarked(d) PROVE FALSE
          BY <2>0, <2>3, <5>1 DEF EndUnmarked, Set, TypeOK
        <5> QED BY <5>1
      <4>3. ~ \E d \in Cycles, o \in Jobs : Start(d, o) \/ HandOver(d, o) \/ Fail(d, o)
        <5>1. ASSUME NEW d \in Cycles, NEW o \in Jobs, Start(d, o) PROVE FALSE
          BY <2>0, <2>3, <5>1 DEF Start, Set, TypeOK
        <5>2. ASSUME NEW d \in Cycles, NEW o \in Jobs, HandOver(d, o) PROVE FALSE
          BY <2>3, <5>2 DEF HandOver
        <5>3. ASSUME NEW d \in Cycles, NEW o \in Jobs, Fail(d, o) PROVE FALSE
          BY <2>0, <2>3, <5>3 DEF Fail, Set, TypeOK
        <5> QED BY <5>1, <5>2, <5>3
      <4>4. \E d \in Cycles, o \in Jobs : End(d, o)
        BY <2>3, <4>2, <4>3 DEF Next, Work, vars
      <4> QED BY <4>1, <4>4
    <3> QED BY <3>1 DEF End
  <2> QED BY <2>2, <2>3
<1> QED
  BY <1>1, <1>2, TypeCorrect, PTL DEF Spec

-----------------------------------------------------------------------------
(* The guards of Start, End and HandOver: what the manager or a job can do *)
(* next.                                                                   *)
CanWork(c, j) ==
  \/ Is(c, j, {"waiting"}) /\ Ready(c, j)
  \/ /\ Is(c, j, {"running"})
     /\ j \in DOMAIN Hands => Hands[j] \in com[c]
     /\ j = "analysis_merge" => \A m \in {Merged(c), "atm_init"} : dir[c][m] = "whole"
  \/ Is(c, j, {"running"}) /\ j \in DOMAIN Hands /\ Hands[j] \notin com[c]

(* Unless all is over, some job of some cycle can go on.                   *)
NeverStuck ==
  \/ Unmarked
  \/ \A c \in Cycles : Is(c, "completion", {"done"})
  \/ \E c \in Cycles, j \in Jobs : CanWork(c, j)

(* A job that runs can go on.                                              *)
LEMMA RunningWorks ==
  ASSUME TypeOK, Closed, Made, NEW c \in Cycles, NEW j \in Jobs, status[c][j] = "running"
  PROVE  CanWork(c, j)
<1>1. j = "analysis_merge" => \A m \in {Merged(c), "atm_init"} : dir[c][m] = "whole"
  <2> SUFFICES ASSUME j = "analysis_merge", NEW m \in {Merged(c), "atm_init"}
               PROVE  dir[c][m] = "whole"
    OBVIOUS
  <2>1. \A o \in After["analysis_merge"] \cap Jobs : status[c][o] = "done"
    BY DEF Closed, Is
  <2> QED BY <2>1, MergedIsWhole
<1> QED
  BY <1>1 DEF CanWork, Is

-----------------------------------------------------------------------------
(* The dependencies have no cycle: each goes to a job of a smaller depth.  *)
Depth == [
  launch |-> 0, atm_prep |-> 1, atm_prep_mvnest |-> 1,
  atm_ic |-> 2, atm_ic_fgat |-> 2, atm_lbc |-> 2, ocn_prep |-> 2, wav_prep |-> 2,
  obs_prep |-> 3, atm_init |-> 3, atm_init_fgat |-> 3,
  atm_merge |-> 4, atm_merge_fgat |-> 4, atm_vi |-> 4, atm_vi_fgat |-> 4,
  analysis |-> 5, analysis_merge |-> 6, forecast |-> 7, unpost |-> 8,
  atm_post |-> 9, ocn_post |-> 9, wav_post |-> 9, product |-> 10,
  output |-> 11, gempak |-> 11, hrdgraphics |-> 11, emcgraphics |-> 11,
  archive_disk |-> 12, donefile |-> 12, archive_tape |-> 13,
  scrub_work |-> 14, scrub_com |-> 15, completion |-> 16]

(* The jobs that wait for no scrub job of their own cycle.                 *)
Early == {j \in Job : Depth[j] < 14}

(* Depth falls along the dependencies, of both kinds.                      *)
LEMMA DepthFalls ==
  /\ \A j \in Job : Depth[j] \in Nat
  /\ \A j \in Job : \A o \in After[j] : o \in Job /\ Depth[o] < Depth[j]
  /\ \A j \in DOMAIN Along : \A o \in Along[j] : o \in Always /\ Depth[o] < Depth[j]
<1>1. \A j \in Job : Depth[j] \in Nat
  BY JobTable DEF Depth
<1>2. ASSUME NEW j \in Job
      PROVE  \A o \in After[j] : o \in Job /\ Depth[o] < Depth[j]
  <2>1. CASE j \in {"launch", "atm_prep", "atm_prep_mvnest", "atm_ic", "atm_ic_fgat", "atm_lbc"}
    BY <2>1, JobTable DEF After, Depth
  <2>2. CASE j \in {"ocn_prep", "wav_prep", "obs_prep", "atm_init", "atm_init_fgat"}
    BY <2>2, JobTable DEF After, Depth
  <2>3. CASE j \in {"atm_merge", "atm_merge_fgat", "atm_vi", "atm_vi_fgat", "analysis",
                    "analysis_merge"}
    BY <2>3, JobTable DEF After, Depth
  <2>4. CASE j \in {"forecast", "unpost", "atm_post", "ocn_post", "wav_post", "product"}
    BY <2>4, JobTable DEF After, Depth
  <2>5. CASE j \in {"output", "gempak", "hrdgraphics", "emcgraphics", "donefile"}
    BY <2>5, JobTable DEF After, Depth, Posts
  <2>6. CASE j \in {"archive_disk", "archive_tape"}
    BY <2>6, JobTable DEF After, Depth, Posts, Graphics
  <2>7. CASE j \in {"scrub_work", "scrub_com", "completion"}
    BY <2>7, JobTable DEF After, Depth, Archives, Scrubs
  <2> QED BY <2>1, <2>2, <2>3, <2>4, <2>5, <2>6, <2>7, JobTable
<1>3. \A j \in DOMAIN Along : \A o \in Along[j] : o \in Always /\ Depth[o] < Depth[j]
  BY DEF Along, Depth, Always
<1> QED BY <1>1, <1>2, <1>3

(* The order of the numbers, as a relation.                                *)
Below == {m \in Nat \X Nat : m[1] < m[2]}

(* A set of numbers has a least one.                                       *)
LEMMA LeastNumber ==
  ASSUME NEW S, S \subseteq Nat, S # {}
  PROVE  \E n \in S : \A m \in S : n <= m
<1>1. IsWellFoundedOn(Below, Nat)
  BY NatLessThanWellFounded DEF OpToRel, Below
<1>2. PICK n \in S : \A m \in S : ~ (<<m, n>> \in Below)
  BY <1>1, WFMin, Zenon
<1>3. ASSUME NEW m \in S PROVE n <= m
  <2>1. m \in Nat /\ n \in Nat
    OBVIOUS
  <2>2. m < n => <<m, n>> \in Below
    BY <2>1 DEF Below
  <2>3. ~(m < n)
    BY <1>2, <2>2
  <2> QED
    BY <2>1, <2>3
<1> QED
  BY <1>3

(* If other cycles do not hold back any job of a closed set of jobs of a   *)
(* cycle, one of the jobs that are not done can go on: one that is least   *)
(* deep among them.                                                        *)
LEMMA LeastDeepWorks ==
  ASSUME TypeOK, Closed, Made, NEW c \in Cycles,
         NEW G \in SUBSET Jobs,
         \A j \in G : After[j] \cap Jobs \subseteq G,
         \A j \in G : j \in DOMAIN Along => Along[j] \subseteq G,
         \A j \in G : status[c][j] # "done" => HandedOver(c, j) /\ Turn(c, j),
         \E j \in G : status[c][j] # "done"
  PROVE  \E j \in Jobs : CanWork(c, j)
<1> DEFINE L == {j \in G : status[c][j] # "done"}
<1>1. Jobs \subseteq Job
  BY CaseAssumption, JobsOfCase DEF TypeOK
<1>2. {Depth[j] : j \in L} \subseteq Nat /\ {Depth[j] : j \in L} # {}
  BY <1>1, DepthFalls
<1>3. PICK j \in L : \A o \in L : Depth[j] <= Depth[o]
  <2>1. PICK S : S = {Depth[j] : j \in L}
    OBVIOUS
  <2>2. PICK n \in S : \A m \in S : n <= m
    BY <1>2, <2>1, LeastNumber, Zenon
  <2> QED
    BY <2>1, <2>2
<1>4. j \in G /\ j \in Jobs /\ j \in Job /\ status[c][j] # "done"
  BY <1>1
<1>5. ASSUME NEW o \in G, Depth[o] < Depth[j]
      PROVE  status[c][o] = "done"
  <2>1. o \in Job
    BY <1>1
  <2>2. Depth[o] \in Nat /\ Depth[j] \in Nat
    BY <1>4, <2>1, DepthFalls
  <2> QED
    BY <1>3, <1>5, <2>2
<1>6. \A o \in After[j] \cap Jobs : status[c][o] = "done"
  BY <1>4, <1>5, DepthFalls
<1>7. j \in DOMAIN Along => \A o \in Along[j] : status[c][o] = "done"
  BY <1>4, <1>5, DepthFalls
<1>8. Met(c, j, After[j])
  BY <1>6, <1>7 DEF Met, Is
<1>9. CASE status[c][j] = "running"
  BY <1>4, <1>9, RunningWorks
<1>10. CASE status[c][j] = "waiting"
  BY <1>4, <1>8, <1>10 DEF CanWork, Ready, Is
<1> QED
  BY <1>4, <1>9, <1>10 DEF TypeOK

-----------------------------------------------------------------------------
(* When completion is done, so is every job of the cycle, but donefile.    *)
LEMMA CompletedIsOver ==
  ASSUME TypeOK, Closed, NEW c \in Cycles, status[c]["completion"] = "done",
         NEW j \in Jobs \ {"donefile"}
  PROVE  status[c][j] = "done"
<1>1. Archives \cup Scrubs \cup {"completion"} \subseteq Jobs
  BY DEF Jobs, Always, Archives, Scrubs
<1>2. \A o \in Archives \cup Scrubs : status[c][o] = "done"
  <2>1. Archives \cup Scrubs \subseteq After["completion"] \ {"donefile"}
    BY LateTable DEF Archives, Scrubs
  <2> QED BY <1>1, <2>1 DEF Closed, Is
<1>3. CASE j \in Scrubs \cup {"completion"}
  BY <1>2, <1>3
<1>4. CASE j \notin Scrubs \cup {"completion"}
  BY <1>2, <1>4, ArchivesAreLast
<1> QED
  BY <1>3, <1>4

(* What a job still has to read of the cycle before is there, once the     *)
(* jobs that hand it over are done.                                        *)
LEMMA OldIsThere ==
  ASSUME TypeOK, Closed, Kept, Handed, NEW c \in Cycles,
         c > 1 => \A o \in (Early \cap Jobs) \ {"donefile"} : status[c - 1][o] = "done",
         NEW j \in Jobs, status[c][j] # "done"
  PROVE  HandedOver(c, j)
<1> SUFFICES ASSUME j \in DOMAIN Old, c > 1
             PROVE  Old[j] \subseteq com[c - 1] /\ "com" \notin scrubbed[c - 1]
  BY DEF HandedOver
<1>1. c - 1 \in Cycles /\ (c - 1) + 1 = c
  BY CaseAssumption DEF TypeOK, Cycles
<1>2. {"restart", "track"} \subseteq com[c - 1]
  <2>1. "atm_post" \in Early \cap Jobs /\ "product" \in Early \cap Jobs
    BY JobTable DEF Early, Depth, Jobs, Always
  <2>2. DOMAIN Hands = {"atm_post", "product"}
        /\ Hands["atm_post"] = "restart" /\ Hands["product"] = "track"
    BY DEF Hands
  <2> QED BY <1>1, <2>1, <2>2 DEF Handed, Is
<1>3. Old[j] \subseteq {"restart", "track"}
  BY DEF Old
<1>4. "com" \notin scrubbed[c - 1]
  <2> SUFFICES ASSUME "com" \in scrubbed[c - 1] PROVE FALSE
    OBVIOUS
  <2>1. \A o \in Archives : status[c][o] = "done"
    BY <1>1 DEF Kept, Is
  <2>2. j \notin Scrubs \cup {"completion", "donefile"}
    BY DEF Old, Scrubs
  <2> QED BY <2>1, <2>2, ArchivesAreLast
<1> QED
  BY <1>2, <1>3, <1>4

(* A cycle can be launched when at most the one before it is not over.     *)
LEMMA FewActive ==
  ASSUME TypeOK, NEW c \in Cycles,
         \A d \in 1 .. c - 1 : d # c - 1 => status[d]["completion"] = "done"
  PROVE  Active(c)
<1> DEFINE D == {d \in 1 .. c - 1 : ~Is(d, "completion", {"done"})}
<1>1. D \subseteq {c - 1}
  BY DEF Is
<1>2. D = {} \/ D = {c - 1}
  BY <1>1
<1>3. Cardinality(D) \in {0, 1}
  BY <1>2, FS_EmptySet, FS_Singleton
<1> QED
  BY <1>3, CaseAssumption DEF Active

(* The early jobs wait for no others, nor does the whole of a cycle.       *)
LEMMA EarlyClosed ==
  ASSUME case.on \subseteq Switches
  PROVE  /\ \A j \in Early \cap Jobs : After[j] \cap Jobs \subseteq Early \cap Jobs
         /\ \A j \in Early \cap Jobs : j \in DOMAIN Along => Along[j] \subseteq Early \cap Jobs
         /\ \A j \in Jobs : j \in DOMAIN Along => Along[j] \subseteq Jobs
         /\ Jobs \ Early = {"scrub_work", "scrub_com", "completion"}
<1>1. Always \subseteq Jobs /\ Jobs \subseteq Job
  BY JobsOfCase
<1>2. ASSUME NEW j \in Early, NEW o \in Job, Depth[o] < Depth[j]
      PROVE  o \in Early
  BY <1>2, DepthFalls DEF Early
<1>3. \A j \in Early \cap Jobs : After[j] \cap Jobs \subseteq Early \cap Jobs
  BY <1>1, <1>2, DepthFalls
<1>4. \A j \in Early \cap Jobs : j \in DOMAIN Along => Along[j] \subseteq Early \cap Jobs
  BY <1>1, <1>2, DepthFalls
<1>5. \A j \in Jobs : j \in DOMAIN Along => Along[j] \subseteq Jobs
  BY <1>1, DepthFalls
<1>6. Job \ Early = {"scrub_work", "scrub_com", "completion"}
  BY JobTable DEF Early, Depth
<1>7. {"scrub_work", "scrub_com", "completion"} \subseteq Jobs
  BY <1>1 DEF Always
<1> QED
  BY <1>1, <1>3, <1>4, <1>5, <1>6, <1>7

-----------------------------------------------------------------------------
(* An incomplete cycle whose predecessors are all but one completed, and   *)
(* that one done with its early jobs, can go on with its early jobs.       *)
LEMMA EarlyWorks ==
  ASSUME TypeOK, Closed, Made, Kept, Handed, NEW c \in Cycles,
         \A d \in 1 .. c - 1 : d # c - 1 => status[d]["completion"] = "done",
         c > 1 => \A o \in (Early \cap Jobs) \ {"donefile"} : status[c - 1][o] = "done",
         \E j \in Early \cap Jobs : status[c][j] # "done"
  PROVE  \E j \in Jobs : CanWork(c, j)
<1>0. case.on \subseteq Switches
  BY CaseAssumption DEF TypeOK
<1>1. ASSUME NEW j \in Early \cap Jobs, status[c][j] # "done"
      PROVE  HandedOver(c, j) /\ Turn(c, j)
  <2>1. HandedOver(c, j)
    BY <1>1, OldIsThere
  <2>2. j \notin Scrubs
    BY <1>0, EarlyClosed DEF Scrubs
  <2>3. c > 1 => Is(c - 1, "launch", {"done"})
    <3>1. "launch" \in Early \cap Jobs
      BY JobTable DEF Early, Depth, Jobs, Always
    <3> QED BY <3>1 DEF Is
  <2>4. Active(c)
    BY FewActive
  <2>5. Turn(c, j)
    BY <2>2, <2>3, <2>4 DEF Turn, Scrubs
  <2> QED BY <2>1, <2>5
<1>2. PICK G : G = Early \cap Jobs
  OBVIOUS
<1>3. G \in SUBSET Jobs
      /\ (\A j \in G : After[j] \cap Jobs \subseteq G)
      /\ (\A j \in G : j \in DOMAIN Along => Along[j] \subseteq G)
      /\ (\A j \in G : status[c][j] # "done" => HandedOver(c, j) /\ Turn(c, j))
      /\ (\E j \in G : status[c][j] # "done")
  BY <1>0, <1>1, <1>2, EarlyClosed
<1> QED
  BY <1>3, LeastDeepWorks, Zenon

(* A cycle whose early jobs are done, and those of the next cycle too, can *)
(* go on to its completion.                                                *)
LEMMA LateWorks ==
  ASSUME TypeOK, Closed, Made, Kept, Handed, ~Unmarked, NEW c \in Cycles,
         \A o \in Early \cap Jobs : status[c][o] = "done",
         c + 1 \in Cycles => \A o \in Early \cap Jobs : status[c + 1][o] = "done",
         status[c]["completion"] # "done"
  PROVE  \E j \in Jobs : CanWork(c, j)
<1>0. case.on \subseteq Switches
  BY CaseAssumption DEF TypeOK
<1>1. {"donefile", "forecast", "launch"} \cup Archives \subseteq Early \cap Jobs
  BY JobTable DEF Early, Depth, Jobs, Always, Archives
<1>2. ASSUME NEW d \in Cycles, \A o \in Early \cap Jobs : status[d][o] = "done"
      PROVE  d \in marked
  BY <1>1, <1>2 DEF Unmarked, Is
<1>3. ASSUME NEW j \in Jobs, status[c][j] # "done"
      PROVE  HandedOver(c, j) /\ Turn(c, j)
  <2>1. j \in {"scrub_work", "scrub_com", "completion"}
    BY <1>0, <1>3, EarlyClosed
  <2>2. HandedOver(c, j)
    BY <2>1 DEF HandedOver, Old
  <2>3. c \in marked
    BY <1>2
  <2>4. c + 1 \in Cycles => /\ Is(c + 1, "forecast", {"running", "done"})
                            /\ c + 1 \in marked
                            /\ \A o \in Archives : Is(c + 1, o, {"done"})
    BY <1>1, <1>2 DEF Is
  <2>5. Turn(c, j)
    BY <2>1, <2>3, <2>4 DEF Turn
  <2> QED BY <2>2, <2>5
<1>4. PICK G : G = Jobs
  OBVIOUS
<1>5. "completion" \in Jobs
  BY DEF Jobs, Always
<1>6. G \in SUBSET Jobs
      /\ (\A j \in G : After[j] \cap Jobs \subseteq G)
      /\ (\A j \in G : j \in DOMAIN Along => Along[j] \subseteq G)
      /\ (\A j \in G : status[c][j] # "done" => HandedOver(c, j) /\ Turn(c, j))
      /\ (\E j \in G : status[c][j] # "done")
  BY <1>0, <1>3, <1>4, <1>5, EarlyClosed
<1> QED
  BY <1>6, LeastDeepWorks, Zenon

(* The cycles never wait for each other so that nothing can go on: as long *)
(* as one is not completed, some job of some cycle can be started, can     *)
(* hand over or can end, for every consistent configuration, any number of *)
(* cycles, any cyclethrottle of at least 2 and any failures; unless a done *)
(* file could not be written, which the job that writes it does not        *)
(* report.                                                                 *)
THEOREM NeverStuckHolds == Spec => []NeverStuck
<1>1. TypeOK /\ Closed /\ Made /\ Kept /\ Handed => NeverStuck
  <2> SUFFICES ASSUME TypeOK, Closed, Made, Kept, Handed, ~Unmarked,
                      \E c \in Cycles : status[c]["completion"] # "done"
               PROVE  \E c \in Cycles, j \in Jobs : CanWork(c, j)
    BY DEF NeverStuck, Is
  <2>0. case.cycles \in Nat /\ Cycles \subseteq Nat
    BY CaseAssumption DEF TypeOK, Cycles
  <2>1. PICK c \in Cycles : /\ status[c]["completion"] # "done"
                            /\ \A d \in Cycles : status[d]["completion"] # "done" => c <= d
    <3>1. PICK S : S = {d \in Cycles : status[d]["completion"] # "done"}
      OBVIOUS
    <3>2. S \subseteq Nat /\ S # {}
      BY <2>0, <3>1
    <3>3. PICK c \in S : \A d \in S : c <= d
      BY <3>2, LeastNumber, Zenon
    <3> QED BY <3>1, <3>3
  <2>2. \A d \in 1 .. c - 1 : d \in Cycles /\ status[d]["completion"] = "done"
    BY <2>0, <2>1 DEF Cycles
  <2>3. \A d \in 1 .. c - 1 : \A o \in Jobs \ {"donefile"} : status[d][o] = "done"
    BY <2>2, CompletedIsOver
  <2>4. CASE \E j \in Early \cap Jobs : status[c][j] # "done"
    <3>1. c > 1 => c - 1 \in 1 .. c - 1
      BY <2>0
    <3>2. c > 1 => \A o \in (Early \cap Jobs) \ {"donefile"} : status[c - 1][o] = "done"
      BY <2>3, <3>1
    <3> QED BY <2>2, <2>4, <3>2, EarlyWorks
  <2>5. CASE /\ \A o \in Early \cap Jobs : status[c][o] = "done"
             /\ c + 1 \in Cycles
             /\ \E j \in Early \cap Jobs : status[c + 1][j] # "done"
    <3>1. PICK e \in Cycles : e = c + 1
      BY <2>5
    <3>2. e - 1 = c
      BY <2>0, <3>1
    <3>3. \A d \in 1 .. e - 1 : d # e - 1 => d \in 1 .. c - 1
      BY <2>0, <3>1
    <3>4. \E j \in Jobs : CanWork(e, j)
      BY <2>2, <2>5, <3>1, <3>2, <3>3, EarlyWorks
    <3> QED BY <3>4
  <2>6. CASE /\ \A o \in Early \cap Jobs : status[c][o] = "done"
             /\ c + 1 \in Cycles =>
                  \A o \in Early \cap Jobs : status[c + 1][o] = "done"
    BY <2>1, <2>6, LateWorks
  <2> QED BY <2>4, <2>5, <2>6
<1> QED
  BY <1>1, TypeCorrect, ClosedHolds, MadeHolds, KeptHolds, HandedHolds, PTL

-----------------------------------------------------------------------------
(* What has happened so far, as sets of jobs of cycles: those that have    *)
(* been started, those that are over, and what has been handed over.  A    *)
(* failure takes one start back, and counts twice.                         *)
Started   == {p \in Cycles \X Jobs : status[p[1]][p[2]] # "waiting"}
Over      == {p \in Cycles \X Jobs : status[p[1]][p[2]] = "done"}
Delivered == {p \in Cycles \X {"restart", "track"} : p[2] \in com[p[1]]}

Progress ==
  2 * failures + Cardinality(Started) + Cardinality(Over) + Cardinality(Delivered)
Most == 2 * (MaxFailures + Cardinality(Cycles \X Jobs) + case.cycles)

(* A set of at most six things is finite.                                  *)
LEMMA SixAreFinite ==
  ASSUME NEW a, NEW b, NEW c, NEW d, NEW e, NEW f
  PROVE  IsFiniteSet({a, b, c, d, e, f})
<1>1. IsFiniteSet({a})
  BY FS_Singleton
<1>2. IsFiniteSet({a} \cup {b})
  BY <1>1, FS_AddElement
<1>3. IsFiniteSet(({a} \cup {b}) \cup {c})
  BY <1>2, FS_AddElement
<1>4. IsFiniteSet((({a} \cup {b}) \cup {c}) \cup {d})
  BY <1>3, FS_AddElement
<1>5. IsFiniteSet(((({a} \cup {b}) \cup {c}) \cup {d}) \cup {e})
  BY <1>4, FS_AddElement
<1>6. IsFiniteSet((((({a} \cup {b}) \cup {c}) \cup {d}) \cup {e}) \cup {f})
  BY <1>5, FS_AddElement
<1>7. ((((({a} \cup {b}) \cup {c}) \cup {d}) \cup {e}) \cup {f}) = {a, b, c, d, e, f}
  OBVIOUS
<1> QED
  BY <1>6, <1>7

(* The jobs are finitely many, and so are the cycles.                      *)
LEMMA FinitelyMany ==
  ASSUME TypeOK
  PROVE  /\ IsFiniteSet(Cycles \X Jobs)
         /\ IsFiniteSet(Cycles \X {"restart", "track"})
         /\ Cardinality(Cycles \X {"restart", "track"}) = 2 * case.cycles
<1>0. case.on \subseteq Switches /\ case.cycles \in Nat \ {0}
  BY CaseAssumption DEF TypeOK
<1>1. IsFiniteSet(Cycles) /\ Cardinality(Cycles) = case.cycles
  <2>1. PICK n \in Nat \ {0} : n = case.cycles
    BY <1>0
  <2>2. n \in Int /\ 1 \in Int /\ ~(1 > n) /\ n - 1 + 1 = n
    OBVIOUS
  <2>3. IsFiniteSet(1 .. n) /\ Cardinality(1 .. n) = n
    BY <2>2, FS_Interval
  <2> QED
    BY <2>1, <2>3 DEF Cycles
<1>2. IsFiniteSet(Job)
  <2> DEFINE
        A == {"launch", "atm_prep", "atm_prep_mvnest", "atm_ic", "atm_ic_fgat", "atm_lbc"}
        B == {"ocn_prep", "wav_prep", "obs_prep", "atm_init", "atm_init_fgat", "atm_merge"}
        C == {"atm_merge_fgat", "atm_vi", "atm_vi_fgat", "analysis", "analysis_merge",
              "forecast"}
        D == {"unpost", "atm_post", "ocn_post", "wav_post", "product", "output"}
        E == {"gempak", "hrdgraphics", "emcgraphics", "archive_disk", "archive_tape",
              "donefile"}
        F == {"scrub_work", "scrub_com", "completion", "launch", "launch", "launch"}
  <2>1. IsFiniteSet(A) /\ IsFiniteSet(B) /\ IsFiniteSet(C)
    BY SixAreFinite
  <2>2. IsFiniteSet(D) /\ IsFiniteSet(E) /\ IsFiniteSet(F)
    BY SixAreFinite
  <2>3. Job = (A \cup B) \cup (C \cup D) \cup (E \cup F)
    BY JobTable
  <2> HIDE DEF A, B, C, D, E, F
  <2>4. IsFiniteSet(A \cup B) /\ IsFiniteSet(C \cup D) /\ IsFiniteSet(E \cup F)
    BY <2>1, <2>2, FS_Union
  <2>5. IsFiniteSet((A \cup B) \cup (C \cup D))
    BY <2>4, FS_Union
  <2>6. IsFiniteSet((A \cup B) \cup (C \cup D) \cup (E \cup F))
    BY <2>4, <2>5, FS_Union
  <2> QED
    BY <2>3, <2>6
<1>3. IsFiniteSet(Jobs)
  BY <1>0, <1>2, JobsOfCase, FS_Subset
<1>4. IsFiniteSet({"restart", "track"}) /\ Cardinality({"restart", "track"}) = 2
  <2>1. IsFiniteSet({"restart"}) /\ Cardinality({"restart"}) = 1
    BY FS_Singleton
  <2>2. {"restart", "track"} = {"restart"} \cup {"track"} /\ "track" \notin {"restart"}
    OBVIOUS
  <2> QED
    BY <2>1, <2>2, FS_AddElement
<1>5. IsFiniteSet(Cycles \X Jobs)
  BY <1>1, <1>3, FS_Product
<1>6. /\ IsFiniteSet(Cycles \X {"restart", "track"})
      /\ Cardinality(Cycles \X {"restart", "track"})
           = Cardinality(Cycles) * Cardinality({"restart", "track"})
  BY <1>1, <1>4, FS_Product
<1> QED
  BY <1>0, <1>1, <1>4, <1>5, <1>6

(* The parts of the measure are finite sets, within their bounds.          *)
LEMMA PartsAreFinite ==
  ASSUME TypeOK
  PROVE  /\ IsFiniteSet(Started) /\ Cardinality(Started) \in 0 .. Cardinality(Cycles \X Jobs)
         /\ IsFiniteSet(Over) /\ Cardinality(Over) \in 0 .. Cardinality(Cycles \X Jobs)
         /\ IsFiniteSet(Delivered) /\ Cardinality(Delivered) \in 0 .. 2 * case.cycles
         /\ Cardinality(Cycles \X Jobs) \in Nat
<1> DEFINE P == Cycles \X Jobs
           Q == Cycles \X {"restart", "track"}
<1>1. IsFiniteSet(P) /\ IsFiniteSet(Q) /\ Cardinality(Q) = 2 * case.cycles
  BY FinitelyMany
<1>2. Started \in SUBSET P /\ Over \in SUBSET P /\ Delivered \in SUBSET Q
  BY DEF Started, Over, Delivered
<1> HIDE DEF P, Q
<1>3. IsFiniteSet(Started) /\ Cardinality(Started) <= Cardinality(P)
  BY <1>1, <1>2, FS_Subset
<1>4. IsFiniteSet(Over) /\ Cardinality(Over) <= Cardinality(P)
  BY <1>1, <1>2, FS_Subset
<1>5. IsFiniteSet(Delivered) /\ Cardinality(Delivered) <= Cardinality(Q)
  BY <1>1, <1>2, FS_Subset
<1>6. /\ Cardinality(P) \in Nat /\ Cardinality(Q) \in Nat
      /\ Cardinality(Started) \in Nat /\ Cardinality(Over) \in Nat
      /\ Cardinality(Delivered) \in Nat
  BY <1>1, <1>3, <1>4, <1>5, FS_CardinalityType
<1> QED
  BY <1>1, <1>3, <1>4, <1>5, <1>6 DEF P

(* Every step of the workflow is progress: a start, a hand over or an end  *)
(* adds to what has happened, and a failure, which sends a job back, uses  *)
(* up one of those that are admitted.  The bound stays where it is.        *)
THEOREM EveryStepCounts == Spec => [][Progress' > Progress /\ Most' = Most]_vars
<1>1. TypeOK /\ [Next]_vars => [Progress' > Progress /\ Most' = Most]_vars
  <2> SUFFICES ASSUME TypeOK, Next
               PROVE  Progress' > Progress /\ Most' = Most
    OBVIOUS
  <2>0. Cycles' = Cycles /\ Jobs' = Jobs /\ case' = case
    BY StatusSteps
  <2>1. /\ IsFiniteSet(Started) /\ Cardinality(Started) \in Nat
        /\ IsFiniteSet(Over) /\ Cardinality(Over) \in Nat
        /\ IsFiniteSet(Delivered) /\ Cardinality(Delivered) \in Nat
        /\ failures \in Nat
    BY PartsAreFinite DEF TypeOK
  <2>2. ASSUME NEW c \in Cycles, NEW j \in Jobs, Start(c, j)
        PROVE  Progress' > Progress
    <3>1. status' = [status EXCEPT ![c][j] = "running"] /\ status[c][j] = "waiting"
      BY <2>2 DEF Start, Set, Is
    <3>2. Started' = Started \cup {<<c, j>>} /\ <<c, j>> \notin Started
      BY <2>0, <3>1 DEF Started, TypeOK
    <3>3. Over' = Over
      BY <2>0, <3>1 DEF Over, TypeOK
    <3>4. Delivered' = Delivered /\ failures' = failures
      BY <2>0, <2>2 DEF Start, Delivered
    <3>5. Cardinality(Started') = Cardinality(Started) + 1
      BY <2>1, <3>2, FS_AddElement
    <3> QED
      BY <2>1, <3>3, <3>4, <3>5 DEF Progress
  <2>3. ASSUME NEW c \in Cycles, NEW j \in Jobs, HandOver(c, j)
        PROVE  Progress' > Progress
    <3>1. Started' = Started /\ Over' = Over /\ failures' = failures
      BY <2>0, <2>3 DEF HandOver, Started, Over
    <3>2. Hands[j] \in {"restart", "track"}
      BY <2>3 DEF HandOver, Hands
    <3>3. com' = [com EXCEPT ![c] = @ \cup {Hands[j]}] /\ Hands[j] \notin com[c]
      BY <2>3 DEF HandOver
    <3>4. Delivered' = Delivered \cup {<<c, Hands[j]>>} /\ <<c, Hands[j]>> \notin Delivered
      BY <2>0, <3>2, <3>3 DEF Delivered, TypeOK
    <3>5. Cardinality(Delivered') = Cardinality(Delivered) + 1
      BY <2>1, <3>4, FS_AddElement
    <3> QED
      BY <2>1, <3>1, <3>5 DEF Progress
  <2>4. ASSUME NEW c \in Cycles, NEW j \in Jobs, status[c][j] = "running",
               status' = [status EXCEPT ![c][j] = "done"], com' = com,
               failures' \in {failures, failures + 1}
        PROVE  Progress' > Progress
    <3>1. Started' = Started
      BY <2>0, <2>4 DEF Started, TypeOK
    <3>2. Over' = Over \cup {<<c, j>>} /\ <<c, j>> \notin Over
      BY <2>0, <2>4 DEF Over, TypeOK
    <3>3. Delivered' = Delivered
      BY <2>0, <2>4 DEF Delivered
    <3>4. Cardinality(Over') = Cardinality(Over) + 1
      BY <2>1, <3>2, FS_AddElement
    <3> QED
      BY <2>1, <2>4, <3>1, <3>3, <3>4 DEF Progress
  <2>5. ASSUME NEW c \in Cycles, NEW j \in Jobs, End(c, j)
        PROVE  Progress' > Progress
    BY <2>4, <2>5 DEF End, Set, Is
  <2>6. ASSUME NEW c \in Cycles, EndUnmarked(c)
        PROVE  Progress' > Progress
    <3>1. "donefile" \in Jobs
      BY DEF Jobs, Always
    <3> QED
      BY <2>4, <2>6, <3>1 DEF EndUnmarked, Set, Is
  <2>7. ASSUME NEW c \in Cycles, NEW j \in Jobs, Fail(c, j)
        PROVE  Progress' > Progress
    <3>1. status' = [status EXCEPT ![c][j] = "waiting"] /\ status[c][j] = "running"
      BY <2>7 DEF Fail, Set, Is
    <3>2. Started' = Started \ {<<c, j>>} /\ <<c, j>> \in Started
      BY <2>0, <3>1 DEF Started, TypeOK
    <3>3. Over' = Over
      BY <2>0, <3>1 DEF Over, TypeOK
    <3>4. Delivered' = Delivered /\ failures' = failures + 1
      BY <2>0, <2>7 DEF Fail, Delivered
    <3>5. Cardinality(Started') = Cardinality(Started) - 1
      BY <2>1, <3>2, FS_RemoveElement
    <3> QED
      BY <2>1, <3>3, <3>4, <3>5 DEF Progress
  <2>8. Most' = Most
    BY <2>0 DEF Most
  <2> QED
    BY <2>2, <2>3, <2>5, <2>6, <2>7, <2>8 DEF Next, Work
<1> QED
  BY <1>1, TypeCorrect, PTL DEF Spec

(* There is an end to the progress: for each case a number of steps after  *)
(* which nothing can happen any more, whatever order the jobs run in, and  *)
(* by NeverStuckHolds every cycle is completed then, or a done file has    *)
(* not been written.                                                       *)
THEOREM StepsBounded == Spec => [](Progress \in 0 .. Most)
<1>1. TypeOK => Progress \in 0 .. Most
  <2> SUFFICES ASSUME TypeOK
               PROVE  Progress \in 0 .. Most
    OBVIOUS
  <2>1. failures \in 0 .. MaxFailures /\ MaxFailures \in Nat /\ case.cycles \in Nat
    BY CaseAssumption DEF TypeOK
  <2>2. /\ Cardinality(Started) \in 0 .. Cardinality(Cycles \X Jobs)
        /\ Cardinality(Over) \in 0 .. Cardinality(Cycles \X Jobs)
        /\ Cardinality(Delivered) \in 0 .. 2 * case.cycles
        /\ Cardinality(Cycles \X Jobs) \in Nat
    BY PartsAreFinite
  <2> QED
    BY <2>1, <2>2 DEF Progress, Most
<1> QED
  BY <1>1, TypeCorrect, PTL

=============================================================================
