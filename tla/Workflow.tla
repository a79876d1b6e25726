-------------------------------- MODULE Workflow --------------------------------
(***************************************************************************)
(* The jobs of hafs_workflow.xml.in.  The workflow manager starts a job    *)
(* of a cycle when its dependencies are met; a job that fails is started   *)
(* again.  The jobs before the forecast hand directories to each other,    *)
(* RESTART_<step>, and the reader chooses by the switches of the           *)
(* configuration and by what it finds: no dependency names a directory.    *)
(* Three jobs delete what a cycle has written, when this cycle and the     *)
(* next one do not need it any more.                                       *)
(*                                                                         *)
(* The three tasks of an fgat metatask and the groups of atm_lbc and       *)
(* atm_post are one job each.  With a regional domain, a forecast of the   *)
(* atmosphere, and no ensemble.                                            *)
(***************************************************************************)
EXTENDS Naturals, FiniteSets

CONSTANTS
  Cases,         \* the configurations: records, see CaseAssumption
  Throttle,      \* cyclethrottle: cycles that are worked on at a time
  MaxFailures    \* MAX_TRIES: bound on the jobs that fail

-----------------------------------------------------------------------------
(* The jobs, those of a switch, and what each waits for, if it is there:   *)
(* After until it has ended, Along until it has started.                   *)
Always == {"launch", "atm_prep", "atm_ic", "atm_lbc", "forecast", "unpost",
           "atm_post", "product", "output", "archive_disk", "archive_tape",
           "donefile", "scrub_work", "scrub_com", "completion"}

Switched == [
  mvnest         |-> {"atm_prep_mvnest"},
  init           |-> {"atm_init"},
  init_fgat      |-> {"atm_ic_fgat", "atm_init_fgat"},
  merge          |-> {"atm_merge"},
  merge_fgat     |-> {"atm_merge_fgat"},
  vi             |-> {"atm_vi"},
  vi_fgat        |-> {"atm_vi_fgat"},
  gsi            |-> {"obs_prep", "analysis"},
  analysis_merge |-> {"analysis_merge"},
  ocean          |-> {"ocn_prep", "ocn_post"},
  wave           |-> {"wav_prep", "wav_post"},
  gempak         |-> {"gempak"},
  hrdgraphics    |-> {"hrdgraphics"},
  emcgraphics    |-> {"emcgraphics"},
  warm           |-> {}]                     \* warm_start_opt = -1
Switches == DOMAIN Switched

Posts    == {"atm_post", "ocn_post", "wav_post"}
Graphics == {"gempak", "hrdgraphics", "emcgraphics"}
Archives == {"archive_disk", "archive_tape"}
Scrubs   == {"scrub_work", "scrub_com"}

After == [
  launch          |-> {},
  atm_prep        |-> {"launch"},
  atm_prep_mvnest |-> {"launch"},
  atm_ic          |-> {"atm_prep"},
  atm_ic_fgat     |-> {"atm_prep"},
  atm_lbc         |-> {"atm_prep"},
  ocn_prep        |-> {"atm_prep"},
  wav_prep        |-> {"atm_prep"},
  obs_prep        |-> {},
  atm_init        |-> {"atm_ic"},
  atm_init_fgat   |-> {"atm_ic_fgat"},
  atm_merge       |-> {"atm_init"},
  atm_merge_fgat  |-> {"atm_init_fgat"},
  atm_vi          |-> {"atm_init"},
  atm_vi_fgat     |-> {"atm_init_fgat"},
  analysis        |-> {"atm_ic", "obs_prep", "atm_vi_fgat", "atm_merge_fgat"},
  analysis_merge  |-> {"atm_init", "atm_vi", "analysis"},
  forecast        |-> {"atm_prep_mvnest", "atm_ic", "atm_lbc", "ocn_prep", "wav_prep",
                       "atm_init", "atm_merge", "atm_vi", "analysis", "analysis_merge"},
  unpost          |-> {},
  atm_post        |-> {"unpost"},
  ocn_post        |-> {"forecast", "unpost"},
  wav_post        |-> {"forecast", "unpost"},
  product         |-> {},
  output          |-> {"product"},
  gempak          |-> {},
  hrdgraphics     |-> {},
  emcgraphics     |-> {},
  archive_disk    |-> {"forecast", "product", "output"} \cup Posts \cup Graphics,
  archive_tape    |-> {"forecast", "product", "output", "archive_disk"}
                        \cup Posts \cup Graphics,
  donefile        |-> {"product", "output", "gempak"} \cup Posts,
  scrub_work      |-> Archives,
  scrub_com       |-> Archives \cup {"scrub_work"},
  completion      |-> Archives \cup Scrubs \cup {"donefile"}]

Along == [
  obs_prep    |-> {"atm_ic"},
  unpost      |-> {"forecast"},
  atm_post    |-> {"forecast"},
  product     |-> {"atm_post"},
  gempak      |-> {"product"},
  hrdgraphics |-> {"product"},
  emcgraphics |-> {"product"}]

Job    == DOMAIN After
Makers == {"atm_init", "atm_merge", "atm_vi", "atm_init_fgat", "atm_merge_fgat",
           "atm_vi_fgat", "analysis", "analysis_merge"}

(* What a job reads of the previous cycle's COM, and who put it there.     *)
Old == [
  atm_merge      |-> {"restart"},
  atm_merge_fgat |-> {"restart"},
  atm_vi         |-> {"restart", "track"},
  atm_vi_fgat    |-> {"restart", "track"},
  analysis       |-> {"restart"},
  wav_prep       |-> {"restart", "track"}]
Hands == [atm_post |-> "restart", product |-> "track"]

(* A switch of a step comes with the switch of the step that it waits for, *)
(* and the first guess of the analysis only with the analysis.  Where the  *)
(* analysis reads a step's directory, a first guess switch is on too.      *)
Fgat == {"vi_fgat", "merge_fgat"}
Consistent(on) ==
  /\ on \cap {"vi", "merge", "analysis_merge"} # {} => "init" \in on
  /\ on \cap Fgat # {} => "init_fgat" \in on
  /\ "init_fgat" \in on => "gsi" \in on
  /\ "gsi" \in on /\ on \cap {"init", "init_fgat"} # {} => on \cap Fgat # {}
  /\ "analysis_merge" \in on => on \cap {"gsi", "vi"} # {}

ASSUME CaseAssumption ==
  /\ \A k \in Cases : k.on \subseteq Switches /\ Consistent(k.on)
  /\ \A k \in Cases : k.cycles \in Nat \ {0}
  /\ Throttle \in Nat \ {0, 1} /\ MaxFailures \in Nat

VARIABLES
  case,        \* the configuration
  status,      \* the workflow's database: the state of every job of every cycle
  dir,         \* the RESTART directories in intercom, by the job that writes them
  from,        \* the directory that the forecast started from
  com,         \* what has come to COM for the next cycle
  scrubbed,    \* what of a cycle has been deleted
  marked,      \* the cycles with a done file
  failures

vars == <<case, status, dir, from, com, scrubbed, marked, failures>>

Cycles == 1 .. case.cycles
Jobs   == Always \cup UNION {Switched[s] : s \in case.on}
Is(c, j, states) == status[c][j] \in states

Init ==
  /\ case \in Cases
  /\ status = [c \in Cycles |-> [j \in Jobs |-> "waiting"]]
  /\ dir = [c \in Cycles |-> [m \in Makers |-> "none"]]
  /\ from = [c \in Cycles |-> "nothing"]
  /\ com = [c \in Cycles |-> {}] /\ scrubbed = [c \in Cycles |-> {}]
  /\ marked = {} /\ failures = 0

-----------------------------------------------------------------------------
(* The dependencies.                                                       *)
Met(c, j, others) ==
  /\ \A o \in others \cap Jobs : Is(c, o, {"done"})
  /\ j \in DOMAIN Along => \A o \in Along[j] : Is(c, o, {"running", "done"})

HandedOver(c, j) ==
  j \in DOMAIN Old /\ c > 1 => Old[j] \subseteq com[c - 1] /\ "com" \notin scrubbed[c - 1]

Active(c) ==
  Cardinality({d \in 1 .. c - 1 : ~Is(d, "completion", {"done"})}) < Throttle

(* The cycle before, the cycle after, and the done file, which the scrub   *)
(* jobs wait for: not for the job that writes it.                          *)
Turn(c, j) ==
  /\ j = "launch" =>
       (c > 1 => Is(c - 1, "launch", {"done"})) /\ Active(c)
  /\ j \in Scrubs => c \in marked
  /\ j = "scrub_work" /\ c + 1 \in Cycles =>
       \/ Is(c + 1, "forecast", {"running", "done"})
       \/ Is(c + 1, "scrub_work", {"done"})
  /\ j = "scrub_com" /\ c + 1 \in Cycles =>
       \/ c + 1 \in marked /\ \A o \in Archives : Is(c + 1, o, {"done"})
       \/ Is(c + 1, "scrub_com", {"done"})

(* Mutant: the analysis does not wait for the first guess.                 *)
ReadyNoGuess(c, j) ==
  Met(c, j, After[j] \ (IF j = "analysis" THEN {"atm_vi_fgat", "atm_merge_fgat"} ELSE {}))
    /\ HandedOver(c, j) /\ Turn(c, j)

(* Mutant: the forecast does not wait for analysis_merge.                  *)
ReadyNoMerge(c, j) ==
  Met(c, j, After[j] \ (IF j = "forecast" THEN {"analysis_merge"} ELSE {}))
    /\ HandedOver(c, j) /\ Turn(c, j)

(* Mutant: the scrub jobs look at their own cycle only.                    *)
ReadyScrubs(c, j) ==
  /\ Met(c, j, After[j]) /\ HandedOver(c, j)
  /\ IF j \in Scrubs THEN c \in marked ELSE Turn(c, j)

(* Mutant: a cycle is launched when the one before is over.                *)
ReadyInTurn(c, j) ==
  /\ Met(c, j, After[j]) /\ HandedOver(c, j) /\ Turn(c, j)
  /\ j = "launch" /\ c > 1 => Is(c - 1, "completion", {"done"})

(* A scrubbed cycle may also go straight to donefile and completion.       *)
Ready(c, j) ==
  \/ Met(c, j, After[j]) /\ HandedOver(c, j) /\ Turn(c, j)
  \/ j \in {"donefile", "completion"} /\ \A s \in Scrubs : Is(c, s, {"done"})

-----------------------------------------------------------------------------
(* What the jobs read.  The test -s finds a file in a whole directory, and *)
(* may find it in one that is being written.                               *)
Finds(c, m, seen) == dir[c][m] = "whole" \/ (dir[c][m] = "part" /\ seen)
OldRestart(c) == c > 1 /\ "restart" \in com[c - 1] /\ "com" \notin scrubbed[c - 1]

(* The first of these that is switched on is the first guess.              *)
Guess ==
  IF "vi_fgat" \in case.on THEN "atm_vi_fgat"
  ELSE IF "merge_fgat" \in case.on THEN "atm_merge_fgat"
  ELSE IF "init_fgat" \in case.on THEN "atm_init_fgat"
  ELSE IF "vi" \in case.on THEN "atm_vi"
  ELSE IF "merge" \in case.on THEN "atm_merge"
  ELSE IF "init" \in case.on THEN "atm_init"
  ELSE "com"

(* The last of these that is there is where the forecast starts from.      *)
Source(c, seen) ==
  IF "analysis_merge" \in Jobs /\ Finds(c, "analysis_merge", seen) THEN "analysis_merge"
  ELSE IF "analysis" \in Jobs /\ Finds(c, "analysis", seen) THEN "analysis"
  ELSE IF "atm_vi" \in Jobs /\ Finds(c, "atm_vi", seen) THEN "atm_vi"
  ELSE IF "atm_merge" \in Jobs /\ Finds(c, "atm_merge", seen) THEN "atm_merge"
  ELSE IF "atm_init" \in Jobs /\ Finds(c, "atm_init", seen) THEN "atm_init"
  ELSE IF "warm" \in case.on /\ OldRestart(c) THEN "com"
  ELSE "cold"

Merged(c) == IF dir[c]["analysis"] # "none" THEN "analysis" ELSE "atm_vi"

Inputs(c, j, seen) ==
  Makers \cap
  (IF j \in {"atm_merge", "atm_vi"} THEN {"atm_init"}
   ELSE IF j \in {"atm_merge_fgat", "atm_vi_fgat"} THEN {"atm_init_fgat"}
   ELSE IF j = "analysis" THEN {Guess}
   ELSE IF j = "analysis_merge" THEN {Merged(c), "atm_init"}
   ELSE IF j = "forecast" THEN {Source(c, seen)}
   ELSE {})

(* An analysis without a first guess does nothing, and says it went well.  *)
NoGuess(c) == IF Guess = "com" THEN ~OldRestart(c) ELSE dir[c][Guess] # "whole"

Set(c, j, s) == status' = [status EXCEPT ![c][j] = s]

Start(c, j) ==
  /\ Is(c, j, {"waiting"}) /\ Ready(c, j)
  /\ Set(c, j, "running")
  /\ dir' = IF j \notin Makers THEN dir
            ELSE [dir EXCEPT ![c][j] =
                    IF j = "analysis" /\ NoGuess(c) THEN "empty" ELSE "part"]
  /\ IF j = "forecast" THEN \E seen \in BOOLEAN : from' = [from EXCEPT ![c] = Source(c, seen)]
                       ELSE UNCHANGED from
  /\ scrubbed' = [scrubbed EXCEPT ![c] = @ \cup (CASE j = "scrub_work" -> {"work"}
                                                   [] j = "scrub_com"  -> {"com"}
                                                   [] OTHER            -> {})]
  /\ UNCHANGED <<case, com, marked, failures>>

(* atm_post and product hand over while they run.                          *)
HandOver(c, j) ==
  /\ j \in DOMAIN Hands /\ Is(c, j, {"running"}) /\ Hands[j] \notin com[c]
  /\ com' = [com EXCEPT ![c] = @ \cup {Hands[j]}]
  /\ UNCHANGED <<case, status, dir, from, scrubbed, marked, failures>>

End(c, j) ==
  /\ Is(c, j, {"running"})
  /\ j \in DOMAIN Hands => Hands[j] \in com[c]
  /\ j = "analysis_merge" => \A m \in {Merged(c), "atm_init"} : dir[c][m] = "whole"
  /\ Set(c, j, "done")
  /\ dir' = IF j \in Makers /\ dir[c][j] = "part"
            THEN [dir EXCEPT ![c][j] = "whole"] ELSE dir
  /\ marked' = IF j = "donefile" THEN marked \cup {c} ELSE marked
  /\ UNCHANGED <<case, from, com, scrubbed, failures>>

(* hafs_donefile.py logs the error of its open, and ends like any other.   *)
EndUnmarked(c) ==
  /\ Is(c, "donefile", {"running"}) /\ failures < MaxFailures
  /\ Set(c, "donefile", "done") /\ failures' = failures + 1
  /\ UNCHANGED <<case, dir, from, com, scrubbed, marked>>

(* donefile may fail with its file written or not.                         *)
Fail(c, j) ==
  /\ Is(c, j, {"running"}) /\ failures < MaxFailures
  /\ Set(c, j, "waiting") /\ failures' = failures + 1
  /\ \E written \in SUBSET {c} :
       marked' = IF j = "donefile" THEN marked \cup written ELSE marked
  /\ UNCHANGED <<case, dir, from, com, scrubbed>>

Work(c, j) == Start(c, j) \/ HandOver(c, j) \/ End(c, j)
Next == \E c \in Cycles :
          EndUnmarked(c) \/ \E j \in Jobs : Work(c, j) \/ Fail(c, j)

Spec == Init /\ [][Next]_vars

(* The manager starts what it can, and the jobs end.                       *)
FairSpec == Spec /\ WF_vars(\E c \in Cycles, j \in Jobs : Work(c, j))

-----------------------------------------------------------------------------
TypeOK ==
  /\ case \in Cases
  /\ status \in [Cycles -> [Jobs -> {"waiting", "running", "done"}]]
  /\ dir \in [Cycles -> [Makers -> {"none", "part", "empty", "whole"}]]
  /\ from \in [Cycles -> Makers \cup {"nothing", "com", "cold"}]
  /\ com \in [Cycles -> SUBSET {"restart", "track"}]
  /\ scrubbed \in [Cycles -> SUBSET {"work", "com"}]
  /\ marked \subseteq Cycles
  /\ failures \in 0 .. MaxFailures

(* A job that starts finds the directories that it chooses complete,       *)
(* although no dependency names them: neither the analysis nor the merge   *)
(* nor the forecast reads what another job is writing or has left half     *)
(* written.                                                                *)
InputsWhole ==
  [][\A c \in Cycles : \A j \in Jobs : \A seen \in BOOLEAN :
       status[c][j] = "waiting" /\ status'[c][j] = "running" =>
         \A m \in Inputs(c, j, seen) : dir[c][m] = "whole"]_vars

(* The forecast starts from the last of the steps that are switched on     *)
(* (the order in which exhafs_forecast.sh tests them), and no earlier one  *)
(* because a later one was not there yet; the analysis alone may have had  *)
(* nothing to work on.                                                     *)
Rank == [atm_init |-> 1, atm_merge |-> 2, atm_vi |-> 3, analysis |-> 4,
         analysis_merge |-> 5]
WarmestStart ==
  \A c \in Cycles : Is(c, "forecast", {"running", "done"}) =>
    \A m \in DOMAIN Rank \cap Jobs :
      \/ from[c] \in DOMAIN Rank /\ Rank[m] <= Rank[from[c]]
      \/ m = "analysis" /\ dir[c][m] = "empty"

(* When the work directory of a cycle is deleted no job waits to use it    *)
(* (donefile does not), and when its COM is, no job of the next cycle      *)
(* waits to read it.                                                       *)
NotScrubbed ==
  \A c \in Cycles :
    /\ scrubbed[c] # {} =>
         \A j \in Jobs \ (Scrubs \cup {"donefile", "completion"}) : Is(c, j, {"done"})
    /\ "com" \in scrubbed[c] /\ c + 1 \in Cycles =>
         \A j \in Jobs \cap DOMAIN Old : Is(c + 1, j, {"done"})

(* Every cycle is completed, through failures and however the cycles wait  *)
(* for each other: unless a done file could not be written, which the job  *)
(* that writes it does not report.                                         *)
Unmarked == \E c \in Cycles : Is(c, "donefile", {"done"}) /\ c \notin marked
CycleCompletes ==
  <>(Unmarked \/ \A c \in Cycles : Is(c, "completion", {"done"}))
=============================================================================
