------------------------------- MODULE PostFlow -------------------------------
(***************************************************************************)
(* The forecast job, the jobs that follow it hour by hour while it runs -  *)
(* atm_post in groups, ocn_post, gempak - and the files by which alone     *)
(* they know of each other: the model's output and its log.atm.fHHH, the   *)
(* products in COM and intercom, and the "done" files.                     *)
(*                                                                         *)
(* A file is the number of the forecast run that its content comes from,   *)
(* 0 if there is none.  The forecast hours are counted in output           *)
(* intervals (NOUTHRS).  One domain is modelled, with SENDCOM=YES and      *)
(* POST_CLEANUP=NO.                                                        *)
(***************************************************************************)
EXTENDS Naturals

CONSTANTS
  Last,          \* NHRS, the last forecast hour
  Groups,        \* POST_GROUPN, how many atm_post jobs share the hours
  Stride,        \* gempak's finc
  Earliest,      \* the first hour that FORECAST_RESTART may go on from
  MaxRuns,       \* bound on the runs of the forecast
  Flows          \* which jobs follow the forecast: records, see FlowAssumption

ASSUME FlowAssumption ==
  /\ Last \in Nat /\ MaxRuns \in Nat /\ Earliest \in Nat
  /\ Groups \in Nat \ {0} /\ Stride \in Nat \ {0}
  /\ Flows \subseteq [atm : SUBSET (0 .. Groups - 1), ocn : BOOLEAN, gempak : BOOLEAN]

VARIABLES
  fcst, fhour,             \* the forecast job: what it does, and at which hour
  run,                     \* its number of runs
  from,                    \* the first hour that this run computes
  hist, log,               \* the model's output, and whether log.atm.fHHH exists
  res,                     \* the hours that have a coupler.res are those before it
  missed,                  \* history: hours that a restart goes on after without a log
  post, phour, psrc,       \* the atm_post jobs; what an hour's work was made from
  grb, idx, trk, done,     \* their products and done files
  over,                    \* history: see Overtaken
  ocn, ohour, cmdfile,     \* ocn_post and the hours it has still to deliver
  onc, odone, oover,       \* its product and done files
  gem, ghour, gsrc,        \* gempak
  gout, gdone, gover       \* its product and done files

model  == <<fcst, fhour, run, from, hist, log, res, missed>>
atm    == <<post, phour, psrc, grb, idx, trk, done, over>>
ocean  == <<ocn, ohour, cmdfile, onc, odone, oover>>
gempak == <<gem, ghour, gsrc, gout, gdone, gover>>
vars   == <<model, atm, ocean, gempak>>

Hours == 0 .. Last
Jobs  == 0 .. Groups - 1

(* A done file, beside the file that it is compared with.                  *)
Marks == {"none", "older", "newer"}
Aged(m) == IF m = "newer" THEN "older" ELSE m

Active(pc) == pc \notin {"off", "queued", "complete"}

(* What has become of an hour's product when the file that it was made     *)
(* from is taken away: the job had gone past the hour or was at work on it *)
(* ("late"), has taken it up again since ("again"), or will find it to do. *)
Overtaken == {"no", "late", "again"}

Init ==
  /\ fcst = "queued" /\ fhour = 0 /\ run = 0 /\ from = 0
  /\ hist = [h \in Hours |-> 0] /\ log = [h \in Hours |-> FALSE]
  /\ res = 0 /\ missed = {}
  /\ \E flow \in Flows :
       LET First(follows) == IF follows THEN "queued" ELSE "off"
       IN  /\ post = [i \in Jobs |-> First(i \in flow.atm)]
           /\ ocn = First(flow.ocn) /\ gem = First(flow.gempak)
  /\ phour = [i \in Jobs |-> i]
  /\ psrc = [i \in Jobs |-> 0]
  /\ grb = hist /\ idx = hist /\ trk = hist
  /\ done = [h \in Hours |-> "none"] /\ over = [h \in Hours |-> "no"]
  /\ ohour = 1 /\ cmdfile = {}
  /\ onc = hist /\ odone = done /\ oover = over
  /\ ghour = 0 /\ gsrc = 0
  /\ gout = hist /\ gdone = done /\ gover = over

-----------------------------------------------------------------------------
(* What follows the forecast, past an hour or at work on it.               *)
PostPast(h) ==
  LET i == h % Groups
  IN  \/ post[i] = "complete"
      \/ Active(post[i]) /\ phour[i] > h
      \/ post[i] \in {"track", "grb", "idx", "mark"} /\ phour[i] = h

OceanPast(h) ==
  \/ ocn = "complete"
  \/ Active(ocn) /\ IF h = 0 THEN ocn = "flush" ELSE ohour > h

GempakPast(h) ==
  \/ gem = "complete"
  \/ Active(gem) /\ ghour > h
  \/ gem \in {"gout", "mark"} /\ ghour = h

(* The forecast job, for the first time or again: FORECAST_RESTART goes on *)
(* after the last hour that it has restart files of or after an earlier    *)
(* one, whatever the logs say; otherwise the run starts at hour 0.  The    *)
(* jobs that follow it may be running; of those that have ended some may   *)
(* be requeued with it.                                                    *)
Restartable(h) == h >= Earliest /\ h < res

(* Mutant: the clean-up of a restart goes one hour further back.           *)
StartForecastBefore ==
  /\ fcst \in {"queued", "complete"} /\ run < MaxRuns
  /\ run' = run + 1
  /\ from' \in {0} \cup {h \in 1 .. Last + 1 : Restartable(h - 1)}
  /\ fcst' = IF from' = 0 THEN "wipe" ELSE "clean log"
  /\ fhour' = IF from' > 0 THEN from' - 1 ELSE 0
  /\ missed' = {h \in Hours : h < from' /\ ~log[h]}
  /\ \E again \in SUBSET Jobs :
       post' = [i \in Jobs |-> IF i \in again /\ post[i] = "complete" THEN "queued" ELSE post[i]]
  /\ ocn' \in {ocn, IF ocn = "complete" THEN "queued" ELSE ocn}
  /\ gem' \in {gem, IF gem = "complete" THEN "queued" ELSE gem}
  /\ UNCHANGED <<hist, log, res, phour, psrc, grb, idx, trk, done, over, ohour, cmdfile,
                 onc, odone, oover, ghour, gsrc, gout, gdone, gover>>

StartForecast ==
  /\ fcst \in {"queued", "complete"} /\ run < MaxRuns
  /\ run' = run + 1
  /\ from' \in {0} \cup {h \in 1 .. Last + 1 : Restartable(h - 1)}
  /\ fcst' = CASE from' = 0           -> "wipe"
               [] from' \in 1 .. Last -> "clean log"
               [] from' = Last + 1    -> "model"
  /\ fhour' = from'
  /\ missed' = {h \in Hours : h < from' /\ ~log[h]}
  /\ \E again \in SUBSET Jobs :
       post' = [i \in Jobs |-> IF i \in again /\ post[i] = "complete" THEN "queued" ELSE post[i]]
  /\ ocn' \in {ocn, IF ocn = "complete" THEN "queued" ELSE ocn}
  /\ gem' \in {gem, IF gem = "complete" THEN "queued" ELSE gem}
  /\ UNCHANGED <<hist, log, res, phour, psrc, grb, idx, trk, done, over, ohour, cmdfile,
                 onc, odone, oover, ghour, gsrc, gout, gdone, gover>>

(* A run from hour 0 removes the restart files, and all output and logs.   *)
Wipe ==
  /\ fcst = "wipe"
  /\ \/ res > 0 /\ res' = 0 /\ UNCHANGED <<fcst, hist, log>>
     \/ /\ res = 0
        /\ hist' = [h \in Hours |-> 0] /\ log' = [h \in Hours |-> FALSE]
        /\ fcst' = "clean log" /\ UNCHANGED res
  /\ UNCHANGED <<fhour, run, from, missed, atm, ocean, gempak>>

(* The loop over the hours that are run again: first the log file.         *)
CleanLog ==
  /\ fcst = "clean log"
  /\ log' = [log EXCEPT ![fhour] = FALSE]
  /\ fcst' = "clean post"
  /\ UNCHANGED <<fhour, run, from, hist, res, missed, atm, ocean, gempak>>

NextClean ==
  IF fhour < Last THEN fcst' = "clean log" /\ fhour' = fhour + 1
                  ELSE fcst' = "model" /\ fhour' = from

Overtake(past) == IF past THEN "late" ELSE "no"

(* Mutant: the done files of the earlier run are left.                     *)
CleanTrackOnly ==
  /\ fcst = "clean post"
  /\ trk' = [trk EXCEPT ![fhour] = 0]
  /\ over' = [over EXCEPT ![fhour] = Overtake(PostPast(fhour))]
  /\ oover' = [oover EXCEPT ![fhour] = Overtake(OceanPast(fhour))]
  /\ gover' = [gover EXCEPT ![fhour] = Overtake(GempakPast(fhour))]
  /\ NextClean
  /\ UNCHANGED <<run, from, hist, log, res, missed, post, phour, psrc, grb, idx, done,
                 ocn, ohour, cmdfile, onc, odone, gem, ghour, gsrc, gout, gdone>>

(* Then what post, ocn_post and gempak left: not what is in COM.           *)
CleanPost ==
  /\ fcst = "clean post"
  /\ done' = [done EXCEPT ![fhour] = "none"]
  /\ trk' = [trk EXCEPT ![fhour] = 0]
  /\ odone' = [odone EXCEPT ![fhour] = "none"]
  /\ gdone' = [gdone EXCEPT ![fhour] = "none"]
  /\ over' = [over EXCEPT ![fhour] = Overtake(PostPast(fhour))]
  /\ oover' = [oover EXCEPT ![fhour] = Overtake(OceanPast(fhour))]
  /\ gover' = [gover EXCEPT ![fhour] = Overtake(GempakPast(fhour))]
  /\ NextClean
  /\ UNCHANGED <<run, from, hist, log, res, missed, post, phour, psrc, grb, idx,
                 ocn, ohour, cmdfile, onc, gem, ghour, gsrc, gout>>

(* hafs_forecast.x writes the output of an hour, and the log when that is  *)
(* complete; its restart files before the next hour's output.              *)
ModelWrites ==
  /\ fcst = "model" /\ fhour \in Hours /\ fhour <= res /\ hist[fhour] # run
  /\ hist' = [hist EXCEPT ![fhour] = run]
  /\ UNCHANGED <<fcst, fhour, run, from, log, res, missed, atm, ocean, gempak>>

ModelLogs ==
  /\ fcst = "model" /\ fhour \in Hours /\ hist[fhour] = run
  /\ log' = [log EXCEPT ![fhour] = TRUE]
  /\ done' = [done EXCEPT ![fhour] = Aged(@)]
  /\ odone' = [odone EXCEPT ![fhour] = Aged(@)]
  /\ fhour' = fhour + 1
  /\ UNCHANGED <<fcst, run, from, hist, res, missed, post, phour, psrc, grb, idx, trk, over,
                 ocn, ohour, cmdfile, onc, oover, gempak>>

ModelRestarts ==
  /\ fcst = "model" /\ res < fhour + 1 /\ res \in Hours
  /\ res' = res + 1
  /\ UNCHANGED <<fcst, fhour, run, from, hist, log, missed, atm, ocean, gempak>>

ForecastEnds ==
  /\ fcst = "model" /\ fhour > Last /\ res > Last
  /\ fcst' = "complete" /\ fhour' = 0 /\ from' = 0
  /\ UNCHANGED <<run, hist, log, res, missed, atm, ocean, gempak>>

ForecastDies ==
  /\ Active(fcst)
  /\ fcst' = "queued" /\ fhour' = 0 /\ from' = 0
  /\ UNCHANGED <<run, hist, log, res, missed, atm, ocean, gempak>>

(* The workflow starts the jobs as soon as the forecast is active.         *)
Started == fcst # "queued"

(* [ mark -nt log ]: also true when there is no log.                       *)
NewerThanLog(marks, h) == marks[h] # "none" /\ (log[h] => marks[h] = "newer")

-----------------------------------------------------------------------------
(* atm_post: group i has the hours i, i + Groups, ...                      *)
PostGoto(i, pc) == post' = [post EXCEPT ![i] = pc]

StartPost(i) ==
  /\ post[i] = "queued" /\ Started
  /\ PostGoto(i, "check")
  /\ UNCHANGED <<phour, psrc, grb, idx, trk, done, over, model, ocean, gempak>>

NextHour(i) == phour' = [phour EXCEPT ![i] = @ + Groups]

(* What the process knew goes with it; the next one begins at hour i.      *)
PostLeaves(i, pc) ==
  /\ PostGoto(i, pc)
  /\ phour' = [phour EXCEPT ![i] = i] /\ psrc' = [psrc EXCEPT ![i] = 0]
  /\ UNCHANGED <<grb, idx, trk, done, over, model, ocean, gempak>>

Posted(h) == NewerThanLog(done, h) /\ grb[h] # 0 /\ idx[h] # 0

SkipPost(i) ==
  /\ post[i] = "check" /\ phour[i] \in Hours
  /\ Posted(phour[i])
  /\ NextHour(i)
  /\ UNCHANGED <<post, psrc, grb, idx, trk, done, over, model, ocean, gempak>>

NeedPost(i) ==
  /\ post[i] = "check" /\ phour[i] \in Hours
  /\ ~Posted(phour[i])
  /\ PostGoto(i, "wait")
  /\ UNCHANGED <<phour, psrc, grb, idx, trk, done, over, model, ocean, gempak>>

Ready(h) == log[h] /\ hist[h] # 0

TakenUp(o) == IF o = "late" THEN "again" ELSE o
MadeUp(o)  == IF o = "again" THEN "no" ELSE o

(* The wait ends: post runs on the output of the hour.                     *)
RunPost(i) ==
  /\ post[i] = "wait" /\ Ready(phour[i])
  /\ psrc' = [psrc EXCEPT ![i] = hist[phour[i]]]
  /\ PostGoto(i, "track")
  /\ over' = [over EXCEPT ![phour[i]] = TakenUp(@)]
  /\ UNCHANGED <<phour, grb, idx, trk, done, model, ocean, gempak>>

DeliverTrack(i) ==
  /\ post[i] = "track"
  /\ trk' = [trk EXCEPT ![phour[i]] = psrc[i]]
  /\ PostGoto(i, "grb")
  /\ UNCHANGED <<phour, psrc, grb, idx, done, over, model, ocean, gempak>>

(* gempak has gone past an hour that is delivered again, or may take what  *)
(* it left of the hour for new.                                            *)
Redelivered(h) ==
  gover' = IF over[h] # "no" /\ (GempakPast(h) \/ gdone[h] # "none")
           THEN [gover EXCEPT ![h] = "late"] ELSE gover

(* Mutant: the done file is written with the grib file.                    *)
DeliverGrbDone(i) ==
  /\ post[i] = "grb"
  /\ grb' = [grb EXCEPT ![phour[i]] = psrc[i]]
  /\ done' = [done EXCEPT ![phour[i]] = "newer"]
  /\ Redelivered(phour[i])
  /\ PostGoto(i, "idx")
  /\ UNCHANGED <<phour, psrc, idx, trk, over, model, ocean, gem, ghour, gsrc, gout, gdone>>

DeliverGrb(i) ==
  /\ post[i] = "grb"
  /\ grb' = [grb EXCEPT ![phour[i]] = psrc[i]]
  /\ Redelivered(phour[i])
  /\ PostGoto(i, "idx")
  /\ UNCHANGED <<phour, psrc, idx, trk, done, over, model, ocean, gem, ghour, gsrc, gout,
                 gdone>>

DeliverIdx(i) ==
  /\ post[i] = "idx"
  /\ idx' = [idx EXCEPT ![phour[i]] = psrc[i]]
  /\ gdone' = [gdone EXCEPT ![phour[i]] = Aged(@)]
  /\ PostGoto(i, "mark")
  /\ UNCHANGED <<phour, psrc, grb, trk, done, over, model, ocean, gem, ghour, gsrc, gout,
                 gover>>

MarkPost(i) ==
  /\ post[i] = "mark"
  /\ done' = [done EXCEPT ![phour[i]] = "newer"]
  /\ over' = [over EXCEPT ![phour[i]] = MadeUp(@)]
  /\ PostGoto(i, "check")
  /\ NextHour(i)
  /\ psrc' = [psrc EXCEPT ![i] = 0]
  /\ UNCHANGED <<grb, idx, trk, model, ocean, gempak>>

EndPost(i) ==
  /\ post[i] = "check" /\ phour[i] \notin Hours
  /\ PostLeaves(i, "complete")

(* MAX_WAIT_TIME is over; or a program failed or the job was killed.       *)
PostTimeout(i) ==
  /\ post[i] = "wait" /\ ~Ready(phour[i])
  /\ PostLeaves(i, "queued")

PostDies(i) ==
  /\ post[i] \in {"track", "grb", "idx", "mark"}
  /\ PostLeaves(i, "queued")

-----------------------------------------------------------------------------
(* ocn_post: all hours but 0; the delivery of all of them comes at the end *)
StartOcean ==
  /\ ocn = "queued" /\ Started
  /\ ocn' = "check"
  /\ UNCHANGED <<ohour, cmdfile, onc, odone, oover, model, atm, gempak>>

OceanPosted(h) == odone[h] = "newer" /\ log[h] /\ onc[h] # 0

SkipOcean ==
  /\ ocn = "check" /\ ohour \in Hours /\ OceanPosted(ohour)
  /\ ohour' = ohour + 1
  /\ UNCHANGED <<ocn, cmdfile, onc, odone, oover, model, atm, gempak>>

NeedOcean ==
  /\ ocn = "check" /\ ohour \in Hours /\ ~OceanPosted(ohour)
  /\ ocn' = "wait"
  /\ UNCHANGED <<ohour, cmdfile, onc, odone, oover, model, atm, gempak>>

(* Mutant: the log file of the hour is not waited for.                     *)
OceanReadyUnlogged(h) == hist[h] # 0 /\ (h < Last => hist[h + 1] # 0)

(* The next hour's file shows that this one's is closed.                   *)
OceanReady(h) == Ready(h) /\ (h < Last => hist[h + 1] # 0)

MarkOcean ==
  /\ ocn = "wait" /\ OceanReady(ohour)
  /\ cmdfile' = cmdfile \cup {ohour}
  /\ odone' = [odone EXCEPT ![ohour] = "newer"]
  /\ oover' = [oover EXCEPT ![ohour] = TakenUp(@)]
  /\ ocn' = "check" /\ ohour' = ohour + 1
  /\ UNCHANGED <<onc, model, atm, gempak>>

AddInitial ==
  /\ ocn = "check" /\ ohour \notin Hours
  /\ cmdfile' = cmdfile \cup {0}
  /\ oover' = [oover EXCEPT ![0] = TakenUp(@)]
  /\ ocn' = "flush"
  /\ UNCHANGED <<ohour, onc, odone, model, atm, gempak>>

(* The copies of cmdfile; of a file that is not there it fails.            *)
FlushOcean ==
  /\ ocn = "flush"
  /\ \E h \in cmdfile : /\ hist[h] # 0
                        /\ onc' = [onc EXCEPT ![h] = hist[h]]
                        /\ oover' = [oover EXCEPT ![h] = MadeUp(@)]
                        /\ cmdfile' = cmdfile \ {h}
  /\ UNCHANGED <<ocn, ohour, odone, model, atm, gempak>>

EndOcean ==
  /\ ocn = "flush" /\ cmdfile = {}
  /\ ocn' = "complete" /\ ohour' = 1
  /\ UNCHANGED <<cmdfile, onc, odone, oover, model, atm, gempak>>

(* What it was to deliver is lost, but has its done file.                  *)
OceanStops ==
  /\ ocn' = "queued" /\ ohour' = 1 /\ cmdfile' = {}
  /\ oover' = [h \in Hours |-> IF h \in cmdfile THEN "late" ELSE oover[h]]
  /\ UNCHANGED <<onc, odone, model, atm, gempak>>

OceanTimeout == ocn = "wait" /\ ~OceanReady(ohour) /\ OceanStops
OceanDies == ocn = "flush" /\ OceanStops

-----------------------------------------------------------------------------
(* gempak: every Stride hours, from what atm_post put into COM.            *)
StartGempak ==
  /\ gem = "queued"
  /\ \E i \in Jobs : Active(post[i]) \/ post[i] = "complete"
  /\ gem' = "check"
  /\ UNCHANGED <<ghour, gsrc, gout, gdone, gover, model, atm, ocean>>

(* [ done file -nt idx ]: also true when there is no idx.                  *)
Decoded(h) == /\ gdone[h] # "none" /\ (idx[h] # 0 => gdone[h] = "newer")
              /\ gout[h] # 0

SkipGempak ==
  /\ gem = "check" /\ ghour \in Hours /\ Decoded(ghour)
  /\ ghour' = ghour + Stride
  /\ UNCHANGED <<gem, gsrc, gout, gdone, gover, model, atm, ocean>>

NeedGempak ==
  /\ gem = "check" /\ ghour \in Hours /\ ~Decoded(ghour)
  /\ gem' = "wait"
  /\ UNCHANGED <<ghour, gsrc, gout, gdone, gover, model, atm, ocean>>

GribReady(h) == done[h] # "none" /\ grb[h] # 0 /\ idx[h] # 0

ReadGrb ==
  /\ gem = "wait" /\ GribReady(ghour)
  /\ gsrc' = grb[ghour] /\ gem' = "gout"
  /\ gover' = [gover EXCEPT ![ghour] = TakenUp(@)]
  /\ UNCHANGED <<ghour, gout, gdone, model, atm, ocean>>

DeliverGem ==
  /\ gem = "gout"
  /\ gout' = [gout EXCEPT ![ghour] = gsrc] /\ gem' = "mark"
  /\ UNCHANGED <<ghour, gsrc, gdone, gover, model, atm, ocean>>

MarkGem ==
  /\ gem = "mark"
  /\ gdone' = [gdone EXCEPT ![ghour] = "newer"]
  /\ gover' = [gover EXCEPT ![ghour] = MadeUp(@)]
  /\ gem' = "check" /\ ghour' = ghour + Stride /\ gsrc' = 0
  /\ UNCHANGED <<gout, model, atm, ocean>>

GempakLeaves(pc) ==
  /\ gem' = pc /\ ghour' = 0 /\ gsrc' = 0
  /\ UNCHANGED <<gout, gdone, gover, model, atm, ocean>>

EndGempak ==
  /\ gem = "check" /\ ghour \notin Hours
  /\ GempakLeaves("complete")

GempakTimeout ==
  /\ gem = "wait" /\ ~GribReady(ghour)
  /\ GempakLeaves("queued")

GempakDies ==
  /\ gem \in {"gout", "mark"}
  /\ GempakLeaves("queued")

-----------------------------------------------------------------------------
Forecast ==
  \/ StartForecast \/ Wipe \/ CleanLog \/ CleanPost \/ ModelWrites \/ ModelLogs
  \/ ModelRestarts \/ ForecastEnds \/ ForecastDies
AtmPost(i) ==
  \/ StartPost(i) \/ SkipPost(i) \/ NeedPost(i) \/ RunPost(i) \/ DeliverTrack(i)
  \/ DeliverGrb(i) \/ DeliverIdx(i) \/ MarkPost(i) \/ EndPost(i)
  \/ PostTimeout(i) \/ PostDies(i)
OcnPost ==
  \/ StartOcean \/ SkipOcean \/ NeedOcean \/ MarkOcean \/ AddInitial \/ FlushOcean
  \/ EndOcean \/ OceanTimeout \/ OceanDies
Gempak ==
  \/ StartGempak \/ SkipGempak \/ NeedGempak \/ ReadGrb \/ DeliverGem \/ MarkGem
  \/ EndGempak \/ GempakTimeout \/ GempakDies

Next == Forecast \/ (\E i \in Jobs : AtmPost(i)) \/ OcnPost \/ Gempak

Spec == Init /\ [][Next]_vars

-----------------------------------------------------------------------------
Runs == 0 .. MaxRuns
OfRun == [Hours -> Runs]

(* Types, and the hours of each job stay on its own raster.                *)
TypeOK ==
  /\ fcst \in {"queued", "wipe", "clean log", "clean post", "model", "complete"}
  /\ fhour \in 0 .. Last + 1 /\ run \in Runs /\ from \in 0 .. Last + 1
  /\ hist \in OfRun /\ log \in [Hours -> BOOLEAN]
  /\ res \in 0 .. Last + 1 /\ missed \subseteq Hours
  /\ post \in [Jobs -> {"off", "queued", "check", "wait", "track", "grb", "idx", "mark",
                        "complete"}]
  /\ phour \in [Jobs -> 0 .. Last + Groups]
  /\ \A i \in Jobs : phour[i] % Groups = i
  /\ psrc \in [Jobs -> Runs]
  /\ grb \in OfRun /\ idx \in OfRun /\ trk \in OfRun /\ done \in [Hours -> Marks]
  /\ over \in [Hours -> Overtaken]
  /\ ocn \in {"off", "queued", "check", "wait", "flush", "complete"}
  /\ ohour \in 1 .. Last + 1 /\ cmdfile \subseteq Hours
  /\ onc \in OfRun /\ odone \in [Hours -> Marks] /\ oover \in [Hours -> Overtaken]
  /\ gem \in {"off", "queued", "check", "wait", "gout", "mark", "complete"}
  /\ ghour \in 0 .. Last + Stride /\ gsrc \in Runs
  /\ gout \in OfRun /\ gdone \in [Hours -> Marks] /\ gover \in [Hours -> Overtaken]

(* The done file of atm_post, which gempak and the tracker wait for, comes *)
(* after the three products of the hour, and they are of one and the same  *)
(* run of the forecast; but for an hour that the forecast overtook, whose  *)
(* tracker file it may have removed before the done file came.             *)
MarkedDelivered ==
  \A h \in Hours : done[h] # "none" /\ over[h] = "no" =>
    grb[h] # 0 /\ idx[h] = grb[h] /\ trk[h] = grb[h]

PostEnded(h) == post[h % Groups] = "complete"

(* When the forecast and a job are complete, after failures, reruns and    *)
(* restarts of any of them while the others go on, the job's products are  *)
(* of the forecast that is there - no hour was skipped with an earlier     *)
(* run's product, and none was left out between the groups - but for the   *)
(* hours that the forecast took away from it while it was running or had   *)
(* ended.  What gempak has is of the products of atm_post that are there,  *)
(* but for the hours that it had seen when these were taken away.          *)
FinalProducts ==
  /\ fcst = "complete" =>
       \A h \in Hours : PostEnded(h) /\ over[h] = "no" =>
         grb[h] = hist[h] /\ done[h] # "none"
  /\ gem = "complete" =>
       \A h \in Hours : h % Stride = 0 /\ gover[h] = "no" => gout[h] = grb[h]

(* The same of ocn_post, but for the hours that it had marked as done and  *)
(* not delivered when it was cut off.                                      *)
OceanFinal ==
  fcst = "complete" /\ ocn = "complete" =>
    \A h \in Hours : oover[h] = "no" => onc[h] = hist[h]

(* Once the forecast is complete, no job waits for a file that nobody will *)
(* write any more: the files that the forecast job removed are those that  *)
(* its model, or the jobs after it, write again; unless a restart went on  *)
(* after hours whose logs were not there.                                  *)
NoVainWait ==
  fcst = "complete" =>
    /\ \A i \in Jobs : post[i] = "wait" => Ready(phour[i]) \/ phour[i] \in missed
    /\ ocn = "wait" => OceanReady(ohour) \/ {ohour, ohour + 1} \cap missed # {}
    /\ gem = "wait" /\ PostEnded(ghour) => GribReady(ghour) \/ over[ghour] # "no"
=============================================================================
