---------------------------- MODULE PostFlowProofs ----------------------------
(* Theorems about PostFlow, for any number of hours, groups, strides and   *)
(* runs of the forecast, any flow and any order of failures and reruns;    *)
(* and that an attempt of a job, and a run of the forecast, has only so    *)
(* many steps.                                                             *)
EXTENDS PostFlow, FiniteSetTheorems, TLAPS

-----------------------------------------------------------------------------
(* The hours of a job, written as a quotient and a rest.                   *)
OnRaster(h, step, first) == \E q \in Nat : h = step * q + first

(* Rests of divisions, the only arithmetic that the flow needs.            *)
LEMMA Rest ==
  ASSUME NEW step \in Nat \ {0}, NEW q \in Nat, NEW r \in 0 .. step - 1
  PROVE  (step * q + r) % step = r
  BY SMTT(30)

(* Every hour of a raster leaves the rest it begins with.                  *)
LEMMA RasterRest ==
  ASSUME NEW step \in Nat \ {0}, NEW first \in 0 .. step - 1, NEW h \in Nat,
         OnRaster(h, step, first)
  PROVE  h % step = first
  BY Rest DEF OnRaster

(* The next hour of a raster is a step later.                              *)
LEMMA RasterNext ==
  ASSUME NEW step \in Nat \ {0}, NEW first \in 0 .. step - 1, NEW h \in Nat,
         OnRaster(h, step, first)
  PROVE  OnRaster(h + step, step, first)
<1>1. PICK q \in Nat : h = step * q + first
  BY DEF OnRaster
<1>2. step * (q + 1) = step * q + step
  OBVIOUS
<1>3. h + step = step * (q + 1) + first /\ q + 1 \in Nat
  BY <1>1, <1>2
<1>4. QED
  BY <1>3 DEF OnRaster

(* A raster begins with its first hour.                                    *)
LEMMA RasterStart ==
  ASSUME NEW step \in Nat \ {0}, NEW first \in 0 .. step - 1
  PROVE  OnRaster(first, step, first)
<1>1. first = step * 0 + first /\ 0 \in Nat
  OBVIOUS
<1>2. QED
  BY <1>1 DEF OnRaster

(* Between an hour of the raster and the next there is no other.           *)
LEMMA RasterGap ==
  ASSUME NEW step \in Nat \ {0}, NEW first \in 0 .. step - 1, NEW p \in Nat,
         OnRaster(p, step, first), NEW h \in Nat, p < h, h < p + step
  PROVE  h % step # first
<1>1. PICK q \in Nat : p = step * q + first
  BY DEF OnRaster
<1>2. CASE first + (h - p) < step
  <2>1. PICK r \in 0 .. step - 1 : r = first + (h - p)
    BY <1>2
  <2>2. h = step * q + r
    BY <1>1, <2>1
  <2>3. h % step = r
    BY <2>2, Rest
  <2>4. QED
    BY <2>1, <2>3
<1>3. CASE first + (h - p) >= step
  <2>1. PICK r \in 0 .. step - 1 : r = first + (h - p) - step
    BY <1>3
  <2>2. h = step * (q + 1) + r
    <3>1. step * (q + 1) = step * q + step
      OBVIOUS
    <3>2. QED
      BY <1>1, <2>1, <3>1
  <2>3. h % step = r
    BY <2>2, Rest
  <2>4. QED
    BY <2>1, <2>3
<1>4. QED
  BY <1>2, <1>3

(* A rest is less than the divisor.                                        *)
LEMMA RestType ==
  ASSUME NEW step \in Nat \ {0}, NEW h \in Nat
  PROVE  h % step \in 0 .. step - 1
  BY SMTT(30)

(* An hour before the first step is its own rest.                          *)
LEMMA RestSmall ==
  ASSUME NEW step \in Nat \ {0}, NEW h \in 0 .. step - 1
  PROVE  h % step = h
  BY SMTT(30)

-----------------------------------------------------------------------------
(* The types of the forecast job's variables, of each job's and of the     *)
(* files, and which hours it can be at in each of its places.  A job that  *)
(* works on an hour has one, and a job that is not active is at its first. *)
Delivering == {"track", "grb", "idx", "mark"}
AtWork == {"wait"} \cup Delivering
Cleaning == fcst \in {"clean log", "clean post"}

ForecastPart ==
  /\ fcst \in {"queued", "wipe", "clean log", "clean post", "model", "complete"}
  /\ fhour \in 0 .. Last + 1 /\ run \in Runs /\ from \in 0 .. Last + 1
  /\ hist \in OfRun /\ log \in [Hours -> BOOLEAN]
  /\ res \in 0 .. Last + 1 /\ missed \subseteq Hours
  /\ fcst = "wipe" => from = 0 /\ fhour = 0
  /\ Cleaning => fhour \in Hours /\ from <= fhour
  /\ fcst = "model" => from <= fhour
  /\ Active(fcst) => run # 0 /\ from <= res

PostPart ==
  /\ post \in [Jobs -> {"off", "queued", "check", "complete"} \cup AtWork]
  /\ phour \in [Jobs -> 0 .. Last + Groups]
  /\ psrc \in [Jobs -> Runs]
  /\ grb \in OfRun /\ idx \in OfRun /\ trk \in OfRun /\ done \in [Hours -> Marks]
  /\ over \in [Hours -> Overtaken]
  /\ \A i \in Jobs : /\ OnRaster(phour[i], Groups, i)
                     /\ post[i] \in AtWork => phour[i] \in Hours
                     /\ ~Active(post[i]) => phour[i] = i

OceanPart ==
  /\ ocn \in {"off", "queued", "check", "wait", "flush", "complete"}
  /\ ohour \in 1 .. Last + 1 /\ cmdfile \subseteq Hours
  /\ onc \in OfRun /\ odone \in [Hours -> Marks] /\ oover \in [Hours -> Overtaken]
  /\ ocn = "wait" => ohour \in Hours

GempakPart ==
  /\ gem \in {"off", "queued", "check", "wait", "gout", "mark", "complete"}
  /\ ghour \in 0 .. Last + Stride /\ gsrc \in Runs
  /\ gout \in OfRun /\ gdone \in [Hours -> Marks] /\ gover \in [Hours -> Overtaken]
  /\ OnRaster(ghour, Stride, 0)
  /\ gem \in {"wait", "gout", "mark"} => ghour \in Hours
  /\ ~Active(gem) => ghour = 0

(* The hours that the run has cleaned up and not written yet.              *)
Ahead(h) ==
  \/ Cleaning /\ from <= h /\ h < fhour
  \/ fcst = "model" /\ fhour <= h

(* The hours without output, once a run from hour 0 has cleaned up: until  *)
(* then there are no restart files.                                        *)
Void(h) == hist[h] = 0 /\ (res > 0 \/ fcst \in {"model", "complete"})

(* What the forecast job leaves of the log files at each of its places.    *)
Logged ==
  /\ \A h \in Hours : log[h] => hist[h] # 0
  /\ \A h \in Hours : Ahead(h) => ~log[h]
  /\ fcst = "clean post" => ~log[fhour]
  /\ Active(fcst) => \A h \in Hours : h < from => log[h] \/ h \in missed
  /\ fcst = "model" => \A h \in Hours : h < fhour => log[h] \/ h \in missed
  /\ fcst = "complete" => \A h \in Hours : log[h] \/ h \in missed

(* A run from hour 0 begins without output.                                *)
Emptied ==
  /\ Cleaning /\ from = 0 => \A h \in Hours : hist[h] = 0
  /\ fcst = "model" /\ fhour = 0 => hist[0] \in {0, run}

-----------------------------------------------------------------------------
(* What each of the jobs leaves alone.                                     *)
gempakJob == <<gem, ghour, gsrc, gout>>

(* The atmosphere's posts write no ocean file, and of gempak only the      *)
(* histories of its done files.                                            *)
LEMMA PostLeavesAlone ==
  ASSUME NEW i \in Jobs, AtmPost(i)
  PROVE  UNCHANGED <<model, ocean, gempakJob>>
  BY DEF AtmPost, StartPost, SkipPost, NeedPost, RunPost, DeliverTrack, DeliverGrb,
         DeliverIdx, MarkPost, EndPost, PostTimeout, PostDies, PostLeaves,
         gempak, gempakJob

(* The ocean post writes only ocean files.                                 *)
LEMMA OceanLeavesAlone ==
  ASSUME OcnPost
  PROVE  UNCHANGED <<model, atm, gempak>>
  BY DEF OcnPost, StartOcean, SkipOcean, NeedOcean, MarkOcean, AddInitial, FlushOcean,
         EndOcean, OceanTimeout, OceanDies, OceanStops

(* The gempak job writes only gempak files.                                *)
LEMMA GempakLeavesAlone ==
  ASSUME Gempak
  PROVE  UNCHANGED <<model, atm, ocean>>
  BY DEF Gempak, StartGempak, SkipGempak, NeedGempak, ReadGrb, DeliverGem, MarkGem,
         EndGempak, GempakTimeout, GempakDies, GempakLeaves

(* The forecast changes no product, and no place of a product job, though  *)
(* one that has ended may be queued again with it.                         *)
LEMMA ForecastLeavesAlone ==
  ASSUME Forecast
  PROVE  UNCHANGED <<phour, psrc, grb, idx, ohour, cmdfile, onc, ghour, gsrc, gout>>
  BY DEF Forecast, StartForecast, Wipe, CleanLog, CleanPost, ModelWrites, ModelLogs,
         ModelRestarts, ForecastEnds, ForecastDies, atm, ocean, gempak

-----------------------------------------------------------------------------
(* The constants, without the set of flows.                                *)
LEMMA Bounds ==
  /\ Last \in Nat /\ MaxRuns \in Nat /\ Groups \in Nat \ {0} /\ Stride \in Nat \ {0}
  /\ 0 \in Hours /\ 0 \in Runs /\ 0 \in 0 .. Last + 1 /\ 0 \in 0 .. Last + Stride
  /\ \A h \in Hours : h \in 0 .. Last + 1 /\ h + 1 \in 1 .. Last + 1 /\ h + 1 \in 0 .. Last + 1
  /\ \A h \in Hours : h < Last => h + 1 \in Hours
  /\ \A h \in 1 .. Last : h \in Hours
  /\ \A h \in Hours : h \in Nat /\ h <= Last
  /\ \A n \in Runs : n < MaxRuns => n + 1 \in Runs
<1>1. Last \in Nat /\ MaxRuns \in Nat /\ Groups \in Nat \ {0} /\ Stride \in Nat \ {0}
  BY Zenon, FlowAssumption DEF FlowAssumption
<1>2. QED
  BY <1>1 DEF Hours, Runs

(* Where a run of the forecast begins.                                     *)
LEMMA StartsAt ==
  ASSUME ForecastPart, StartForecast
  PROVE  \E f \in 0 .. Last + 1 :
           /\ from' = f /\ fhour' = f /\ f <= res
           /\ f = 0 => fcst' = "wipe"
           /\ f \in 1 .. Last => fcst' = "clean log"
           /\ f = Last + 1 => fcst' = "model"
           /\ run' = run + 1 /\ run < MaxRuns
           /\ missed' = {h \in Hours : h < f /\ ~log[h]}
           /\ UNCHANGED <<hist, log, res>>
<1>1. /\ from' \in {0} \cup {h \in 1 .. Last + 1 : Restartable(h - 1)}
      /\ fhour' = from' /\ run' = run + 1 /\ run < MaxRuns /\ UNCHANGED <<hist, log, res>>
      /\ fcst' = CASE from' = 0           -> "wipe"
                   [] from' \in 1 .. Last -> "clean log"
                   [] from' = Last + 1    -> "model"
      /\ missed' = {h \in Hours : h < from' /\ ~log[h]}
  BY Zenon DEF StartForecast
<1>2. res \in 0 .. Last + 1 /\ Last \in Nat
  BY Bounds DEF ForecastPart
<1>3. PICK f \in {0} \cup {h \in 1 .. Last + 1 : Restartable(h - 1)} : f = from'
  BY <1>1, Zenon
<1>4. f \in 0 .. Last + 1 /\ f <= res
  <2>1. CASE f = 0
    BY <1>2, <2>1
  <2>2. CASE f \in 1 .. Last + 1 /\ Restartable(f - 1)
    <3>1. f - 1 < res
      BY <2>2, Zenon DEF Restartable
    <3>2. QED
      BY <1>2, <2>2, <3>1
  <2>3. QED
    BY <1>3, <2>1, <2>2
<1>5. /\ f = 0 => fcst' = "wipe"
      /\ f \in 1 .. Last => fcst' = "clean log"
      /\ f = Last + 1 => fcst' = "model"
  <2>1. fcst' = CASE f = 0           -> "wipe"
                  [] f \in 1 .. Last -> "clean log"
                  [] f = Last + 1    -> "model"
    BY <1>1, <1>3, Zenon
  <2>2. /\ f = 0 => f \notin 1 .. Last /\ f # Last + 1
        /\ f \in 1 .. Last => f # 0 /\ f # Last + 1
        /\ f = Last + 1 => f # 0 /\ f \notin 1 .. Last
    BY <1>2, <1>4
  <2>3. QED
    BY <2>1, <2>2, Zenon
<1>6. QED
  BY <1>1, <1>3, <1>4, <1>5, Zenon

(* Each part keeps its types, given those of the parts it reads.           *)
LEMMA ForecastTypes == Spec => []ForecastPart
<1>1. Init => ForecastPart
  BY Bounds DEF Init, ForecastPart, Cleaning, Active, Hours, Runs, OfRun
<1>2. ForecastPart /\ [Next]_vars => ForecastPart'
  <2> SUFFICES ASSUME ForecastPart, [Next]_vars PROVE ForecastPart'
    OBVIOUS
  <2> USE Bounds
  <2>0. /\ fhour \in 0 .. Last + 1 /\ run \in Runs /\ from \in 0 .. Last + 1
        /\ res \in 0 .. Last + 1
    BY DEF ForecastPart
  <2>1. CASE StartForecast
    <3>1. PICK f \in 0 .. Last + 1 :
           /\ from' = f /\ fhour' = f /\ f <= res
           /\ f = 0 => fcst' = "wipe"
           /\ f \in 1 .. Last => fcst' = "clean log"
           /\ f = Last + 1 => fcst' = "model"
           /\ run' = run + 1 /\ run < MaxRuns
           /\ missed' = {h \in Hours : h < f /\ ~log[h]}
           /\ UNCHANGED <<hist, log, res>>
      BY <2>1, StartsAt
    <3>2. run' \in Runs /\ run' # 0
      <4>1. PICK n \in Runs : n = run /\ n < MaxRuns
        BY <2>0, <3>1
      <4>2. n + 1 \in Runs /\ n + 1 # 0
        BY <4>1 DEF Runs
      <4>3. QED
        BY <3>1, <4>1, <4>2
    <3>3. f = 0 \/ f \in 1 .. Last \/ f = Last + 1
      BY <2>0
    <3>4. missed' \subseteq Hours
      BY <3>1
    <3>5. f <= f /\ (f \in 1 .. Last => f \in Hours)
      OBVIOUS
    <3>6. QED
      BY <3>1, <3>2, <3>3, <3>4, <3>5, Zenon DEF ForecastPart, Cleaning
  <2>2. CASE Wipe
    <3>1. CASE res > 0 /\ res' = 0 /\ UNCHANGED <<fcst, hist, log>>
      <4>1. UNCHANGED <<fcst, fhour, run, from, hist, log, missed>> /\ res' = 0 /\ from = 0
            /\ fcst = "wipe" /\ fhour = 0 /\ run # 0
        BY <2>2, <3>1 DEF Wipe, ForecastPart, Active
      <4>2. 0 <= 0
        OBVIOUS
      <4>3. QED
        BY <4>1, <4>2 DEF ForecastPart, Cleaning
    <3>2. CASE res = 0 /\ fcst' = "clean log" /\ UNCHANGED res
               /\ hist' = [h \in Hours |-> 0] /\ log' = [h \in Hours |-> FALSE]
      <4>1. UNCHANGED <<fhour, run, from, missed, res>> /\ from = 0 /\ fhour = 0 /\ run # 0
        BY <2>2, <3>2 DEF Wipe, ForecastPart, Active
      <4>2. hist' \in OfRun /\ log' \in [Hours -> BOOLEAN]
        BY <3>2 DEF OfRun
      <4>3. 0 <= 0
        OBVIOUS
      <4>4. QED
        BY <3>2, <4>1, <4>2, <4>3 DEF ForecastPart, Cleaning
    <3>3. QED
      BY <2>2, <3>1, <3>2 DEF Wipe
  <2>3. CASE CleanLog
    BY <2>3 DEF CleanLog, ForecastPart, Cleaning, Active
  <2>4. CASE CleanPost
    <3>1. UNCHANGED <<run, from, hist, log, res, missed>> /\ NextClean /\ Cleaning
          /\ fhour \in Hours /\ from <= fhour /\ run # 0 /\ from <= res
      BY <2>4, Zenon DEF CleanPost, Cleaning, ForecastPart, Active
    <3>2. CASE fhour < Last
      <4>1. fcst' = "clean log" /\ fhour' = fhour + 1
        BY <3>1, <3>2 DEF NextClean
      <4>2. fhour + 1 \in Hours /\ from <= fhour + 1
        BY <2>0, <3>1, <3>2
      <4>3. QED
        BY <3>1, <4>1, <4>2 DEF ForecastPart, Cleaning
    <3>3. CASE ~(fhour < Last)
      <4>1. fcst' = "model" /\ fhour' = from
        BY <3>1, <3>3 DEF NextClean
      <4>2. from <= from
        BY <2>0
      <4>3. QED
        BY <3>1, <4>1, <4>2 DEF ForecastPart, Cleaning
    <3>4. QED
      BY <3>2, <3>3
  <2>5. CASE ModelWrites
    <3>1. hist' \in OfRun
      BY <2>5 DEF ModelWrites, ForecastPart, OfRun
    <3>2. QED
      BY <2>5, <3>1 DEF ModelWrites, ForecastPart, Cleaning, Active
  <2>6. CASE ModelLogs
    <3>1. /\ fcst = "model" /\ fcst' = "model" /\ fhour \in Hours /\ fhour' = fhour + 1
          /\ log' = [log EXCEPT ![fhour] = TRUE] /\ UNCHANGED <<run, from, hist, res, missed>>
      BY <2>6 DEF ModelLogs
    <3>2. from <= fhour /\ run # 0 /\ from <= res /\ log' \in [Hours -> BOOLEAN]
      BY <3>1 DEF ForecastPart, Active
    <3>3. from <= fhour + 1
      BY <2>0, <3>2
    <3>4. QED
      BY <3>1, <3>2, <3>3 DEF ForecastPart, Cleaning
  <2>7. CASE ModelRestarts
    <3>1. /\ fcst = "model" /\ res \in Hours /\ res' = res + 1
          /\ UNCHANGED <<fcst, fhour, run, from, hist, log, missed>>
      BY <2>7 DEF ModelRestarts
    <3>2. from <= res /\ run # 0
      BY <3>1 DEF ForecastPart, Active
    <3>3. from <= res + 1
      BY <2>0, <3>2
    <3>4. QED
      BY <3>1, <3>2, <3>3 DEF ForecastPart, Cleaning
  <2>8. CASE ForecastEnds
    BY <2>8 DEF ForecastEnds, ForecastPart, Cleaning, Active
  <2>9. CASE ForecastDies
    BY <2>9 DEF ForecastDies, ForecastPart, Cleaning, Active
  <2>10. CASE UNCHANGED model
    BY <2>10 DEF model, ForecastPart, Cleaning, Active
  <2>11. QED
    BY <2>1, <2>2, <2>3, <2>4, <2>5, <2>6, <2>7, <2>8, <2>9, <2>10, PostLeavesAlone,
       OceanLeavesAlone, GempakLeavesAlone DEF Next, Forecast, vars
<1>3. QED
  BY <1>1, <1>2, PTL DEF Spec

(* The two loops over a raster, as the invariants use them.                *)
LEMMA PostRaster ==
  ASSUME PostPart, NEW i \in Jobs
  PROVE  /\ i \in 0 .. Groups - 1 /\ phour[i] \in Nat /\ phour[i] % Groups = i
         /\ OnRaster(phour[i] + Groups, Groups, i)
         /\ OnRaster(i, Groups, i)
<1>1. i \in 0 .. Groups - 1 /\ Groups \in Nat \ {0}
  BY Bounds DEF Jobs
<1>2. phour[i] \in Nat /\ OnRaster(phour[i], Groups, i)
  BY Bounds DEF PostPart
<1>3. QED
  BY <1>1, <1>2, RasterRest, RasterNext, RasterStart

(* The loop of gempak over its raster.                                     *)
LEMMA GempakRaster ==
  ASSUME GempakPart
  PROVE  /\ ghour \in Nat /\ OnRaster(ghour + Stride, Stride, 0)
         /\ OnRaster(0, Stride, 0)
<1>1. 0 \in 0 .. Stride - 1 /\ Stride \in Nat \ {0}
  BY Bounds
<1>2. ghour \in Nat /\ OnRaster(ghour, Stride, 0)
  BY Bounds DEF GempakPart
<1>3. QED
  BY <1>1, <1>2, RasterNext, RasterStart

(* What happens to a done file: it ages, goes, or is written.              *)
LEMMA MarkOfHour ==
  ASSUME NEW m \in [Hours -> Marks], NEW h \in Hours
  PROVE  /\ [m EXCEPT ![h] = Aged(@)] \in [Hours -> Marks]
         /\ [m EXCEPT ![h] = "none"] \in [Hours -> Marks]
         /\ [m EXCEPT ![h] = "newer"] \in [Hours -> Marks]
  BY DEF Aged, Marks

(* A product of one hour is replaced.                                      *)
LEMMA RunOfHour ==
  ASSUME NEW f \in OfRun, NEW h \in Hours, NEW n \in Runs
  PROVE  [f EXCEPT ![h] = n] \in OfRun /\ f[h] \in Runs
  BY DEF OfRun

(* The history of an hour's product goes on.                               *)
LEMMA OverOfHour ==
  ASSUME NEW m \in [Hours -> Overtaken], NEW h \in Hours
  PROVE  /\ [m EXCEPT ![h] = TakenUp(@)] \in [Hours -> Overtaken]
         /\ [m EXCEPT ![h] = MadeUp(@)] \in [Hours -> Overtaken]
         /\ [m EXCEPT ![h] = "late"] \in [Hours -> Overtaken]
         /\ [m EXCEPT ![h] = "no"] \in [Hours -> Overtaken]
  BY DEF TakenUp, MadeUp, Overtaken

(* What the clean-up does with an hour.                                    *)
LEMMA CleanHour ==
  ASSUME ForecastPart, CleanPost
  PROVE  /\ fhour \in Hours /\ from <= fhour /\ fcst = "clean post" /\ NextClean
         /\ done' = [done EXCEPT ![fhour] = "none"] /\ trk' = [trk EXCEPT ![fhour] = 0]
         /\ odone' = [odone EXCEPT ![fhour] = "none"]
         /\ gdone' = [gdone EXCEPT ![fhour] = "none"]
         /\ IF PostPast(fhour) THEN over' = [over EXCEPT ![fhour] = "late"]
                               ELSE over' = [over EXCEPT ![fhour] = "no"]
         /\ IF OceanPast(fhour) THEN oover' = [oover EXCEPT ![fhour] = "late"]
                                ELSE oover' = [oover EXCEPT ![fhour] = "no"]
         /\ IF GempakPast(fhour) THEN gover' = [gover EXCEPT ![fhour] = "late"]
                                 ELSE gover' = [gover EXCEPT ![fhour] = "no"]
         /\ UNCHANGED <<run, from, hist, log, res, missed, post, phour, psrc, grb, idx,
                        ocn, ohour, cmdfile, onc, gem, ghour, gsrc, gout>>
<1>1. fhour \in Hours /\ from <= fhour
  BY DEF CleanPost, ForecastPart, Cleaning
<1>2. QED
  BY <1>1, Zenon DEF CleanPost, Overtake

(* A job is only queued again with the forecast when it has ended.         *)
LEMMA Requeued ==
  ASSUME PostPart, StartForecast
  PROVE  /\ post' \in [Jobs -> {"off", "queued", "check", "complete"} \cup AtWork]
         /\ \A i \in Jobs : post'[i] = post[i] \/ (post[i] = "complete" /\ post'[i] = "queued")
         /\ ocn' = ocn \/ (ocn = "complete" /\ ocn' = "queued")
         /\ gem' = gem \/ (gem = "complete" /\ gem' = "queued")
<1>1. PICK again \in SUBSET Jobs :
        post' = [i \in Jobs |-> IF i \in again /\ post[i] = "complete" THEN "queued" ELSE post[i]]
  BY DEF StartForecast
<1>2. /\ ocn' \in {ocn, IF ocn = "complete" THEN "queued" ELSE ocn}
      /\ gem' \in {gem, IF gem = "complete" THEN "queued" ELSE gem}
  BY Zenon DEF StartForecast
<1>3. QED
  BY <1>1, <1>2 DEF PostPart

(* The types of the atmosphere's posts.                                    *)
LEMMA PostTypes == Spec => []PostPart
<1>1. Init => PostPart
  <2> SUFFICES ASSUME Init PROVE PostPart
    OBVIOUS
  <2>1. \A i \in Jobs : OnRaster(i, Groups, i) /\ i \in 0 .. Last + Groups
    BY Bounds, RasterStart DEF Jobs
  <2>2. post \in [Jobs -> {"off", "queued"}] /\ phour = [i \in Jobs |-> i]
    BY DEF Init
  <2>3. psrc \in [Jobs -> Runs] /\ grb \in OfRun /\ idx \in OfRun /\ trk \in OfRun
        /\ done \in [Hours -> Marks] /\ over \in [Hours -> Overtaken]
    BY Bounds DEF Init, OfRun, Marks, Overtaken
  <2>4. QED
    BY <2>1, <2>2, <2>3 DEF PostPart, AtWork, Delivering
<1>2. ForecastPart /\ PostPart /\ [Next]_vars => PostPart'
  <2> SUFFICES ASSUME ForecastPart, PostPart, [Next]_vars PROVE PostPart'
    OBVIOUS
  <2> USE Bounds
  <2>1. CASE StartForecast
    <3>1. /\ post' \in [Jobs -> {"off", "queued", "check", "complete"} \cup AtWork]
          /\ \A i \in Jobs : post'[i] = post[i] \/ (post[i] = "complete" /\ post'[i] = "queued")
      BY <2>1, Requeued
    <3>2. UNCHANGED <<phour, psrc, grb, idx, trk, done, over>>
      BY <2>1 DEF StartForecast
    <3>3. QED
      BY <3>1, <3>2 DEF PostPart, Active, AtWork, Delivering
  <2>2. CASE CleanPost
    <3>1. over' \in [Hours -> Overtaken]
      <4>1. fhour \in Hours /\ (\/ over' = [over EXCEPT ![fhour] = "late"]
                               \/ over' = [over EXCEPT ![fhour] = "no"])
        BY <2>2, CleanHour
      <4>2. QED
        BY <4>1, OverOfHour DEF PostPart
    <3>2. /\ fhour \in Hours /\ done' = [done EXCEPT ![fhour] = "none"]
          /\ trk' = [trk EXCEPT ![fhour] = 0]
          /\ UNCHANGED <<phour, psrc, grb, idx, post>>
      BY <2>2, CleanHour, Zenon
    <3>3. done' \in [Hours -> Marks] /\ trk' \in OfRun
      BY <3>2, MarkOfHour, RunOfHour DEF PostPart
    <3>4. QED
      BY <3>1, <3>2, <3>3 DEF PostPart, Active
  <2>3. CASE ModelLogs
    BY <2>3, MarkOfHour DEF ModelLogs, PostPart
  <2>4. CASE Wipe \/ CleanLog \/ ModelWrites \/ ModelRestarts \/ ForecastEnds \/ ForecastDies
    BY <2>4 DEF Wipe, CleanLog, ModelWrites, ModelRestarts, ForecastEnds, ForecastDies, atm,
                PostPart
  <2>5. ASSUME NEW i \in Jobs, StartPost(i) PROVE PostPart'
    BY <2>5 DEF StartPost, PostGoto, PostPart, Active, AtWork, Delivering
  <2>6. ASSUME NEW i \in Jobs, SkipPost(i) PROVE PostPart'
    <3>1. phour[i] + Groups \in 0 .. Last + Groups
      BY <2>6 DEF SkipPost, Hours
    <3>2. QED
      BY <2>6, <3>1, PostRaster DEF SkipPost, NextHour, PostPart, Active, AtWork, Delivering
  <2>7. ASSUME NEW i \in Jobs, NeedPost(i) PROVE PostPart'
    BY <2>7 DEF NeedPost, PostGoto, PostPart, Active, AtWork, Delivering
  <2>8. ASSUME NEW i \in Jobs, RunPost(i) PROVE PostPart'
    BY <2>8, OverOfHour DEF RunPost, PostGoto, PostPart, Active, AtWork, Delivering,
       ForecastPart, OfRun
  <2>9. ASSUME NEW i \in Jobs, DeliverTrack(i) PROVE PostPart'
    BY <2>9 DEF DeliverTrack, PostGoto, PostPart, Active, AtWork, Delivering, OfRun
  <2>10. ASSUME NEW i \in Jobs, DeliverGrb(i) PROVE PostPart'
    BY <2>10 DEF DeliverGrb, PostGoto, PostPart, Active, AtWork, Delivering, OfRun
  <2>11. ASSUME NEW i \in Jobs, DeliverIdx(i) PROVE PostPart'
    BY <2>11 DEF DeliverIdx, PostGoto, PostPart, Active, AtWork, Delivering, OfRun
  <2>12. ASSUME NEW i \in Jobs, MarkPost(i) PROVE PostPart'
    <3>1. phour[i] \in Hours /\ phour[i] + Groups \in 0 .. Last + Groups
      BY <2>12 DEF MarkPost, PostPart, AtWork, Delivering, Hours
    <3>2. done' \in [Hours -> Marks] /\ over' \in [Hours -> Overtaken]
      BY <2>12, <3>1, MarkOfHour, OverOfHour DEF MarkPost, PostPart
    <3>3. /\ post' = [post EXCEPT ![i] = "check"] /\ phour' = [phour EXCEPT ![i] = @ + Groups]
          /\ psrc' = [psrc EXCEPT ![i] = 0] /\ UNCHANGED <<grb, idx, trk>>
      BY <2>12 DEF MarkPost, PostGoto, NextHour
    <3>4. QED
      BY <3>1, <3>2, <3>3, PostRaster DEF PostPart, Active, AtWork, Delivering
  <2>13. ASSUME NEW i \in Jobs, EndPost(i) \/ PostTimeout(i) \/ PostDies(i)
         PROVE  PostPart'
    <3>1. PICK pc \in {"queued", "complete"} : PostLeaves(i, pc)
      BY <2>13 DEF EndPost, PostTimeout, PostDies
    <3>2. i \in 0 .. Last + Groups
      BY DEF Jobs
    <3>3. QED
      BY <3>1, <3>2, PostRaster
         DEF PostLeaves, PostGoto, PostPart, Active, AtWork, Delivering
  <2>14. CASE UNCHANGED atm
    BY <2>14 DEF atm, PostPart
  <2>15. QED
    BY <2>1, <2>2, <2>3, <2>4, <2>5, <2>6, <2>7, <2>8, <2>9, <2>10, <2>11, <2>12, <2>13,
       <2>14, OceanLeavesAlone, GempakLeavesAlone DEF Next, Forecast, AtmPost, vars
<1>3. QED
  BY <1>1, <1>2, ForecastTypes, PTL DEF Spec

(* The types of the ocean post.                                            *)
LEMMA OceanTypes == Spec => []OceanPart
<1>1. Init => OceanPart
  <2> SUFFICES ASSUME Init PROVE OceanPart
    OBVIOUS
  <2>1. ohour = 1 /\ 1 \in 1 .. Last + 1 /\ ocn \in {"off", "queued"}
    BY Bounds DEF Init
  <2>2. cmdfile = {} /\ onc \in OfRun /\ odone \in [Hours -> Marks]
        /\ oover \in [Hours -> Overtaken]
    BY Bounds DEF Init, OfRun, Marks, Overtaken
  <2>3. QED
    BY <2>1, <2>2 DEF OceanPart
<1>2. ForecastPart /\ OceanPart /\ [Next]_vars => OceanPart'
  <2> SUFFICES ASSUME ForecastPart, OceanPart, [Next]_vars PROVE OceanPart'
    OBVIOUS
  <2> USE Bounds
  <2>0. 1 \in 1 .. Last + 1
    OBVIOUS
  <2>1. CASE StartForecast
    <3>1. /\ ocn' = ocn \/ (ocn = "complete" /\ ocn' = "queued")
          /\ UNCHANGED <<ohour, cmdfile, onc, odone, oover>>
      BY <2>1, Requeued DEF StartForecast
    <3>2. QED
      BY <3>1 DEF OceanPart
  <2>2. CASE CleanPost
    <3>1. oover' \in [Hours -> Overtaken]
      <4>1. fhour \in Hours /\ (\/ oover' = [oover EXCEPT ![fhour] = "late"]
                               \/ oover' = [oover EXCEPT ![fhour] = "no"])
        BY <2>2, CleanHour
      <4>2. QED
        BY <4>1, OverOfHour DEF OceanPart
    <3>2. /\ fhour \in Hours /\ odone' = [odone EXCEPT ![fhour] = "none"]
          /\ UNCHANGED <<ocn, ohour, cmdfile, onc>>
      BY <2>2, CleanHour, Zenon
    <3>3. odone' \in [Hours -> Marks]
      BY <3>2, MarkOfHour DEF OceanPart
    <3>4. QED
      BY <3>1, <3>2, <3>3 DEF OceanPart
  <2>3. CASE ModelLogs
    BY <2>3, MarkOfHour DEF ModelLogs, OceanPart
  <2>4. CASE Wipe \/ CleanLog \/ ModelWrites \/ ModelRestarts \/ ForecastEnds \/ ForecastDies
    BY <2>4 DEF Wipe, CleanLog, ModelWrites, ModelRestarts, ForecastEnds, ForecastDies, ocean,
                OceanPart
  <2>5. CASE StartOcean
    BY <2>5 DEF StartOcean, OceanPart
  <2>6. CASE SkipOcean
    BY <2>6 DEF SkipOcean, OceanPart
  <2>7. CASE NeedOcean
    BY <2>7 DEF NeedOcean, OceanPart
  <2>8. CASE MarkOcean
    BY <2>8, MarkOfHour, OverOfHour DEF MarkOcean, OceanPart
  <2>9. CASE AddInitial
    BY <2>9, OverOfHour DEF AddInitial, OceanPart
  <2>10. CASE FlushOcean
    <3>1. PICK h \in cmdfile : /\ onc' = [onc EXCEPT ![h] = hist[h]]
                               /\ cmdfile' = cmdfile \ {h}
                               /\ oover' = [oover EXCEPT ![h] = MadeUp(@)]
      BY <2>10 DEF FlushOcean
    <3>2. onc' \in OfRun /\ oover' \in [Hours -> Overtaken]
      BY <3>1, RunOfHour, OverOfHour DEF OceanPart, ForecastPart
    <3>3. QED
      BY <2>10, <3>1, <3>2 DEF FlushOcean, OceanPart
  <2>11. CASE EndOcean
    BY <2>11, <2>0 DEF EndOcean, OceanPart
  <2>12. CASE OceanTimeout \/ OceanDies
    <3>1. /\ ocn' = "queued" /\ ohour' = 1 /\ cmdfile' = {} /\ UNCHANGED <<onc, odone>>
          /\ oover' = [h \in Hours |-> IF h \in cmdfile THEN "late" ELSE oover[h]]
      BY <2>12, Zenon DEF OceanTimeout, OceanDies, OceanStops
    <3>2. oover' \in [Hours -> Overtaken]
      BY <3>1 DEF OceanPart, Overtaken
    <3>3. QED
      BY <2>0, <3>1, <3>2 DEF OceanPart
  <2>13. CASE UNCHANGED ocean
    BY <2>13 DEF ocean, OceanPart
  <2>14. QED
    BY <2>1, <2>2, <2>3, <2>4, <2>5, <2>6, <2>7, <2>8, <2>9, <2>10, <2>11, <2>12, <2>13,
       PostLeavesAlone, GempakLeavesAlone DEF Next, Forecast, OcnPost, vars
<1>3. QED
  BY <1>1, <1>2, ForecastTypes, PTL DEF Spec

(* The types of the gempak job.                                            *)
LEMMA GempakTypes == Spec => []GempakPart
<1>1. Init => GempakPart
  <2> SUFFICES ASSUME Init PROVE GempakPart
    OBVIOUS
  <2>1. ghour = 0 /\ OnRaster(0, Stride, 0)
    <3>1. 0 \in 0 .. Stride - 1
      BY Bounds
    <3>2. QED
      BY <3>1, Bounds, RasterStart DEF Init
  <2>2. gem \in {"off", "queued"}
    BY DEF Init
  <2>3. gsrc = 0 /\ gout \in OfRun /\ gdone \in [Hours -> Marks]
        /\ gover \in [Hours -> Overtaken]
    BY Bounds DEF Init, OfRun, Marks, Overtaken
  <2>4. QED
    BY <2>1, <2>2, <2>3, Bounds DEF GempakPart
<1>2. ForecastPart /\ PostPart /\ GempakPart /\ [Next]_vars => GempakPart'
  <2> SUFFICES ASSUME ForecastPart, PostPart, GempakPart, [Next]_vars PROVE GempakPart'
    OBVIOUS
  <2> USE Bounds
  <2>1. CASE StartForecast
    <3>1. /\ gem' = gem \/ (gem = "complete" /\ gem' = "queued")
          /\ UNCHANGED <<ghour, gsrc, gout, gdone, gover>>
      BY <2>1, Requeued DEF StartForecast
    <3>2. QED
      BY <3>1 DEF GempakPart, Active
  <2>2. CASE CleanPost
    <3>1. gover' \in [Hours -> Overtaken]
      <4>1. fhour \in Hours /\ (\/ gover' = [gover EXCEPT ![fhour] = "late"]
                               \/ gover' = [gover EXCEPT ![fhour] = "no"])
        BY <2>2, CleanHour
      <4>2. QED
        BY <4>1, OverOfHour DEF GempakPart
    <3>2. /\ fhour \in Hours /\ gdone' = [gdone EXCEPT ![fhour] = "none"]
          /\ UNCHANGED <<gem, ghour, gsrc, gout>>
      BY <2>2, CleanHour, Zenon
    <3>3. gdone' \in [Hours -> Marks]
      BY <3>2, MarkOfHour DEF GempakPart
    <3>4. QED
      BY <3>1, <3>2, <3>3 DEF GempakPart, Active
  <2>3. CASE \/ Wipe \/ CleanLog \/ ModelWrites \/ ModelLogs \/ ModelRestarts \/ ForecastEnds
             \/ ForecastDies
    BY <2>3 DEF Wipe, CleanLog, ModelWrites, ModelLogs, ModelRestarts, ForecastEnds,
                ForecastDies, gempak, GempakPart
  <2>4. ASSUME NEW i \in Jobs, AtmPost(i) PROVE GempakPart'
    <3>1. UNCHANGED gempakJob
      BY <2>4, PostLeavesAlone
    <3>2. gdone' \in [Hours -> Marks] /\ gover' \in [Hours -> Overtaken]
      <4>1. CASE DeliverIdx(i)
        <5>1. phour[i] \in Hours
          BY <4>1 DEF DeliverIdx, PostPart, AtWork, Delivering
        <5>2. QED
          BY <4>1, <5>1, MarkOfHour DEF DeliverIdx, GempakPart
      <4>2. CASE DeliverGrb(i)
        <5>1. phour[i] \in Hours /\ gdone' = gdone
          BY <4>2 DEF DeliverGrb, PostPart, AtWork, Delivering
        <5>2. gover' = gover \/ gover' = [gover EXCEPT ![phour[i]] = "late"]
          BY <4>2 DEF DeliverGrb, Redelivered
        <5>3. QED
          BY <5>1, <5>2 DEF GempakPart, Overtaken
      <4>3. CASE UNCHANGED <<gdone, gover>>
        BY <4>3 DEF GempakPart
      <4>4. QED
        BY <2>4, <4>1, <4>2, <4>3 DEF AtmPost, StartPost, SkipPost, NeedPost, RunPost,
           DeliverTrack, MarkPost, EndPost, PostTimeout, PostDies, PostLeaves, gempak
    <3>3. QED
      BY <3>1, <3>2 DEF gempakJob, GempakPart
  <2>5. CASE StartGempak
    BY <2>5 DEF StartGempak, GempakPart, Active
  <2>6. CASE SkipGempak
    <3>1. ghour + Stride \in 0 .. Last + Stride
      BY <2>6 DEF SkipGempak, Hours
    <3>2. QED
      BY <2>6, <3>1, GempakRaster DEF SkipGempak, GempakPart, Active
  <2>7. CASE NeedGempak
    BY <2>7 DEF NeedGempak, GempakPart, Active
  <2>8. CASE ReadGrb
    BY <2>8, RunOfHour, OverOfHour DEF ReadGrb, GempakPart, PostPart, Active, OfRun
  <2>9. CASE DeliverGem
    BY <2>9, RunOfHour DEF DeliverGem, GempakPart, Active
  <2>10. CASE MarkGem
    <3>1. ghour \in Hours /\ ghour + Stride \in 0 .. Last + Stride
      BY <2>10 DEF MarkGem, GempakPart, Hours
    <3>2. QED
      BY <2>10, <3>1, GempakRaster, MarkOfHour, OverOfHour DEF MarkGem, GempakPart, Active
  <2>11. CASE EndGempak \/ GempakTimeout \/ GempakDies
    <3>1. PICK pc \in {"queued", "complete"} : GempakLeaves(pc)
      BY <2>11 DEF EndGempak, GempakTimeout, GempakDies
    <3>2. QED
      BY <3>1, GempakRaster DEF GempakLeaves, GempakPart, Active
  <2>12. CASE UNCHANGED gempak
    BY <2>12 DEF gempak, GempakPart
  <2>13. QED
    BY <2>1, <2>2, <2>3, <2>4, <2>5, <2>6, <2>7, <2>8, <2>9, <2>10, <2>11, <2>12,
       OceanLeavesAlone DEF Next, Forecast, Gempak, vars
<1>3. QED
  BY <1>1, <1>2, ForecastTypes, PostTypes, PTL DEF Spec

(* Types, and the hours of each job stay on its own raster.                *)
THEOREM TypeCorrect == Spec => []TypeOK
<1>1. ForecastPart /\ PostPart /\ OceanPart /\ GempakPart => TypeOK
  <2> SUFFICES ASSUME ForecastPart, PostPart, OceanPart, GempakPart PROVE TypeOK
    OBVIOUS
  <2>1. \A i \in Jobs : phour[i] % Groups = i
    BY PostRaster
  <2>2. post \in [Jobs -> {"off", "queued", "check", "wait", "track", "grb", "idx", "mark",
                           "complete"}]
    BY DEF PostPart, AtWork, Delivering
  <2>3. QED
    BY <2>1, <2>2, Zenon DEF ForecastPart, PostPart, OceanPart, GempakPart, TypeOK
<1>2. QED
  BY <1>1, ForecastTypes, PostTypes, OceanTypes, GempakTypes, PTL

-----------------------------------------------------------------------------
(* The numbers of the forecast job.                                        *)
LEMMA ForecastNumbers ==
  ASSUME ForecastPart
  PROVE  /\ fhour \in Nat /\ from \in Nat /\ res \in Nat /\ run \in Nat /\ Last \in Nat
         /\ hist \in [Hours -> Runs] /\ log \in [Hours -> BOOLEAN]
         /\ 0 \in Runs /\ 0 \in Hours
         /\ \A h \in Hours : h \in Nat /\ h <= Last
<1>1. /\ fhour \in 0 .. Last + 1 /\ run \in Runs /\ from \in 0 .. Last + 1
      /\ res \in 0 .. Last + 1 /\ hist \in [Hours -> Runs] /\ log \in [Hours -> BOOLEAN]
  BY Zenon DEF ForecastPart, OfRun
<1>2. QED
  BY <1>1, Bounds DEF Runs

(* An hour comes to be cleaned up and unwritten by the clean-up alone.     *)
LEMMA AheadAfter ==
  ASSUME ForecastPart, Forecast, NEW h \in Hours, Ahead(h)'
  PROVE  Ahead(h) \/ (CleanPost /\ h = fhour)
<1>0. /\ fhour \in Nat /\ from \in Nat /\ Last \in Nat /\ h \in Nat /\ h <= Last
  BY ForecastNumbers
<1>1. CASE StartForecast
  <2>1. PICK f \in 0 .. Last + 1 :
           /\ from' = f /\ fhour' = f
           /\ f = 0 => fcst' = "wipe"
           /\ f \in 1 .. Last => fcst' = "clean log"
           /\ f = Last + 1 => fcst' = "model"
    BY <1>1, StartsAt
  <2>2. ~(f <= h /\ h < f) /\ (f = Last + 1 => ~(f <= h))
    BY <1>0
  <2>3. f = 0 \/ f \in 1 .. Last \/ f = Last + 1
    BY <1>0
  <2>4. QED
    BY <2>1, <2>2, <2>3 DEF Ahead, Cleaning
<1>2. CASE Wipe
  <2>1. fcst' \in {"wipe", "clean log"} /\ fhour' = fhour /\ from' = from
    BY <1>2 DEF Wipe
  <2>2. from = 0 /\ fhour = 0
    BY <1>2 DEF Wipe, ForecastPart
  <2>3. ~(0 <= h /\ h < 0)
    BY <1>0
  <2>4. QED
    BY <2>1, <2>2, <2>3 DEF Ahead, Cleaning
<1>3. CASE CleanLog \/ ModelWrites \/ ModelRestarts
  BY <1>3 DEF CleanLog, ModelWrites, ModelRestarts, Ahead, Cleaning
<1>4. CASE CleanPost
  <2>1. Cleaning /\ NextClean /\ from' = from /\ fhour \in Hours
    BY <1>4, CleanHour DEF Cleaning
  <2>2. CASE fhour < Last
    <3>1. fcst' = "clean log" /\ fhour' = fhour + 1
      BY <2>1, <2>2 DEF NextClean
    <3>2. from <= h /\ h < fhour + 1
      BY <2>1, <3>1 DEF Ahead, Cleaning
    <3>3. h < fhour \/ h = fhour
      BY <1>0, <3>2
    <3>4. QED
      BY <1>4, <2>1, <3>2, <3>3 DEF Ahead
  <2>3. CASE ~(fhour < Last)
    <3>1. fcst' = "model" /\ fhour' = from
      BY <2>1, <2>3 DEF NextClean
    <3>2. from <= h
      BY <3>1 DEF Ahead, Cleaning
    <3>3. h < fhour \/ h = fhour
      BY <1>0, <2>1, <2>3
    <3>4. QED
      BY <1>4, <2>1, <3>2, <3>3 DEF Ahead
  <2>4. QED
    BY <2>2, <2>3
<1>5. CASE ModelLogs
  <2>1. fcst = "model" /\ fcst' = "model" /\ fhour' = fhour + 1
    BY <1>5 DEF ModelLogs
  <2>2. fhour + 1 <= h
    BY <2>1 DEF Ahead, Cleaning
  <2>3. fhour <= h
    BY <1>0, <2>2
  <2>4. QED
    BY <2>1, <2>3 DEF Ahead
<1>6. CASE ForecastEnds \/ ForecastDies
  BY <1>6 DEF ForecastEnds, ForecastDies, Ahead, Cleaning
<1>7. QED
  BY <1>1, <1>2, <1>3, <1>4, <1>5, <1>6 DEF Forecast

(* Output goes only with the restart files; so the hours without output    *)
(* are cleaned up before there are restart files again.                    *)
LEMMA VoidAfter ==
  ASSUME ForecastPart, Forecast, NEW h \in Hours, Void(h)'
  PROVE  Void(h) \/ Ahead(h) \/ (CleanPost /\ h = fhour)
<1>0. /\ fhour \in Nat /\ from \in Nat /\ Last \in Nat /\ h \in Nat /\ h <= Last /\ res \in Nat
  BY ForecastNumbers
<1>1. CASE StartForecast
  <2>1. PICK f \in 0 .. Last + 1 :
           /\ f <= res /\ UNCHANGED <<hist, res>>
           /\ f = 0 => fcst' = "wipe"
           /\ f \in 1 .. Last => fcst' = "clean log"
    BY <1>1, StartsAt
  <2>2. f = 0 \/ f \in 1 .. Last \/ res > 0
    <3>1. f <= res
      BY <2>1
    <3>2. QED
      BY <1>0, <3>1
  <2>3. QED
    BY <2>1, <2>2 DEF Void
<1>2. CASE Wipe
  <2>1. fcst' \in {"wipe", "clean log"} /\ res' = 0
    BY <1>2 DEF Wipe
  <2>2. ~(0 > 0)
    OBVIOUS
  <2>3. QED
    BY <2>1, <2>2 DEF Void
<1>3. CASE CleanPost
  <2>1. Cleaning /\ NextClean /\ fhour \in Hours /\ from <= res /\ UNCHANGED <<hist, res>>
    BY <1>3, CleanHour DEF Cleaning, ForecastPart, Active
  <2>2. CASE res > 0
    BY <2>1, <2>2 DEF Void
  <2>3. CASE ~(res > 0)
    <3>1. fcst' = "model" /\ ~(fhour < Last)
      BY <2>1, <2>3 DEF Void, NextClean
    <3>2. from <= h /\ (h < fhour \/ h = fhour)
      BY <1>0, <2>1, <2>3, <3>1
    <3>3. QED
      BY <1>3, <2>1, <3>2 DEF Ahead
  <2>4. QED
    BY <2>2, <2>3
<1>4. CASE ModelWrites
  <2>1. fcst = "model" /\ fhour \in Hours /\ hist' = [hist EXCEPT ![fhour] = run] /\ run # 0
    BY <1>4 DEF ModelWrites, ForecastPart, Active
  <2>2. hist'[h] = hist[h] \/ hist'[h] = run
    BY <2>1, ForecastNumbers
  <2>3. QED
    BY <2>1, <2>2 DEF Void
<1>5. CASE CleanLog \/ ModelLogs \/ ModelRestarts \/ ForecastEnds \/ ForecastDies
  BY <1>5 DEF CleanLog, ModelLogs, ModelRestarts, ForecastEnds, ForecastDies, Void
<1>6. QED
  BY <1>1, <1>2, <1>3, <1>4, <1>5 DEF Forecast

(* The log files: those of the hours that are to be computed again are     *)
(* gone; those below are there, or were not when the run was started.      *)
LEMMA LoggedInvariant == Spec => [](Logged /\ Emptied)
<1>1. Init => Logged /\ Emptied
  BY DEF Init, Logged, Emptied, Ahead, Active, Cleaning
<1>2. ForecastPart /\ Logged /\ Emptied /\ [Next]_vars => Logged' /\ Emptied'
  <2> SUFFICES ASSUME ForecastPart, Logged, Emptied, [Next]_vars PROVE Logged' /\ Emptied'
    OBVIOUS
  <2>0. /\ fhour \in Nat /\ from \in Nat /\ res \in Nat /\ run \in Nat /\ Last \in Nat
        /\ hist \in [Hours -> Runs] /\ log \in [Hours -> BOOLEAN]
        /\ \A h \in Hours : h \in Nat /\ h <= Last
    BY ForecastNumbers
  <2>1. CASE StartForecast
    <3>1. PICK f \in 0 .. Last + 1 :
             /\ from' = f /\ fhour' = f
             /\ f = 0 => fcst' = "wipe"
             /\ f \in 1 .. Last => fcst' = "clean log"
             /\ f = Last + 1 => fcst' = "model"
             /\ missed' = {h \in Hours : h < f /\ ~log[h]}
             /\ UNCHANGED <<hist, log>>
      BY <2>1, StartsAt
    <3>2. \A h \in Hours : h < f => log'[h] \/ h \in missed'
      BY <2>0, <3>1
    <3>3. \A h \in Hours : ~Ahead(h)'
      <4>1. ASSUME NEW h \in Hours, Ahead(h)' PROVE FALSE
        <5>1. ~(f <= h /\ h < f) /\ (f = Last + 1 => ~(f <= h))
          BY <2>0
        <5>2. f = 0 \/ f \in 1 .. Last \/ f = Last + 1
          BY <2>0
        <5>3. QED
          BY <3>1, <4>1, <5>1, <5>2 DEF Ahead, Cleaning
      <4>2. QED
        BY <4>1
    <3>4. /\ f \in 1 .. Last => f # 0 /\ f # Last + 1
          /\ f = Last + 1 => f # 0 /\ f \notin 1 .. Last
          /\ f = 0 \/ f \in 1 .. Last \/ f = Last + 1
      BY <2>0
    <3>5. Logged'
      BY <3>1, <3>2, <3>3, <3>4, Zenon DEF Logged
    <3>6. Emptied'
      BY <3>1, <3>4 DEF Emptied, Cleaning
    <3>7. QED
      BY <3>5, <3>6
  <2>2. CASE Wipe
    <3>1. from = 0 /\ fhour = 0 /\ fcst' \in {"wipe", "clean log"} /\ UNCHANGED <<fhour, from>>
      BY <2>2 DEF Wipe, ForecastPart
    <3>2. \A h \in Hours : ~(h < 0)
      BY <2>0
    <3>3. \/ UNCHANGED <<fcst, hist, log>>
          \/ /\ hist' = [h \in Hours |-> 0] /\ log' = [h \in Hours |-> FALSE]
             /\ fcst' = "clean log"
      BY <2>2 DEF Wipe
    <3>4. fcst = "wipe"
      BY <2>2 DEF Wipe
    <3>5. QED
      BY <3>1, <3>2, <3>3, <3>4 DEF Logged, Emptied, Ahead, Cleaning
  <2>3. CASE CleanLog
    <3>1. /\ fcst = "clean log" /\ fcst' = "clean post"
          /\ log' = [log EXCEPT ![fhour] = FALSE] /\ fhour \in Hours /\ from <= fhour
          /\ UNCHANGED <<fhour, run, from, hist, missed>>
      BY <2>3 DEF CleanLog, ForecastPart, Cleaning
    <3>2. \A h \in Hours : log'[h] = (h # fhour /\ log[h])
      BY <2>0, <3>1
    <3>3. \A h \in Hours : h < from => h # fhour
      <4>1. from <= fhour
        BY <3>1
      <4>2. QED
        BY <2>0, <4>1
    <3>4. \A h \in Hours : Ahead(h)' => Ahead(h)
      BY <3>1 DEF Ahead, Cleaning
    <3>5. Logged'
      BY <3>1, <3>2, <3>3, <3>4, Zenon DEF Logged, Active
    <3>6. Emptied'
      BY <3>1 DEF Emptied, Cleaning
    <3>7. QED
      BY <3>5, <3>6
  <2>4. CASE CleanPost
    <3>1. /\ fcst = "clean post" /\ NextClean /\ fhour \in Hours /\ Cleaning
          /\ UNCHANGED <<run, from, hist, log, missed>>
      BY <2>4, CleanHour DEF Cleaning
    <3>2. \A h \in Hours : h < from => log[h] \/ h \in missed
      BY <3>1 DEF Logged, Active
    <3>3. \A h \in Hours : Ahead(h)' => ~log[h]
      BY <2>4, <3>1, AheadAfter DEF Logged, Forecast
    <3>4. fcst' = "clean log" \/ (fcst' = "model" /\ fhour' = from)
      BY <3>1 DEF NextClean
    <3>5. Logged'
      BY <3>1, <3>2, <3>3, <3>4, Zenon DEF Logged
    <3>6. Emptied'
      BY <3>1, <3>4, Bounds DEF Emptied, Cleaning
    <3>7. QED
      BY <3>5, <3>6
  <2>5. CASE ModelWrites
    <3>1. /\ fcst = "model" /\ fhour \in Hours /\ hist' = [hist EXCEPT ![fhour] = run]
          /\ UNCHANGED <<fcst, fhour, run, from, log, missed>> /\ run # 0
      BY <2>5 DEF ModelWrites, ForecastPart, Active
    <3>2. \A h \in Hours : hist'[h] = IF h = fhour THEN run ELSE hist[h]
      BY <2>0, <3>1
    <3>3. \A h \in Hours : Ahead(h)' => Ahead(h)
      BY <3>1 DEF Ahead, Cleaning
    <3>4. Logged'
      BY <3>1, <3>2, <3>3 DEF Logged
    <3>5. Emptied'
      BY <3>1, <3>2 DEF Emptied, Cleaning
    <3>6. QED
      BY <3>4, <3>5
  <2>6. CASE ModelLogs
    <3>1. /\ fcst = "model" /\ fcst' = "model" /\ fhour' = fhour + 1 /\ fhour \in Hours
          /\ log' = [log EXCEPT ![fhour] = TRUE] /\ UNCHANGED <<run, from, hist, missed>>
          /\ hist[fhour] = run /\ run # 0
      BY <2>6 DEF ModelLogs, ForecastPart, Active
    <3>2. \A h \in Hours : log'[h] = (h = fhour \/ log[h])
      BY <2>0, <3>1
    <3>3. \A h \in Hours : h < fhour + 1 <=> h < fhour \/ h = fhour
      BY <2>0
    <3>4. \A h \in Hours : Ahead(h)' => ~log'[h]
      <4>1. ASSUME NEW h \in Hours, Ahead(h)' PROVE h # fhour /\ Ahead(h)
        <5>1. fhour + 1 <= h
          BY <3>1, <4>1 DEF Ahead, Cleaning
        <5>2. fhour <= h /\ h # fhour
          BY <2>0, <5>1
        <5>3. QED
          BY <3>1, <5>2 DEF Ahead
      <4>2. QED
        BY <3>2, <4>1 DEF Logged
    <3>5. Logged'
      BY <3>1, <3>2, <3>3, <3>4 DEF Logged, Active
    <3>6. Emptied'
      <4>1. fhour' # 0
        <5>1. fhour + 1 # 0
          BY <2>0
        <5>2. QED
          BY <3>1, <5>1
      <4>2. QED
        BY <3>1, <4>1 DEF Emptied, Cleaning
    <3>7. QED
      BY <3>5, <3>6
  <2>7. CASE ModelRestarts
    BY <2>7 DEF ModelRestarts, Logged, Emptied, Ahead, Active, Cleaning
  <2>8. CASE ForecastEnds
    <3>1. fcst = "model" /\ fcst' = "complete" /\ fhour > Last /\ UNCHANGED <<hist, log, missed>>
      BY <2>8 DEF ForecastEnds
    <3>2. \A h \in Hours : h < fhour
      BY <2>0, <3>1
    <3>3. QED
      BY <3>1, <3>2 DEF Logged, Emptied, Ahead, Active, Cleaning
  <2>9. CASE ForecastDies
    BY <2>9 DEF ForecastDies, Logged, Emptied, Ahead, Active, Cleaning
  <2>10. CASE UNCHANGED model
    BY <2>10 DEF model, Logged, Emptied, Ahead, Active, Cleaning
  <2>11. QED
    BY <2>1, <2>2, <2>3, <2>4, <2>5, <2>6, <2>7, <2>8, <2>9, <2>10, PostLeavesAlone,
       OceanLeavesAlone, GempakLeavesAlone DEF Next, Forecast, vars
<1>3. QED
  BY <1>1, <1>2, ForecastTypes, PTL DEF Spec

-----------------------------------------------------------------------------
(* What the invariants of the deliveries rest on.                          *)
Ground == ForecastPart /\ PostPart /\ Logged

(* An hour that was cleaned up and is not written yet has no done file, and *)
(* no job has it behind itself or in work - unless it was overtaken.       *)
Fresh(h) == over[h] = "late" \/ (over[h] = "no" /\ done[h] = "none" /\ ~PostPast(h))

Unposted == \A h \in Hours : Ahead(h) \/ Void(h) => Fresh(h)

(* A done file stands beside the products of one run: the one whose output *)
(* is there, unless that is being wiped.                                   *)
Marked ==
  \A h \in Hours : done[h] # "none" /\ over[h] = "no" =>
    /\ done[h] = "newer"
    /\ grb[h] # 0 /\ idx[h] = grb[h] /\ trk[h] = grb[h]
    /\ hist[h] \in {grb[h], 0}

(* What a job has done of its hour at each place of the loop.              *)
AtHour ==
  \A i \in Jobs :
    /\ post[i] \in AtWork /\ over[phour[i]] = "no" => done[phour[i]] = "none"
    /\ post[i] \in Delivering /\ over[phour[i]] # "late" =>
         /\ psrc[i] # 0 /\ hist[phour[i]] \in {psrc[i], 0}
         /\ post[i] \in {"grb", "idx", "mark"} => trk[phour[i]] = psrc[i]
         /\ post[i] \in {"idx", "mark"} => grb[phour[i]] = psrc[i]
         /\ post[i] = "mark" => idx[phour[i]] = psrc[i]

(* The hours that a job has behind itself are done.                        *)
Gone(i, h) == (Active(post[i]) /\ h < phour[i]) \/ post[i] = "complete"

Behind ==
  \A i \in Jobs : \A h \in Hours :
    h % Groups = i /\ Gone(i, h) /\ over[h] = "no" => done[h] # "none"

Flowing == Unposted /\ Marked /\ AtHour /\ Behind

(* What a job is past, in terms of its place.                              *)
LEMMA PastJob ==
  ASSUME PostPart, NEW h \in Hours
  PROVE  /\ h % Groups \in Jobs
         /\ PostPast(h) <=> \/ Gone(h % Groups, h)
                            \/ post[h % Groups] \in Delivering /\ phour[h % Groups] = h
<1>1. h % Groups \in Jobs
  BY Bounds, RestType DEF Jobs
<1>2. phour[h % Groups] \in Nat /\ h \in Nat
  BY <1>1, PostRaster, Bounds
<1>3. phour[h % Groups] > h <=> h < phour[h % Groups]
  BY <1>2
<1>4. QED
  BY <1>1, <1>3 DEF PostPast, Gone, Delivering

(* The job whose hour it is, is the only one that can be at an hour.       *)
LEMMA OwnHour ==
  ASSUME PostPart, NEW i \in Jobs, phour[i] \in Hours
  PROVE  phour[i] % Groups = i
  BY PostRaster

-----------------------------------------------------------------------------
(* A step that changes no product, nor what a job does, keeps all that if  *)
(* output at most goes and no hour comes to be cleaned up.                 *)
LEMMA FlowKept ==
  ASSUME Flowing, UNCHANGED atm,
         \A h \in Hours : hist'[h] \in {hist[h], 0},
         \A h \in Hours : Ahead(h)' \/ Void(h)' => Ahead(h) \/ Void(h),
         PostPart
  PROVE  Flowing'
<1>1. \A h \in Hours : Fresh(h) => Fresh(h)'
  BY DEF atm, Fresh, PostPast
<1>2. Unposted'
  BY <1>1 DEF Flowing, Unposted
<1>3. Marked'
  BY DEF Flowing, Marked, atm
<1>4. AtHour'
  BY DEF Flowing, AtHour, atm, PostPart, AtWork
<1>5. Behind'
  BY DEF Flowing, Behind, Gone, atm
<1>6. QED
  BY <1>2, <1>3, <1>4, <1>5 DEF Flowing

(* The forecast is started, and jobs that have ended are queued again.     *)
LEMMA FlowStart ==
  ASSUME Ground, Flowing, StartForecast
  PROVE  Flowing'
<1>1. UNCHANGED <<hist, phour, psrc, grb, idx, trk, done, over>>
  BY DEF StartForecast
<1>2. \A i \in Jobs : post'[i] = post[i] \/ (post[i] = "complete" /\ post'[i] = "queued")
  BY Requeued DEF Ground
<1>3. \A i \in Jobs : \A h \in Hours : Gone(i, h)' => Gone(i, h)
  BY <1>1, <1>2 DEF Gone, Active
<1>4. \A i \in Jobs : post'[i] \in AtWork => post'[i] = post[i]
  BY <1>2 DEF AtWork, Delivering
<1>5. \A h \in Hours : Fresh(h) => Fresh(h)'
  <2>1. ASSUME NEW h \in Hours, PostPast(h)' PROVE PostPast(h)
    <3>1. h % Groups \in Jobs
      BY PastJob DEF Ground
    <3>2. QED
      BY <1>1, <1>2, <2>1, <3>1 DEF PostPast, Active
  <2>2. QED
    BY <1>1, <2>1 DEF Fresh
<1>6. \A h \in Hours : Ahead(h)' \/ Void(h)' => Ahead(h) \/ Void(h)
  <2>1. ~CleanPost
    BY DEF StartForecast, CleanPost
  <2>2. QED
    BY <2>1, AheadAfter, VoidAfter DEF Ground, Forecast
<1>7. Unposted'
  BY <1>5, <1>6 DEF Flowing, Unposted
<1>8. Marked'
  BY <1>1 DEF Flowing, Marked
<1>9. AtHour'
  <2>1. \A i \in Jobs : post'[i] \in Delivering => post'[i] \in AtWork
    BY DEF AtWork
  <2>2. QED
    BY <1>1, <1>4, <2>1 DEF Flowing, AtHour
<1>10. Behind'
  BY <1>1, <1>3 DEF Flowing, Behind
<1>11. QED
  BY <1>7, <1>8, <1>9, <1>10 DEF Flowing

(* The clean-up of an hour: from then on it is overtaken, or nobody's yet. *)
LEMMA FlowClean ==
  ASSUME Ground, Flowing, CleanPost
  PROVE  Flowing'
<1>1. /\ fhour \in Hours
      /\ done' = [done EXCEPT ![fhour] = "none"] /\ trk' = [trk EXCEPT ![fhour] = 0]
      /\ IF PostPast(fhour) THEN over' = [over EXCEPT ![fhour] = "late"]
                            ELSE over' = [over EXCEPT ![fhour] = "no"]
      /\ UNCHANGED <<hist, post, phour, psrc, grb, idx>>
  BY CleanHour DEF Ground
<1>2. \A h \in Hours : /\ h # fhour => done'[h] = done[h] /\ trk'[h] = trk[h] /\ over'[h] = over[h]
                       /\ PostPast(h)' <=> PostPast(h)
  BY <1>1 DEF Ground, PostPart, OfRun, PostPast
<1>3. /\ done'[fhour] = "none"
      /\ over'[fhour] = IF PostPast(fhour) THEN "late" ELSE "no"
  BY <1>1 DEF Ground, PostPart
<1>4. Unposted'
  <2>1. \A h \in Hours : Ahead(h)' \/ Void(h)' => Ahead(h) \/ Void(h) \/ h = fhour
    BY AheadAfter, VoidAfter DEF Ground, Forecast
  <2>2. PICK k \in Hours : k = fhour
    BY <1>1
  <2>3. Fresh(k)'
    BY <1>1, <1>2, <1>3, <2>2 DEF Fresh
  <2>4. \A h \in Hours : h # k /\ Fresh(h) => Fresh(h)'
    BY <1>2, <2>2 DEF Fresh
  <2>5. QED
    BY <2>1, <2>2, <2>3, <2>4 DEF Flowing, Unposted
<1>5. Marked'
  BY <1>1, <1>2, <1>3 DEF Flowing, Marked
<1>6. AtHour'
  <2>1. ASSUME NEW i \in Jobs, post[i] \in Delivering, phour[i] = fhour
        PROVE  over'[fhour] = "late"
    <3>1. fhour % Groups = i
      BY <1>1, <2>1, OwnHour DEF Ground
    <3>2. PostPast(fhour)
      BY <1>1, <2>1, <3>1, PastJob DEF Ground
    <3>3. QED
      BY <1>3, <3>2
  <2>2. \A i \in Jobs : post[i] \in AtWork => phour[i] \in Hours
    BY DEF Ground, PostPart
  <2>3. \A i \in Jobs : post[i] \in Delivering => post[i] \in AtWork
    BY DEF AtWork
  <2>4. QED
    BY <1>1, <1>2, <1>3, <2>1, <2>2, <2>3 DEF Flowing, AtHour
<1>7. Behind'
  <2>1. ASSUME NEW i \in Jobs, fhour % Groups = i, Gone(i, fhour) PROVE over'[fhour] = "late"
    BY <1>1, <1>3, <2>1, PastJob DEF Ground
  <2>2. \A i \in Jobs : \A h \in Hours : Gone(i, h)' <=> Gone(i, h)
    BY <1>1 DEF Gone
  <2>3. QED
    BY <1>2, <2>1, <2>2 DEF Flowing, Behind
<1>8. QED
  BY <1>4, <1>5, <1>6, <1>7 DEF Flowing

(* The model writes where nothing is posted and nobody delivers.           *)
LEMMA FlowModel ==
  ASSUME Ground, Flowing, ModelWrites \/ ModelLogs
  PROVE  Flowing'
<1>1. fcst = "model" /\ fhour \in Hours /\ fhour <= fhour
  BY ForecastNumbers DEF ModelWrites, ModelLogs, Ground
<1>2. Fresh(fhour)
  BY <1>1 DEF Flowing, Unposted, Ahead
<1>3. UNCHANGED <<post, phour, psrc, grb, idx, trk, over>>
  BY DEF ModelWrites, ModelLogs, atm
<1>4. \A h \in Hours : /\ h # fhour => hist'[h] = hist[h]
                       /\ over[h] = "no" \/ h # fhour => done'[h] = done[h]
  <2>1. CASE ModelWrites
    BY <2>1, ForecastNumbers DEF ModelWrites, atm, Ground
  <2>2. CASE ModelLogs
    <3>1. done' = [done EXCEPT ![fhour] = Aged(@)] /\ hist' = hist
      BY <2>2 DEF ModelLogs
    <3>2. over[fhour] = "no" => done[fhour] = "none"
      BY <1>2 DEF Fresh
    <3>3. QED
      BY <1>1, <3>1, <3>2 DEF Aged, Ground, PostPart
  <2>3. QED
    BY <2>1, <2>2
<1>5. Unposted'
  <2>1. ~CleanPost
    BY <1>1 DEF CleanPost
  <2>2. \A h \in Hours : Ahead(h)' \/ Void(h)' => Ahead(h) \/ Void(h)
    BY <2>1, AheadAfter, VoidAfter DEF Ground, Forecast
  <2>3. \A h \in Hours : Fresh(h) => Fresh(h)'
    BY <1>3, <1>4 DEF Fresh, PostPast
  <2>4. QED
    BY <2>2, <2>3 DEF Flowing, Unposted
<1>6. Marked'
  <2>1. over[fhour] = "no" => done'[fhour] = "none"
    BY <1>1, <1>2, <1>4 DEF Fresh
  <2>2. QED
    BY <1>3, <1>4, <2>1 DEF Flowing, Marked
<1>7. AtHour'
  <2>1. ASSUME NEW i \in Jobs, post[i] \in Delivering, over[phour[i]] # "late"
        PROVE  phour[i] # fhour
    <3>1. SUFFICES ASSUME phour[i] = fhour PROVE FALSE
      OBVIOUS
    <3>2. fhour % Groups = i
      BY <1>1, <3>1, OwnHour DEF Ground
    <3>3. PostPast(fhour)
      BY <1>1, <2>1, <3>1, <3>2, PastJob DEF Ground
    <3>4. QED
      BY <1>2, <2>1, <3>1, <3>3 DEF Fresh
  <2>2. \A i \in Jobs : post[i] \in AtWork => phour[i] \in Hours
    BY DEF Ground, PostPart
  <2>3. \A i \in Jobs : post[i] \in Delivering => post[i] \in AtWork
    BY DEF AtWork
  <2>4. QED
    BY <1>3, <1>4, <2>1, <2>2, <2>3 DEF Flowing, AtHour
<1>8. Behind'
  BY <1>3, <1>4 DEF Flowing, Behind, Gone
<1>9. QED
  BY <1>5, <1>6, <1>7, <1>8 DEF Flowing

-----------------------------------------------------------------------------
(* The hours below the next of a raster are those below the present one,   *)
(* and that one.                                                           *)
LEMMA RasterBehind ==
  ASSUME NEW step \in Nat \ {0}, NEW first \in 0 .. step - 1, NEW p \in Nat,
         OnRaster(p, step, first), NEW h \in Nat, h % step = first, h < p + step
  PROVE  h < p \/ h = p
<1>1. CASE p < h
  BY <1>1, RasterGap
<1>2. QED
  BY <1>1

(* What a step of atm_post leaves: the forecast, the other jobs, and the   *)
(* files of all hours but its own.                                         *)
LEMMA PostTouches ==
  ASSUME PostPart, NEW i \in Jobs, AtmPost(i)
  PROVE  /\ \A h \in Hours : h # phour[i] =>
              /\ grb'[h] = grb[h] /\ idx'[h] = idx[h] /\ trk'[h] = trk[h]
              /\ done'[h] = done[h] /\ over'[h] = over[h]
         /\ \A j \in Jobs \ {i} : /\ post'[j] = post[j] /\ phour'[j] = phour[j]
                                  /\ psrc'[j] = psrc[j]
         /\ UNCHANGED model
<1>1. UNCHANGED model
  BY PostLeavesAlone
<1>2. CASE StartPost(i) \/ SkipPost(i) \/ NeedPost(i) \/ EndPost(i) \/ PostTimeout(i)
           \/ PostDies(i)
  BY <1>1, <1>2 DEF StartPost, SkipPost, NeedPost, EndPost, PostTimeout, PostDies,
     PostLeaves, PostGoto, NextHour, PostPart
<1>3. CASE RunPost(i)
  BY <1>1, <1>3 DEF RunPost, PostGoto, PostPart
<1>4. CASE DeliverTrack(i) \/ DeliverGrb(i) \/ DeliverIdx(i)
  BY <1>1, <1>4 DEF DeliverTrack, DeliverGrb, DeliverIdx, PostGoto, PostPart, OfRun
<1>5. CASE MarkPost(i)
  BY <1>1, <1>5 DEF MarkPost, PostGoto, NextHour, PostPart
<1>6. QED
  BY <1>2, <1>3, <1>4, <1>5 DEF AtmPost

(* A job's counter passes its own hours one by one; what it passes in a    *)
(* step is the hour that it was at, by skipping or by marking it.          *)
LEMMA PostPasses ==
  ASSUME PostPart, NEW i \in Jobs, AtmPost(i), NEW h \in Hours, h % Groups = i, Gone(i, h)'
  PROVE  Gone(i, h) \/ (h = phour[i] /\ (SkipPost(i) \/ MarkPost(i)))
<1> DEFINE p == phour[i]
<1>0. /\ i \in 0 .. Groups - 1 /\ p \in Nat /\ OnRaster(p, Groups, i)
      /\ Groups \in Nat \ {0} /\ Last \in Nat /\ h \in Nat /\ h <= Last /\ i \in Nat
  BY PostRaster, Bounds DEF PostPart
<1>1. post \in [Jobs -> {"off", "queued", "check", "complete"} \cup AtWork]
      /\ phour \in [Jobs -> 0 .. Last + Groups]
  BY DEF PostPart
<1>2. CASE StartPost(i)
  <2>1. phour'[i] = i /\ post'[i] = "check"
    BY <1>1, <1>2 DEF StartPost, PostGoto, PostPart, Active
  <2>2. h < i
    BY <2>1 DEF Gone
  <2>3. h % Groups = h
    BY <1>0, <2>2, RestSmall
  <2>4. QED
    BY <1>0, <2>2, <2>3
<1>3. CASE SkipPost(i) \/ MarkPost(i)
  <2>1. phour'[i] = p + Groups /\ Active(post[i]) /\ post'[i] = "check"
    BY <1>1, <1>3 DEF SkipPost, MarkPost, PostGoto, NextHour, Active
  <2>2. h < p \/ h = p
    <3>1. h < p + Groups
      BY <2>1 DEF Gone
    <3>2. QED
      BY <1>0, <3>1, RasterBehind
  <2>3. QED
    BY <1>3, <2>1, <2>2 DEF Gone
<1>4. CASE NeedPost(i) \/ RunPost(i) \/ DeliverTrack(i) \/ DeliverGrb(i) \/ DeliverIdx(i)
  <2>1. phour'[i] = p /\ Active(post[i]) /\ post'[i] # "complete"
    BY <1>1, <1>4 DEF NeedPost, RunPost, DeliverTrack, DeliverGrb, DeliverIdx, PostGoto,
       Active
  <2>2. QED
    BY <2>1 DEF Gone
<1>5. CASE EndPost(i)
  <2>1. post[i] = "check" /\ p \notin Hours
    BY <1>5 DEF EndPost
  <2>2. h < p
    <3>1. p > Last
      BY <1>0, <2>1 DEF Hours
    <3>2. QED
      BY <1>0, <3>1
  <2>3. QED
    BY <2>1, <2>2 DEF Gone, Active
<1>6. CASE PostTimeout(i) \/ PostDies(i)
  <2>1. post'[i] = "queued"
    BY <1>1, <1>6 DEF PostTimeout, PostDies, PostLeaves, PostGoto
  <2>2. QED
    BY <2>1 DEF Gone, Active
<1>7. QED
  BY <1>2, <1>3, <1>4, <1>5, <1>6 DEF AtmPost

(* Nor does any other step of a job get it past, or to work on, an hour.   *)
LEMMA PastAfter ==
  ASSUME PostPart, NEW i \in Jobs, AtmPost(i), NEW h \in Hours, PostPast(h)'
  PROVE  \/ PostPast(h)
         \/ h = phour[i] /\ (SkipPost(i) \/ RunPost(i))
<1>1. h % Groups \in Jobs
  BY PastJob
<1>2. /\ post \in [Jobs -> {"off", "queued", "check", "complete"} \cup AtWork]
      /\ phour \in [Jobs -> 0 .. Last + Groups] /\ phour[h % Groups] \in Nat /\ h \in Nat
      /\ Groups \in Nat
  BY <1>1, Bounds, PostRaster DEF PostPart
<1>3. CASE h % Groups # i
  <2>1. post'[h % Groups] = post[h % Groups] /\ phour'[h % Groups] = phour[h % Groups]
    BY <1>1, <1>3, PostTouches
  <2>2. QED
    BY <2>1 DEF PostPast
<1>4. CASE h % Groups = i
  <2>1. \/ Gone(i, h)'
        \/ post'[i] \in Delivering /\ phour'[i] = h
    <3>1. CASE post'[i] = "complete"
      BY <3>1 DEF Gone
    <3>2. CASE Active(post'[i]) /\ phour'[i] > h
      <4>1. \/ phour'[i] = phour[i] \/ phour'[i] = phour[i] + Groups \/ phour'[i] = i
        BY <1>2, <1>4 DEF AtmPost, StartPost, SkipPost, NeedPost, RunPost, DeliverTrack,
           DeliverGrb, DeliverIdx, MarkPost, EndPost, PostTimeout, PostDies, PostLeaves,
           PostGoto, NextHour
      <4>2. phour'[i] \in Nat
        BY <1>2, <1>4, <4>1, Bounds, PostRaster DEF Jobs
      <4>3. h < phour'[i]
        BY <1>2, <3>2, <4>2
      <4>4. QED
        BY <3>2, <4>3 DEF Gone
    <3>3. QED
      BY <1>4, <3>1, <3>2 DEF PostPast, Delivering
  <2>2. CASE Gone(i, h)'
    <3>1. Gone(i, h) \/ (h = phour[i] /\ (SkipPost(i) \/ MarkPost(i)))
      BY <1>4, <2>2, PostPasses
    <3>2. MarkPost(i) => post[i] \in Delivering
      BY DEF MarkPost, Delivering
    <3>3. QED
      BY <1>4, <3>1, <3>2, PastJob
  <2>3. CASE post'[i] \in Delivering /\ phour'[i] = h
    <3>1. phour[i] = h /\ (RunPost(i) \/ post[i] \in Delivering)
      BY <1>2, <2>3 DEF AtmPost, StartPost, SkipPost, NeedPost, RunPost, DeliverTrack,
         DeliverGrb, DeliverIdx, MarkPost, EndPost, PostTimeout, PostDies, PostLeaves,
         PostGoto, NextHour, Delivering
    <3>2. QED
      BY <1>4, <3>1, PastJob
  <2>4. QED
    BY <2>1, <2>2, <2>3
<1>5. QED
  BY <1>3, <1>4

(* The steps of atm_post itself.                                           *)
LEMMA FlowPost ==
  ASSUME Ground, Flowing, NEW i \in Jobs, AtmPost(i)
  PROVE  Flowing'
<1>0. PICK p \in Nat : p = phour[i]
  BY PostRaster DEF Ground
<1>1. /\ \A h \in Hours : h # p =>
           /\ grb'[h] = grb[h] /\ idx'[h] = idx[h] /\ trk'[h] = trk[h]
           /\ done'[h] = done[h] /\ over'[h] = over[h]
      /\ \A j \in Jobs \ {i} : post'[j] = post[j] /\ phour'[j] = phour[j] /\ psrc'[j] = psrc[j]
      /\ UNCHANGED <<fcst, fhour, run, from, hist, log, res, missed>>
  BY <1>0, PostTouches DEF Ground, model
<1>2. /\ post \in [Jobs -> {"off", "queued", "check", "complete"} \cup AtWork]
      /\ phour \in [Jobs -> 0 .. Last + Groups] /\ psrc \in [Jobs -> Runs]
      /\ grb \in [Hours -> Runs] /\ idx \in [Hours -> Runs] /\ trk \in [Hours -> Runs]
      /\ done \in [Hours -> Marks] /\ over \in [Hours -> Overtaken]
      /\ post[i] \in AtWork => p \in Hours
      /\ p \in Hours => p % Groups = i
      /\ \A j \in Jobs : phour[j] \in Hours => phour[j] % Groups = j
  BY <1>0, OwnHour, Zenon DEF Ground, PostPart, OfRun
<1>3. Delivering \subseteq AtWork /\ "wait" \in AtWork /\ "check" \notin AtWork
      /\ "wait" \notin Delivering
  BY DEF AtWork, Delivering
<1>4. post[i] \in Delivering => PostPast(p)
  <2>1. SUFFICES ASSUME post[i] \in Delivering PROVE PostPast(p)
    OBVIOUS
  <2>2. p \in Hours /\ p % Groups = i
    BY <1>2, <1>3, <2>1
  <2>3. QED
    BY <1>0, <2>1, <2>2, PastJob DEF Ground
<1>5. \A h \in Hours : (Ahead(h)' <=> Ahead(h)) /\ (Void(h)' <=> Void(h))
  BY <1>1 DEF Ahead, Void, Cleaning
<1>6. /\ ~MarkPost(i) /\ ~RunPost(i) => done' = done /\ over' = over
      /\ RunPost(i) => done' = done /\ over' = [over EXCEPT ![p] = TakenUp(@)]
      /\ MarkPost(i) => /\ done' = [done EXCEPT ![p] = "newer"]
                        /\ over' = [over EXCEPT ![p] = MadeUp(@)]
  BY <1>0 DEF AtmPost, StartPost, SkipPost, NeedPost, RunPost, DeliverTrack, DeliverGrb,
     DeliverIdx, MarkPost, EndPost, PostTimeout, PostDies, PostLeaves
<1>7. Unposted'
  <2>1. SUFFICES ASSUME NEW h \in Hours, Ahead(h) \/ Void(h), Fresh(h) PROVE Fresh(h)'
    BY <1>5 DEF Unposted, Flowing
  <2>2. ~log[h]
    BY <2>1 DEF Ground, Logged, Void
  <2>3. CASE h = p /\ SkipPost(i)
    <3>1. done[h] # "none" /\ over' = over
      BY <1>0, <1>6, <2>3 DEF SkipPost, Posted, NewerThanLog
    <3>2. QED
      BY <2>1, <3>1 DEF Fresh
  <2>4. CASE h = p /\ RunPost(i)
    BY <1>0, <2>2, <2>4 DEF RunPost, Ready
  <2>5. CASE h = p /\ MarkPost(i)
    <3>1. over[h] = "late"
      BY <1>4, <2>1, <2>5 DEF Fresh, MarkPost, Delivering
    <3>2. over'[h] = "late"
      BY <1>2, <1>6, <2>1, <2>5, <3>1 DEF MadeUp
    <3>3. QED
      BY <3>2 DEF Fresh
  <2>6. CASE h # p \/ (~SkipPost(i) /\ ~RunPost(i) /\ ~MarkPost(i))
    <3>1. PostPast(h)' => PostPast(h)
      BY <1>0, <2>6, PastAfter DEF Ground
    <3>2. over'[h] = over[h] /\ done'[h] = done[h]
      BY <1>1, <1>6, <2>6
    <3>3. QED
      BY <2>1, <3>1, <3>2 DEF Fresh
  <2>7. QED
    BY <2>3, <2>4, <2>5, <2>6
<1>8. Marked'
  <2>1. SUFFICES ASSUME p \in Hours, done'[p] # "none", over'[p] = "no"
                 PROVE  /\ done'[p] = "newer"
                        /\ grb'[p] # 0 /\ idx'[p] = grb'[p] /\ trk'[p] = grb'[p]
                        /\ hist[p] \in {grb'[p], 0}
    BY <1>1 DEF Marked, Flowing
  <2>2. CASE MarkPost(i)
    <3>1. /\ post[i] = "mark" /\ over[p] # "late" /\ done'[p] = "newer"
          /\ UNCHANGED <<grb, idx, trk>>
      BY <1>2, <1>6, <2>1, <2>2 DEF MarkPost, MadeUp
    <3>2. /\ psrc[i] # 0 /\ hist[p] \in {psrc[i], 0}
          /\ trk[p] = psrc[i] /\ grb[p] = psrc[i] /\ idx[p] = psrc[i]
      BY <1>0, <3>1 DEF Flowing, AtHour, Delivering
    <3>3. QED
      BY <3>1, <3>2
  <2>3. CASE DeliverTrack(i) \/ DeliverGrb(i) \/ DeliverIdx(i)
    <3>1. post[i] \in AtWork /\ ~MarkPost(i) /\ ~RunPost(i)
      BY <2>3 DEF DeliverTrack, DeliverGrb, DeliverIdx, MarkPost, RunPost, AtWork, Delivering
    <3>2. over[p] = "no" /\ done[p] # "none"
      BY <1>6, <2>1, <3>1
    <3>3. QED
      BY <1>0, <3>1, <3>2 DEF Flowing, AtHour
  <2>4. CASE UNCHANGED <<grb, idx, trk>> /\ ~MarkPost(i)
    <3>1. done' = done /\ over[p] = "no"
      BY <1>2, <1>6, <2>1, <2>4 DEF TakenUp
    <3>2. QED
      BY <2>1, <2>4, <3>1 DEF Flowing, Marked
  <2>5. QED
    BY <2>2, <2>3, <2>4 DEF AtmPost, StartPost, SkipPost, NeedPost, RunPost, EndPost,
       PostTimeout, PostDies, PostLeaves
<1>9. AtHour'
  <2>1. ASSUME NEW j \in Jobs, j # i, post[j] \in AtWork PROVE phour[j] # p /\ phour[j] \in Hours
    <3>1. phour[j] \in Hours
      BY <2>1 DEF Ground, PostPart
    <3>2. QED
      BY <1>2, <2>1, <3>1
  <2>2. ASSUME post'[i] \in AtWork, over'[phour'[i]] = "no" PROVE done'[phour'[i]] = "none"
    <3>1. phour'[i] = p /\ ~MarkPost(i) /\ (NeedPost(i) \/ post[i] \in AtWork)
      BY <1>0, <1>2, <1>3, <2>2 DEF AtmPost, StartPost, SkipPost, NeedPost, RunPost,
         DeliverTrack, DeliverGrb, DeliverIdx, MarkPost, EndPost, PostTimeout, PostDies,
         PostLeaves, PostGoto, NextHour, AtWork, Delivering
    <3>2. p \in Hours
      BY <1>0, <1>2, <3>1 DEF NeedPost
    <3>3. over[p] = "no" /\ done' = done
      BY <1>2, <1>6, <2>2, <3>1, <3>2 DEF TakenUp
    <3>4. CASE NeedPost(i)
      <4>1. ~Posted(p)
        BY <1>0, <3>4 DEF NeedPost
      <4>2. done[p] = "none"
        BY <3>2, <3>3, <4>1 DEF Posted, NewerThanLog, Flowing, Marked
      <4>3. QED
        BY <3>1, <3>3, <4>2
    <3>5. CASE post[i] \in AtWork
      BY <1>0, <3>1, <3>3, <3>5 DEF Flowing, AtHour
    <3>6. QED
      BY <3>1, <3>4, <3>5
  <2>3. ASSUME post'[i] \in Delivering, over'[phour'[i]] # "late"
        PROVE  /\ psrc'[i] # 0 /\ hist[phour'[i]] \in {psrc'[i], 0}
               /\ post'[i] \in {"grb", "idx", "mark"} => trk'[phour'[i]] = psrc'[i]
               /\ post'[i] \in {"idx", "mark"} => grb'[phour'[i]] = psrc'[i]
               /\ post'[i] = "mark" => idx'[phour'[i]] = psrc'[i]
    <3>1. \/ RunPost(i) \/ DeliverTrack(i) \/ DeliverGrb(i) \/ DeliverIdx(i)
      BY <1>2, <1>3, <2>3 DEF AtmPost, StartPost, SkipPost, NeedPost, MarkPost, EndPost,
         PostTimeout, PostDies, PostLeaves, PostGoto, Delivering
    <3>2. phour'[i] = p /\ p \in Hours
      BY <1>0, <1>2, <3>1 DEF RunPost, DeliverTrack, DeliverGrb, DeliverIdx, AtWork, Delivering
    <3>3. CASE RunPost(i)
      <4>1. hist[p] # 0
        BY <1>0, <3>3 DEF RunPost, Ready
      <4>2. psrc'[i] = hist[p] /\ post'[i] = "track"
        BY <1>0, <1>2, <3>3 DEF RunPost, PostGoto
      <4>3. QED
        BY <3>2, <4>1, <4>2
    <3>4. CASE DeliverTrack(i) \/ DeliverGrb(i) \/ DeliverIdx(i)
      <4>1. /\ over[p] # "late" /\ post[i] \in Delivering /\ psrc' = psrc
        BY <1>6, <2>3, <3>2, <3>4 DEF DeliverTrack, DeliverGrb, DeliverIdx, RunPost, MarkPost,
           Delivering
      <4>2. /\ psrc[i] # 0 /\ hist[p] \in {psrc[i], 0}
            /\ post[i] \in {"grb", "idx", "mark"} => trk[p] = psrc[i]
            /\ post[i] \in {"idx", "mark"} => grb[p] = psrc[i]
        BY <1>0, <4>1 DEF Flowing, AtHour
      <4>3. CASE DeliverTrack(i)
        <5>1. post'[i] = "grb" /\ trk'[p] = psrc[i]
          BY <1>0, <1>2, <3>2, <4>3 DEF DeliverTrack, PostGoto
        <5>2. QED
          BY <3>2, <4>1, <4>2, <5>1
      <4>4. CASE DeliverGrb(i)
        <5>1. post[i] = "grb" /\ post'[i] = "idx" /\ grb'[p] = psrc[i] /\ trk' = trk
          BY <1>0, <1>2, <3>2, <4>4 DEF DeliverGrb, PostGoto
        <5>2. QED
          BY <3>2, <4>1, <4>2, <5>1
      <4>5. CASE DeliverIdx(i)
        <5>1. /\ post[i] = "idx" /\ post'[i] = "mark" /\ idx'[p] = psrc[i]
              /\ UNCHANGED <<trk, grb>>
          BY <1>0, <1>2, <3>2, <4>5 DEF DeliverIdx, PostGoto
        <5>2. QED
          BY <3>2, <4>1, <4>2, <5>1
      <4>6. QED
        BY <3>4, <4>3, <4>4, <4>5
    <3>5. QED
      BY <3>1, <3>3, <3>4
  <2>4. ASSUME NEW j \in Jobs, j # i
        PROVE  /\ post'[j] \in AtWork /\ over'[phour'[j]] = "no" => done'[phour'[j]] = "none"
               /\ post'[j] \in Delivering /\ over'[phour'[j]] # "late" =>
                    /\ psrc'[j] # 0 /\ hist[phour'[j]] \in {psrc'[j], 0}
                    /\ post'[j] \in {"grb", "idx", "mark"} => trk'[phour'[j]] = psrc'[j]
                    /\ post'[j] \in {"idx", "mark"} => grb'[phour'[j]] = psrc'[j]
                    /\ post'[j] = "mark" => idx'[phour'[j]] = psrc'[j]
    <3>1. post'[j] = post[j] /\ phour'[j] = phour[j] /\ psrc'[j] = psrc[j]
      BY <1>1, <2>4
    <3>2. SUFFICES ASSUME post[j] \in AtWork
                   PROVE  /\ over'[phour[j]] = over[phour[j]] /\ done'[phour[j]] = done[phour[j]]
                          /\ trk'[phour[j]] = trk[phour[j]] /\ grb'[phour[j]] = grb[phour[j]]
                          /\ idx'[phour[j]] = idx[phour[j]]
      BY <1>3, <3>1 DEF Flowing, AtHour
    <3>3. QED
      BY <1>1, <2>1, <2>4, <3>2
  <2>5. QED
    BY <1>1, <2>2, <2>3, <2>4 DEF AtHour
<1>10. Behind'
  <2>1. SUFFICES ASSUME NEW j \in Jobs, NEW h \in Hours, h % Groups = j, Gone(j, h)',
                        over'[h] = "no"
                 PROVE  done'[h] # "none"
    BY DEF Behind
  <2>2. CASE j # i
    <3>1. h # p
      BY <1>2, <2>1, <2>2
    <3>2. Gone(j, h)
      BY <1>1, <2>1, <2>2 DEF Gone
    <3>3. QED
      BY <1>1, <2>1, <3>1, <3>2 DEF Flowing, Behind
  <2>3. CASE j = i
    <3>1. Gone(i, h) \/ (h = p /\ (SkipPost(i) \/ MarkPost(i)))
      BY <1>0, <2>1, <2>3, PostPasses DEF Ground
    <3>2. CASE Gone(i, h)
      <4>1. post[i] # "complete"
        BY DEF AtmPost, StartPost, SkipPost, NeedPost, RunPost, DeliverTrack, DeliverGrb,
           DeliverIdx, MarkPost, EndPost, PostTimeout, PostDies
      <4>2. h < p
        BY <1>0, <3>2, <4>1 DEF Gone
      <4>3. h # p
        BY <1>0, <4>2
      <4>4. QED
        BY <1>1, <2>1, <2>3, <3>2, <4>3 DEF Flowing, Behind
    <3>3. CASE h = p /\ SkipPost(i)
      BY <1>0, <1>6, <3>3 DEF SkipPost, Posted, NewerThanLog, MarkPost, RunPost
    <3>4. CASE h = p /\ MarkPost(i)
      BY <1>2, <1>6, <3>4
    <3>5. QED
      BY <3>1, <3>2, <3>3, <3>4
  <2>4. QED
    BY <2>2, <2>3
<1>11. QED
  BY <1>7, <1>8, <1>9, <1>10 DEF Flowing

(* The deliveries of atm_post and their done files agree, whenever the     *)
(* forecast is run again.                                                  *)
LEMMA FlowInvariant == Spec => [](Ground /\ Flowing)
<1>1. Init => Flowing
  <2> SUFFICES ASSUME Init PROVE Flowing
    OBVIOUS
  <2>1. /\ done = [h \in Hours |-> "none"] /\ over = [h \in Hours |-> "no"]
        /\ \A i \in Jobs : post[i] \in {"off", "queued"}
    BY DEF Init
  <2>2. \A h \in Hours : h % Groups \in Jobs
    BY Bounds, RestType DEF Jobs
  <2>3. \A h \in Hours : ~PostPast(h)
    BY <2>1, <2>2 DEF PostPast, Active
  <2>4. QED
    BY <2>1, <2>3 DEF Flowing, Unposted, Fresh, Marked, AtHour, AtWork, Delivering, Behind,
       Gone, Active
<1>2. Ground /\ Flowing /\ [Next]_vars => Flowing'
  <2> SUFFICES ASSUME Ground, Flowing, [Next]_vars PROVE Flowing'
    OBVIOUS
  <2>1. CASE StartForecast
    BY <2>1, FlowStart
  <2>2. CASE CleanPost
    BY <2>2, FlowClean
  <2>3. CASE ModelWrites \/ ModelLogs
    BY <2>3, FlowModel
  <2>4. CASE Wipe \/ CleanLog \/ ModelRestarts \/ ForecastEnds \/ ForecastDies
    <3>1. UNCHANGED atm /\ \A h \in Hours : hist'[h] \in {hist[h], 0}
      BY <2>4 DEF Wipe, CleanLog, ModelRestarts, ForecastEnds, ForecastDies
    <3>2. ~CleanPost /\ Forecast
      BY <2>4 DEF Wipe, CleanLog, CleanPost, NextClean, ModelRestarts, ForecastEnds,
         ForecastDies, Forecast
    <3>3. QED
      BY <3>1, <3>2, FlowKept, AheadAfter, VoidAfter DEF Ground
  <2>5. ASSUME NEW i \in Jobs, AtmPost(i) PROVE Flowing'
    BY <2>5, FlowPost
  <2>6. CASE UNCHANGED <<model, atm>>
    BY <2>6, FlowKept DEF model, Ahead, Void, Cleaning, Ground
  <2>7. QED
    BY <2>1, <2>2, <2>3, <2>4, <2>5, <2>6, OceanLeavesAlone, GempakLeavesAlone
       DEF Next, Forecast, vars
<1>3. QED
  BY <1>1, <1>2, ForecastTypes, PostTypes, LoggedInvariant, PTL DEF Spec, Ground

(* A done file of atm_post stands beside the three products of one run of  *)
(* the forecast, unless that took the hour's files away behind its back.   *)
THEOREM MarkedDeliveredHolds == Spec => []MarkedDelivered
<1>1. Ground /\ Flowing => MarkedDelivered
  BY DEF Flowing, Marked, MarkedDelivered
<1>2. QED
  BY <1>1, FlowInvariant, PTL

-----------------------------------------------------------------------------
(* gempak's side of the same: it has seen the products of an hour if they  *)
(* are done, or were made again since.                                     *)
Seen(h) == done[h] # "none" \/ over[h] # "no"

AtDecode ==
  gem \in {"gout", "mark"} /\ gover[ghour] # "late" =>
    /\ gsrc = grb[ghour] /\ Seen(ghour)
    /\ gem = "mark" => gout[ghour] = gsrc

GemDelivered ==
  \A h \in Hours : gdone[h] # "none" /\ gover[h] = "no" => Seen(h) /\ gout[h] = grb[h]

GemGone(h) == (Active(gem) /\ h < ghour) \/ gem = "complete"

GemBehind ==
  \A h \in Hours : h % Stride = 0 /\ GemGone(h) /\ gover[h] = "no" => gdone[h] # "none"

Decoding == AtDecode /\ GemDelivered /\ GemBehind

(* What gempak is past, in terms of its place.                             *)
LEMMA PastGempak ==
  ASSUME GempakPart, NEW h \in Hours
  PROVE  GempakPast(h) <=> GemGone(h) \/ (gem \in {"gout", "mark"} /\ ghour = h)
<1>1. ghour \in Nat /\ h \in Nat
  BY GempakRaster, Bounds
<1>2. ghour > h <=> h < ghour
  BY <1>1
<1>3. QED
  BY <1>2 DEF GempakPast, GemGone

(* A step that is not gempak's keeps what gempak has done of an hour, if   *)
(* it leaves the products of the hour, its done files and its history.     *)
LEMMA DecodingKept ==
  ASSUME GempakPart, Decoding,
         \A h \in Hours : grb'[h] = grb[h] /\ (Seen(h) => Seen(h)'),
         \A h \in Hours : (gdone'[h] # "none" <=> gdone[h] # "none") /\ gover'[h] = gover[h],
         UNCHANGED gempakJob
  PROVE  Decoding'
<1>1. gem \in {"gout", "mark"} => ghour \in Hours
  BY DEF GempakPart
<1>2. AtDecode'
  BY <1>1 DEF Decoding, AtDecode, gempakJob
<1>3. GemDelivered'
  BY DEF Decoding, GemDelivered, gempakJob
<1>4. GemBehind'
  BY DEF Decoding, GemBehind, GemGone, gempakJob
<1>5. QED
  BY <1>2, <1>3, <1>4 DEF Decoding

(* The clean-up of an hour.                                                *)
LEMMA DecodingClean ==
  ASSUME ForecastPart, PostPart, GempakPart, Decoding, CleanPost
  PROVE  Decoding'
<1>1. /\ fhour \in Hours
      /\ done' = [done EXCEPT ![fhour] = "none"] /\ gdone' = [gdone EXCEPT ![fhour] = "none"]
      /\ IF GempakPast(fhour) THEN gover' = [gover EXCEPT ![fhour] = "late"]
                              ELSE gover' = [gover EXCEPT ![fhour] = "no"]
      /\ \/ over' = [over EXCEPT ![fhour] = "late"]
         \/ over' = [over EXCEPT ![fhour] = "no"]
      /\ UNCHANGED <<grb, gem, ghour, gsrc, gout>>
  BY CleanHour, Zenon
<1>2. \A h \in Hours : h # fhour =>
        gdone'[h] = gdone[h] /\ gover'[h] = gover[h] /\ (Seen(h)' <=> Seen(h))
  BY <1>1 DEF PostPart, GempakPart, Seen
<1>3. /\ gdone'[fhour] = "none"
      /\ gover'[fhour] = IF GempakPast(fhour) THEN "late" ELSE "no"
  BY <1>1 DEF GempakPart
<1>4. gem \in {"gout", "mark"} => ghour \in Hours
  BY DEF GempakPart
<1>5. AtDecode'
  <2>1. gem \in {"gout", "mark"} /\ ghour = fhour => gover'[fhour] = "late"
    BY <1>1, <1>3, PastGempak
  <2>2. SUFFICES ASSUME gem \in {"gout", "mark"}, gover'[ghour] # "late"
                 PROVE  /\ gsrc = grb[ghour] /\ (done'[ghour] # "none" \/ over'[ghour] # "no")
                        /\ gem = "mark" => gout[ghour] = gsrc
    BY <1>1 DEF AtDecode, Seen
  <2>3. ghour \in Hours /\ ghour # fhour
    BY <1>4, <2>1, <2>2
  <2>4. QED
    BY <1>2, <2>2, <2>3 DEF Decoding, AtDecode, Seen
<1>6. GemDelivered'
  BY <1>1, <1>2, <1>3 DEF Decoding, GemDelivered
<1>7. GemBehind'
  <2>1. GemGone(fhour) => gover'[fhour] = "late"
    BY <1>1, <1>3, PastGempak
  <2>2. \A h \in Hours : GemGone(h)' <=> GemGone(h)
    BY <1>1 DEF GemGone
  <2>3. QED
    BY <1>2, <2>1, <2>2 DEF Decoding, GemBehind
<1>8. QED
  BY <1>5, <1>6, <1>7 DEF Decoding

(* The steps of atm_post: an hour that gempak has seen is either left as   *)
(* it is, or counts as overtaken for it.                                   *)
LEMMA DecodingPost ==
  ASSUME Ground, Flowing, GempakPart, Decoding, NEW i \in Jobs, AtmPost(i)
  PROVE  Decoding'
<1>0. UNCHANGED gempakJob
  BY PostLeavesAlone
<1>1. \A h \in Hours : Seen(h) => Seen(h)'
  <2>1. CASE MarkPost(i)
    <3>1. phour[i] \in Hours
      BY <2>1 DEF MarkPost, Ground, PostPart, AtWork, Delivering
    <3>2. QED
      BY <2>1, <3>1 DEF MarkPost, Ground, PostPart, Seen
  <2>2. CASE RunPost(i)
    <3>1. phour[i] \in Hours
      BY <2>2 DEF RunPost, Ground, PostPart, AtWork
    <3>2. QED
      BY <2>2, <3>1 DEF RunPost, Ground, PostPart, Seen, TakenUp
  <2>3. CASE UNCHANGED <<done, over>>
    BY <2>3 DEF Seen
  <2>4. QED
    BY <2>1, <2>2, <2>3 DEF AtmPost, StartPost, SkipPost, NeedPost, DeliverTrack,
       DeliverGrb, DeliverIdx, EndPost, PostTimeout, PostDies, PostLeaves
<1>2. CASE DeliverIdx(i)
  <2>1. phour[i] \in Hours
    BY <1>2 DEF DeliverIdx, Ground, PostPart, AtWork, Delivering
  <2>2. gdone' = [gdone EXCEPT ![phour[i]] = Aged(@)] /\ UNCHANGED <<grb, gover>>
    BY <1>2 DEF DeliverIdx
  <2>3. \A h \in Hours : gdone'[h] # "none" <=> gdone[h] # "none"
    BY <2>1, <2>2 DEF Aged, GempakPart
  <2>4. QED
    BY <1>0, <1>1, <2>2, <2>3, DecodingKept
<1>3. CASE DeliverGrb(i)
  <2>1. PICK p \in Hours : p = phour[i]
    BY <1>3 DEF DeliverGrb, Ground, PostPart, AtWork, Delivering
  <2>2. /\ grb' = [grb EXCEPT ![p] = psrc[i]] /\ UNCHANGED <<done, over, gdone>>
        /\ gover' = IF over[p] # "no" /\ (GempakPast(p) \/ gdone[p] # "none")
                    THEN [gover EXCEPT ![p] = "late"] ELSE gover
    BY <1>3, <2>1 DEF DeliverGrb, Redelivered
  <2>3. \A h \in Hours : h # p => grb'[h] = grb[h] /\ gover'[h] = gover[h]
    BY <2>1, <2>2 DEF Ground, PostPart, GempakPart, OfRun
  <2>4. over[p] = "no" => ~Seen(p)
    BY <1>3, <2>1 DEF DeliverGrb, Flowing, AtHour, Seen, AtWork, Delivering
  <2>5. \/ gover'[p] = "late"
        \/ gover' = gover /\ ~Seen(p)
        \/ gover' = gover /\ ~GempakPast(p) /\ gdone[p] = "none"
    BY <2>1, <2>2, <2>4 DEF GempakPart
  <2>6. gover'[p] = "no" => gover[p] = "no"
    BY <2>5
  <2>7. AtDecode'
    <3>1. SUFFICES ASSUME gem \in {"gout", "mark"}, gover'[ghour] # "late"
                   PROVE  /\ gsrc = grb'[ghour] /\ Seen(ghour)
                          /\ gem = "mark" => gout[ghour] = gsrc
      BY <1>0, <2>2 DEF AtDecode, Seen, gempakJob
    <3>2. ghour \in Hours
      BY <3>1 DEF GempakPart
    <3>3. gover[ghour] # "late"
      BY <2>3, <2>5, <3>1, <3>2
    <3>4. gsrc = grb[ghour] /\ Seen(ghour) /\ (gem = "mark" => gout[ghour] = gsrc)
      BY <3>1, <3>3 DEF Decoding, AtDecode
    <3>5. ghour # p
      BY <2>5, <3>1, <3>2, <3>4, PastGempak
    <3>6. QED
      BY <2>3, <3>2, <3>4, <3>5
  <2>8. GemDelivered'
    <3>1. SUFFICES ASSUME NEW h \in Hours, gdone[h] # "none", gover'[h] = "no"
                   PROVE  Seen(h) /\ gout[h] = grb'[h]
      BY <1>0, <2>2 DEF GemDelivered, Seen, gempakJob
    <3>2. Seen(h) /\ gout[h] = grb[h]
      BY <2>3, <2>6, <3>1 DEF Decoding, GemDelivered
    <3>3. h # p
      BY <2>5, <3>1, <3>2
    <3>4. QED
      BY <2>3, <3>2, <3>3
  <2>9. GemBehind'
    BY <1>0, <2>2, <2>3, <2>6 DEF Decoding, GemBehind, GemGone, gempakJob
  <2>10. QED
    BY <2>7, <2>8, <2>9 DEF Decoding
<1>4. CASE UNCHANGED <<grb, gdone, gover>>
  BY <1>0, <1>1, <1>4, DecodingKept
<1>5. QED
  BY <1>2, <1>3, <1>4 DEF AtmPost, StartPost, SkipPost, NeedPost, RunPost, DeliverTrack,
     MarkPost, EndPost, PostTimeout, PostDies, PostLeaves, gempak

(* The steps of gempak itself.                                             *)
LEMMA DecodingStep ==
  ASSUME Ground, Flowing, GempakPart, Decoding, Gempak
  PROVE  Decoding'
<1>0. /\ Stride \in Nat \ {0} /\ 0 \in 0 .. Stride - 1
      /\ ghour \in Nat /\ OnRaster(ghour, Stride, 0) /\ Last \in Nat
      /\ \A h \in Hours : h \in Nat /\ h <= Last
  BY GempakRaster, Bounds DEF GempakPart
<1>1. UNCHANGED <<model, atm>>
  BY GempakLeavesAlone
<1>2. /\ UNCHANGED <<grb, done, over>> /\ gout \in [Hours -> Runs]
      /\ gdone \in [Hours -> Marks] /\ gover \in [Hours -> Overtaken]
      /\ gem \in {"wait", "gout", "mark"} => ghour \in Hours
  BY <1>1, Zenon DEF atm, GempakPart, OfRun
<1>3. CASE StartGempak
  <2>1. ghour = 0 /\ gem' = "check" /\ UNCHANGED <<ghour, gout, gdone, gover>>
    BY <1>3 DEF StartGempak, GempakPart, Active
  <2>2. \A h \in Hours : ~(h < ghour)
    <3>1. ghour = 0
      BY <2>1
    <3>2. QED
      BY <1>0, <3>1
  <2>3. QED
    BY <1>2, <2>1, <2>2 DEF Decoding, AtDecode, GemDelivered, GemBehind, GemGone, Seen
<1>4. CASE SkipGempak
  <2>1. /\ gem = "check" /\ gem' = "check" /\ ghour' = ghour + Stride
        /\ UNCHANGED <<gout, gdone, gover>> /\ gdone[ghour] # "none"
    BY <1>4 DEF SkipGempak, Decoded
  <2>2. \A h \in Hours : h % Stride = 0 /\ h < ghour + Stride => h < ghour \/ h = ghour
    BY <1>0, RasterBehind
  <2>3. GemBehind'
    BY <2>1, <2>2 DEF Decoding, GemBehind, GemGone, Active
  <2>4. QED
    BY <1>2, <2>1, <2>3 DEF Decoding, AtDecode, GemDelivered, Seen
<1>5. CASE NeedGempak
  BY <1>2, <1>5 DEF NeedGempak, Decoding, AtDecode, GemDelivered, GemBehind, GemGone, Active,
     Seen
<1>6. CASE ReadGrb
  <2>1. /\ ghour \in Hours /\ done[ghour] # "none" /\ gsrc' = grb[ghour] /\ gem' = "gout"
        /\ gem = "wait" /\ gover' = [gover EXCEPT ![ghour] = TakenUp(@)]
        /\ UNCHANGED <<ghour, gout, gdone>>
    BY <1>2, <1>6 DEF ReadGrb, GribReady
  <2>2. \A h \in Hours : gover'[h] = "no" => gover[h] = "no"
    BY <1>2, <2>1 DEF TakenUp
  <2>3. QED
    BY <1>2, <2>1, <2>2 DEF Decoding, AtDecode, GemDelivered, GemBehind, GemGone, Active, Seen
<1>7. CASE DeliverGem
  <2>1. /\ gem = "gout" /\ gem' = "mark" /\ gout' = [gout EXCEPT ![ghour] = gsrc]
        /\ UNCHANGED <<ghour, gsrc, gdone, gover>> /\ ghour \in Hours
    BY <1>2, <1>7 DEF DeliverGem
  <2>2. /\ gout'[ghour] = gsrc
        /\ \A h \in Hours : h # ghour => gout'[h] = gout[h]
    BY <1>2, <2>1
  <2>3. gover[ghour] # "late" => gsrc = grb[ghour] /\ Seen(ghour)
    BY <2>1 DEF Decoding, AtDecode
  <2>4. AtDecode'
    BY <1>2, <2>1, <2>2, <2>3 DEF AtDecode, Seen
  <2>5. GemDelivered'
    <3>1. SUFFICES ASSUME NEW h \in Hours, gdone[h] # "none", gover[h] = "no"
                   PROVE  Seen(h) /\ gout'[h] = grb[h]
      BY <1>2, <2>1 DEF GemDelivered, Seen
    <3>2. Seen(h) /\ gout[h] = grb[h]
      BY <3>1 DEF Decoding, GemDelivered
    <3>3. QED
      BY <2>2, <2>3, <3>1, <3>2
  <2>6. GemBehind'
    BY <2>1 DEF Decoding, GemBehind, GemGone, Active
  <2>7. QED
    BY <2>4, <2>5, <2>6 DEF Decoding
<1>8. CASE MarkGem
  <2>1. /\ gem = "mark" /\ gem' = "check" /\ gdone' = [gdone EXCEPT ![ghour] = "newer"]
        /\ ghour' = ghour + Stride /\ UNCHANGED gout /\ ghour \in Hours
        /\ gover' = [gover EXCEPT ![ghour] = MadeUp(@)]
    BY <1>2, <1>8 DEF MarkGem
  <2>2. /\ gdone'[ghour] # "none"
        /\ gover'[ghour] = "no" => gover[ghour] # "late"
        /\ \A h \in Hours : h # ghour => gdone'[h] = gdone[h] /\ gover'[h] = gover[h]
    BY <1>2, <2>1 DEF MadeUp
  <2>3. \A h \in Hours : h % Stride = 0 /\ h < ghour + Stride => h < ghour \/ h = ghour
    BY <1>0, RasterBehind
  <2>4. GemBehind'
    BY <2>1, <2>2, <2>3 DEF Decoding, GemBehind, GemGone, Active
  <2>5. GemDelivered'
    <3>1. gover[ghour] # "late" => gout[ghour] = grb[ghour] /\ Seen(ghour)
      BY <2>1 DEF Decoding, AtDecode
    <3>2. QED
      BY <1>2, <2>1, <2>2, <3>1 DEF Decoding, GemDelivered, Seen
  <2>6. AtDecode'
    BY <2>1 DEF AtDecode
  <2>7. QED
    BY <2>4, <2>5, <2>6 DEF Decoding
<1>9. CASE EndGempak
  <2>1. \A h \in Hours : h < ghour
    <3>1. ghour \notin Hours
      BY <1>9 DEF EndGempak
    <3>2. ghour > Last
      BY <1>0, <3>1 DEF Hours
    <3>3. QED
      BY <1>0, <3>2
  <2>2. QED
    BY <1>2, <1>9, <2>1 DEF EndGempak, GempakLeaves, Decoding, AtDecode, GemDelivered,
       GemBehind, GemGone, Active, Seen
<1>10. CASE GempakTimeout \/ GempakDies
  BY <1>2, <1>10 DEF GempakTimeout, GempakDies, GempakLeaves, Decoding, AtDecode,
     GemDelivered, GemBehind, GemGone, Active, Seen
<1>11. QED
  BY <1>3, <1>4, <1>5, <1>6, <1>7, <1>8, <1>9, <1>10 DEF Gempak

(* gempak follows atm_post as atm_post follows the forecast.               *)
LEMMA DecodingInvariant == Spec => []Decoding
<1>1. Init => Decoding
  <2> SUFFICES ASSUME Init PROVE Decoding
    OBVIOUS
  <2>1. gem \in {"off", "queued"} /\ gdone = [h \in Hours |-> "none"]
    BY DEF Init
  <2>2. QED
    BY <2>1 DEF Decoding, AtDecode, GemDelivered, GemBehind, GemGone, Active
<1>2. Ground /\ Flowing /\ GempakPart /\ Decoding /\ [Next]_vars => Decoding'
  <2> SUFFICES ASSUME Ground, Flowing, GempakPart, Decoding, [Next]_vars PROVE Decoding'
    OBVIOUS
  <2>1. CASE StartForecast
    <3>1. UNCHANGED <<grb, done, over, gout, gdone, gover, ghour, gsrc>>
      BY <2>1 DEF StartForecast
    <3>2. gem' = gem \/ (gem = "complete" /\ gem' = "queued")
      BY <2>1, Requeued DEF Ground
    <3>3. QED
      BY <3>1, <3>2 DEF Decoding, AtDecode, GemDelivered, GemBehind, GemGone, Active, Seen
  <2>2. CASE CleanPost
    BY <2>2, DecodingClean DEF Ground
  <2>3. CASE ModelLogs
    <3>1. UNCHANGED <<grb, over, gempak>> /\ done' = [done EXCEPT ![fhour] = Aged(@)]
      BY <2>3 DEF ModelLogs
    <3>2. \A h \in Hours : Seen(h) => Seen(h)'
      BY <3>1 DEF Seen, Aged, Ground, PostPart
    <3>3. QED
      BY <3>1, <3>2, DecodingKept DEF gempak, gempakJob
  <2>4. CASE \/ Wipe \/ CleanLog \/ ModelWrites \/ ModelRestarts \/ ForecastEnds
             \/ ForecastDies \/ OcnPost \/ UNCHANGED vars
    <3>1. UNCHANGED <<atm, gempak>>
      BY <2>4, OceanLeavesAlone DEF Wipe, CleanLog, ModelWrites, ModelRestarts, ForecastEnds,
         ForecastDies, vars
    <3>2. QED
      BY <3>1, DecodingKept DEF atm, gempak, gempakJob, Seen
  <2>5. ASSUME NEW i \in Jobs, AtmPost(i) PROVE Decoding'
    BY <2>5, DecodingPost
  <2>6. CASE Gempak
    BY <2>6, DecodingStep
  <2>7. QED
    BY <2>1, <2>2, <2>3, <2>4, <2>5, <2>6 DEF Next, Forecast
<1>3. QED
  BY <1>1, <1>2, FlowInvariant, GempakTypes, PTL DEF Spec

-----------------------------------------------------------------------------
(* When all is complete, after failures, reruns and restarts of any job    *)
(* while the others go on, the products of every hour are of the forecast  *)
(* that is there, but for the hours that were taken away behind a job.     *)
THEOREM FinalProductsHold == Spec => []FinalProducts
<1>1. Ground /\ Flowing /\ Decoding => FinalProducts
  <2> SUFFICES ASSUME Ground, Flowing, Decoding PROVE FinalProducts
    OBVIOUS
  <2>1. ASSUME fcst = "complete", NEW h \in Hours, PostEnded(h), over[h] = "no"
        PROVE  grb[h] = hist[h] /\ done[h] # "none"
    <3>1. h % Groups \in Jobs /\ PostPast(h) /\ Gone(h % Groups, h)
      BY <2>1, PastJob DEF Ground, PostEnded, PostPast, Gone
    <3>2. done[h] # "none"
      BY <2>1, <3>1 DEF Flowing, Behind
    <3>3. hist[h] # 0
      BY <2>1, <3>1 DEF Flowing, Unposted, Void, Fresh
    <3>4. QED
      BY <2>1, <3>2, <3>3 DEF Flowing, Marked
  <2>2. ASSUME gem = "complete", NEW h \in Hours, h % Stride = 0, gover[h] = "no"
        PROVE  gout[h] = grb[h]
    BY <2>2 DEF Decoding, GemBehind, GemGone, GemDelivered
  <2>3. QED
    BY <2>1, <2>2 DEF FinalProducts
<1>2. QED
  BY <1>1, FlowInvariant, DecodingInvariant, PTL

(* Once the forecast is complete, no job waits for a file that nobody will *)
(* write any more, but where the restart left hours without a log out.     *)
THEOREM NoVainWaitHolds == Spec => []NoVainWait
<1>1. Ground /\ OceanPart /\ GempakPart /\ Flowing => NoVainWait
  <2> SUFFICES ASSUME Ground, OceanPart, GempakPart, Flowing, fcst = "complete"
               PROVE  /\ \A i \in Jobs : post[i] = "wait" =>
                           Ready(phour[i]) \/ phour[i] \in missed
                      /\ ocn = "wait" => OceanReady(ohour) \/ {ohour, ohour + 1} \cap missed # {}
                      /\ gem = "wait" /\ PostEnded(ghour) =>
                           GribReady(ghour) \/ over[ghour] # "no"
    BY DEF NoVainWait
  <2>1. \A h \in Hours : (log[h] /\ hist[h] # 0) \/ h \in missed
    BY DEF Ground, Logged
  <2>2. \A i \in Jobs : post[i] = "wait" => Ready(phour[i]) \/ phour[i] \in missed
    BY <2>1 DEF Ready, Ground, PostPart, AtWork
  <2>3. ocn = "wait" => OceanReady(ohour) \/ {ohour, ohour + 1} \cap missed # {}
    BY <2>1, Bounds DEF OceanReady, Ready, OceanPart
  <2>4. ASSUME PostEnded(ghour), gem = "wait", over[ghour] = "no" PROVE GribReady(ghour)
    <3>1. ghour \in Hours
      BY <2>4 DEF GempakPart
    <3>2. ghour % Groups \in Jobs /\ Gone(ghour % Groups, ghour)
      BY <2>4, <3>1, PastJob DEF Ground, PostEnded, Gone
    <3>3. done[ghour] # "none"
      BY <2>4, <3>1, <3>2 DEF Flowing, Behind
    <3>4. QED
      BY <2>4, <3>1, <3>3 DEF GribReady, Flowing, Marked
  <2>5. QED
    BY <2>2, <2>3, <2>4
<1>2. QED
  BY <1>1, FlowInvariant, OceanTypes, GempakTypes, PTL

-----------------------------------------------------------------------------
(* ocn_post: what it has still to deliver of an hour, or has delivered, is *)
(* the output that is there.  An hour that the run has cleaned up and not  *)
(* written, or that has no output, is one that ocn_post was past or is     *)
(* still before; of hour 0, which has no done file, only the list counts.  *)
OceanAhead(h) ==
  \/ Cleaning /\ from <= h /\ h < fhour
  \/ fcst = "model" /\ fhour <= h /\ hist[h] # run

Unsent(h) ==
  IF h = 0 THEN hist[0] = 0 /\ (oover[0] # "no" \/ (OceanPast(0) => 0 \in cmdfile))
           ELSE oover[h] = "late" \/ (oover[h] = "no" /\ ~OceanPast(h))

Sent(h) == h \in cmdfile \/ onc[h] = hist[h]

Unflushed == \A h \in Hours : OceanAhead(h) \/ Void(h) => Unsent(h)

OceanMarked ==
  \A h \in Hours : h > 0 /\ odone[h] = "newer" /\ log[h] /\ oover[h] = "no" => Sent(h)

OceanBehind ==
  /\ ~Active(ocn) => ohour = 1 /\ cmdfile = {}
  /\ ocn = "flush" => ohour \notin Hours
  /\ \A h \in cmdfile : h < ohour
  /\ \A h \in Hours : OceanPast(h) /\ oover[h] = "no" => Sent(h) \/ hist[h] = 0

Floating == Unflushed /\ OceanMarked /\ OceanBehind

(* An hour comes to be unwritten or without output by the clean-up alone.  *)
LEMMA UnsentAfter ==
  ASSUME ForecastPart, Forecast, NEW h \in Hours, OceanAhead(h)' \/ Void(h)'
  PROVE  OceanAhead(h) \/ Void(h) \/ (CleanPost /\ h = fhour)
<1>1. Ahead(h) \/ Void(h) \/ (CleanPost /\ h = fhour)
  <2>1. OceanAhead(h)' => Ahead(h)'
    BY DEF OceanAhead, Ahead, Cleaning
  <2>2. QED
    BY <2>1, AheadAfter, VoidAfter
<1>2. ASSUME fcst = "model", hist[h] = run PROVE FALSE
  <2>1. run # 0 /\ run' = run /\ fcst' \in {"model", "queued", "complete"}
    BY <1>2 DEF Forecast, StartForecast, Wipe, CleanLog, CleanPost, NextClean, ModelWrites,
       ModelLogs, ModelRestarts, ForecastEnds, ForecastDies, ForecastPart, Active
  <2>2. hist' = hist \/ (fhour \in Hours /\ hist' = [hist EXCEPT ![fhour] = run])
    BY <1>2 DEF Forecast, StartForecast, Wipe, CleanLog, CleanPost, ModelWrites,
       ModelLogs, ModelRestarts, ForecastEnds, ForecastDies
  <2>3. hist'[h] = run
    BY <1>2, <2>2, ForecastNumbers
  <2>4. QED
    BY <2>1, <2>3 DEF OceanAhead, Void, Cleaning
<1>3. QED
  BY <1>1, <1>2 DEF Ahead, OceanAhead, Cleaning

(* A step that leaves ocn_post alone, and writes no output.                *)
LEMMA FloatKept ==
  ASSUME Floating, UNCHANGED ocean,
         \A h \in Hours : OceanAhead(h)' \/ Void(h)' => OceanAhead(h) \/ Void(h),
         \A h \in Hours : hist'[h] \in {hist[h], 0},
         \A h \in Hours : log'[h] => log[h] /\ hist'[h] = hist[h],
         0 \in Hours
  PROVE  Floating'
<1>1. \A h \in Hours : OceanPast(h)' <=> OceanPast(h)
  BY DEF ocean, OceanPast, Active
<1>2. \A h \in Hours : Unsent(h) => Unsent(h)'
  BY <1>1 DEF ocean, Unsent
<1>3. \A h \in Hours : hist'[h] # 0 => (Sent(h) => Sent(h)')
  BY DEF ocean, Sent
<1>4. \A h \in Hours : log'[h] => (Sent(h) => Sent(h)')
  BY DEF ocean, Sent
<1>5. QED
  BY <1>1, <1>2, <1>3, <1>4, Zenon
     DEF Floating, Unflushed, OceanMarked, OceanBehind, Active, ocean

(* The clean-up of an hour.                                                *)
LEMMA FloatClean ==
  ASSUME ForecastPart, Emptied, OceanPart, Floating, CleanPost
  PROVE  Floating'
<1>1. /\ fhour \in Hours /\ from <= fhour /\ Cleaning
      /\ odone' = [odone EXCEPT ![fhour] = "none"]
      /\ IF OceanPast(fhour) THEN oover' = [oover EXCEPT ![fhour] = "late"]
                             ELSE oover' = [oover EXCEPT ![fhour] = "no"]
      /\ UNCHANGED <<run, hist, log, ocn, ohour, cmdfile, onc>>
  BY CleanHour, Zenon DEF Cleaning
<1>2. \A h \in Hours : h # fhour => odone'[h] = odone[h] /\ oover'[h] = oover[h]
  BY <1>1 DEF OceanPart
<1>3. odone'[fhour] = "none" /\ oover'[fhour] = IF OceanPast(fhour) THEN "late" ELSE "no"
  BY <1>1 DEF OceanPart
<1>4. \A h \in Hours : (OceanPast(h)' <=> OceanPast(h)) /\ (Sent(h)' <=> Sent(h))
  BY <1>1 DEF OceanPast, Sent
<1>5. PICK k \in Hours : k = fhour
  BY <1>1
<1>6. Unsent(k)'
  <2>1. k = 0 => hist[0] = 0
    <3>1. from \in Nat /\ from <= k
      BY <1>1, <1>5, ForecastNumbers
    <3>2. k = 0 => from = 0
      BY <3>1
    <3>3. QED
      BY <1>1, <3>2, Bounds DEF Emptied
  <2>2. oover'[k] = IF OceanPast(k) THEN "late" ELSE "no"
    BY <1>3, <1>5
  <2>3. QED
    BY <1>1, <1>4, <2>1, <2>2 DEF Unsent
<1>7. Unflushed'
  <2>1. SUFFICES ASSUME NEW h \in Hours, OceanAhead(h)' \/ Void(h)' PROVE Unsent(h)'
    BY DEF Unflushed
  <2>2. CASE h = k
    BY <1>6, <2>2
  <2>3. CASE h # k
    <3>1. Unsent(h)
      BY <1>5, <2>1, <2>3, UnsentAfter DEF Forecast, Floating, Unflushed
    <3>2. QED
      BY <1>1, <1>2, <1>4, <1>5, <2>3, <3>1 DEF Unsent
  <2>4. QED
    BY <2>2, <2>3
<1>8. OceanMarked'
  BY <1>1, <1>2, <1>3, <1>4 DEF Floating, OceanMarked
<1>9. OceanBehind'
  BY <1>1, <1>2, <1>3, <1>4 DEF Floating, OceanBehind
<1>10. QED
  BY <1>7, <1>8, <1>9 DEF Floating

(* The model writes an hour, which ocn_post was past or is still before,   *)
(* and its log file, next to which the done file is not newer any more.    *)
LEMMA FloatModel ==
  ASSUME ForecastPart, Logged, OceanPart, Floating, ModelWrites \/ ModelLogs
  PROVE  Floating'
<1>0. /\ fcst = "model" /\ fhour \in Hours /\ hist \in [Hours -> Runs]
      /\ log \in [Hours -> BOOLEAN] /\ fhour \in Nat /\ 0 \in Hours
  BY ForecastNumbers DEF ModelWrites, ModelLogs
<1>1. \A h \in Hours : OceanAhead(h)' \/ Void(h)' => OceanAhead(h) \/ Void(h)
  <2>1. ~CleanPost /\ Forecast
    BY <1>0 DEF CleanPost, Forecast
  <2>2. QED
    BY <2>1, UnsentAfter
<1>2. UNCHANGED <<ocn, ohour, cmdfile, onc, oover>>
  BY DEF ModelWrites, ModelLogs, ocean
<1>3. \A h \in Hours : OceanPast(h)' <=> OceanPast(h)
  BY <1>2 DEF OceanPast, Active
<1>4. CASE ModelWrites
  <2>1. /\ hist' = [hist EXCEPT ![fhour] = run] /\ hist[fhour] # run
        /\ UNCHANGED <<fcst, fhour, run, log, odone>>
    BY <1>4 DEF ModelWrites, ocean
  <2>2. PICK k \in Hours : k = fhour
    BY <1>0
  <2>3. OceanAhead(k) /\ ~OceanAhead(k)' /\ ~Void(k)' /\ ~log[k]
    <3>1. fhour <= k /\ run # 0 /\ hist'[k] = run
      BY <1>0, <2>1, <2>2 DEF ForecastPart, Active
    <3>2. QED
      BY <1>0, <2>1, <2>2, <3>1 DEF OceanAhead, Ahead, Void, Logged, Cleaning
  <2>4. \A h \in Hours : h # k => hist'[h] = hist[h]
    BY <1>0, <2>1, <2>2
  <2>5. \A h \in Hours : h # k => (Sent(h)' <=> Sent(h))
    BY <1>2, <2>4 DEF Sent
  <2>6. Unflushed'
    <3>1. \A h \in Hours : h # k => (Unsent(h) => Unsent(h)')
      BY <1>0, <1>2, <1>3, <2>4 DEF Unsent
    <3>2. QED
      BY <1>1, <2>3, <3>1 DEF Floating, Unflushed
  <2>7. OceanMarked'
    BY <1>2, <2>1, <2>3, <2>5 DEF Floating, OceanMarked
  <2>8. OceanPast(k) /\ oover[k] = "no" => Sent(k)'
    <3>1. Unsent(k)
      BY <2>3 DEF Floating, Unflushed
    <3>2. QED
      BY <1>2, <3>1 DEF Unsent, Sent
  <2>9. OceanBehind'
    BY <1>2, <1>3, <2>4, <2>5, <2>8 DEF Floating, OceanBehind
  <2>10. QED
    BY <2>6, <2>7, <2>9 DEF Floating
<1>5. CASE ModelLogs
  <2>1. /\ log' = [log EXCEPT ![fhour] = TRUE] /\ odone' = [odone EXCEPT ![fhour] = Aged(@)]
        /\ UNCHANGED hist
    BY <1>5 DEF ModelLogs
  <2>2. \A h \in Hours : Sent(h)' <=> Sent(h)
    BY <1>2, <2>1 DEF Sent
  <2>3. \A h \in Hours : odone'[h] = "newer" => h # fhour /\ odone[h] = "newer"
    BY <1>0, <2>1 DEF Aged, OceanPart
  <2>4. \A h \in Hours : h # fhour => log'[h] = log[h]
    BY <1>0, <2>1
  <2>5. Unflushed'
    BY <1>1, <1>2, <1>3, <2>1 DEF Floating, Unflushed, Unsent
  <2>6. OceanMarked'
    BY <1>2, <2>2, <2>3, <2>4 DEF Floating, OceanMarked
  <2>7. OceanBehind'
    BY <1>2, <1>3, <2>1, <2>2 DEF Floating, OceanBehind
  <2>8. QED
    BY <2>5, <2>6, <2>7 DEF Floating
<1>6. QED
  BY <1>4, <1>5

(* The steps of ocn_post.                                                  *)
LEMMA FloatStep ==
  ASSUME ForecastPart, Logged, OceanPart, Floating, OcnPost
  PROVE  Floating'
<1>0. /\ Last \in Nat /\ ohour \in 1 .. Last + 1 /\ cmdfile \subseteq Hours /\ 0 \in Hours
      /\ onc \in [Hours -> Runs] /\ odone \in [Hours -> Marks]
      /\ oover \in [Hours -> Overtaken] /\ hist \in [Hours -> Runs]
      /\ \A h \in Hours : h \in Nat /\ h <= Last
  BY Bounds, ForecastNumbers DEF OceanPart, OfRun
<1>1. UNCHANGED <<fcst, fhour, run, from, hist, log, res>>
  BY OceanLeavesAlone DEF model
<1>2. \A h \in Hours : /\ (OceanAhead(h)' <=> OceanAhead(h)) /\ (Void(h)' <=> Void(h))
                       /\ log[h] => ~OceanAhead(h) /\ ~Void(h)
  BY <1>1 DEF OceanAhead, Ahead, Void, Cleaning, Logged
<1>3. CASE StartOcean
  <2>1. /\ ocn = "queued" /\ ocn' = "check" /\ ohour = 1 /\ cmdfile = {}
        /\ UNCHANGED <<ohour, cmdfile, onc, odone, oover>>
    BY <1>3 DEF StartOcean, Floating, OceanBehind, Active
  <2>2. \A h \in Hours : ~OceanPast(h)'
    <3>1. \A h \in Hours : h # 0 => ~(1 > h)
      BY <1>0
    <3>2. QED
      BY <2>1, <3>1 DEF OceanPast
  <2>3. QED
    BY <1>1, <1>2, <2>1, <2>2 DEF Floating, Unflushed, Unsent, OceanMarked, OceanBehind, Sent,
       Active, OceanPast
<1>4. CASE SkipOcean
  <2>1. PICK k \in Hours : k = ohour
    BY <1>4 DEF SkipOcean
  <2>2. /\ ocn = "check" /\ odone[k] = "newer" /\ log[k] /\ ohour' = k + 1 /\ k > 0 /\ k # 0
        /\ UNCHANGED <<ocn, cmdfile, onc, odone, oover>>
    BY <1>0, <1>4, <2>1 DEF SkipOcean, OceanPosted
  <2>3. \A h \in Hours : h # k => (OceanPast(h)' <=> OceanPast(h))
    <3>1. \A h \in Hours : h # k => (k + 1 > h <=> k > h)
      BY <1>0
    <3>2. QED
      BY <2>1, <2>2, <3>1 DEF OceanPast
  <2>4. Unflushed'
    BY <1>1, <1>2, <2>2, <2>3 DEF Floating, Unflushed, Unsent
  <2>5. OceanMarked'
    BY <1>1, <2>2 DEF Floating, OceanMarked, Sent
  <2>6. OceanBehind'
    <3>1. \A h \in cmdfile : h < k + 1
      <4>1. \A h \in cmdfile : h < k /\ h \in Nat
        BY <1>0, <2>1 DEF Floating, OceanBehind
      <4>2. \A h \in Nat : h < k => h < k + 1
        BY <1>0
      <4>3. QED
        BY <4>1, <4>2
    <3>2. oover[k] = "no" => Sent(k)
      BY <2>2 DEF Floating, OceanMarked
    <3>3. QED
      BY <1>1, <2>2, <2>3, <3>1, <3>2 DEF Floating, OceanBehind, Sent, Active
  <2>7. QED
    BY <2>4, <2>5, <2>6 DEF Floating
<1>5. CASE NeedOcean
  <2>1. ocn = "check" /\ ocn' = "wait" /\ UNCHANGED <<ohour, cmdfile, onc, odone, oover>>
    BY <1>5 DEF NeedOcean
  <2>2. \A h \in Hours : OceanPast(h)' <=> OceanPast(h)
    BY <2>1 DEF OceanPast, Active
  <2>3. QED
    BY <1>1, <1>2, <2>1, <2>2 DEF Floating, Unflushed, Unsent, OceanMarked, OceanBehind, Sent,
       Active
<1>6. CASE MarkOcean
  <2>1. PICK k \in Hours : k = ohour
    BY <1>6 DEF MarkOcean, OceanPart
  <2>2. /\ ocn = "wait" /\ ocn' = "check" /\ log[k] /\ ohour' = k + 1 /\ k > 0 /\ k # 0
        /\ cmdfile' = cmdfile \cup {k} /\ odone' = [odone EXCEPT ![k] = "newer"]
        /\ oover' = [oover EXCEPT ![k] = TakenUp(@)] /\ UNCHANGED onc
    BY <1>0, <1>6, <2>1 DEF MarkOcean, OceanReady, Ready
  <2>3. \A h \in Hours : h # k => /\ OceanPast(h)' <=> OceanPast(h)
                                  /\ odone'[h] = odone[h] /\ oover'[h] = oover[h]
                                  /\ Sent(h)' <=> Sent(h)
    <3>1. \A h \in Hours : h # k => (k + 1 > h <=> k > h)
      BY <1>0
    <3>2. \A h \in Hours : h # k => odone'[h] = odone[h] /\ oover'[h] = oover[h]
      BY <1>0, <2>2
    <3>3. \A h \in Hours : h # k => (OceanPast(h)' <=> OceanPast(h))
      BY <2>1, <2>2, <3>1 DEF OceanPast, Active
    <3>4. \A h \in Hours : h # k => (Sent(h)' <=> Sent(h))
      BY <1>1, <2>2 DEF Sent
    <3>5. QED
      BY <3>2, <3>3, <3>4
  <2>4. Sent(k)'
    BY <2>2 DEF Sent
  <2>5. Unflushed'
    BY <1>0, <1>1, <1>2, <2>2, <2>3 DEF Floating, Unflushed, Unsent
  <2>6. OceanMarked'
    BY <1>1, <2>3, <2>4 DEF Floating, OceanMarked
  <2>7. OceanBehind'
    <3>1. \A h \in cmdfile' : h < k + 1
      <4>1. \A h \in cmdfile : h < k /\ h \in Nat
        BY <1>0, <2>1 DEF Floating, OceanBehind
      <4>2. \A h \in Nat : h < k \/ h = k => h < k + 1
        BY <1>0
      <4>3. QED
        BY <1>0, <2>2, <4>1, <4>2
    <3>2. QED
      BY <1>1, <2>2, <2>3, <2>4, <3>1 DEF Floating, OceanBehind, Active
  <2>8. QED
    BY <2>5, <2>6, <2>7 DEF Floating
<1>7. CASE AddInitial
  <2>1. /\ ocn = "check" /\ ocn' = "flush" /\ ohour \notin Hours
        /\ cmdfile' = cmdfile \cup {0} /\ oover' = [oover EXCEPT ![0] = TakenUp(@)]
        /\ UNCHANGED <<ohour, onc, odone>>
    BY <1>7 DEF AddInitial
  <2>2. \A h \in Hours : h # 0 => /\ OceanPast(h)' <=> OceanPast(h)
                                  /\ oover'[h] = oover[h] /\ (Sent(h)' <=> Sent(h))
    BY <1>0, <1>1, <2>1 DEF OceanPast, Active, Sent
  <2>3. 0 \in cmdfile' /\ Sent(0)'
    BY <2>1 DEF Sent
  <2>4. Unflushed'
    BY <1>1, <1>2, <2>2, <2>3 DEF Floating, Unflushed, Unsent
  <2>5. OceanMarked'
    <3>1. \A h \in Hours : h > 0 => h # 0
      BY <1>0
    <3>2. QED
      BY <1>1, <2>1, <2>2, <3>1 DEF Floating, OceanMarked
  <2>6. OceanBehind'
    <3>1. 0 < ohour
      BY <1>0
    <3>2. QED
      BY <1>1, <2>1, <2>2, <2>3, <3>1 DEF Floating, OceanBehind, Active
  <2>7. QED
    BY <2>4, <2>5, <2>6 DEF Floating
<1>8. CASE FlushOcean
  <2>1. PICK k \in cmdfile : /\ hist[k] # 0 /\ onc' = [onc EXCEPT ![k] = hist[k]]
                             /\ oover' = [oover EXCEPT ![k] = MadeUp(@)]
                             /\ cmdfile' = cmdfile \ {k}
    BY <1>8, Zenon DEF FlushOcean
  <2>2. ocn = "flush" /\ UNCHANGED <<ocn, ohour, odone>> /\ k \in Hours
    BY <1>0, <1>8 DEF FlushOcean
  <2>3. \A h \in Hours : OceanPast(h)' <=> OceanPast(h)
    BY <2>2 DEF OceanPast
  <2>4. \A h \in Hours : h # k => oover'[h] = oover[h] /\ (Sent(h)' <=> Sent(h))
    <3>1. \A h \in Hours : h # k => oover'[h] = oover[h] /\ onc'[h] = onc[h]
      BY <1>0, <2>1, <2>2
    <3>2. QED
      BY <1>1, <2>1, <3>1 DEF Sent
  <2>5. Sent(k)' /\ oover'[k] = MadeUp(oover[k])
    BY <1>0, <1>1, <2>1, <2>2 DEF Sent
  <2>6. Unsent(k) => Unsent(k)'
    <3>1. OceanPast(k)
      <4>1. k < ohour
        BY DEF Floating, OceanBehind
      <4>2. ohour > k
        BY <1>0, <2>2, <4>1
      <4>3. QED
        BY <2>2, <4>2 DEF OceanPast, Active
    <3>2. QED
      BY <1>1, <2>1, <2>3, <2>5, <3>1 DEF Unsent, MadeUp
  <2>7. \A h \in Hours : h # k => (Unsent(h) => Unsent(h)')
    BY <1>0, <1>1, <2>1, <2>3, <2>4 DEF Unsent
  <2>8. Unflushed'
    BY <1>2, <2>6, <2>7 DEF Floating, Unflushed
  <2>9. OceanMarked'
    BY <1>1, <2>2, <2>4, <2>5 DEF Floating, OceanMarked
  <2>10. OceanBehind'
    BY <1>1, <2>1, <2>2, <2>3, <2>4, <2>5 DEF Floating, OceanBehind, Active
  <2>11. QED
    BY <2>8, <2>9, <2>10 DEF Floating
<1>9. CASE EndOcean
  <2>1. /\ ocn = "flush" /\ ocn' = "complete" /\ cmdfile = {} /\ ohour' = 1
        /\ UNCHANGED <<cmdfile, onc, odone, oover>>
    BY <1>9 DEF EndOcean
  <2>2. \A h \in Hours : OceanPast(h)
    <3>1. ohour \notin Hours
      BY <2>1 DEF Floating, OceanBehind
    <3>2. \A h \in Hours : ohour > h
      BY <1>0, <3>1 DEF Hours
    <3>3. QED
      BY <2>1, <3>2 DEF OceanPast, Active
  <2>3. \A h \in Hours : OceanPast(h)'
    BY <2>1 DEF OceanPast
  <2>4. QED
    BY <1>0, <1>1, <1>2, <2>1, <2>2, <2>3
       DEF Floating, Unflushed, Unsent, OceanMarked, OceanBehind, Sent, Active
<1>10. CASE OceanTimeout \/ OceanDies
  <2>1. /\ ocn' = "queued" /\ ohour' = 1 /\ cmdfile' = {} /\ UNCHANGED <<onc, odone>>
        /\ oover' = [h \in Hours |-> IF h \in cmdfile THEN "late" ELSE oover[h]]
    BY <1>10, Zenon DEF OceanTimeout, OceanDies, OceanStops
  <2>2. \A h \in Hours : ~OceanPast(h)'
    BY <2>1 DEF OceanPast, Active
  <2>3. \A h \in Hours : oover'[h] = IF h \in cmdfile THEN "late" ELSE oover[h]
    BY <2>1
  <2>4. Unflushed'
    BY <1>0, <1>1, <1>2, <2>2, <2>3 DEF Floating, Unflushed, Unsent
  <2>5. OceanMarked'
    BY <1>1, <2>1, <2>3 DEF Floating, OceanMarked, Sent
  <2>6. OceanBehind'
    BY <2>1, <2>2 DEF OceanBehind, Active
  <2>7. QED
    BY <2>4, <2>5, <2>6 DEF Floating
<1>11. QED
  BY <1>3, <1>4, <1>5, <1>6, <1>7, <1>8, <1>9, <1>10 DEF OcnPost

(* What ocn_post has listed or delivered is the output that is there.      *)
LEMMA FloatInvariant == Spec => []Floating
<1>1. Init => Floating
  <2> SUFFICES ASSUME Init PROVE Floating
    OBVIOUS
  <2>1. /\ ocn \in {"off", "queued"} /\ hist = [h \in Hours |-> 0] /\ ohour = 1
        /\ cmdfile = {} /\ oover = [h \in Hours |-> "no"] /\ odone = [h \in Hours |-> "none"]
    BY DEF Init
  <2>2. \A h \in Hours : ~OceanPast(h)
    BY <2>1 DEF OceanPast, Active
  <2>3. QED
    BY <2>1, <2>2, Bounds DEF Floating, Unflushed, Unsent, OceanMarked, OceanBehind
<1>2. ForecastPart /\ OceanPart /\ PostPart /\ Logged /\ Emptied /\ Floating /\ [Next]_vars
        => Floating'
  <2> SUFFICES ASSUME ForecastPart, OceanPart, PostPart, Logged, Emptied, Floating, [Next]_vars
               PROVE  Floating'
    OBVIOUS
  <2>0. 0 \in Hours
    BY Bounds
  <2>1. CASE StartForecast
    <3>1. /\ ocn' = ocn \/ (ocn = "complete" /\ ocn' = "queued")
          /\ UNCHANGED <<hist, log, ohour, cmdfile, onc, odone, oover>>
      BY <2>1, Requeued DEF StartForecast
    <3>2. \A h \in Hours : OceanPast(h)' => OceanPast(h)
      BY <3>1 DEF OceanPast, Active
    <3>3. \A h \in Hours : OceanAhead(h)' \/ Void(h)' => OceanAhead(h) \/ Void(h)
      <4>1. ~CleanPost /\ Forecast
        BY <2>1 DEF CleanPost, StartForecast, Forecast
      <4>2. QED
        BY <4>1, UnsentAfter
    <3>4. Unflushed'
      BY <2>0, <3>1, <3>2, <3>3 DEF Floating, Unflushed, Unsent
    <3>5. OceanMarked'
      BY <3>1 DEF Floating, OceanMarked, Sent
    <3>6. OceanBehind'
      BY <3>1, <3>2 DEF Floating, OceanBehind, Sent, Active
    <3>7. QED
      BY <3>4, <3>5, <3>6 DEF Floating
  <2>2. CASE CleanPost
    BY <2>2, FloatClean
  <2>3. CASE ModelWrites \/ ModelLogs
    BY <2>3, FloatModel
  <2>4. CASE Wipe \/ CleanLog \/ ModelRestarts \/ ForecastEnds \/ ForecastDies
    <3>1. ~CleanPost /\ Forecast /\ UNCHANGED ocean
      BY <2>4 DEF Wipe, CleanLog, CleanPost, NextClean, ModelRestarts, ForecastEnds,
         ForecastDies, Forecast
    <3>2. \A h \in Hours : OceanAhead(h)' \/ Void(h)' => OceanAhead(h) \/ Void(h)
      BY <3>1, UnsentAfter
    <3>3. \/ UNCHANGED <<hist, log>>
          \/ hist' = [h \in Hours |-> 0] /\ log' = [h \in Hours |-> FALSE]
          \/ UNCHANGED hist /\ log' = [log EXCEPT ![fhour] = FALSE]
      BY <2>4 DEF Wipe, CleanLog, ModelRestarts, ForecastEnds, ForecastDies
    <3>4. \A h \in Hours : hist'[h] \in {hist[h], 0} /\ (log'[h] => log[h] /\ hist'[h] = hist[h])
      BY <3>3, ForecastNumbers
    <3>5. QED
      BY <2>0, <3>1, <3>2, <3>4, FloatKept
  <2>5. CASE UNCHANGED <<model, ocean>>
    BY <2>0, <2>5, FloatKept DEF model, OceanAhead, Void, Cleaning
  <2>6. CASE OcnPost
    BY <2>6, FloatStep
  <2>7. QED
    BY <2>1, <2>2, <2>3, <2>4, <2>5, <2>6, PostLeavesAlone, GempakLeavesAlone
       DEF Next, Forecast, vars
<1>3. QED
  BY <1>1, <1>2, ForecastTypes, OceanTypes, PostTypes, LoggedInvariant, PTL DEF Spec

(* The ocean's products of a complete run are of its output, but for the   *)
(* hours that were taken away, or lost, behind the back of ocn_post.       *)
THEOREM OceanFinalHolds == Spec => []OceanFinal
<1>1. Floating => OceanFinal
  <2> SUFFICES ASSUME Floating, fcst = "complete", ocn = "complete",
                      NEW h \in Hours, oover[h] = "no"
               PROVE  onc[h] = hist[h]
    BY DEF OceanFinal
  <2>1. cmdfile = {} /\ OceanPast(h)
    BY DEF Floating, OceanBehind, OceanPast, Active
  <2>2. hist[h] # 0
    BY <2>1 DEF Floating, Unflushed, Void, Unsent
  <2>3. QED
    BY <2>1, <2>2 DEF Floating, OceanBehind, Sent
<1>2. QED
  BY <1>1, FloatInvariant, PTL

-----------------------------------------------------------------------------
(* How far a job is in its present attempt, and the forecast in its run.   *)
PostStage(i) ==
  CASE post[i] \in {"off", "queued"} -> 0
    [] post[i] = "check"    -> 8 * phour[i] + 1
    [] post[i] = "wait"     -> 8 * phour[i] + 2
    [] post[i] = "track"    -> 8 * phour[i] + 3
    [] post[i] = "grb"      -> 8 * phour[i] + 4
    [] post[i] = "idx"      -> 8 * phour[i] + 5
    [] post[i] = "mark"     -> 8 * phour[i] + 6
    [] OTHER                -> 8 * (Last + Groups) + 2

OceanStage ==
  CASE ocn \in {"off", "queued"} -> 0
    [] ocn = "check" -> 2 * ohour + 1
    [] ocn = "wait"  -> 2 * ohour + 2
    [] ocn = "flush" -> 3 * Last + 5 - Cardinality(cmdfile)
    [] OTHER         -> 3 * Last + 6

GempakStage ==
  CASE gem \in {"off", "queued"} -> 0
    [] gem = "check" -> 4 * ghour + 1
    [] gem = "wait"  -> 4 * ghour + 2
    [] gem = "gout"  -> 4 * ghour + 3
    [] gem = "mark"  -> 4 * ghour + 4
    [] OTHER         -> 4 * (Last + Stride) + 2

ModelStage ==
  CASE fcst = "queued"     -> 0
    [] fcst = "wipe"       -> IF res > 0 THEN 1 ELSE 2
    [] fcst = "clean log"  -> 2 * fhour + 3
    [] fcst = "clean post" -> 2 * fhour + 4
    [] fcst = "model"      -> 2 * Last + 5 + res + 2 * fhour
                                + (IF fhour \in Hours /\ hist[fhour] = run THEN 1 ELSE 0)
    [] OTHER               -> 5 * Last + 9

(* What a step of a job does to how far it is, and what others' steps do.  *)
PostMoves(i) ==
  \/ post'[i] = "queued"
  \/ IF AtmPost(i) THEN PostStage(i)' > PostStage(i) ELSE PostStage(i)' = PostStage(i)
OceanMoves ==
  \/ ocn' = "queued"
  \/ IF OcnPost THEN OceanStage' > OceanStage ELSE OceanStage' = OceanStage
GempakMoves ==
  \/ gem' = "queued"
  \/ IF Gempak THEN GempakStage' > GempakStage ELSE GempakStage' = GempakStage
ModelMoves ==
  \/ fcst' = "queued" \/ run' > run
  \/ IF Forecast THEN ModelStage' > ModelStage ELSE ModelStage' = ModelStage

(* Which hours the loops can be at.                                        *)
LEMMA PostRange ==
  ASSUME PostPart, NEW i \in Jobs
  PROVE  /\ phour[i] \in Nat /\ phour[i] <= Last + Groups
         /\ Last \in Nat /\ Groups \in Nat /\ Groups >= 1
<1>1. phour[i] \in 0 .. Last + Groups
  BY DEF PostPart
<1> QED
  BY <1>1, Bounds

(* Those of the forecast: a clean-up stays in the run's hours.             *)
LEMMA ModelRange ==
  ASSUME ForecastPart
  PROVE  /\ fhour \in 0 .. Last + 1 /\ from \in 0 .. Last + 1 /\ run \in Nat
         /\ res \in 0 .. Last + 1 /\ Last \in Nat
         /\ Cleaning \/ fhour \in Hours => fhour \in 0 .. Last
<1>1. /\ fhour \in 0 .. Last + 1 /\ from \in 0 .. Last + 1 /\ run \in Runs
      /\ res \in 0 .. Last + 1
  BY Zenon DEF ForecastPart
<1>2. Cleaning => fhour \in Hours
  BY DEF ForecastPart
<1> QED
  BY <1>1, <1>2, Bounds DEF Hours, Runs

(* How far a job of the atmosphere can be.                                 *)
LEMMA PostStageType ==
  ASSUME PostPart, NEW i \in Jobs
  PROVE  PostStage(i) \in 0 .. 8 * (Last + Groups) + 2
<1>1. PICK l \in Nat, g \in Nat, h \in Nat :
        l = Last /\ g = Groups /\ g >= 1 /\ h = phour[i] /\ h <= l + g
  BY PostRange
<1>2. post[i] \in AtWork => h <= l
  BY <1>1 DEF PostPart, Hours
<1> QED
  BY <1>1, <1>2 DEF PostStage, PostPart, AtWork, Delivering

(* ocn_post.                                                               *)
LEMMA OceanStageType ==
  ASSUME OceanPart
  PROVE  /\ OceanStage \in 0 .. 3 * Last + 6
         /\ IsFiniteSet(cmdfile) /\ Cardinality(cmdfile) \in 0 .. Last + 1
<1>1. PICK l \in Nat, h \in Nat : l = Last /\ h = ohour /\ h <= l + 1
  BY Bounds DEF OceanPart
<1>2. IsFiniteSet(cmdfile) /\ Cardinality(cmdfile) \in 0 .. l + 1
  <2>1. IsFiniteSet(Hours) /\ Cardinality(Hours) = l + 1
    BY <1>1, 0 \in Int, l \in Int, FS_Interval DEF Hours
  <2>2. /\ IsFiniteSet(cmdfile) /\ Cardinality(cmdfile) \in Nat
        /\ Cardinality(cmdfile) <= Cardinality(Hours)
    BY <2>1, FS_Subset, FS_CardinalityType DEF OceanPart
  <2> QED
    BY <2>1, <2>2
<1>3. ocn = "wait" => h <= l
  BY <1>1 DEF OceanPart, Hours
<1>4. PICK c \in Nat : c = Cardinality(cmdfile) /\ c <= l + 1
  BY <1>2
<1> QED
  BY <1>1, <1>2, <1>3, <1>4 DEF OceanStage, OceanPart

(* gempak.                                                                 *)
LEMMA GempakStageType ==
  ASSUME GempakPart
  PROVE  GempakStage \in 0 .. 4 * (Last + Stride) + 2
<1>1. PICK l \in Nat, s \in Nat, h \in Nat :
        l = Last /\ s = Stride /\ s >= 1 /\ h = ghour /\ h <= l + s
  BY Bounds DEF GempakPart
<1>2. gem \in {"wait", "gout", "mark"} => h <= l
  BY <1>1 DEF GempakPart, Hours
<1> QED
  BY <1>1, <1>2 DEF GempakStage, GempakPart

(* The forecast.                                                           *)
LEMMA ModelStageType ==
  ASSUME ForecastPart
  PROVE  ModelStage \in 0 .. 5 * Last + 9
<1>1. PICK l \in Nat, h \in Nat, c \in Nat :
        l = Last /\ h = fhour /\ h <= l + 1 /\ c = res /\ c <= l + 1
  BY ModelRange
<1>2. (Cleaning \/ fhour \in Hours) => h <= l
  BY <1>1, ModelRange
<1>3. CASE Cleaning
  <2>1. ModelStage \in {2 * h + 3, 2 * h + 4} /\ h <= l
    BY <1>1, <1>2, <1>3 DEF ModelStage, Cleaning
  <2> QED
    BY <1>1, <2>1
<1>4. CASE fcst = "model"
  <2>1. CASE fhour \in Hours
    <3>1. ModelStage \in {2 * l + 5 + c + 2 * h + 0, 2 * l + 5 + c + 2 * h + 1} /\ h <= l
      BY <1>1, <1>2, <1>4, <2>1 DEF ModelStage
    <3> QED
      BY <1>1, <3>1
  <2>2. CASE fhour \notin Hours
    <3>1. ModelStage = 2 * l + 5 + c + 2 * h + 0
      BY <1>1, <1>4, <2>2 DEF ModelStage
    <3> QED
      BY <1>1, <3>1
  <2> QED
    BY <2>1, <2>2
<1>5. CASE fcst \notin {"clean log", "clean post", "model"}
  <2>1. ModelStage \in {0, 1, 2, 5 * l + 9}
    BY <1>1, <1>5 DEF ModelStage
  <2> QED
    BY <1>1, <2>1
<1> QED
  BY <1>3, <1>4, <1>5 DEF Cleaning

(* A job of the atmosphere gets further, or begins again.                  *)
LEMMA PostFurther ==
  ASSUME PostPart, NEW i \in Jobs, AtmPost(i)
  PROVE  PostStage(i)' > PostStage(i) \/ post'[i] = "queued"
<1>1. PICK l \in Nat, g \in Nat, h \in Nat :
        l = Last /\ g = Groups /\ g >= 1 /\ h = phour[i] /\ h <= l + g
  BY PostRange
<1>2. \/ post'[i] = "queued"
      \/ post[i] = "queued" /\ post'[i] = "check" /\ phour'[i] = h
      \/ post[i] = "check" /\ post'[i] = "check" /\ phour'[i] = h + g
      \/ post[i] = "check" /\ post'[i] = "wait" /\ phour'[i] = h
      \/ post[i] = "wait" /\ post'[i] = "track" /\ phour'[i] = h
      \/ post[i] = "track" /\ post'[i] = "grb" /\ phour'[i] = h
      \/ post[i] = "grb" /\ post'[i] = "idx" /\ phour'[i] = h
      \/ post[i] = "idx" /\ post'[i] = "mark" /\ phour'[i] = h
      \/ post[i] = "mark" /\ post'[i] = "check" /\ phour'[i] = h + g
      \/ post[i] = "check" /\ post'[i] = "complete"
  BY <1>1 DEF AtmPost, StartPost, SkipPost, NeedPost, RunPost, DeliverTrack, DeliverGrb,
              DeliverIdx, MarkPost, EndPost, PostTimeout, PostDies, PostLeaves, PostGoto,
              NextHour, PostPart
<1>3. CASE post'[i] = "queued"
  BY <1>3
<1>4. CASE post[i] = "check" /\ post'[i] = "complete"
  <2>1. PostStage(i) = 8 * h + 1 /\ PostStage(i)' = 8 * (l + g) + 2
    BY <1>1, <1>4 DEF PostStage
  <2> QED
    BY <1>1, <2>1
<1>5. CASE phour'[i] = h + g /\ post[i] \in {"check", "mark"} /\ post'[i] = "check"
  <2>1. PostStage(i) \in {8 * h + 1, 8 * h + 6} /\ PostStage(i)' = 8 * (h + g) + 1
    BY <1>1, <1>5 DEF PostStage
  <2> QED
    BY <1>1, <2>1
<1>6. CASE phour'[i] = h /\ post[i] # "complete"
  BY <1>1, <1>2, <1>6 DEF PostStage
<1> QED
  BY <1>2, <1>3, <1>4, <1>5, <1>6

(* ocn_post does.                                                          *)
LEMMA OceanFurther ==
  ASSUME OceanPart, OceanPart', OcnPost
  PROVE  OceanStage' > OceanStage \/ ocn' = "queued"
<1>1. PICK l \in Nat, h \in Nat : l = Last /\ h = ohour /\ h <= l + 1
  BY Bounds DEF OceanPart
<1>2. PICK c \in Nat : c = Cardinality(cmdfile) /\ c <= l + 1
  BY <1>1, OceanStageType
<1>3. CASE StartOcean
  <2>1. OceanStage = 0 /\ OceanStage' = 2 * h + 1
    BY <1>1, <1>3 DEF StartOcean, OceanStage
  <2> QED
    BY <2>1
<1>4. CASE SkipOcean \/ MarkOcean
  <2>1. OceanStage \in {2 * h + 1, 2 * h + 2} /\ OceanStage' = 2 * (h + 1) + 1
    BY <1>1, <1>4 DEF SkipOcean, MarkOcean, OceanStage
  <2> QED
    BY <2>1
<1>5. CASE NeedOcean
  <2>1. OceanStage = 2 * h + 1 /\ OceanStage' = 2 * h + 2
    BY <1>1, <1>5 DEF NeedOcean, OceanStage
  <2> QED
    BY <2>1
<1>6. CASE AddInitial
  <2>1. IsFiniteSet(Hours) /\ Cardinality(Hours) = l + 1
    BY <1>1, 0 \in Int, l \in Int, FS_Interval DEF Hours
  <2>2. cmdfile' \in SUBSET Hours
    BY DEF OceanPart
  <2>3. Cardinality(cmdfile') \in Nat /\ Cardinality(cmdfile') <= l + 1
    BY <2>1, <2>2, FS_Subset, FS_CardinalityType
  <2>4. OceanStage = 2 * h + 1 /\ OceanStage' = 3 * l + 5 - Cardinality(cmdfile')
    BY <1>1, <1>6 DEF AddInitial, OceanStage
  <2> QED
    BY <1>1, <2>3, <2>4
<1>7. CASE FlushOcean
  <2>1. PICK k \in cmdfile : cmdfile' = cmdfile \ {k}
    BY <1>7 DEF FlushOcean
  <2>2. Cardinality(cmdfile') = c - 1
    BY <1>2, <2>1, OceanStageType, FS_RemoveElement
  <2>3. OceanStage = 3 * l + 5 - c /\ OceanStage' = 3 * l + 5 - (c - 1)
    BY <1>1, <1>2, <1>7, <2>2 DEF FlushOcean, OceanStage
  <2> QED
    BY <2>3
<1>8. CASE EndOcean
  <2>1. OceanStage = 3 * l + 5 - c /\ OceanStage' = 3 * l + 6
    BY <1>1, <1>2, <1>8 DEF EndOcean, OceanStage
  <2> QED
    BY <2>1
<1>9. CASE OceanTimeout \/ OceanDies
  BY <1>9 DEF OceanTimeout, OceanDies, OceanStops
<1> QED
  BY <1>3, <1>4, <1>5, <1>6, <1>7, <1>8, <1>9 DEF OcnPost

(* gempak does.                                                            *)
LEMMA GempakFurther ==
  ASSUME GempakPart, Gempak
  PROVE  GempakStage' > GempakStage \/ gem' = "queued"
<1>1. PICK l \in Nat, s \in Nat, h \in Nat :
        l = Last /\ s = Stride /\ s >= 1 /\ h = ghour /\ h <= l + s
  BY Bounds DEF GempakPart
<1>2. \/ gem' = "queued"
      \/ gem = "queued" /\ gem' = "check" /\ ghour' = h
      \/ gem = "check" /\ gem' = "check" /\ ghour' = h + s
      \/ gem = "check" /\ gem' = "wait" /\ ghour' = h
      \/ gem = "wait" /\ gem' = "gout" /\ ghour' = h
      \/ gem = "gout" /\ gem' = "mark" /\ ghour' = h
      \/ gem = "mark" /\ gem' = "check" /\ ghour' = h + s
      \/ gem = "check" /\ gem' = "complete"
  BY <1>1 DEF Gempak, StartGempak, SkipGempak, NeedGempak, ReadGrb, DeliverGem, MarkGem,
              EndGempak, GempakTimeout, GempakDies, GempakLeaves
<1>3. CASE gem' = "queued"
  BY <1>3
<1>4. CASE gem = "check" /\ gem' = "complete"
  <2>1. GempakStage = 4 * h + 1 /\ GempakStage' = 4 * (l + s) + 2
    BY <1>1, <1>4 DEF GempakStage
  <2> QED
    BY <1>1, <2>1
<1>5. CASE ghour' = h + s /\ gem \in {"check", "mark"} /\ gem' = "check"
  <2>1. GempakStage \in {4 * h + 1, 4 * h + 4} /\ GempakStage' = 4 * (h + s) + 1
    BY <1>1, <1>5 DEF GempakStage
  <2> QED
    BY <1>1, <2>1
<1>6. CASE ghour' = h /\ gem # "complete"
  BY <1>1, <1>2, <1>6 DEF GempakStage
<1> QED
  BY <1>2, <1>3, <1>4, <1>5, <1>6

(* The forecast does, unless it is run again.                              *)
LEMMA ModelFurther ==
  ASSUME ForecastPart, Forecast
  PROVE  ModelStage' > ModelStage \/ fcst' = "queued" \/ run' > run
<1>1. PICK l \in Nat, h \in Nat, f \in Nat, r \in Nat, c \in Nat :
        /\ l = Last /\ h = fhour /\ h <= l + 1 /\ f = from /\ f <= l + 1 /\ r = run
        /\ c = res /\ c <= l + 1
  BY ModelRange
<1>2. CASE StartForecast
  <2>1. run' = r + 1
    BY <1>1, <1>2 DEF StartForecast
  <2> QED
    BY <1>1, <2>1
<1>3. CASE Wipe
  <2>1. CASE res > 0 /\ res' = 0 /\ fcst' = fcst
    <3>1. ModelStage = 1 /\ ModelStage' = 2
      BY <1>3, <2>1 DEF Wipe, ModelStage
    <3> QED
      BY <3>1
  <2>2. CASE res = 0 /\ fcst' = "clean log"
    <3>0. fcst = "wipe" /\ UNCHANGED fhour
      BY <1>3, Zenon DEF Wipe
    <3>1. fhour' = h
      BY <1>1, <3>0, Zenon
    <3>2. ModelStage = 2
      <4>1. res = 0
        BY <2>2, Zenon
      <4>2. ~(0 > 0)
        OBVIOUS
      <4>3. QED
        BY <3>0, <4>1, <4>2, Zenon DEF ModelStage
    <3>3. ModelStage' = 2 * h + 3
      BY <2>2, <3>1 DEF ModelStage
    <3> QED
      BY <1>1, <3>2, <3>3
  <2> QED
    BY <1>3, <2>1, <2>2 DEF Wipe
<1>4. CASE CleanLog
  <2>1. ModelStage = 2 * h + 3 /\ ModelStage' = 2 * h + 4
    BY <1>1, <1>4 DEF CleanLog, ModelStage
  <2> QED
    BY <2>1
<1>5. CASE CleanPost
  <2>1. ModelStage = 2 * h + 4 /\ h <= l
    <3>1. Cleaning
      BY <1>5 DEF CleanPost, Cleaning
    <3>2. fhour \in 0 .. Last
      BY <3>1, ModelRange
    <3>3. fcst = "clean post"
      BY <1>5, Zenon DEF CleanPost
    <3>4. h <= l
      BY <1>1, <3>2
    <3> QED
      BY <1>1, <3>3, <3>4 DEF ModelStage
  <2>2. CASE fhour < Last
    <3>1. ModelStage' = 2 * (h + 1) + 3
      BY <1>1, <1>5, <2>2 DEF CleanPost, NextClean, ModelStage
    <3> QED
      BY <2>1, <3>1
  <2>3. CASE ~(fhour < Last)
    <3>1. fcst' = "model" /\ fhour' = f /\ res' = c
      BY <1>1, <1>5, <2>3 DEF CleanPost, NextClean
    <3>2. ModelStage' \in {2 * l + 5 + c + 2 * f + 1, 2 * l + 5 + c + 2 * f + 0}
      BY <1>1, <3>1 DEF ModelStage
    <3> QED
      BY <1>1, <2>1, <3>2
  <2> QED
    BY <2>2, <2>3
<1>6. CASE ModelWrites
  <2>1. /\ fcst = "model" /\ fcst' = "model" /\ fhour' = h /\ run' = run /\ res' = c
        /\ h \in Hours /\ hist[h] # run /\ hist'[h] = run
    BY <1>1, <1>6 DEF ModelWrites, ForecastPart, OfRun
  <2>2. ModelStage = 2 * l + 5 + c + 2 * h + 0 /\ ModelStage' = 2 * l + 5 + c + 2 * h + 1
    BY <1>1, <2>1 DEF ModelStage
  <2> QED
    BY <1>1, <2>2
<1>7. CASE ModelLogs
  <2>1. /\ fcst = "model" /\ fcst' = "model" /\ fhour' = h + 1 /\ res' = c
    BY <1>1, <1>7 DEF ModelLogs
  <2>2. /\ ModelStage \in {2 * l + 5 + c + 2 * h + 0, 2 * l + 5 + c + 2 * h + 1}
        /\ ModelStage' \in {2 * l + 5 + c + 2 * (h + 1) + 0, 2 * l + 5 + c + 2 * (h + 1) + 1}
    BY <1>1, <2>1 DEF ModelStage
  <2> QED
    BY <1>1, <2>2
<1>8. CASE ModelRestarts
  <2>1. /\ fcst = "model" /\ UNCHANGED <<fcst, fhour, run, hist>> /\ res' = c + 1
    BY <1>1, <1>8 DEF ModelRestarts
  <2>2. PICK b \in {0, 1} : b = IF fhour \in Hours /\ hist[fhour] = run THEN 1 ELSE 0
    OBVIOUS
  <2>3. ModelStage = 2 * l + 5 + c + 2 * h + b /\ ModelStage' = 2 * l + 5 + (c + 1) + 2 * h + b
    BY <1>1, <2>1, <2>2 DEF ModelStage
  <2> QED
    BY <1>1, <2>3
<1>9. CASE ForecastEnds
  <2>1. fcst = "model" /\ fcst' = "complete" /\ fhour \notin Hours
    BY <1>1, <1>9 DEF ForecastEnds, Hours
  <2>2. ModelStage = 2 * l + 5 + c + 2 * h + 0 /\ ModelStage' = 5 * l + 9
    BY <1>1, <2>1 DEF ModelStage
  <2> QED
    BY <1>1, <2>2
<1>10. CASE ForecastDies
  BY <1>10 DEF ForecastDies
<1> QED
  BY <1>2, <1>3, <1>4, <1>5, <1>6, <1>7, <1>8, <1>9, <1>10 DEF Forecast

(* The others leave a job where it is, or queue it again with the forecast.*)
LEMMA OthersKeepStages ==
  ASSUME PostPart, [Next]_vars
  PROVE  /\ \A i \in Jobs : AtmPost(i) \/ post'[i] = "queued" \/ PostStage(i)' = PostStage(i)
         /\ OcnPost \/ ocn' = "queued" \/ OceanStage' = OceanStage
         /\ Gempak \/ gem' = "queued" \/ GempakStage' = GempakStage
         /\ Forecast \/ ModelStage' = ModelStage
<1>1. CASE Forecast
  <2>1. /\ \A i \in Jobs : post'[i] = "queued" \/ post'[i] = post[i]
        /\ ocn' = "queued" \/ ocn' = ocn
        /\ gem' = "queued" \/ gem' = gem
    BY <1>1, Requeued DEF Forecast, Wipe, CleanLog, CleanPost, ModelWrites, ModelLogs,
       ModelRestarts, ForecastEnds, ForecastDies, atm, ocean, gempak
  <2>2. UNCHANGED <<phour, ohour, cmdfile, ghour>>
    BY <1>1, ForecastLeavesAlone
  <2> QED
    BY <1>1, <2>1, <2>2 DEF PostStage, OceanStage, GempakStage
<1>2. ASSUME NEW i \in Jobs, AtmPost(i)
      PROVE  /\ UNCHANGED <<model, ocean, gempakJob>>
             /\ \A k \in Jobs : k # i => post'[k] = post[k] /\ phour'[k] = phour[k]
  <2>1. \A k \in Jobs : k # i => post'[k] = post[k] /\ phour'[k] = phour[k]
    BY <1>2 DEF AtmPost, StartPost, SkipPost, NeedPost, RunPost, DeliverTrack, DeliverGrb,
                DeliverIdx, MarkPost, EndPost, PostTimeout, PostDies, PostLeaves, PostGoto,
                NextHour, PostPart
  <2> QED
    BY <1>2, <2>1, PostLeavesAlone
<1>3. ASSUME NEW i \in Jobs, AtmPost(i)
      PROVE  /\ \A k \in Jobs : AtmPost(k) \/ PostStage(k)' = PostStage(k)
             /\ OceanStage' = OceanStage /\ GempakStage' = GempakStage
             /\ ModelStage' = ModelStage
  <2>1. UNCHANGED <<ocn, ohour, cmdfile, gem, ghour, fcst, fhour, run, hist, res>>
    BY <1>2, <1>3 DEF model, ocean, gempakJob
  <2>2. \A k \in Jobs : k # i => PostStage(k)' = PostStage(k)
    BY <1>2, <1>3 DEF PostStage
  <2> QED
    BY <1>3, <2>1, <2>2 DEF OceanStage, GempakStage, ModelStage
<1>4. CASE OcnPost \/ UNCHANGED vars
  <2>1. UNCHANGED <<model, atm, gempak>>
    BY <1>4, OceanLeavesAlone DEF vars
  <2>2. OcnPost \/ OceanStage' = OceanStage
    BY <1>4 DEF vars, ocean, OceanStage
  <2> QED
    BY <2>1, <2>2 DEF model, atm, gempak, PostStage, GempakStage, ModelStage
<1>5. CASE Gempak
  <2>1. UNCHANGED <<model, atm, ocean>>
    BY <1>5, GempakLeavesAlone
  <2> QED
    BY <1>5, <2>1 DEF model, atm, ocean, PostStage, OceanStage, ModelStage
<1> QED
  BY <1>1, <1>3, <1>4, <1>5 DEF Next

(* A step gets a job further in its attempt; and what bounds that.         *)
Moving ==
  (\A i \in Jobs : PostMoves(i)) /\ OceanMoves /\ GempakMoves /\ ModelMoves

Within ==
  /\ \A i \in Jobs : PostStage(i) \in 0 .. 8 * (Last + Groups) + 2
  /\ OceanStage \in 0 .. 3 * Last + 6
  /\ GempakStage \in 0 .. 4 * (Last + Stride) + 2
  /\ ModelStage \in 0 .. 5 * Last + 9

(* The hourly jobs' loops end, for any number of hours, groups and runs:   *)
(* an attempt of a job that is not interrupted or timed out takes a step   *)
(* further with each of its steps, through its hours and never round       *)
(* them, and nobody sets it back but by queueing it again; a run of the    *)
(* forecast does the same.  How far they can come is bounded, so that by   *)
(* NoVainWaitHolds, once the forecast is complete, an attempt ends.        *)
THEOREM AttemptsEnd == Spec => [][Moving]_vars /\ []Within
<1>1. ASSUME ForecastPart, PostPart, OceanPart, OceanPart', GempakPart, [Next]_vars
      PROVE  Moving
  <2>1. ASSUME NEW i \in Jobs PROVE PostMoves(i)
    BY <1>1, PostFurther, OthersKeepStages DEF PostMoves
  <2>2. OceanMoves
    BY <1>1, OceanFurther, OthersKeepStages DEF OceanMoves
  <2>3. GempakMoves
    BY <1>1, GempakFurther, OthersKeepStages DEF GempakMoves
  <2>4. ModelMoves
    BY <1>1, ModelFurther, OthersKeepStages DEF ModelMoves
  <2> QED
    BY <2>1, <2>2, <2>3, <2>4 DEF Moving
<1>2. ForecastPart /\ PostPart /\ OceanPart /\ GempakPart => Within
  BY PostStageType, OceanStageType, GempakStageType, ModelStageType DEF Within
<1> QED
  BY <1>1, <1>2, ForecastTypes, PostTypes, OceanTypes, GempakTypes, PTL DEF Spec

-----------------------------------------------------------------------------
(* Where a job that follows the forecast has a step to take which is not   *)
(* its end by a timeout or a failure.                                      *)
PostGoes(i) ==
  \/ post[i] = "queued" /\ Started
  \/ post[i] = "check"
  \/ post[i] = "wait" /\ Ready(phour[i])
  \/ post[i] \in Delivering

OceanGoes ==
  \/ ocn = "queued" /\ Started
  \/ ocn = "check"
  \/ ocn = "wait" /\ OceanReady(ohour)
  \/ ocn = "flush" /\ (cmdfile = {} \/ \E h \in cmdfile : hist[h] # 0)

GempakGoes ==
  \/ gem = "queued" /\ \E i \in Jobs : Active(post[i]) \/ post[i] = "complete"
  \/ gem = "check"
  \/ gem = "wait" /\ GribReady(ghour)
  \/ gem \in {"gout", "mark"}

(* What else can hold a job up: hours that a restart of the forecast went  *)
(* on after without their logs; for gempak, an atm_post that has yet to    *)
(* begin or to end, or an hour that this has delivered from a forecast     *)
(* that was taken away since.                                              *)
PostMisses(i) == post[i] = "wait" /\ phour[i] \in missed

OceanMisses ==
  \/ ocn = "wait" /\ {ohour, ohour + 1} \cap missed # {}
  \/ ocn = "flush" /\ cmdfile \cap missed # {}

GempakMisses ==
  \/ gem = "queued" /\ \A i \in Jobs : post[i] \in {"off", "queued"}
  \/ gem = "wait" /\ (~PostEnded(ghour) \/ over[ghour] # "no")

FollowersGoOn ==
  fcst = "complete" =>
    /\ \A i \in Jobs : post[i] \in {"off", "complete"} \/ PostGoes(i) \/ PostMisses(i)
    /\ ocn \in {"off", "complete"} \/ OceanGoes \/ OceanMisses
    /\ gem \in {"off", "complete"} \/ GempakGoes \/ GempakMisses

(* Once the forecast is complete, every job that follows it can go on by   *)
(* itself until it has ended, but where it is held up as above, for any    *)
(* number of hours, groups and runs and after failures and reruns of any   *)
(* job in any order.  With AttemptsEnd: an attempt that does not fail, and *)
(* is not held up, comes to its end.                                       *)
THEOREM FollowersGoOnHolds == Spec => []FollowersGoOn
<1>1. PostPart /\ OceanPart /\ GempakPart /\ Logged /\ NoVainWait => FollowersGoOn
  <2> SUFFICES ASSUME PostPart, OceanPart, GempakPart, Logged, NoVainWait, fcst = "complete"
               PROVE  /\ \A i \in Jobs :
                           post[i] \in {"off", "complete"} \/ PostGoes(i) \/ PostMisses(i)
                      /\ ocn \in {"off", "complete"} \/ OceanGoes \/ OceanMisses
                      /\ gem \in {"off", "complete"} \/ GempakGoes \/ GempakMisses
    BY DEF FollowersGoOn
  <2>1. Started
    BY DEF Started
  <2>2. ASSUME NEW i \in Jobs
        PROVE  post[i] \in {"off", "complete"} \/ PostGoes(i) \/ PostMisses(i)
    BY <2>1, <2>2 DEF PostGoes, PostMisses, NoVainWait, PostPart, AtWork
  <2>3. ocn \in {"off", "complete"} \/ OceanGoes \/ OceanMisses
    <3>1. CASE ocn = "flush"
      <4>1. \A h \in cmdfile : hist[h] # 0 \/ h \in missed
        BY DEF Logged, OceanPart
      <4>2. QED
        BY <3>1, <4>1 DEF OceanGoes, OceanMisses
    <3>2. CASE ocn # "flush"
      BY <2>1, <3>2 DEF OceanGoes, OceanMisses, NoVainWait, OceanPart
    <3>3. QED
      BY <3>1, <3>2
  <2>4. gem \in {"off", "complete"} \/ GempakGoes \/ GempakMisses
    <3>1. CASE gem = "queued"
      <4>1. \A i \in Jobs : post[i] \in {"off", "queued", "complete"} \/ Active(post[i])
        BY DEF Active
      <4>2. QED
        BY <3>1, <4>1 DEF GempakGoes, GempakMisses
    <3>2. CASE gem # "queued"
      BY <3>2 DEF GempakGoes, GempakMisses, NoVainWait, GempakPart
    <3>3. QED
      BY <3>1, <3>2
  <2>5. QED
    BY <2>2, <2>3, <2>4
<1>2. QED
  BY <1>1, PostTypes, OceanTypes, GempakTypes, LoggedInvariant, NoVainWaitHolds, PTL

=============================================================================
