-------------------------------- MODULE Cycling --------------------------------
(***************************************************************************)
(* What one cycle hands over to the next through its RESTART directory in  *)
(* COM.  The atm_post jobs deliver the files hour by hour and domain by    *)
(* domain while the forecast runs; the tracker of exhafs_product.sh        *)
(* follows them; and the jobs of the next cycle start when a file or two   *)
(* of the many that they read have been there for two minutes.             *)
(*                                                                         *)
(* A file is copied only if the source is newer than what is in COM, and   *)
(* nobody looks at the result of copying a grid: what a killed or failed   *)
(* copy leaves behind is taken for the file from then on.                  *)
(*                                                                         *)
(* Hours are counted in output intervals (NOUTHRS).  Of time only this is  *)
(* kept: a file is two minutes old when every delivery that was going on   *)
(* when it came has ended or has taken longer than that (Outlast).         *)
(***************************************************************************)
EXTENDS Naturals

CONSTANTS
  Window,        \* 12 hours: the hours before it have restart files
  Restarts,      \* restart_interval
  Cases,         \* the configurations: records, see CaseAssumption
  MaxFailures    \* bound on the failures of post and product jobs and of
                 \* copies, and on the deliveries longer than two minutes

(* groups: POST_GROUPN; domains: nest_grids; last: NHRS; track: the hour   *)
(* whose trak.atcfunix the next cycle waits for; readers: its jobs.        *)
Jobs == {"merge", "vi", "analysis"}
Reader == Jobs \X Restarts

ASSUME CaseAssumption ==
  /\ Window \in Nat /\ MaxFailures \in Nat
  /\ Restarts \subseteq 1 .. Window - 1
  /\ Cases \subseteq [groups : Nat \ {0}, domains : {1, 2}, last : Nat,
                      track : 0 .. Window, readers : SUBSET Reader]

VARIABLES
  case,               \* the configuration
  logs, res,          \* the hours that the model has written, and their restarts
  post, hour, dom,    \* an atm_post job: what it does, for which hour and domain
  due, left,          \* the grids that it has not looked at; what it is copying
  trk, done,          \* intercom: the tracker's input and the done files
  com,                \* COM: the files that no job copies again
  spoilt,             \* the files of which a copy was cut off or failed unnoticed
  young,              \* the deliveries that a file of COM must still outlive
  slow,               \* the jobs whose delivery takes more than two minutes
  torn,               \* the hours whose delivery was interrupted
  thour,              \* the hour of the tracker
  reader,             \* the jobs of the next cycle
  failures

producer == <<logs, res>>
delivery == <<hour, dom, due, left, trk, done>>
store    == <<com, spoilt, torn, slow>>
others   == <<thour, reader, failures>>
cycleVars == <<case, producer, post, delivery, store, young, others>>

Groups  == 0 .. case.groups - 1
Domains == 1 .. case.domains
Hours   == 0 .. case.last
Slots   == Hours \X Domains

(* fv_core.res of a domain, and with "rest" its fv_tracer, fv_srf_wnd,     *)
(* sfc_data; grid_mspec; grid_spec, atmos_static and oro_data; and what    *)
(* the tracker puts beside them.                                           *)
Kinds == {"core", "rest", "spec", "static", "trak"}
Core(h, d) == <<"core", h, d>>
Rest(h, d) == <<"rest", h, d>>
Mspec(h, d) == <<"spec", h, d>>
Static(d)  == <<"static", 0, d>>
Trak(h)    == <<"trak", h, case.domains>>
Files      == Kinds \X Hours \X Domains

(* What the tasks of the workflow wait for.                                *)
Waits(r) ==
  {Core(r[2], 1)}
  \cup (IF r[1] = "vi" THEN {Trak(case.track)} ELSE {})
  \cup (IF r[1] = "analysis" THEN {Static(1)} ELSE {})

Watched == UNION {Waits(r) : r \in case.readers}

(* And what they read: with a nest, the grids of that hour.                *)
Reads(r) ==
  (UNION {{Core(r[2], d), Rest(r[2], d), Static(d)} : d \in Domains})
  \cup (IF case.domains = 2 THEN {Mspec(r[2], d) : d \in Domains} ELSE {})

CycleInit ==
  /\ case \in Cases
  /\ logs = 0 /\ res = 0
  /\ post = [i \in Groups |-> "wait"] /\ hour = [i \in Groups |-> i]
  /\ dom = [i \in Groups |-> 1]
  /\ due = [i \in Groups |-> {}] /\ left = [i \in Groups |-> {}]
  /\ trk = {} /\ done = {} /\ com = {} /\ spoilt = {} /\ torn = {} /\ slow = {}
  /\ young = [f \in Watched |-> {}]
  /\ thour = 0
  /\ reader = [r \in case.readers |-> "waiting"]
  /\ failures = 0

-----------------------------------------------------------------------------
(* The forecast model: an hour's output and log, and its restart files     *)
(* with coupler.res last, in either order, before those of the next hour.  *)
ModelWrites ==
  /\ logs \in Hours /\ logs <= res
  /\ logs' = logs + 1
  /\ UNCHANGED <<case, res, post, delivery, store, others>>

ModelRestarts ==
  /\ res \in Hours /\ res <= logs
  /\ res' = res + 1
  /\ UNCHANGED <<case, logs, post, delivery, store, others>>

-----------------------------------------------------------------------------
(* atm_post: the loop over the hours of the group, and the domains in it.  *)
Here(i) == <<hour[i], dom[i]>>

HasRestart(h) == h \in Restarts /\ h < Window

(* The grid of the prior hour is delivered with this one's files; that of  *)
(* the last hour too, in a forecast shorter than the window.               *)
Grids(h) ==
  (IF h \in 1 .. Window THEN {h - 1} ELSE {})
  \cup (IF h < Window /\ h = case.last THEN {h} ELSE {})

GridFiles(h, d) == {Static(d)} \cup {Mspec(k, d) : k \in Grids(h)}
FilesOf(h, d) ==
  GridFiles(h, d) \cup (IF HasRestart(h) THEN {Core(h, d), Rest(h, d)} ELSE {})

(* Mutant: one domain too many.                                            *)
NextSlotPast(i) ==
  IF dom[i] <= case.domains
  THEN /\ dom' = [dom EXCEPT ![i] = @ + 1] /\ UNCHANGED hour
  ELSE /\ dom' = [dom EXCEPT ![i] = 1]
       /\ hour' = [hour EXCEPT ![i] = @ + case.groups]

NextSlot(i) ==
  IF dom[i] < case.domains
  THEN /\ dom' = [dom EXCEPT ![i] = @ + 1] /\ UNCHANGED hour
  ELSE /\ dom' = [dom EXCEPT ![i] = 1]
       /\ hour' = [hour EXCEPT ![i] = @ + case.groups]

(* Mutant: an hour that the tracker has its input of is skipped.           *)
SkipPostTracked(i) ==
  /\ post[i] = "wait" /\ hour[i] \in Hours /\ Here(i) \in trk
  /\ NextSlot(i)
  /\ done' = done \cup {Here(i)} /\ torn' = torn \ {Here(i)}
  /\ UNCHANGED <<case, producer, post, due, left, trk, com, spoilt, slow, others>>

SkipPost(i) ==
  /\ post[i] = "wait" /\ hour[i] \in Hours /\ Here(i) \in done
  /\ NextSlot(i)
  /\ UNCHANGED <<case, producer, post, due, left, trk, done, store, others>>

(* Mutant: as ocn_post does, wait for the output of the next hour too.     *)
RunPostNext(i) ==
  /\ post[i] = "wait" /\ hour[i] \in Hours /\ Here(i) \notin done
  /\ logs > hour[i] + 1
  /\ trk' = trk \cup {Here(i)}
  /\ post' = [post EXCEPT ![i] = "grids"]
  /\ due' = [due EXCEPT ![i] = GridFiles(hour[i], dom[i])]
  /\ UNCHANGED <<case, producer, hour, dom, left, done, store, others>>

(* The wait for the model ends, post runs; the tracker's file comes first. *)
RunPost(i) ==
  /\ post[i] = "wait" /\ hour[i] \in Hours /\ Here(i) \notin done
  /\ logs > hour[i]
  /\ trk' = trk \cup {Here(i)}
  /\ post' = [post EXCEPT ![i] = "grids"]
  /\ due' = [due EXCEPT ![i] = GridFiles(hour[i], dom[i])]
  /\ UNCHANGED <<case, producer, hour, dom, left, done, store, others>>

(* The grids are taken one after the other, the static files first.        *)
NextGrid(i, f) ==
  /\ post[i] = "grids" /\ left[i] = {} /\ f \in due[i]
  /\ Static(dom[i]) \in due[i] => f = Static(dom[i])
  /\ due' = [due EXCEPT ![i] = @ \ {f}]

Copying(f) == \E j \in Groups : f \in left[j]

(* A copy to INPdir/RESTART, and from there to COM.                        *)
StartGrid(i) ==
  /\ \E f \in due[i] \ com :
       /\ NextGrid(i, f) /\ ~Copying(f)
       /\ left' = [left EXCEPT ![i] = {f}]
  /\ UNCHANGED <<case, producer, post, hour, dom, trk, done, store, others>>

(* Another job has copied it, or is at it: the one copy is then newer, or  *)
(* what there is of the other goes to COM and stays there.                 *)
PassGrid(i) ==
  /\ \E f \in due[i] :
       /\ NextGrid(i, f)
       /\ f \in com \/ Copying(f)
       /\ \/ UNCHANGED <<com, spoilt>>
          \/ /\ f \notin com
             /\ com' = com \cup {f} /\ spoilt' = spoilt \cup {f}
  /\ UNCHANGED <<case, producer, post, hour, dom, left, trk, done, torn, slow, others>>

EndGrid(i) ==
  /\ post[i] = "grids" /\ left[i] # {}
  /\ com' = com \cup left[i]
  /\ left' = [left EXCEPT ![i] = {}]
  /\ UNCHANGED <<case, producer, post, hour, dom, due, trk, done, spoilt, torn, slow,
                 others>>

(* The copy fails, which nobody checks: with a part of the file, or none.  *)
GridFails(i) ==
  /\ post[i] = "grids" /\ left[i] # {} /\ failures < MaxFailures
  /\ failures' = failures + 1
  /\ \E c \in SUBSET left[i] : com' = com \cup c
  /\ spoilt' = spoilt \cup left[i]
  /\ left' = [left EXCEPT ![i] = {}]
  /\ UNCHANGED <<case, producer, post, hour, dom, due, trk, done, torn, slow, thour,
                 reader>>

(* The wait for coupler.res ends, if the hour has restart files.           *)
StartCopy(i) ==
  /\ post[i] = "grids" /\ due[i] = {} /\ left[i] = {}
  /\ HasRestart(hour[i]) /\ res > hour[i]
  /\ left' = [left EXCEPT ![i] = {Core(hour[i], dom[i]), Rest(hour[i], dom[i])} \ com]
  /\ post' = [post EXCEPT ![i] = "copy"]
  /\ UNCHANGED <<case, producer, hour, dom, due, trk, done, store, others>>

(* The commands of cmdfile run in parallel: one of them ends.              *)
CopyRestart(i) ==
  /\ post[i] = "copy"
  /\ \E f \in left[i] : /\ com' = com \cup {f}
                        /\ left' = [left EXCEPT ![i] = @ \ {f}]
  /\ UNCHANGED <<case, producer, post, hour, dom, due, trk, done, spoilt, torn, slow,
                 others>>

(* All has been delivered: the done file, and the next slot.               *)
MarkPost(i) ==
  /\ post[i] = "copy" \/ (post[i] = "grids" /\ ~HasRestart(hour[i]))
  /\ due[i] = {} /\ left[i] = {}
  /\ done' = done \cup {Here(i)}
  /\ torn' = torn \ {Here(i)} /\ slow' = slow \ {i}
  /\ post' = [post EXCEPT ![i] = "wait"]
  /\ NextSlot(i)
  /\ UNCHANGED <<case, producer, due, left, trk, com, spoilt, others>>

EndPost(i) ==
  /\ post[i] = "wait" /\ hour[i] \notin Hours
  /\ post' = [post EXCEPT ![i] = "complete"]
  /\ UNCHANGED <<case, producer, delivery, store, others>>

(* A wait is longer than MAX_WAIT_TIME, a command of cmdfile fails, or the *)
(* job is killed: it is submitted again, and begins at its first hour.     *)
(* What it was copying may be in COM in part, but for fv_core, which ncks  *)
(* writes aside and renames; of a grid it may be INPdir/RESTART that has a *)
(* part of it.                                                             *)
PostFails(i) ==
  /\ post[i] # "complete" /\ hour[i] \in Hours /\ failures < MaxFailures
  /\ failures' = failures + 1
  /\ torn' = IF post[i] = "wait" THEN torn ELSE torn \cup {Here(i)}
  /\ \E c \in SUBSET (left[i] \ {Core(hour[i], dom[i])}) :
       /\ com' = com \cup c
       /\ spoilt' = spoilt \cup IF post[i] = "grids" THEN left[i] ELSE c
  /\ post' = [post EXCEPT ![i] = "wait"] /\ hour' = [hour EXCEPT ![i] = i]
  /\ dom' = [dom EXCEPT ![i] = 1] /\ slow' = slow \ {i}
  /\ due' = [due EXCEPT ![i] = {}] /\ left' = [left EXCEPT ![i] = {}]
  /\ UNCHANGED <<case, producer, trk, done, thour, reader>>

(* Between a wait for the model and the next one.                          *)
Delivers(i) ==
  \/ post[i] = "copy"
  \/ /\ post[i] = "grids"
     /\ due[i] = {} /\ left[i] = {} /\ HasRestart(hour[i]) => res > hour[i]

(* A delivery takes longer than the age that the next cycle asks for.      *)
Outlast(i) ==
  /\ Delivers(i) /\ i \notin slow /\ failures < MaxFailures
  /\ failures' = failures + 1
  /\ slow' = slow \cup {i}
  /\ UNCHANGED <<case, producer, post, delivery, com, spoilt, torn, thour, reader>>

-----------------------------------------------------------------------------
(* gettrk.x on the last domain, and its deliver.sh after every hour.       *)
Track ==
  /\ thour \in Hours /\ <<thour, case.domains>> \in trk
  /\ com' = IF thour <= Window THEN com \cup {Trak(thour)} ELSE com
  /\ thour' = thour + 1
  /\ UNCHANGED <<case, producer, post, delivery, spoilt, torn, slow, reader, failures>>

TrackerFails ==
  /\ thour \in Hours /\ failures < MaxFailures
  /\ failures' = failures + 1 /\ thour' = 0
  /\ UNCHANGED <<case, producer, post, delivery, store, reader>>

-----------------------------------------------------------------------------
(* The next cycle.                                                         *)
Intact(f) == f \in com \ spoilt /\ ~Copying(f)
Old(f) == f \in com /\ young[f] = {}
CanStart(r) == reader[r] = "waiting" /\ \A f \in Waits(r) : Old(f)

(* A part of a file may pass for the file.                                 *)
Read(r) ==
  /\ CanStart(r) /\ \A f \in Reads(r) : f \in com \/ Copying(f)
  /\ reader' = [reader EXCEPT ![r] = "done"]
  /\ UNCHANGED <<case, producer, post, delivery, store, thour, failures>>

(* exhafs_merge.sh exits with 1, hafsvi_preproc takes the nest's grid of   *)
(* hour 0, exhafs_analysis.sh does nothing.                                *)
ReadFails(r) ==
  /\ CanStart(r) /\ \E f \in Reads(r) : ~Intact(f)
  /\ reader' = [reader EXCEPT ![r] = "dead"]
  /\ UNCHANGED <<case, producer, post, delivery, store, thour, failures>>

-----------------------------------------------------------------------------
(* Mutant: the dependency has no age.                                      *)
AgeNone == young' = young

Age ==
  young' = [f \in Watched |->
    {i \in IF f \in com' \ com THEN Groups ELSE young[f] :
       Delivers(i)' /\ i \notin slow'}]

Post(i) ==
  \/ SkipPost(i) \/ RunPost(i) \/ StartGrid(i) \/ PassGrid(i) \/ EndGrid(i)
  \/ StartCopy(i) \/ CopyRestart(i) \/ MarkPost(i) \/ EndPost(i)
Fault(i) == GridFails(i) \/ PostFails(i) \/ Outlast(i)
Model == ModelWrites \/ ModelRestarts
Step ==
  \/ Model \/ Track \/ TrackerFails
  \/ \E i \in Groups : Post(i) \/ Fault(i)
  \/ \E r \in case.readers : Read(r) \/ ReadFails(r)
CycleNext == Step /\ Age

CycleSpec == CycleInit /\ [][CycleNext]_cycleVars

(* The model, the jobs and the tracker go on, and the workflow starts what *)
(* it can: the failures are bounded.                                       *)
FairCycleSpec ==
  /\ CycleSpec
  /\ WF_cycleVars(Model /\ Age) /\ WF_cycleVars(Track /\ Age)
  /\ WF_cycleVars((\E i \in Groups : Post(i)) /\ Age)
  /\ WF_cycleVars((\E r \in case.readers : Read(r) \/ ReadFails(r)) /\ Age)

-----------------------------------------------------------------------------
CycleTypeOK ==
  /\ case \in Cases
  /\ logs \in 0 .. case.last + 1 /\ res \in 0 .. case.last + 1
  /\ post \in [Groups -> {"wait", "grids", "copy", "complete"}]
  /\ hour \in [Groups -> 0 .. case.last + case.groups] /\ dom \in [Groups -> Domains]
  /\ \A i \in Groups : post[i] \notin {"wait", "complete"} => hour[i] \in Hours
  /\ due \in [Groups -> SUBSET Files] /\ left \in [Groups -> SUBSET Files]
  /\ trk \subseteq Slots /\ done \subseteq trk /\ torn \subseteq trk
  /\ com \subseteq Files /\ spoilt \subseteq Files /\ slow \subseteq Groups
  /\ young \in [Watched -> SUBSET Groups]
  /\ thour \in 0 .. case.last + 1
  /\ reader \in [case.readers -> {"waiting", "done", "dead"}]
  /\ failures \in 0 .. MaxFailures

(* What the dependencies of a reader promise: those of atm_vi wait for a   *)
(* track that comes after the nest's files of the reader's hour; those of  *)
(* atm_merge and analysis for files of the parent only.                    *)
TrackedPast(h) == h < case.track \/ (h = case.track /\ h = case.last)
Promised(r) ==
  IF r[1] = "vi" /\ TrackedPast(r[2])
  THEN Reads(r)
  ELSE Reads(r) \cap {Core(r[2], 1), Rest(r[2], 1), Static(1)}

(* The delivery that brings a file was interrupted and has not been taken  *)
(* up again, or outlasts the age; or a job that began after the track came *)
(* was the first to copy a static file of the nest.                        *)
Late(f) ==
  \/ \E s \in torn : f \in FilesOf(s[1], s[2])
  \/ \E i \in slow : f \in FilesOf(hour[i], dom[i])
  \/ \E i \in Groups : f \in left[i] /\ dom[i] = 2 /\ hour[i] > case.track

(* A job of the next cycle that starts finds what is promised to it whole, *)
(* although its dependencies name one or two of the files: whichever jobs  *)
(* deliver them, in what order, and whatever fails.                        *)
HandoverComplete ==
  [][\A r \in case.readers : reader'[r] # reader[r] =>
       \A f \in Promised(r) : Intact(f) \/ f \in spoilt \/ Late(f)]_cycleVars

(* An hour that a job skips because of its done file has been delivered,   *)
(* with all its restart files, whatever was interrupted before: but for    *)
(* the files of which a copy was cut off or failed, which nobody copies    *)
(* again, and for the static files that another job is still copying.      *)
DoneDelivered ==
  \A s \in done : \A f \in FilesOf(s[1], s[2]) : Intact(f) \/ f \in spoilt \/ Copying(f)

(* The jobs of the next cycle start: every file that they wait for comes,  *)
(* also when the forecast is shorter than the window.                      *)
HandoverEnds == <>(\A r \in case.readers : reader[r] # "waiting")
=============================================================================
