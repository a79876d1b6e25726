-------------------------------- MODULE Delivery --------------------------------
(***************************************************************************)
(* The products of a task: FileProduct.deliver and undeliver with the file *)
(* operations under them, as the ocean and wave tasks call them from run() *)
(* and as unrun() is to withdraw them; UpstreamFile.check on the files of  *)
(* another workflow; and wait_for_products in a process that waits for     *)
(* both.  The task's process may fail, be killed and run again anywhere.   *)
(*                                                                         *)
(* The rows of the products and of the task change in transactions that    *)
(* may be refused (Datastore); a process sees them through the cache of    *)
(* its Datum, which is at most CacheAge old (DatumCache).                  *)
(***************************************************************************)
EXTENDS Naturals

CONSTANTS
  Mine,          \* the FileProducts of the task
  Upstream,      \* the UpstreamFile products
  Lists,         \* the arguments of wait_for_products: sets of products
  MaxRuns,       \* bound on how often the task is run
  MaxTime,       \* maxtime of wait_for_products
  SleepTime,     \* sleeptime
  CacheAge,      \* _cacheage
  MinAge,        \* minage of an upstream file
  NoProduct

Products == Mine \cup Upstream

ASSUME DeliveryAssumption ==
  /\ Mine \cap Upstream = {} /\ NoProduct \notin Products
  /\ Lists \subseteq SUBSET Products
  /\ MaxRuns \in Nat \ {0} /\ SleepTime \in Nat \ {0} /\ CacheAge \in Nat /\ MinAge \in Nat
  /\ MaxTime \in Nat \ {0}

VARIABLES
  file,       \* what is at a product's location: None, Part, or the run it is of
  avail,      \* the database: the products that are available
  state,      \* the database: the state of the task
  run,        \* how often the task has been run
  pc, cur,    \* the task's process, and the product that it is at
  given,      \* the products that this run has delivered
  called,     \* the run whose file the callbacks were called for last
  out,        \* history: the products that undeliver has taken away
  mtime,      \* the age of an upstream file
  clock,      \* the time since wait_for_products was called
  plist, wpc, \* the waiting process, and the products that it waits for
  wake,       \* the end of its sleep
  todo, seen, \* the products that this round has not come to; seen
  believed,   \* its cache: the products that it shows available
  age,        \* and how old it is
  lost,       \* history: how long ago a product stopped being available
  early       \* history: what was there in time for another look, and still is

disk    == <<file, mtime>>
rows    == <<avail, state>>
task    == <<run, pc, cur, given, called>>
cache   == <<believed, age>>
waiter  == <<plist, wpc, wake, todo, seen, cache>>
history == <<out, lost, early>>
vars    == <<disk, rows, task, waiter, clock, history>>

None == 0
Part == MaxRuns + 1

Older(n, limit) == IF n < limit THEN n + 1 ELSE limit

Init ==
  /\ file = [p \in Products |-> None] /\ mtime = [p \in Upstream |-> 0]
  /\ avail = {} /\ state = "UNSTARTED"
  /\ run = 0 /\ pc = "idle" /\ cur = NoProduct /\ given = {}
  /\ called = [p \in Mine |-> 0]
  /\ clock = 0
  /\ plist \in Lists /\ wpc = "new" /\ wake = 0 /\ todo = {} /\ seen = {}
  /\ believed = {} /\ age = [p \in Products |-> 0]
  /\ out = {} /\ lost = [p \in Mine |-> CacheAge]
  /\ early = {}

Leave == pc' = "idle" /\ cur' = NoProduct /\ given' = {}

(* wait_for_products will look at p again.                                 *)
LookToCome(p) == p \in IF wpc = "look" THEN todo ELSE plist \ seen
InTime(there) == IF clock < MaxTime THEN {p \in there : LookToCome(p)} ELSE {}

-----------------------------------------------------------------------------
(* run(): state = RUNNING, then one deliver after the other.               *)
StartRun ==
  /\ pc = "idle" /\ run < MaxRuns
  /\ run' = run + 1 /\ given' = {}
  /\ state' = "RUNNING"
  /\ pc' = "run"
  /\ UNCHANGED <<disk, avail, cur, called, waiter, clock, history>>

(* Mutant: the file is copied to its place.                                *)
CopyInPlace(p) ==
  /\ pc = "run" /\ p \in Mine \ given
  /\ cur' = p /\ pc' = "copy"
  /\ file' = [file EXCEPT ![p] = Part]
  /\ UNCHANGED <<mtime, rows, run, given, called, waiter, clock, history>>

(* deliver_file: copy to a temporary file beside the target ...            *)
Copy(p) ==
  /\ pc = "run" /\ p \in Mine \ given
  /\ cur' = p /\ pc' = "copy"
  /\ UNCHANGED <<disk, rows, run, given, called, waiter, clock, history>>

(* ... which then takes its name.                                          *)
Rename ==
  /\ pc = "copy"
  /\ file' = [file EXCEPT ![cur] = run]
  /\ out' = out \ {cur}
  /\ pc' = "store"
  /\ UNCHANGED <<mtime, rows, run, cur, given, called, waiter, clock, lost, early>>

(* set_loc_avail, or available = True, in one transaction.                 *)
Store ==
  /\ pc = "store"
  /\ avail' = avail \cup {cur}
  /\ early' = early \cup InTime({cur})
  /\ pc' = "call"
  /\ UNCHANGED <<disk, state, run, cur, given, called, waiter, clock, out, lost>>

(* call_callbacks.                                                         *)
CallCallbacks ==
  /\ pc = "call"
  /\ called' = [called EXCEPT ![cur] = run]
  /\ pc' = "run" /\ given' = given \cup {cur}
  /\ UNCHANGED <<disk, rows, run, cur, waiter, clock, history>>

(* Mutant: a refused transaction is logged and forgotten.                  *)
RaiseNot ==
  /\ pc \in {"run", "copy", "store", "call"}
  /\ IF pc = "store" THEN pc' = "call" /\ UNCHANGED <<state, cur, given>>
                     ELSE state' = "FAILED" /\ Leave
  /\ called' = IF pc = "call" THEN [called EXCEPT ![cur] = run] ELSE called
  /\ UNCHANGED <<disk, avail, run, waiter, clock, history>>

(* A program, the copy, the rename, the transaction or a callback fails    *)
(* (the other callbacks are called all the same).                          *)
Raise ==
  /\ pc \in {"run", "copy", "store", "call"}
  /\ called' = IF pc = "call" THEN [called EXCEPT ![cur] = run] ELSE called
  /\ state' = "FAILED" /\ Leave
  /\ UNCHANGED <<disk, avail, run, waiter, clock, history>>

EndRun ==
  /\ pc = "run" /\ given = Mine
  /\ state' = "COMPLETED"
  /\ Leave
  /\ UNCHANGED <<disk, avail, run, called, waiter, clock, history>>

(* Killed; or the transaction that stores FAILED is refused, as it always  *)
(* is after a fatal signal, because the handler has disabled locking.      *)
Crash ==
  /\ pc # "idle"
  /\ Leave
  /\ UNCHANGED <<disk, rows, run, called, waiter, clock, history>>

-----------------------------------------------------------------------------
(* unrun(): undeliver every product; remove_file ...                       *)
StartUnrun ==
  /\ pc = "idle" /\ run > 0
  /\ pc' = "unrun" /\ given' = Mine
  /\ UNCHANGED <<disk, rows, run, cur, called, waiter, clock, history>>

RemoveFile(p) ==
  /\ pc = "unrun" /\ p \in given
  /\ file' = [file EXCEPT ![p] = None]
  /\ out' = out \cup {p}
  /\ cur' = p /\ pc' = "retract"
  /\ UNCHANGED <<mtime, rows, run, given, called, waiter, clock, lost, early>>

(* ... and available = False.                                              *)
Retract ==
  /\ pc = "retract"
  /\ avail' = avail \ {cur}
  /\ lost' = IF cur \in avail THEN [lost EXCEPT ![cur] = 0] ELSE lost
  /\ early' = early \ {cur}
  /\ given' = given \ {cur} /\ pc' = "unrun"
  /\ UNCHANGED <<disk, state, run, cur, called, waiter, clock, out>>

EndUnrun ==
  /\ pc = "unrun" /\ given = {}
  /\ state' = "UNSTARTED" /\ Leave
  /\ UNCHANGED <<disk, avail, run, called, waiter, clock, history>>

-----------------------------------------------------------------------------
(* The other workflow writes its file, and touches it at least once in     *)
(* MinAge until it is whole.  One that nobody waits for changes nothing.   *)
UpstreamWrites(p) ==
  /\ p \in plist /\ file[p] \in {None, Part}
  /\ \E f \in {Part, 1} : file' = [file EXCEPT ![p] = f]
  /\ mtime' = [mtime EXCEPT ![p] = 0]
  /\ UNCHANGED <<rows, task, waiter, clock, history>>

-----------------------------------------------------------------------------
(* The Datums of the products are constructed, which fills their caches,   *)
(* and some time later wait_for_products is called.                        *)
Construct ==
  /\ wpc = "new" /\ wpc' = "made"
  /\ believed' = plist \cap avail
  /\ UNCHANGED <<disk, rows, task, plist, wake, todo, seen, age, clock, history>>

Call ==
  /\ wpc = "made" /\ wpc' = "look"
  /\ todo' = plist
  /\ UNCHANGED <<disk, rows, task, plist, wake, seen, cache, clock, history>>

(* p.available believes the cache for CacheAge seconds.                    *)
Young(p) == age[p] < CacheAge
Available(p) == p \in IF Young(p) THEN believed ELSE avail

(* Mutant: the cache is believed however old it is.                        *)
FindCached(p) ==
  /\ wpc = "look" /\ p \in todo
  /\ p \in believed \/ Available(p)
  /\ seen' = seen \cup {p} /\ todo' = todo \ {p}
  /\ believed' = believed \cup {p}
  /\ UNCHANGED <<disk, rows, task, plist, wpc, wake, age, clock, history>>

(* It is available: the action is performed.                               *)
Find(p) ==
  /\ wpc = "look" /\ p \in todo
  /\ Available(p)
  /\ seen' = seen \cup {p} /\ todo' = todo \ {p}
  /\ believed' = believed \cup {p}
  /\ age' = IF Young(p) THEN age ELSE [age EXCEPT ![p] = 0]
  /\ UNCHANGED <<disk, rows, task, plist, wpc, wake, clock, history>>

(* check_file: the file exists, and its mtime is older than minage.        *)
OldEnough(p) == file[p] # None /\ mtime[p] > MinAge

(* Otherwise p.check(): Product's reads the row again, UpstreamFile's      *)
(* looks at the file and writes the row.                                   *)
Check(p) ==
  /\ wpc = "look" /\ p \in todo
  /\ ~Available(p)
  /\ avail' = IF p \in Upstream /\ OldEnough(p) THEN avail \cup {p} ELSE avail
  /\ believed' = IF p \in avail' THEN believed \cup {p} ELSE believed \ {p}
  /\ age' = [age EXCEPT ![p] = 0]
  /\ seen' = IF p \in avail' THEN seen \cup {p} ELSE seen
  /\ todo' = todo \ {p}
  /\ UNCHANGED <<disk, state, task, plist, wpc, wake, clock, history>>

(* The end of a round: the time is read again.  The sleep ends a second    *)
(* before the time is over; from then on it is 0.01 seconds.               *)
EndRound ==
  /\ wpc = "look" /\ todo = {}
  /\ IF seen # plist /\ clock < MaxTime
     THEN /\ wpc' = "sleep"
          /\ wake' = IF clock + SleepTime < MaxTime THEN clock + SleepTime ELSE MaxTime - 1
          /\ early' = early \cup
               {p \in plist \ seen : p \in avail \/ (p \in Upstream /\ OldEnough(p))}
          /\ UNCHANGED cache
     ELSE /\ wpc' = "done" /\ wake' = 0 /\ believed' = {} /\ age' = [p \in Products |-> 0]
          /\ UNCHANGED early
  /\ UNCHANGED <<disk, rows, task, plist, todo, seen, clock, out, lost>>

(* Mutant: the loop asks for the time after the sleep.                     *)
StartRoundInTime ==
  /\ wpc = "sleep" /\ clock >= wake
  /\ IF clock < MaxTime THEN wpc' = "look" /\ todo' = plist \ seen
                        ELSE wpc' = "done" /\ UNCHANGED todo
  /\ UNCHANGED <<disk, rows, task, plist, wake, seen, cache, clock, history>>

(* Whether the time is over was asked before the sleep: another round.     *)
StartRound ==
  /\ wpc = "sleep" /\ clock >= wake
  /\ wpc' = "look" /\ todo' = plist \ seen
  /\ UNCHANGED <<disk, rows, task, plist, wake, seen, cache, clock, history>>

(* A second passes, between two looks of a round too: a look waits for the *)
(* database and performs the action.  The other workflow does not leave a  *)
(* file that it is writing for longer than MinAge.                         *)
Tick ==
  /\ wpc \in {"made", "look", "sleep"}
  /\ \A p \in Upstream : file[p] = Part => mtime[p] < MinAge
  /\ clock' = IF wpc = "made" THEN clock ELSE Older(clock, MaxTime)
  /\ age' = [p \in Products |-> Older(age[p], CacheAge)]
  /\ mtime' = [p \in Upstream |-> Older(mtime[p], MinAge + 1)]
  /\ lost' = [p \in Mine |-> Older(lost[p], CacheAge)]
  /\ early' = IF clock' = MaxTime THEN early
              ELSE early \cup InTime({p \in Upstream : file[p] = 1 /\ mtime'[p] > MinAge})
  /\ UNCHANGED <<file, rows, task, plist, wpc, wake, todo, seen, believed, out>>

-----------------------------------------------------------------------------
Run  == \/ StartRun \/ Rename \/ Store \/ CallCallbacks \/ Raise \/ EndRun
        \/ \E p \in Mine : Copy(p)
Unrun == StartUnrun \/ Retract \/ EndUnrun \/ \E p \in Mine : RemoveFile(p)
Wait == Construct \/ Call \/ EndRound \/ StartRound \/ \E p \in Products : Find(p) \/ Check(p)

Next == \/ Run \/ Unrun \/ Crash \/ Wait \/ Tick
        \/ \E p \in Upstream : UpstreamWrites(p)

Spec == Init /\ [][Next]_vars

(* The waiting process goes on and time passes; nothing is asked of the    *)
(* task nor of the other workflow, but that it ends a file it has begun.   *)
FairSpec ==
  /\ Spec
  /\ WF_vars(Wait) /\ WF_vars(Tick)
  /\ \A p \in Upstream : WF_vars(file[p] = Part /\ UpstreamWrites(p) /\ file'[p] = 1)

-----------------------------------------------------------------------------
TypeOK ==
  /\ file \in [Products -> 0 .. MaxRuns + 1] /\ mtime \in [Upstream -> 0 .. MinAge + 1]
  /\ avail \subseteq Products
  /\ state \in {"UNSTARTED", "RUNNING", "COMPLETED", "FAILED"}
  /\ run \in 0 .. MaxRuns
  /\ pc \in {"idle", "run", "copy", "store", "call", "unrun", "retract"}
  /\ cur \in Mine \cup {NoProduct} /\ given \subseteq Mine
  /\ pc \in {"copy", "store", "call", "retract"} => cur \in Mine
  /\ called \in [Mine -> 0 .. MaxRuns]
  /\ out \subseteq Mine /\ lost \in [Mine -> 0 .. CacheAge]
  /\ plist \in Lists /\ early \subseteq Products /\ clock \in 0 .. MaxTime
  /\ wpc \in {"new", "made", "look", "sleep", "done"} /\ wake \in 0 .. MaxTime
  /\ todo \subseteq plist /\ seen \subseteq plist /\ believed \subseteq Products
  /\ age \in [Products -> 0 .. CacheAge]

(* A product that the database shows available is there, and whole: while  *)
(* it is delivered again, after crashes in any place, and for the files of *)
(* the other workflow; but where an undeliver has been interrupted.        *)
Whole(p) == file[p] \notin {None, Part}
AvailableWhole == \A p \in avail \ out : Whole(p)

(* COMPLETED means that every product is there from the last run, is       *)
(* available and has had its callbacks called for this file, unless some   *)
(* of them have been withdrawn since.                                      *)
CompletedDelivered ==
  state = "COMPLETED" =>
    \A p \in Mine \ out : p \in avail /\ file[p] = run /\ called[p] = run

(* The action of wait_for_products finds the file of the product that it   *)
(* is performed on, unless the product is being withdrawn or was until     *)
(* CacheAge ago.                                                           *)
ActionFindsFile ==
  [][\A p \in seen' \ seen :
       Whole(p) \/ p \in out \cap avail \/ (p \in Mine /\ lost[p] < CacheAge)]_vars

(* The wait ends, but not early, and has found every product that was      *)
(* there before its time was over: however long the rounds take, it misses *)
(* only what came after its look in the round in which the time ran out.   *)
WaitEnds ==
  <>(/\ wpc = "done"
     /\ seen = plist \/ clock = MaxTime
     /\ early \cap plist \subseteq seen)
=============================================================================
