------------------------------- MODULE WorkPool -------------------------------
(***************************************************************************)
(* produtil.workpool.WorkPool: a master thread that gives work to a pool   *)
(* of worker threads through a deque and a semaphore, waits for them at    *)
(* barriers, and ends them with TERMINATE items at the head of the deque.  *)
(*                                                                         *)
(* The master runs the constructor, the with-block and __exit__; a signal  *)
(* raises in it, wherever it is, and workers see it in checksig.  The die  *)
(* flag is left out: kill_threads sets it to False, so no worker ever      *)
(* leaves because of it.                                                   *)
(***************************************************************************)
EXTENDS Naturals, FiniteSets, Sequences

CONSTANTS
  Workers,     \* the threads that the constructor starts
  Tasks,       \* the pieces of work the with-block adds
  Barrier, Terminate,   \* the other items of the queue
  Nobody,
  Faults       \* what can go wrong in this instance

ASSUME WorkPoolAssumption ==
  /\ IsFiniteSet(Workers) /\ Workers # {} /\ Nobody \notin Workers
  /\ Barrier \notin Tasks /\ Terminate \notin Tasks /\ Barrier # Terminate
  /\ Faults \subseteq {"raise", "signal", "race"}

VARIABLES
  mpc,       \* where the master is
  cur,       \* the thread start_threads is starting
  left,      \* how many items barrier or kill_threads still has to queue
  exiting,   \* the master is in __exit__, or failed in the constructor
  owed,      \* an item is queued whose semaphore release is still to come
  pool,      \* _threads
  queue,     \* _work_queue
  sem,       \* _work_semaphore
  wpc,       \* where a worker is in _worker_main
  work,      \* the task a worker runs
  seen,      \* size of _threads when a worker began to iterate over it
  arrived,   \* _barrier_set
  caught,    \* sigsafety.caught_signal
  added, finished   \* history: the tasks given to add_work, and those run

master == <<mpc, cur, left, exiting>>
worker == <<wpc, work, seen>>
work_queue == <<owed, queue, sem>>
vars == <<master, worker, work_queue, pool, arrived, caught, added, finished>>

Item == Tasks \cup {Barrier, Terminate}

Goto(w, place) == wpc' = [wpc EXCEPT ![w] = place]

Init ==
  /\ mpc = "start" /\ cur = Nobody /\ left = 0 /\ exiting = FALSE
  /\ owed = 0 /\ queue = <<>> /\ sem = 0
  /\ pool = {} /\ arrived = {} /\ caught = FALSE
  /\ wpc = [w \in Workers |-> "none"]
  /\ work = [w \in Workers |-> Terminate]
  /\ seen = [w \in Workers |-> 0]
  /\ added = {} /\ finished = {}

-----------------------------------------------------------------------------
(* start_threads, once per worker: add to _threads, then start.            *)
AddThread(w) ==
  /\ mpc = "start" /\ wpc[w] = "none" /\ w \notin pool
  /\ "race" \in Faults \/ \A u \in Workers : wpc[u] # "valid"
  /\ pool' = pool \cup {w}
  /\ cur' = w
  /\ mpc' = "added"
  /\ UNCHANGED <<left, exiting, worker, work_queue, arrived, caught, added, finished>>

StartThread ==
  /\ mpc = "added"
  /\ Goto(cur, "main")
  /\ mpc' = "started"
  /\ UNCHANGED <<cur, left, exiting, work, seen, work_queue, pool, arrived,
                 caught, added, finished>>

NextThread ==
  /\ mpc = "started"
  /\ mpc' = IF pool = Workers THEN "body" ELSE "start"
  /\ cur' = Nobody
  /\ UNCHANGED <<left, exiting, worker, work_queue, pool, arrived, caught, added, finished>>

-----------------------------------------------------------------------------
(* add_work: append the item ...                                           *)
AddWork(t) ==
  /\ mpc = "body" /\ owed = 0 /\ t \notin added
  /\ queue' = Append(queue, t)
  /\ owed' = 1
  /\ added' = added \cup {t}
  /\ UNCHANGED <<master, worker, sem, pool, arrived, caught, finished>>

(* ... then release the semaphore.                                         *)
Release ==
  /\ owed = 1
  /\ owed' = 0
  /\ sem' = sem + 1
  /\ UNCHANGED <<master, worker, queue, pool, arrived, caught, added, finished>>

(* Mutant: barrier does not count the last thread.                         *)
BeginBarrierShort(ending) ==
  /\ mpc = "body" /\ owed = 0
  /\ mpc' = "barrier"
  /\ left' = Cardinality(pool) - 1
  /\ exiting' = ending
  /\ UNCHANGED <<cur, worker, work_queue, pool, arrived, caught, added, finished>>

(* barrier, called in the with-block or by __exit__ at its end.            *)
BeginBarrier(ending) ==
  /\ mpc = "body" /\ owed = 0
  /\ mpc' = "barrier"
  /\ left' = Cardinality(pool)
  /\ exiting' = ending
  /\ UNCHANGED <<cur, worker, work_queue, pool, arrived, caught, added, finished>>

AddBarrier ==
  /\ mpc = "barrier" /\ left > 0 /\ owed = 0
  /\ queue' = Append(queue, Barrier)
  /\ owed' = 1
  /\ left' = left - 1
  /\ UNCHANGED <<mpc, cur, exiting, worker, sem, pool, arrived, caught, added, finished>>

(* Mutant: kill_threads queues one TERMINATE too few.                      *)
KillOneLess(threads) ==
  /\ mpc' = "kill"
  /\ left' = Cardinality(threads) - 1
  /\ exiting' = TRUE

(* kill_threads is entered.                                                *)
Kill(threads) ==
  /\ mpc' = "kill"
  /\ left' = Cardinality(threads)
  /\ exiting' = TRUE

(* Mutant: the master does not wait for the last worker.                   *)
EndBarrierEarly ==
  /\ mpc = "barrier" /\ left = 0 /\ owed = 0
  /\ Cardinality(arrived) + 1 >= Cardinality(pool)
  /\ wpc' = [w \in Workers |-> IF w \in arrived THEN "check" ELSE wpc[w]]
  /\ arrived' = {}
  /\ IF exiting THEN Kill(pool) ELSE mpc' = "body" /\ UNCHANGED <<left, exiting>>
  /\ UNCHANGED <<cur, work, seen, work_queue, pool, caught, added, finished>>

(* The master's poll sees every worker in _barrier_set and notifies them.  *)
EndBarrier ==
  /\ mpc = "barrier" /\ left = 0 /\ owed = 0
  /\ Cardinality(arrived) >= Cardinality(pool)
  /\ wpc' = [w \in Workers |-> IF w \in arrived THEN "check" ELSE wpc[w]]
  /\ arrived' = {}
  /\ IF exiting THEN Kill(pool) ELSE mpc' = "body" /\ UNCHANGED <<left, exiting>>
  /\ UNCHANGED <<cur, work, seen, work_queue, pool, caught, added, finished>>

(* An exception leaves the with-block: __exit__ kills without a barrier.   *)
Raise ==
  /\ "raise" \in Faults
  /\ mpc = "body" /\ owed = 0
  /\ Kill(pool)
  /\ UNCHANGED <<cur, worker, work_queue, pool, arrived, caught, added, finished>>

(* Mutant: TERMINATE waits its turn behind the work.                       *)
AddTerminateLast ==
  /\ mpc = "kill" /\ left > 0 /\ owed = 0
  /\ queue' = Append(queue, Terminate)
  /\ owed' = 1
  /\ left' = left - 1
  /\ UNCHANGED <<mpc, cur, exiting, worker, sem, pool, arrived, caught, added, finished>>

AddTerminate ==
  /\ mpc = "kill" /\ left > 0 /\ owed = 0
  /\ queue' = <<Terminate>> \o queue
  /\ owed' = 1
  /\ left' = left - 1
  /\ UNCHANGED <<mpc, cur, exiting, worker, sem, pool, arrived, caught, added, finished>>

Join ==
  /\ mpc = "kill" /\ left = 0 /\ owed = 0
  /\ \A w \in pool : wpc[w] = "gone"
  /\ mpc' = "over"
  /\ UNCHANGED <<cur, left, exiting, worker, work_queue, pool, arrived, caught,
                 added, finished>>

-----------------------------------------------------------------------------
(* _worker_main: _valid_thread iterates over _threads; a set that changes  *)
(* size meanwhile raises, and so does one without this thread.             *)
Iterate(w) ==
  /\ wpc[w] = "main"
  /\ seen' = [seen EXCEPT ![w] = Cardinality(pool)]
  /\ Goto(w, "valid")
  /\ UNCHANGED <<master, work, work_queue, pool, arrived, caught, added, finished>>

Valid(w) ==
  /\ wpc[w] = "valid"
  /\ Goto(w, IF seen[w] = Cardinality(pool) /\ w \in pool THEN "check" ELSE "gone")
  /\ UNCHANGED <<master, work, seen, work_queue, pool, arrived, caught, added, finished>>

(* _worker_exit_check: checksig raises once a signal was caught.           *)
Check(w) ==
  /\ wpc[w] = "check"
  /\ Goto(w, IF caught THEN "gone" ELSE "acquire")
  /\ UNCHANGED <<master, work, seen, work_queue, pool, arrived, caught, added, finished>>

(* Mutant: a permit is not used up, as with an Event for a Semaphore.      *)
AcquireKeeps(w) ==
  /\ wpc[w] = "acquire" /\ sem > 0
  /\ Goto(w, "pop")
  /\ UNCHANGED <<master, work, seen, work_queue, pool, arrived, caught, added, finished>>

Acquire(w) ==
  /\ wpc[w] = "acquire" /\ sem > 0
  /\ sem' = sem - 1
  /\ Goto(w, "pop")
  /\ UNCHANGED <<master, work, seen, owed, queue, pool, arrived, caught, added, finished>>

(* popleft; an empty deque raises IndexError, which ends the worker.       *)
Pop(w) ==
  /\ wpc[w] = "pop"
  /\ \/ queue = <<>> /\ Goto(w, "gone") /\ UNCHANGED <<queue, work>>
     \/ /\ queue # <<>>
        /\ queue' = Tail(queue)
        /\ work' = [work EXCEPT ![w] = Head(queue)]
        /\ Goto(w, CASE Head(queue) = Terminate -> "gone"
                     [] Head(queue) = Barrier   -> "reach"
                     [] OTHER                   -> "work")
  /\ UNCHANGED <<master, seen, owed, sem, pool, arrived, caught, added, finished>>

(* The task returns, or raises an Exception that is kept and logged.       *)
Work(w) ==
  /\ wpc[w] = "work"
  /\ finished' = finished \cup {work[w]}
  /\ Goto(w, "check")
  /\ UNCHANGED <<master, work, seen, work_queue, pool, arrived, caught, added>>

(* A task that calls checksig lets CaughtSignal out of the worker.         *)
WorkCaught(w) ==
  /\ wpc[w] = "work" /\ caught
  /\ Goto(w, "gone")
  /\ UNCHANGED <<master, work, seen, work_queue, pool, arrived, caught, added, finished>>

(* barrier in a worker: into the set and to sleep, under the condition.    *)
Arrive(w) ==
  /\ wpc[w] = "reach"
  /\ arrived' = arrived \cup {w}
  /\ Goto(w, "wait")
  /\ UNCHANGED <<master, work, seen, work_queue, pool, caught, added, finished>>

-----------------------------------------------------------------------------
(* A signal raises in the master.  start_threads takes the thread it was   *)
(* starting out of the pool; the constructor and a with-block go on to     *)
(* kill_threads; __exit__ itself is just left.                             *)
Signal ==
  /\ "signal" \in Faults
  /\ ~caught /\ mpc # "over"
  /\ caught' = TRUE
  /\ owed' = 0
  /\ pool' = pool \ {cur}
  /\ IF exiting THEN mpc' = "over" /\ UNCHANGED <<left, exiting>> ELSE Kill(pool')
  /\ cur' = Nobody
  /\ UNCHANGED <<worker, queue, sem, arrived, added, finished>>

Start   == (\E w \in Workers : AddThread(w)) \/ StartThread \/ NextThread
Leave   == Release \/ AddBarrier \/ EndBarrier \/ AddTerminate \/ Join
Client  == (\E t \in Tasks : AddWork(t)) \/ (\E e \in BOOLEAN : BeginBarrier(e)) \/ Raise
Step(w) == \/ Iterate(w) \/ Valid(w) \/ Check(w) \/ Acquire(w) \/ Pop(w)
           \/ Work(w) \/ WorkCaught(w) \/ Arrive(w)

Next == Start \/ Leave \/ Client \/ (\E w \in Workers : Step(w)) \/ Signal

Spec == Init /\ [][Next]_vars

(* The master's loops run on, tasks are finite, and a semaphore does not   *)
(* wake the same worker for ever while another waits: workers that work    *)
(* run out of items.                                                       *)
FairSpec ==
  /\ Spec
  /\ WF_vars(Start) /\ WF_vars(Leave)
  /\ \A w \in Workers : WF_vars(Step(w))

-----------------------------------------------------------------------------
(* Types, and arithmetic that stays in range: left counts down to zero and *)
(* the semaphore is never taken below it.                                  *)
TypeOK ==
  /\ mpc \in {"start", "added", "started", "body", "barrier", "kill", "over"}
  /\ cur \in Workers \cup {Nobody}
  /\ left \in 0 .. Cardinality(Workers)
  /\ exiting \in BOOLEAN /\ caught \in BOOLEAN
  /\ owed \in {0, 1} /\ sem \in Nat /\ queue \in Seq(Item)
  /\ pool \subseteq Workers /\ arrived \subseteq Workers
  /\ wpc \in [Workers -> {"none", "main", "valid", "check", "acquire", "pop",
                          "work", "reach", "wait", "gone"}]
  /\ work \in [Workers -> Item]
  /\ seen \in [Workers -> Nat]
  /\ added \subseteq Tasks /\ finished \subseteq Tasks

(* A worker that got through the semaphore finds an item in the deque:     *)
(* popleft never raises, in whatever order workers pop and even when a     *)
(* signal stops the master between append and release.                     *)
PopFindsItem ==
  \A w \in Workers : wpc[w] = "pop" => queue # <<>>

(* "all work is now complete": when barrier lets the workers go on, every  *)
(* task added before has been run to its end.                              *)
BarrierComplete ==
  [][arrived # {} /\ arrived' = {} => added \subseteq finished]_vars

(* "kills threads as quickly as possible": once every TERMINATE is queued  *)
(* no worker begins another task.                                          *)
KillStopsWork ==
  [][\A w \in Workers : mpc = "kill" /\ left = 0 /\ owed = 0 /\ wpc'[w] = "work"
                          => wpc[w] = "work"]_vars

(* "once you get here, all workpool threads exited", if no signal came.    *)
AllExited ==
  mpc = "over" /\ ~caught => \A w \in Workers : wpc[w] \in {"none", "gone"}

(* A barrier opens if no worker died: every worker comes to it.            *)
BarrierEnds ==
  mpc = "barrier" ~> mpc # "barrier" \/ \E w \in Workers : wpc[w] = "gone"

(* kill_threads comes to its end, if no signal came: it joins threads that *)
(* all terminate.                                                          *)
KillEnds == mpc = "kill" ~> mpc = "over" \/ caught
=============================================================================
