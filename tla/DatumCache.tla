------------------------------ MODULE DatumCache ------------------------------
(***************************************************************************)
(* produtil.datastore.Datum: the row of one product or task, the copy of   *)
(* it that every process keeps in the Datum's _meta for _cacheage seconds, *)
(* and the Datum's thread lock around that copy.                           *)
(*                                                                         *)
(* Transactions are the ones of module Datastore: one thread of all the    *)
(* processes is inside one, inner ones belong to the outermost.  A thread  *)
(* whose transaction is refused does no more: see Datastore for the stack  *)
(* that it is left with.                                                   *)
(***************************************************************************)
EXTENDS Naturals

CONSTANTS
  Procs, Threads,
  ProcOf,        \* the process of a thread
  Fields,        \* location and available, the two columns
  Values,        \* what a field may hold
  Unset,         \* the value of a new row: no location, not available
  Default,       \* the fields that the constructor was given
  Writes,        \* bound on the arguments of sets: NoValue for a field not set
  NoThread, NoValue,
  CacheAge,      \* _cacheage
  Nests,         \* the threads that have with-blocks around their calls
  Delivers,      \* the threads that call call_callbacks
  Faults         \* what can go wrong in this instance

ASSUME DatumAssumption ==
  /\ ProcOf \in [Threads -> Procs]
  /\ NoThread \notin Threads /\ NoValue \notin Values
  /\ Unset \in Values /\ Default \in [Fields -> Values]
  /\ Writes \subseteq [Fields -> Values \cup {NoValue}]
  /\ CacheAge \in Nat /\ Nests \subseteq Threads /\ Delivers \subseteq Threads
  /\ Faults \subseteq {"held", "crash"}

VARIABLES
  row,         \* the committed row; NoRow before the first constructor
  draft,       \* the row as the open transaction sees it
  gone,        \* history: how long ago a field's value was replaced last
  store,       \* the thread that is inside a transaction
  outer,       \* the thread has a with-block of its own around its calls
  made,        \* the processes that have constructed their Datum
  cache,       \* _meta
  age,         \* time since _cachetime
  lock,        \* _lock
  pc,          \* where a thread is in a method of the Datum
  call,        \* the method
  want,        \* the fields it sets, and NoValue for the others
  spoilt       \* history: the processes in which _meta went wrong

database == <<row, draft, gone, store>>
object   == <<made, cache, age, lock, spoilt>>
thread   == <<pc, call, want, outer>>
vars     == <<database, object, thread>>

Rows   == [Fields -> Values]
NoRow  == [f \in Fields |-> NoValue]
Wants  == [Fields -> Values \cup {NoValue}]
Method == {"create", "get", "set", "setboth", "bare", "outer"}

Held(t)   == call[t] \in {"get", "set", "setboth"}
Goto(t, place) == pc' = [pc EXCEPT ![t] = place] /\ UNCHANGED <<call, want>>
Begins(t, m, w, place) ==
  /\ pc' = [pc EXCEPT ![t] = place]
  /\ call' = [call EXCEPT ![t] = m]
  /\ want' = [want EXCEPT ![t] = w]
Ends(t, place) == Begins(t, "get", NoRow, place)

(* Ages are counted up to the first one that means "too old".              *)
Old == CacheAge + 1
Older(n, limit) == IF n < limit THEN n + 1 ELSE limit

(* The fields of r, but where w sets a field.                              *)
Set(r, w) == [f \in Fields |-> IF w[f] = NoValue THEN r[f] ELSE w[f]]

Init ==
  /\ row = NoRow /\ draft = NoRow
  /\ gone = [f \in Fields |-> [v \in Values |-> Old]]
  /\ store = NoThread
  /\ made = {} /\ spoilt = {}
  /\ cache = [p \in Procs |-> NoRow]
  /\ age = [p \in Procs |-> 0]
  /\ lock = [p \in Procs |-> NoThread]
  /\ pc = [t \in Threads |-> "idle"]
  /\ call = [t \in Threads |-> "get"]
  /\ want = [t \in Threads |-> NoRow]
  /\ outer = [t \in Threads |-> FALSE]

-----------------------------------------------------------------------------
(* Datum.__init__: the time of the cache is taken before the transaction.  *)
Create(t) ==
  LET p == ProcOf[t] IN
  /\ pc[t] = "idle" /\ p \notin made
  /\ \A u \in Threads : ProcOf[u] = p => pc[u] = "idle" /\ ~outer[u]
  /\ age' = [age EXCEPT ![p] = 0]
  /\ Begins(t, "create", NoRow, "store")
  /\ UNCHANGED <<database, made, cache, lock, spoilt, outer>>

(* A call of __getitem__, get, meta or update, of __setitem__ or           *)
(* set_loc_avail waits for the Datum's lock.                               *)
Call(t, m, w) ==
  /\ pc[t] = "idle" /\ ProcOf[t] \in made
  /\ \/ m = "get" /\ w = NoRow
     \/ m = "set" /\ w \in Writes /\ \E f \in Fields : w[f] = NoValue
     \/ m = "setboth" /\ w \in Writes /\ w \in Rows
  /\ Begins(t, m, w, "lock")
  /\ UNCHANGED <<database, object, outer>>

(* call_callbacks calls _getcache without the lock.                        *)
Bare(t) ==
  /\ t \in Delivers /\ pc[t] = "idle" /\ ProcOf[t] \in made
  /\ Begins(t, "bare", NoRow, "locked")
  /\ UNCHANGED <<database, object, outer>>

(* A with-block around several calls, as the tasks' constructors have it.  *)
Begin(t) ==
  /\ t \in Nests /\ pc[t] = "idle" /\ ProcOf[t] \in made /\ ~outer[t]
  /\ Begins(t, "outer", NoRow, "store")
  /\ UNCHANGED <<database, object, outer>>

-----------------------------------------------------------------------------
(* Mutant: no thread waits for another one.                                *)
LockNot(t) ==
  /\ pc[t] = "lock"
  /\ lock' = [lock EXCEPT ![ProcOf[t]] = t]
  /\ Goto(t, "locked")
  /\ UNCHANGED <<database, made, cache, age, spoilt, outer>>

(* with self.                                                              *)
Lock(t) ==
  /\ pc[t] = "lock" /\ lock[ProcOf[t]] = NoThread
  /\ lock' = [lock EXCEPT ![ProcOf[t]] = t]
  /\ Goto(t, "locked")
  /\ UNCHANGED <<database, made, cache, age, spoilt, outer>>

Unlocked(t) == IF Held(t) THEN [lock EXCEPT ![ProcOf[t]] = NoThread] ELSE lock

(* _getcache: the cache is young enough and is returned.                   *)
Hit(t) ==
  /\ pc[t] = "locked" /\ call[t] \in {"get", "bare"}
  /\ age[ProcOf[t]] < CacheAge
  /\ lock' = Unlocked(t)
  /\ Ends(t, "idle")
  /\ UNCHANGED <<database, made, cache, age, spoilt, outer>>

(* Everything else needs a transaction: a cache that is too old, update,   *)
(* a key the cache has not, and a set.  set_loc_avail first changes the    *)
(* cache.                                                                  *)
Miss(t) ==
  /\ pc[t] = "locked"
  /\ cache' = IF call[t] = "setboth" THEN [cache EXCEPT ![ProcOf[t]] = want[t]] ELSE cache
  /\ Goto(t, "store")
  /\ UNCHANGED <<database, made, age, lock, spoilt, outer>>

-----------------------------------------------------------------------------
(* Transaction.__enter__: a thread that is inside one nests.               *)
Enter(t) ==
  /\ pc[t] = "store"
  /\ outer[t] \/ store = NoThread
  /\ store' = t
  /\ IF call[t] = "outer"
     THEN Ends(t, "idle") /\ outer' = [outer EXCEPT ![t] = TRUE]
     ELSE Goto(t, "inside") /\ UNCHANGED outer
  /\ UNCHANGED <<row, draft, gone, object>>

(* Mutant: LockHeld leaves the method without releasing the lock.          *)
RefusedLocked(t) ==
  /\ "held" \in Faults
  /\ pc[t] = "store" /\ ~outer[t]
  /\ store # NoThread /\ ProcOf[store] # ProcOf[t]
  /\ Ends(t, "failed")
  /\ UNCHANGED <<database, object, outer>>

(* LockHeld: a thread of another process has the lock file.  set_loc_avail *)
(* leaves its values in the cache.  In the code the thread may go on, with *)
(* a transaction too many on its stack: module Datastore follows it.       *)
Refused(t) ==
  /\ "held" \in Faults
  /\ pc[t] = "store" /\ ~outer[t]
  /\ store # NoThread /\ ProcOf[store] # ProcOf[t]
  /\ lock' = Unlocked(t)
  /\ spoilt' = IF call[t] = "setboth" THEN spoilt \cup {ProcOf[t]} ELSE spoilt
  /\ Ends(t, "failed")
  /\ UNCHANGED <<database, made, cache, age, outer>>

(* refresh_meta, in _getcache: the row replaces the cache.                 *)
Refresh(t) ==
  LET p == ProcOf[t] IN
  /\ pc[t] = "inside" /\ call[t] \in {"get", "bare"}
  /\ cache' = [cache EXCEPT ![p] = draft]
  /\ age' = [age EXCEPT ![p] = 0]
  /\ spoilt' = IF call[t] = "bare" THEN spoilt \cup {p} ELSE spoilt
  /\ Goto(t, "written")
  /\ UNCHANGED <<database, made, lock, outer>>

(* set_meta updates one column; update_datum stores the cached ones.       *)
Store(t) ==
  /\ pc[t] = "inside" /\ call[t] \in {"set", "setboth"}
  /\ draft' = IF call[t] = "set" THEN Set(draft, want[t]) ELSE cache[ProcOf[t]]
  /\ Goto(t, "written")
  /\ UNCHANGED <<row, gone, store, object, outer>>

(* init_datum: insert the row if there is none, set the location if it has *)
(* none, and load the cache.                                               *)
InitDatum(t) ==
  LET p == ProcOf[t] IN
  /\ pc[t] = "inside" /\ call[t] = "create"
  /\ draft' = [f \in Fields |->
       CASE draft = NoRow -> Default[f]
         [] f = "location" /\ draft # NoRow /\ draft[f] = Unset -> Default[f]
         [] OTHER -> draft[f]]
  /\ cache' = [cache EXCEPT ![p] = draft']
  /\ Goto(t, "written")
  /\ UNCHANGED <<row, gone, store, made, age, lock, spoilt, outer>>

(* The history that goes with a commit.                                    *)
CommitDraft ==
  /\ row' = draft /\ draft' = draft
  /\ gone' = [f \in Fields |-> [v \in Values |->
       IF draft[f] = v THEN Old ELSE IF row[f] = v THEN 0 ELSE gone[f][v]]]
  /\ store' = NoThread

(* Transaction.__exit__: the outermost one commits.                        *)
Leave(t) ==
  /\ pc[t] = "written"
  /\ IF outer[t] THEN UNCHANGED database ELSE CommitDraft
  /\ Goto(t, "left")
  /\ UNCHANGED <<object, outer>>

(* Mutant: a set makes the whole cache young again.                        *)
ReturnRenews(t) ==
  LET p == ProcOf[t] IN
  /\ pc[t] = "left"
  /\ cache' = IF call[t] = "set" THEN [cache EXCEPT ![p] = Set(@, want[t])] ELSE cache
  /\ age' = IF call[t] = "set" THEN [age EXCEPT ![p] = 0] ELSE age
  /\ made' = IF call[t] = "create" THEN made \cup {p} ELSE made
  /\ lock' = Unlocked(t)
  /\ Ends(t, "idle")
  /\ UNCHANGED <<database, spoilt, outer>>

(* __setitem__ changes the cache after its transaction; then the lock is   *)
(* released.                                                               *)
Return(t) ==
  LET p == ProcOf[t] IN
  /\ pc[t] = "left"
  /\ cache' = IF call[t] = "set" THEN [cache EXCEPT ![p] = Set(@, want[t])] ELSE cache
  /\ made' = IF call[t] = "create" THEN made \cup {p} ELSE made
  /\ lock' = Unlocked(t)
  /\ Ends(t, "idle")
  /\ UNCHANGED <<database, age, spoilt, outer>>

End(t) ==
  /\ pc[t] = "idle" /\ outer[t]
  /\ CommitDraft
  /\ outer' = [outer EXCEPT ![t] = FALSE]
  /\ UNCHANGED <<object, pc, call, want>>

-----------------------------------------------------------------------------
(* A process dies and is run again: its transaction is rolled back.        *)
Crash(p) ==
  LET mine == {t \in Threads : ProcOf[t] = p} IN
  /\ "crash" \in Faults
  /\ IF store \in mine THEN store' = NoThread /\ draft' = row
                       ELSE UNCHANGED <<store, draft>>
  /\ made' = made \ {p} /\ spoilt' = spoilt \ {p}
  /\ lock' = [lock EXCEPT ![p] = NoThread]
  /\ pc' = [t \in Threads |-> IF t \in mine THEN "idle" ELSE pc[t]]
  /\ call' = [t \in Threads |-> IF t \in mine THEN "get" ELSE call[t]]
  /\ want' = [t \in Threads |-> IF t \in mine THEN NoRow ELSE want[t]]
  /\ cache' = [cache EXCEPT ![p] = NoRow]
  /\ age' = [age EXCEPT ![p] = 0]
  /\ outer' = [t \in Threads |-> t \notin mine /\ outer[t]]
  /\ UNCHANGED <<row, gone>>

Tick ==
  /\ age' = [p \in Procs |-> Older(age[p], CacheAge)]
  /\ gone' = [f \in Fields |-> [v \in Values |-> Older(gone[f][v], Old)]]
  /\ UNCHANGED <<row, draft, store, made, cache, lock, spoilt, thread>>

Run(t) == \/ Lock(t) \/ Hit(t) \/ Miss(t) \/ Enter(t) \/ Refused(t) \/ Refresh(t)
          \/ Store(t) \/ InitDatum(t) \/ Leave(t) \/ Return(t)

Next ==
  \/ \E t \in Threads : \/ Create(t) \/ Bare(t) \/ Begin(t) \/ Run(t) \/ End(t)
                        \/ \E m \in Method, w \in Writes \cup {NoRow} : Call(t, m, w)
  \/ \E p \in Procs : Crash(p)
  \/ Tick

Spec == Init /\ [][Next]_vars

(* A method runs on, with-blocks end, and a thread that waits for a lock   *)
(* that becomes free again and again gets it: jobs make finitely many      *)
(* calls.                                                                  *)
FairSpec ==
  /\ Spec
  /\ \A t \in Threads : SF_vars(Run(t)) /\ SF_vars(End(t))

-----------------------------------------------------------------------------
TypeOK ==
  /\ row \in Rows \cup {NoRow} /\ draft \in Rows \cup {NoRow}
  /\ gone \in [Fields -> [Values -> 0 .. Old]]
  /\ store \in Threads \cup {NoThread}
  /\ outer \in [Threads -> BOOLEAN]
  /\ made \subseteq Procs /\ spoilt \subseteq Procs
  /\ cache \in [Procs -> Rows \cup {NoRow}]
  /\ age \in [Procs -> 0 .. CacheAge]
  /\ lock \in [Procs -> Threads \cup {NoThread}]
  /\ pc \in [Threads -> {"idle", "lock", "locked", "store", "inside",
                         "written", "left", "failed"}]
  /\ call \in [Threads -> Method]
  /\ want \in [Threads -> Wants]

(* The field had this value some time in the last n, or the open           *)
(* transaction gives it the value.                                         *)
Current(f, v, n) == v \in {row[f], draft[f]} \/ (v \in Values /\ gone[f][v] <= n)

(* "Cache data will be discarded once its age is older than _cacheage":    *)
(* what a thread reads from the cache was in the database at most that     *)
(* long ago, whatever other threads and processes wrote in between.        *)
ReadFresh ==
  \A t \in Threads :
    pc[t] = "locked" /\ call[t] = "get" /\ ProcOf[t] \notin spoilt
      /\ age[ProcOf[t]] < CacheAge
      => \A f \in Fields : Current(f, cache[ProcOf[t]][f], CacheAge)

(* "setting a data or metadata value will cause an immediate write to the  *)
(* database": what a set was asked to store is in the row at the end of    *)
(* its transaction.                                                        *)
Stores(t) ==
  pc[t] = "written" /\ pc'[t] = "left" /\ call[t] \in {"set", "setboth"}
    => draft' = Set(draft', want[t])

SetStored ==
  [][\A t \in Threads : ProcOf[t] \notin spoilt => Stores(t)]_vars

(* No thread waits for ever for a Datum or for the database, but for one   *)
(* that has the database and asks for a Datum.                             *)
Crossed == \E u \in Threads : store = u /\ pc[u] = "lock"

CallEnds ==
  \A t \in Threads : pc[t] \in {"lock", "store"} ~> pc[t] \in {"idle", "failed"} \/ Crossed
=============================================================================
