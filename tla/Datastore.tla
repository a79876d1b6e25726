------------------------------ MODULE Datastore ------------------------------
(***************************************************************************)
(* produtil.datastore.Datastore and Transaction: threads of several        *)
(* processes that share one sqlite3 database.  A thread's outermost        *)
(* with-block takes the process's db_lock and then the file lock, commits  *)
(* the thread's connection and gives both back; inner with-blocks only     *)
(* push and pop the thread's stack of transactions.                        *)
(*                                                                         *)
(* The file lock is the abstract lock that FileLock implements: LockFile   *)
(* is used under db_lock, so by one thread of a process at a time.         *)
(***************************************************************************)
EXTENDS Naturals

CONSTANTS
  Procs, Threads,
  ProcOf,          \* the process of a thread
  Main,            \* the initial thread of a process
  Keys, Values,    \* the rows a transaction reads and writes
  NoValue, NoThread, NoProc,
  MaxDepth,        \* bound: how deep with-blocks nest
  Faults           \* what can go wrong in this instance

ASSUME DatastoreAssumption ==
  /\ ProcOf \in [Threads -> Procs]
  /\ Main \in [Procs -> Threads]
  /\ \A p \in Procs : ProcOf[Main[p]] = p
  /\ NoProc \notin Procs /\ NoThread \notin Threads /\ NoValue \notin Values
  /\ MaxDepth \in Nat \ {0}
  /\ Faults \subseteq {"held", "raise", "commit", "crash", "signal"}

VARIABLES
  db,        \* the database file: what is committed
  writes,    \* what a thread's connection has not committed
  reads,     \* history: what a thread has read since its last commit
  pc,        \* where a thread is in __enter__, its with-block or __exit__
  stack,     \* length of _transtack[thread]
  level,     \* how many with-blocks the thread is really inside
  raising,   \* an exception is leaving the thread's with-blocks
  dbLock,    \* _db_lock of a process
  fileLock,  \* the process that has the lock file
  locksOkay  \* locking.locks_okay of a process

data  == <<db, writes, reads>>
locked == <<dbLock, fileLock, locksOkay>>
vars  == <<data, pc, stack, level, raising, locked>>

Phase == {"idle", "dblock", "filelock", "body", "commit", "fileunlock", "dbunlock"}

Store   == INSTANCE AtomicStore
Nothing == [k \in Keys |-> NoValue]
Unread  == [k \in Keys |-> {}]

Goto(t, phase) == pc' = [pc EXCEPT ![t] = phase]

(* What a process's release, handler or death makes of the lock file.      *)
DropFile(p) == IF fileLock = p THEN NoProc ELSE fileLock

DropDb(t) == [dbLock EXCEPT ![ProcOf[t]] = NoThread]

Init ==
  /\ db \in [Keys -> Values]
  /\ writes = [t \in Threads |-> Nothing]
  /\ reads = [t \in Threads |-> Unread]
  /\ pc = [t \in Threads |-> "idle"]
  /\ stack = [t \in Threads |-> 0]
  /\ level = [t \in Threads |-> 0]
  /\ raising = [t \in Threads |-> FALSE]
  /\ dbLock = [p \in Procs |-> NoThread]
  /\ fileLock = NoProc
  /\ locksOkay = [p \in Procs |-> TRUE]

-----------------------------------------------------------------------------
(* Transaction.__enter__: push, and lock if the stack was empty.           *)
Enter(t) ==
  /\ pc[t] \in {"idle", "body"} /\ ~raising[t]
  /\ stack[t] < MaxDepth
  /\ stack' = [stack EXCEPT ![t] = @ + 1]
  /\ IF stack[t] = 0
     THEN Goto(t, "dblock") /\ UNCHANGED level
     ELSE Goto(t, "body") /\ level' = [level EXCEPT ![t] = @ + 1]
  /\ UNCHANGED <<data, raising, locked>>

(* Mutant: db_lock is taken without waiting for it.                        *)
LockDbNoWait(t) ==
  /\ pc[t] = "dblock"
  /\ dbLock' = [dbLock EXCEPT ![ProcOf[t]] = t]
  /\ Goto(t, "filelock")
  /\ UNCHANGED <<data, stack, level, raising, fileLock, locksOkay>>

(* Datastore._lock: _db_lock.acquire() waits as long as it takes.          *)
LockDb(t) ==
  /\ pc[t] = "dblock"
  /\ dbLock[ProcOf[t]] = NoThread
  /\ dbLock' = [dbLock EXCEPT ![ProcOf[t]] = t]
  /\ Goto(t, "filelock")
  /\ UNCHANGED <<data, stack, level, raising, fileLock, locksOkay>>

LockFile(t) ==
  /\ pc[t] = "filelock"
  /\ locksOkay[ProcOf[t]] /\ fileLock \in {NoProc, ProcOf[t]}
  /\ fileLock' = ProcOf[t]
  /\ level' = [level EXCEPT ![t] = 1]
  /\ Goto(t, "body")
  /\ UNCHANGED <<data, stack, raising, dbLock, locksOkay>>

(* Mutant: _lock raises without giving db_lock back.                       *)
LockFileFailsHolding(t) ==
  /\ pc[t] = "filelock"
  /\ \/ "held" \in Faults /\ fileLock \notin {NoProc, ProcOf[t]}
     \/ ~locksOkay[ProcOf[t]]
  /\ Goto(t, "idle")
  /\ UNCHANGED <<data, stack, level, raising, locked>>

(* _file_lock.acquire() gives up: LockHeld after 300 tries, or             *)
(* LockingDisabled.  _lock gives db_lock back; __enter__ does not pop.     *)
LockFileFails(t) ==
  /\ pc[t] = "filelock"
  /\ \/ "held" \in Faults /\ fileLock \notin {NoProc, ProcOf[t]}
     \/ ~locksOkay[ProcOf[t]]
  /\ dbLock' = DropDb(t)
  /\ Goto(t, "idle")
  /\ UNCHANGED <<data, stack, level, raising, fileLock, locksOkay>>

-----------------------------------------------------------------------------
(* Transaction.query and mutate on the thread's own connection.            *)
Read(t, k) ==
  /\ pc[t] = "body" /\ ~raising[t]
  /\ Store!Read(t, k)
  /\ UNCHANGED <<pc, stack, level, raising, locked>>

(* sqlite3 lets one connection at a time have uncommitted writes ...       *)
Write(t, k, v) ==
  /\ pc[t] = "body" /\ ~raising[t]
  /\ \A u \in Threads \ {t} : writes[u] = Nothing
  /\ Store!Write(t, k, v)
  /\ UNCHANGED <<pc, stack, level, raising, locked>>

(* ... and refuses the others: "database is locked".                       *)
WriteRefused(t) ==
  /\ pc[t] = "body" /\ ~raising[t]
  /\ \E u \in Threads \ {t} : writes[u] # Nothing
  /\ raising' = [raising EXCEPT ![t] = TRUE]
  /\ UNCHANGED <<data, pc, stack, level, locked>>

(* The body of a with-block raises.                                        *)
Raise(t) ==
  /\ "raise" \in Faults
  /\ pc[t] = "body" /\ ~raising[t]
  /\ raising' = [raising EXCEPT ![t] = TRUE]
  /\ UNCHANGED <<data, pc, stack, level, locked>>

-----------------------------------------------------------------------------
(* Mutant: with an exception, __exit__ returns before commit and unlock.   *)
ExitWithError(t) ==
  /\ pc[t] = "body"
  /\ stack' = [stack EXCEPT ![t] = @ - 1]
  /\ level' = [level EXCEPT ![t] = @ - 1]
  /\ IF raising[t] /\ level[t] = 1
     THEN Goto(t, "idle") /\ raising' = [raising EXCEPT ![t] = FALSE]
     ELSE /\ UNCHANGED raising
          /\ IF stack[t] = 1 THEN Goto(t, "commit") ELSE UNCHANGED pc
  /\ UNCHANGED <<data, locked>>

(* Transaction.__exit__: pop; the last transaction of the stack commits,   *)
(* whether or not an exception is passing.  An inner block's exception     *)
(* goes on to the outer block or is caught on its way.                     *)
Exit(t) ==
  /\ pc[t] = "body"
  /\ stack' = [stack EXCEPT ![t] = @ - 1]
  /\ level' = [level EXCEPT ![t] = @ - 1]
  /\ IF stack[t] = 1 THEN Goto(t, "commit") /\ UNCHANGED raising
     ELSE IF level[t] = 1
          THEN Goto(t, "idle") /\ raising' = [raising EXCEPT ![t] = FALSE]
          ELSE /\ UNCHANGED pc
               /\ \/ UNCHANGED raising
                  \/ raising' = [raising EXCEPT ![t] = FALSE]
  /\ UNCHANGED <<data, locked>>

Commit(t) ==
  /\ pc[t] = "commit"
  /\ db' = Store!Overlay(writes[t])
  /\ writes' = [writes EXCEPT ![t] = Nothing]
  /\ reads' = [reads EXCEPT ![t] = Unread]
  /\ Goto(t, "fileunlock")
  /\ UNCHANGED <<stack, level, raising, locked>>

(* commit() raises (disk full, database is locked): __exit__ ends before   *)
(* _unlock.  sqlite3 has rolled back or still has the writes.              *)
CommitFails(t) ==
  /\ "commit" \in Faults
  /\ pc[t] = "commit"
  /\ writes' \in {writes, [writes EXCEPT ![t] = Nothing]}
  /\ reads' = [reads EXCEPT ![t] = Unread]
  /\ Goto(t, "idle")
  /\ raising' = [raising EXCEPT ![t] = FALSE]
  /\ UNCHANGED <<db, stack, level, locked>>

(* Mutant: the lock file is not released.                                  *)
UnlockFileLeaks(t) ==
  /\ pc[t] = "fileunlock"
  /\ Goto(t, "dbunlock")
  /\ UNCHANGED <<data, stack, level, raising, locked>>

(* Datastore._unlock: the file lock first, then db_lock.                   *)
UnlockFile(t) ==
  /\ pc[t] = "fileunlock"
  /\ fileLock' = DropFile(ProcOf[t])
  /\ Goto(t, "dbunlock")
  /\ UNCHANGED <<data, stack, level, raising, dbLock, locksOkay>>

UnlockDb(t) ==
  /\ pc[t] = "dbunlock"
  /\ dbLock' = DropDb(t)
  /\ Goto(t, "idle")
  /\ raising' = [raising EXCEPT ![t] = FALSE]
  /\ UNCHANGED <<data, stack, level, fileLock, locksOkay>>

-----------------------------------------------------------------------------
(* A process is killed and run again: the kernel drops its file lock and   *)
(* sqlite3 its uncommitted writes.                                         *)
Crash(p) ==
  /\ "crash" \in Faults
  /\ writes' = [t \in Threads |-> IF ProcOf[t] = p THEN Nothing ELSE writes[t]]
  /\ reads' = [t \in Threads |-> IF ProcOf[t] = p THEN Unread ELSE reads[t]]
  /\ pc' = [t \in Threads |-> IF ProcOf[t] = p THEN "idle" ELSE pc[t]]
  /\ stack' = [t \in Threads |-> IF ProcOf[t] = p THEN 0 ELSE stack[t]]
  /\ level' = [t \in Threads |-> IF ProcOf[t] = p THEN 0 ELSE level[t]]
  /\ raising' = [t \in Threads |-> ProcOf[t] # p /\ raising[t]]
  /\ dbLock' = [dbLock EXCEPT ![p] = NoThread]
  /\ fileLock' = DropFile(p)
  /\ locksOkay' = [locksOkay EXCEPT ![p] = TRUE]
  /\ UNCHANGED db

(* A signal: the handler disables locking, which drops the file lock       *)
(* whoever is using it, and raises in the initial thread: in its body, or  *)
(* out of __enter__ or __exit__ wherever they are.                         *)
Signal(p) ==
  /\ "signal" \in Faults
  /\ locksOkay[p]
  /\ locksOkay' = [locksOkay EXCEPT ![p] = FALSE]
  /\ fileLock' = DropFile(p)
  /\ IF pc[Main[p]] = "body"
     THEN raising' = [raising EXCEPT ![Main[p]] = TRUE] /\ UNCHANGED <<pc, dbLock>>
     ELSE /\ Goto(Main[p], "idle")
          /\ raising' = [raising EXCEPT ![Main[p]] = FALSE]
          /\ dbLock' = IF pc[Main[p]] = "filelock" THEN DropDb(Main[p]) ELSE dbLock
  /\ UNCHANGED <<data, stack, level>>

-----------------------------------------------------------------------------
Lock(t)   == LockFile(t) \/ LockFileFails(t)
Finish(t) == Commit(t) \/ CommitFails(t) \/ UnlockFile(t) \/ UnlockDb(t)
Use(t)    == \/ \E k \in Keys : Read(t, k) \/ \E v \in Values : Write(t, k, v)
             \/ WriteRefused(t) \/ Raise(t)

Next ==
  \/ \E t \in Threads : \/ Enter(t) \/ LockDb(t) \/ Lock(t)
                        \/ Use(t) \/ Exit(t) \/ Finish(t)
  \/ \E p \in Procs : Crash(p) \/ Signal(p)

Spec == Init /\ [][Next]_vars

(* __enter__ and __exit__ run on, and the body of a with-block is finite:  *)
(* it comes to its end between the inner blocks it opens.  threading.Lock  *)
(* is not first come first served, but a job runs finitely many            *)
(* transactions, so a waiter is not passed over for ever.                  *)
FairSpec ==
  /\ Spec
  /\ \A t \in Threads :
       /\ WF_vars(Lock(t)) /\ WF_vars(Finish(t)) /\ WF_vars(Exit(t))
       /\ SF_vars(Exit(t) /\ level[t] = 1)
       /\ SF_vars(LockDb(t))

-----------------------------------------------------------------------------
TypeOK ==
  /\ db \in [Keys -> Values]
  /\ writes \in [Threads -> [Keys -> Values \cup {NoValue}]]
  /\ reads \in [Threads -> [Keys -> SUBSET Values]]
  /\ pc \in [Threads -> Phase]
  /\ stack \in [Threads -> 0 .. MaxDepth]
  /\ level \in [Threads -> 0 .. MaxDepth]
  /\ raising \in [Threads -> BOOLEAN]
  /\ dbLock \in [Procs -> Threads \cup {NoThread}]
  /\ fileLock \in Procs \cup {NoProc}
  /\ locksOkay \in [Procs -> BOOLEAN]

(* The thread is inside a transaction whose __enter__ went through: its    *)
(* stack holds nothing but the blocks it is in.                            *)
InTransaction(t) == pc[t] \in {"body", "commit"} /\ stack[t] = level[t]

(* At most one thread of all the processes is inside a transaction         *)
(* ("handles concurrency between processes via file locking"), after any   *)
(* failed acquire, exception, failed commit or crash.                      *)
Exclusion ==
  \A t, u \in Threads : InTransaction(t) /\ InTransaction(u) => t = u

(* Nothing a transaction has read changes before it commits: no lost       *)
(* update between threads or processes.                                    *)
Isolation ==
  \A t \in Threads : InTransaction(t) =>
    \A k \in Keys : reads[t][k] \subseteq {db[k]}

(* The datastore implements the atomic store: every commit takes effect at *)
(* once, on data that its reads still describe.                            *)
Atomic == Store!Spec

(* __exit__ "Releases the database lock if this is the last Transaction":  *)
(* a thread that is outside all with-blocks has no lock, so the threads    *)
(* and processes that wait for it can go on, until a signal ends the       *)
(* process's use of locks.                                                 *)
OutsideUnlocked ==
  \A t \in Threads : locksOkay[ProcOf[t]] /\ pc[t] \in {"idle", "dblock"}
                        => dbLock[ProcOf[t]] # t

(* A thread that asks for a transaction gets in, or is told LockHeld: no   *)
(* exception, crash or failed acquire anywhere, and no signal to another   *)
(* process, blocks it for good.                                            *)
EnterEnds ==
  \A t \in Threads :
    pc[t] = "dblock" ~> pc[t] \in {"body", "idle"} \/ ~locksOkay[ProcOf[t]]

(* No process keeps the lock file for ever: not through exceptions, failed *)
(* acquires, crashes or signals at any point of __enter__ and __exit__.    *)
FileLockReleased ==
  \A p \in Procs : fileLock = p ~> fileLock # p
=============================================================================
