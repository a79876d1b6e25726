------------------------------ MODULE FileLock ------------------------------
(***************************************************************************)
(* produtil.locking.LockFile over produtil.retry.retry_io: threads of      *)
(* several processes that lock ONE file with fcntl.lockf, and the signal   *)
(* handler that disables locking (locking.disable_locking).                *)
(*                                                                         *)
(* Every thread has a LockFile object of its own, so a thread also names   *)
(* its object.  The kernel's lock is a POSIX record lock: it belongs to a  *)
(* PROCESS, a process that has it gets it again, and closing any of the    *)
(* process's descriptors of the file drops it.                             *)
(***************************************************************************)
EXTENDS Naturals, FiniteSets

CONSTANTS
  Procs,      \* the processes
  Threads,    \* the threads, each with its LockFile object
  ProcOf,     \* the process of a thread
  Main,       \* the initial thread of a process: Python runs handlers in it
  NoProc,     \* the owner of the file when nobody has locked it
  MaxTries,   \* LockFile._max_tries
  Signalled   \* the processes that may receive a signal

ASSUME FileLockAssumption ==
  /\ IsFiniteSet(Threads)
  /\ ProcOf \in [Threads -> Procs]
  /\ Main \in [Procs -> Threads]
  /\ \A p \in Procs : ProcOf[Main[p]] = p
  /\ NoProc \notin Procs
  /\ MaxTries \in Nat \ {0, 1}
  /\ Signalled \subseteq Procs

VARIABLES
  owner,      \* kernel: the process that has the record lock
  isOpen,     \* LockFile._fd is not None
  locks,      \* locking.locks of a process: the LockFile objects it has seen
  locksOkay,  \* locking.locks_okay of a process
  pc,         \* where a thread is
  tries,      \* ntry of the retry_io loop
  handler,    \* phase of a process's signal handler
  todo,       \* objects disable_locking has still to release
  seen        \* size of locks when disable_locking began to iterate

vars == <<owner, isOpen, locks, locksOkay, pc, tries, handler, todo, seen>>

Acquiring == {"check", "open", "lockf"}
Releasing == {"unlock", "close"}
Phase     == {"idle", "held", "stopped"} \cup Acquiring \cup Releasing

ThreadsOf(p) == {t \in Threads : ProcOf[t] = p}

(* A handler suspends the thread it runs in, the process's initial one.    *)
Runs(t) == ~ (t = Main[ProcOf[t]] /\ handler[ProcOf[t]] = "releasing")

Goto(t, phase) == pc' = [pc EXCEPT ![t] = phase]

Drop(p) == IF owner = p THEN NoProc ELSE owner

Init ==
  /\ owner = NoProc
  /\ isOpen = [t \in Threads |-> FALSE]
  /\ locks = [p \in Procs |-> {}]
  /\ locksOkay = [p \in Procs |-> TRUE]
  /\ pc = [t \in Threads |-> "idle"]
  /\ tries = [t \in Threads |-> 0]
  /\ handler = [p \in Procs |-> "ready"]
  /\ todo = [p \in Procs |-> {}]
  /\ seen = [p \in Procs |-> 0]

-----------------------------------------------------------------------------
(* acquire(): register the object, then enter the retry loop.              *)
Acquire(t) ==
  /\ Runs(t) /\ pc[t] = "idle"
  /\ locks' = [locks EXCEPT ![ProcOf[t]] = @ \cup {t}]
  /\ tries' = [tries EXCEPT ![t] = 0]
  /\ Goto(t, "check")
  /\ UNCHANGED <<owner, isOpen, locksOkay, handler, todo, seen>>

(* Mutant: locks_okay is not looked at.                                    *)
CheckNothing(t) ==
  /\ Runs(t) /\ pc[t] = "check"
  /\ Goto(t, "open")
  /\ UNCHANGED <<owner, isOpen, locks, locksOkay, tries, handler, todo, seen>>

(* acquire_impl: LockingDisabled is a BaseException; retry_io does not     *)
(* catch it and the thread ends.                                           *)
CheckOkay(t) ==
  /\ Runs(t) /\ pc[t] = "check"
  /\ Goto(t, IF locksOkay[ProcOf[t]] THEN "open" ELSE "stopped")
  /\ UNCHANGED <<owner, isOpen, locks, locksOkay, tries, handler, todo, seen>>

(* The descriptor is opened once and kept from one try to the next.        *)
Open(t) ==
  /\ Runs(t) /\ pc[t] = "open"
  /\ isOpen' = [isOpen EXCEPT ![t] = TRUE]
  /\ Goto(t, "lockf")
  /\ UNCHANGED <<owner, locks, locksOkay, tries, handler, todo, seen>>

(* Mutant: the turns are not counted.                                      *)
RetryForever(t) == Goto(t, "check") /\ UNCHANGED tries

(* The next turn of retry_io, or the last exception goes to the caller:    *)
(* the with-block is not entered and its __exit__ never runs.              *)
Retry(t) ==
  IF tries[t] + 1 < MaxTries
  THEN /\ tries' = [tries EXCEPT ![t] = @ + 1]
       /\ Goto(t, "check")
  ELSE /\ UNCHANGED tries
       /\ Goto(t, "idle")

(* Mutant: LOCK_SH for LOCK_EX.                                            *)
LockfShared(t) ==
  /\ Runs(t) /\ pc[t] = "lockf"
  /\ isOpen[t]
  /\ owner' = ProcOf[t]
  /\ Goto(t, "held")
  /\ UNCHANGED <<isOpen, locks, locksOkay, tries, handler, todo, seen>>

(* fcntl.lockf(LOCK_EX|LOCK_NB) succeeds.                                  *)
Lockf(t) ==
  /\ Runs(t) /\ pc[t] = "lockf"
  /\ isOpen[t]
  /\ owner \in {NoProc, ProcOf[t]}
  /\ owner' = ProcOf[t]
  /\ Goto(t, "held")
  /\ UNCHANGED <<isOpen, locks, locksOkay, tries, handler, todo, seen>>

(* It fails: LockHeld (EAGAIN), or the handler has closed the descriptor.  *)
LockfFails(t) ==
  /\ Runs(t) /\ pc[t] = "lockf"
  /\ ~isOpen[t] \/ owner \notin {NoProc, ProcOf[t]}
  /\ Retry(t)
  /\ UNCHANGED <<owner, isOpen, locks, locksOkay, handler, todo, seen>>

(* makedirs or open raises: an Exception, retried like LockHeld.           *)
OpenFails(t) ==
  /\ Runs(t) /\ pc[t] = "open" /\ ~isOpen[t]
  /\ Retry(t)
  /\ UNCHANGED <<owner, isOpen, locks, locksOkay, handler, todo, seen>>

-----------------------------------------------------------------------------
(* __exit__ -> release(): the critical section ends.                       *)
Release(t) ==
  /\ Runs(t) /\ pc[t] = "held"
  /\ Goto(t, "unlock")
  /\ UNCHANGED <<owner, isOpen, locks, locksOkay, tries, handler, todo, seen>>

(* release_impl: nothing if the descriptor is gone; else LOCK_UN.          *)
Unlock(t) ==
  /\ Runs(t) /\ pc[t] = "unlock"
  /\ owner' = IF isOpen[t] THEN Drop(ProcOf[t]) ELSE owner
  /\ Goto(t, IF isOpen[t] THEN "close" ELSE "idle")
  /\ UNCHANGED <<isOpen, locks, locksOkay, tries, handler, todo, seen>>

(* release_impl: _fd.close().  If the handler closed it meanwhile, the     *)
(* error is an Exception and the retry finds nothing to do.  The `else' of *)
(* release() follows a `return', so locks.remove(self) never runs.         *)
Close(t) ==
  /\ Runs(t) /\ pc[t] = "close"
  /\ owner' = IF isOpen[t] THEN Drop(ProcOf[t]) ELSE owner
  /\ isOpen' = [isOpen EXCEPT ![t] = FALSE]
  /\ Goto(t, "idle")
  /\ UNCHANGED <<locks, locksOkay, tries, handler, todo, seen>>

-----------------------------------------------------------------------------
(* A signal: disable_locking clears locks_okay and starts to iterate over  *)
(* the set of locks.                                                       *)
Signal(p) ==
  /\ p \in Signalled
  /\ handler[p] = "ready" /\ pc[Main[p]] # "stopped"
  /\ locksOkay' = [locksOkay EXCEPT ![p] = FALSE]
  /\ handler' = [handler EXCEPT ![p] = "releasing"]
  /\ todo' = [todo EXCEPT ![p] = locks[p]]
  /\ seen' = [seen EXCEPT ![p] = Cardinality(locks[p])]
  /\ UNCHANGED <<owner, isOpen, locks, pc, tries>>

(* One turn of the loop: release_impl of an object.                        *)
ReleaseOne(p) ==
  /\ handler[p] = "releasing"
  /\ Cardinality(locks[p]) = seen[p]
  /\ \E t \in todo[p] :
       /\ todo' = [todo EXCEPT ![p] = @ \ {t}]
       /\ owner' = IF isOpen[t] THEN Drop(p) ELSE owner
       /\ isOpen' = [isOpen EXCEPT ![t] = FALSE]
  /\ UNCHANGED <<locks, locksOkay, pc, tries, handler, seen>>

(* Mutant: the handler ends before every object is released.               *)
DisabledEarly(p) ==
  /\ handler[p] = "releasing"
  /\ Cardinality(locks[p]) = seen[p]
  /\ handler' = [handler EXCEPT ![p] = "done"]
  /\ Goto(Main[p], IF pc[Main[p]] = "held" THEN "unlock" ELSE "idle")
  /\ UNCHANGED <<owner, isOpen, locks, locksOkay, tries, todo, seen>>

(* Every object is released: the handler raises CaughtSignal, which no     *)
(* `except Exception' stops, in the initial thread.  Acquire and release   *)
(* are left for their caller, a with-block through its __exit__.           *)
Disabled(p) ==
  /\ handler[p] = "releasing"
  /\ Cardinality(locks[p]) = seen[p] /\ todo[p] = {}
  /\ handler' = [handler EXCEPT ![p] = "done"]
  /\ Goto(Main[p], IF pc[Main[p]] = "held" THEN "unlock" ELSE "idle")
  /\ UNCHANGED <<owner, isOpen, locks, locksOkay, tries, todo, seen>>

(* Another thread has registered an object: the iteration fails with       *)
(* RuntimeError ("Set changed size"), an Exception that retry_io catches   *)
(* when it interrupts acquire_impl or release_impl.                        *)
Broken(p) ==
  /\ handler[p] = "releasing"
  /\ Cardinality(locks[p]) # seen[p]
  /\ handler' = [handler EXCEPT ![p] = "broken"]
  /\ \/ pc[Main[p]] = "idle" /\ UNCHANGED <<pc, tries>>
     \/ pc[Main[p]] \in Acquiring /\ Retry(Main[p])
     \/ /\ pc[Main[p]] \in Releasing \cup {"held"}
        /\ Goto(Main[p], "unlock") /\ UNCHANGED tries
  /\ UNCHANGED <<owner, isOpen, locks, locksOkay, todo, seen>>

(* The process exits or is killed: the kernel closes its descriptors.      *)
Exit(p) ==
  /\ \E t \in ThreadsOf(p) : pc[t] # "stopped"
  /\ owner' = Drop(p)
  /\ isOpen' = [t \in Threads |-> isOpen[t] /\ ProcOf[t] # p]
  /\ pc' = [t \in Threads |-> IF ProcOf[t] = p THEN "stopped" ELSE pc[t]]
  /\ handler' = [handler EXCEPT ![p] = "done"]
  /\ UNCHANGED <<locks, locksOkay, tries, todo, seen>>

-----------------------------------------------------------------------------
Step(t) ==
  \/ Acquire(t) \/ CheckOkay(t) \/ Open(t) \/ OpenFails(t)
  \/ Lockf(t) \/ LockfFails(t)
  \/ Release(t) \/ Unlock(t) \/ Close(t)

Handle(p) == ReleaseOne(p) \/ Disabled(p) \/ Broken(p)

Next ==
  \/ \E t \in Threads : Step(t)
  \/ \E p \in Procs : Signal(p) \/ Handle(p) \/ Exit(p)

(* A thread inside acquire or release, and a handler, keep running.        *)
(* Nothing makes a thread ask for the lock, leave its critical section,    *)
(* or a signal arrive.                                                     *)
Busy(t) == Step(t) /\ pc[t] \notin {"idle", "held"}

Spec     == Init /\ [][Next]_vars
FairSpec == /\ Spec
            /\ \A t \in Threads : WF_vars(Busy(t))
            /\ \A p \in Procs : WF_vars(Handle(p))

-----------------------------------------------------------------------------
TypeOK ==
  /\ owner \in Procs \cup {NoProc}
  /\ isOpen \in [Threads -> BOOLEAN]
  /\ locks \in [Procs -> SUBSET Threads]
  /\ locksOkay \in [Procs -> BOOLEAN]
  /\ pc \in [Threads -> Phase]
  /\ tries \in [Threads -> 0 .. MaxTries - 1]
  /\ handler \in [Procs -> {"ready", "releasing", "done", "broken"}]
  /\ todo \in [Procs -> SUBSET Threads]
  /\ seen \in [Procs -> Nat]

(* In its critical section: the body of the with-block may be executing.   *)
InSection(t) == pc[t] = "held" /\ Runs(t)

(* So far each process has locked the file from one thread only, which is  *)
(* what the Datastore arranges with its db_lock, and no signal has come    *)
(* while that was a worker: the handler takes a worker's lock away from    *)
(* it.  (locks only grows, and a handler runs once.)                       *)
OneUserPerProcess ==
  \A p \in Procs :
    /\ \A t, u \in locks[p] : t = u
    /\ locks[p] \subseteq {Main[p]} \/ handler[p] = "ready"

(* Two processes are never inside "with LockFile(f)" together, whatever    *)
(* signals, exits and retries do (LockFile.acquire_impl).                  *)
ProcessExclusion ==
  OneUserPerProcess =>
    \A t, u \in Threads :
      InSection(t) /\ InSection(u) => ProcOf[t] = ProcOf[u]

(* The record lock is never left behind: while a process owns it, one of   *)
(* its threads is inside the with-block or on its way out, with the        *)
(* descriptor that releases it.  A failed acquire leaves no lock, nor does *)
(* a signal that interrupts acquire or release.                            *)
NoOrphanLock ==
  \A p \in Procs : owner = p =>
    \E t \in ThreadsOf(p) : pc[t] \in {"held", "unlock"} /\ isOpen[t]

(* disable_locking: "If this is called, any locking attempts will raise    *)
(* LockingDisabled": once the handler is through, its process never takes  *)
(* the lock.  (A worker may have passed the test of locks_okay before.)    *)
NoLockAfterDisable ==
  [][\A p \in Procs :
       handler[p] = "done" /\ owner # p /\ locks[p] \subseteq {Main[p]}
         => owner' # p]_vars

(* retry_io ends: a thread that asks for the lock gets it, gives up or is  *)
(* stopped, and a thread that releases it gets out.                        *)
AcquireEnds ==
  \A t \in Threads : pc[t] \in Acquiring \cup Releasing
                       ~> pc[t] \in {"held", "idle", "stopped"}

(* LockFile implements the abstract lock of module Mutex, as long as each  *)
(* process uses it from one thread.                                        *)
Inside ==
  IF OneUserPerProcess
  THEN {ProcOf[t] : t \in {u \in Threads : InSection(u)}} ELSE {}

Mutex == INSTANCE Mutex WITH inside <- Inside
MutexSpec == Mutex!Spec
=============================================================================
