--------------------------- MODULE FileLockProofs ---------------------------
(* Theorems about FileLock, for any processes, threads and MaxTries.       *)
EXTENDS FileLock, FiniteSetTheorems, TLAPS

(* The variables keep their types, whatever the signals, retries and       *)
(* exits of locking.py do.                                                 *)
THEOREM TypeCorrect == Spec => []TypeOK
<1>1. Init => TypeOK
  BY FileLockAssumption DEF Init, TypeOK, Phase
<1>2. TypeOK /\ [Next]_vars => TypeOK'
  <2> SUFFICES ASSUME TypeOK, [Next]_vars PROVE TypeOK'
    OBVIOUS
  <2> USE FileLockAssumption
      DEF TypeOK, Phase, Acquiring, Releasing, Goto, Drop, ThreadsOf
  <2>1. ASSUME NEW t \in Threads, Acquire(t) PROVE TypeOK'
    BY <2>1 DEF Acquire
  <2>2. ASSUME NEW t \in Threads, CheckOkay(t) PROVE TypeOK'
    BY <2>2 DEF CheckOkay
  <2>3. ASSUME NEW t \in Threads, Open(t) PROVE TypeOK'
    BY <2>3 DEF Open
  <2>4. ASSUME NEW t \in Threads, OpenFails(t) PROVE TypeOK'
    BY <2>4 DEF OpenFails, Retry
  <2>5. ASSUME NEW t \in Threads, Lockf(t) PROVE TypeOK'
    BY <2>5 DEF Lockf
  <2>6. ASSUME NEW t \in Threads, LockfFails(t) PROVE TypeOK'
    BY <2>6 DEF LockfFails, Retry
  <2>7. ASSUME NEW t \in Threads, Release(t) PROVE TypeOK'
    BY <2>7 DEF Release
  <2>8. ASSUME NEW t \in Threads, Unlock(t) PROVE TypeOK'
    BY <2>8 DEF Unlock
  <2>9. ASSUME NEW t \in Threads, Close(t) PROVE TypeOK'
    BY <2>9 DEF Close
  <2>10. ASSUME NEW p \in Procs, Signal(p) PROVE TypeOK'
    <3>1. Cardinality(locks[p]) \in Nat
      BY FS_Subset, FS_CardinalityType
    <3>2. QED BY <2>10, <3>1 DEF Signal
  <2>11. ASSUME NEW p \in Procs, ReleaseOne(p) PROVE TypeOK'
    BY <2>11 DEF ReleaseOne
  <2>12. ASSUME NEW p \in Procs, Disabled(p) PROVE TypeOK'
    BY <2>12 DEF Disabled
  <2>13. ASSUME NEW p \in Procs, Broken(p) PROVE TypeOK'
    BY <2>13 DEF Broken, Retry
  <2>14. ASSUME NEW p \in Procs, Exit(p) PROVE TypeOK'
    BY <2>14 DEF Exit
  <2>15. CASE UNCHANGED vars
    BY <2>15 DEF vars
  <2>16. QED
    BY <2>1, <2>2, <2>3, <2>4, <2>5, <2>6, <2>7, <2>8, <2>9, <2>10, <2>11,
       <2>12, <2>13, <2>14, <2>15 DEF Next, Step, Handle
<1>3. QED
  BY <1>1, <1>2, PTL DEF Spec

-----------------------------------------------------------------------------
(* A thread that has begun to acquire is registered, and while a handler   *)
(* runs, the object of the thread it suspends is still on its list.        *)
Registered ==
  /\ \A t \in Threads : isOpen[t] \/ pc[t] \notin {"idle", "stopped"}
                          => t \in locks[ProcOf[t]]
  /\ \A p \in Procs : handler[p] = "releasing" /\ isOpen[Main[p]]
                          => Main[p] \in todo[p]
  /\ \A p \in Procs : locks[p] \cup todo[p] \subseteq ThreadsOf(p)

(* acquire registers before it tries, and release unregisters at last.     *)
LEMMA RegisteredInvariant == Spec => []Registered
<1>1. Init => Registered
  BY FileLockAssumption DEF Init, Registered
<1>2. TypeOK /\ Registered /\ [Next]_vars => Registered'
  <2> SUFFICES ASSUME TypeOK, Registered, [Next]_vars PROVE Registered'
    OBVIOUS
  <2> USE FileLockAssumption
      DEF TypeOK, Registered, Runs, Goto, Acquiring, Releasing, ThreadsOf
  <2>1. ASSUME NEW t \in Threads, Acquire(t) PROVE Registered'
    BY <2>1 DEF Acquire
  <2>2. ASSUME NEW t \in Threads, CheckOkay(t) PROVE Registered'
    BY <2>2 DEF CheckOkay
  <2>3. ASSUME NEW t \in Threads, Open(t) PROVE Registered'
    BY <2>3 DEF Open
  <2>4. ASSUME NEW t \in Threads, OpenFails(t) PROVE Registered'
    BY <2>4 DEF OpenFails, Retry
  <2>5. ASSUME NEW t \in Threads, Lockf(t) PROVE Registered'
    BY <2>5 DEF Lockf
  <2>6. ASSUME NEW t \in Threads, LockfFails(t) PROVE Registered'
    BY <2>6 DEF LockfFails, Retry
  <2>7. ASSUME NEW t \in Threads, Release(t) PROVE Registered'
    BY <2>7 DEF Release
  <2>8. ASSUME NEW t \in Threads, Unlock(t) PROVE Registered'
    BY <2>8 DEF Unlock
  <2>9. ASSUME NEW t \in Threads, Close(t) PROVE Registered'
    BY <2>9 DEF Close
  <2>10. ASSUME NEW p \in Procs, Signal(p) PROVE Registered'
    BY <2>10 DEF Signal
  <2>11. ASSUME NEW p \in Procs, ReleaseOne(p) PROVE Registered'
    BY <2>11 DEF ReleaseOne
  <2>12. ASSUME NEW p \in Procs, Disabled(p) PROVE Registered'
    BY <2>12 DEF Disabled
  <2>13. ASSUME NEW p \in Procs, Broken(p) PROVE Registered'
    <3>1. /\ UNCHANGED <<isOpen, locks, todo>>
          /\ handler' = [handler EXCEPT ![p] = "broken"]
          /\ \A t \in Threads : pc'[t] = pc[t] \/ pc[t] \notin {"idle", "stopped"}
      BY <2>13 DEF Broken, Retry
    <3>2. QED BY <3>1
  <2>14. ASSUME NEW p \in Procs, Exit(p) PROVE Registered'
    BY <2>14 DEF Exit
  <2>15. CASE UNCHANGED vars
    BY <2>15 DEF vars
  <2>16. QED
    BY <2>1, <2>2, <2>3, <2>4, <2>5, <2>6, <2>7, <2>8, <2>9, <2>10, <2>11,
       <2>12, <2>13, <2>14, <2>15 DEF Next, Step, Handle
<1>3. QED
  BY <1>1, <1>2, TypeCorrect, PTL DEF Spec

-----------------------------------------------------------------------------
(* What makes the exclusion inductive: a thread that is inside is in the   *)
(* process that owns the record lock, as long as no other thread of that   *)
(* process, and no handler of another thread's, can have given it up.      *)
InsideOwns ==
  OneUserPerProcess => \A t \in Threads : InSection(t) => owner = ProcOf[t]

(* What one user per process means for the steps of its other threads.     *)
LEMMA SoleUser ==
  ASSUME Registered, OneUserPerProcess,
         NEW t \in Threads, NEW u \in Threads, ProcOf[t] = ProcOf[u],
         pc[t] \notin {"idle", "stopped"}, pc[u] \notin {"idle", "stopped"}
  PROVE  t = u
BY FileLockAssumption DEF Registered, OneUserPerProcess

(* With one user, whoever is at work while a handler runs is Main.         *)
LEMMA SoleUserIsMain ==
  ASSUME Registered, OneUserPerProcess,
         NEW u \in Threads, handler[ProcOf[u]] # "ready",
         pc[u] \notin {"idle", "stopped"}
  PROVE  u = Main[ProcOf[u]]
BY FileLockAssumption DEF Registered, OneUserPerProcess

(* Once a process has had a second user it has had it for ever.            *)
LEMMA StillOneUser ==
  ASSUME TypeOK, [Next]_vars, OneUserPerProcess'
  PROVE  OneUserPerProcess
<1> USE FileLockAssumption DEF TypeOK, OneUserPerProcess
<1>1. ASSUME NEW t \in Threads, Step(t) PROVE OneUserPerProcess
  BY SMTT(30), <1>1 DEF Step, Acquire, CheckOkay, Open, OpenFails, Lockf, LockfFails,
              Release, Unlock, Close
<1>2. ASSUME NEW p \in Procs, Signal(p) \/ Handle(p) \/ Exit(p)
      PROVE  OneUserPerProcess
  BY <1>2 DEF Signal, Handle, ReleaseOne, Disabled, Broken, Exit
<1>3. CASE UNCHANGED vars
  BY <1>3 DEF vars
<1>4. QED BY <1>1, <1>2, <1>3 DEF Next

(* Who is in a section has the lock, while its process has one user.       *)
LEMMA InsideOwnsInvariant == Spec => []InsideOwns
<1>1. Init => InsideOwns
  BY DEF Init, InsideOwns, InSection
<1>2. TypeOK /\ Registered /\ InsideOwns /\ [Next]_vars => InsideOwns'
  <2> SUFFICES ASSUME TypeOK, Registered, InsideOwns, [Next]_vars,
                      OneUserPerProcess',
                      NEW u \in Threads, InSection(u)'
               PROVE  owner' = ProcOf[u]
    BY DEF InsideOwns
  <2>0. OneUserPerProcess /\ (InSection(u) => owner = ProcOf[u])
    BY StillOneUser DEF InsideOwns
  <2> USE <2>0, FileLockAssumption
      DEF TypeOK, InSection, Runs, Goto, Drop, Acquiring, Releasing
  <2>1. ASSUME NEW t \in Threads, Acquire(t) PROVE owner' = ProcOf[u]
    BY <2>1 DEF Acquire
  <2>2. ASSUME NEW t \in Threads, CheckOkay(t) PROVE owner' = ProcOf[u]
    BY <2>2 DEF CheckOkay
  <2>3. ASSUME NEW t \in Threads, Open(t) PROVE owner' = ProcOf[u]
    BY <2>3 DEF Open
  <2>4. ASSUME NEW t \in Threads, OpenFails(t) PROVE owner' = ProcOf[u]
    BY <2>4 DEF OpenFails, Retry
  <2>5. ASSUME NEW t \in Threads, Lockf(t) PROVE owner' = ProcOf[u]
    <3>1. CASE u = t
      BY <2>5, <3>1 DEF Lockf
    <3>2. CASE u # t
      <4>1. InSection(u) /\ pc[t] = "lockf"
        BY <2>5, <3>2 DEF Lockf
      <4>2. ProcOf[u] # ProcOf[t]
        BY <3>2, <4>1, SoleUser
      <4>3. QED BY <2>5, <4>1, <4>2 DEF Lockf
    <3>3. QED BY <3>1, <3>2
  <2>6. ASSUME NEW t \in Threads, LockfFails(t) PROVE owner' = ProcOf[u]
    BY <2>6 DEF LockfFails, Retry
  <2>7. ASSUME NEW t \in Threads, Release(t) PROVE owner' = ProcOf[u]
    BY <2>7 DEF Release
  <2>8. ASSUME NEW t \in Threads, Unlock(t) PROVE owner' = ProcOf[u]
    <3>1. InSection(u) /\ u # t /\ pc[t] = "unlock"
      BY <2>8 DEF Unlock
    <3>2. ProcOf[u] # ProcOf[t]
      BY <3>1, SoleUser
    <3>3. QED BY <2>8, <3>1, <3>2 DEF Unlock
  <2>9. ASSUME NEW t \in Threads, Close(t) PROVE owner' = ProcOf[u]
    <3>1. InSection(u) /\ u # t /\ pc[t] = "close"
      BY <2>9 DEF Close
    <3>2. ProcOf[u] # ProcOf[t]
      BY <3>1, SoleUser
    <3>3. QED BY <2>9, <3>1, <3>2 DEF Close
  <2>10. ASSUME NEW p \in Procs, Signal(p) PROVE owner' = ProcOf[u]
    BY <2>10 DEF Signal
  <2>11. ASSUME NEW p \in Procs, ReleaseOne(p) PROVE owner' = ProcOf[u]
    <3>1. InSection(u) /\ handler[p] = "releasing"
      BY <2>11 DEF ReleaseOne
    <3>2. ProcOf[u] # p
      BY <3>1, SoleUserIsMain
    <3>3. QED BY <2>11, <3>1, <3>2 DEF ReleaseOne
  <2>12. ASSUME NEW p \in Procs, Disabled(p) PROVE owner' = ProcOf[u]
    <3>1. pc[u] = "held" /\ owner' = owner
      BY <2>12 DEF Disabled
    <3>2. u # Main[p]
      BY <2>12 DEF Disabled
    <3>3. ProcOf[u] # p
      BY <2>12, <3>1, <3>2, SoleUserIsMain DEF Disabled
    <3>4. QED BY <2>12, <3>1, <3>3 DEF Disabled
  <2>13. ASSUME NEW p \in Procs, Broken(p) PROVE owner' = ProcOf[u]
    <3>1. pc[u] = "held" /\ owner' = owner
      BY <2>13 DEF Broken, Retry
    <3>2. u # Main[p]
      BY <2>13 DEF Broken, Retry
    <3>3. ProcOf[u] # p
      BY <2>13, <3>1, <3>2, SoleUserIsMain DEF Broken
    <3>4. QED BY <2>13, <3>1, <3>3 DEF Broken
  <2>14. ASSUME NEW p \in Procs, Exit(p) PROVE owner' = ProcOf[u]
    BY <2>14 DEF Exit
  <2>15. CASE UNCHANGED vars
    BY <2>15 DEF vars
  <2>16. QED
    BY <2>1, <2>2, <2>3, <2>4, <2>5, <2>6, <2>7, <2>8, <2>9, <2>10, <2>11,
       <2>12, <2>13, <2>14, <2>15 DEF Next, Step, Handle
<1>3. QED
  BY <1>1, <1>2, TypeCorrect, RegisteredInvariant, PTL DEF Spec

(* Two processes are never inside "with LockFile(f)" together when each    *)
(* uses the file from one thread.                                          *)
THEOREM ProcessExclusionHolds == Spec => []ProcessExclusion
<1>1. InsideOwns => ProcessExclusion
  BY DEF InsideOwns, ProcessExclusion
<1>2. QED
  BY <1>1, InsideOwnsInvariant, PTL

-----------------------------------------------------------------------------
(* No failure, signal or exit leaves the record lock to a process none of  *)
(* whose threads is going to release it, however many threads it has.      *)
THEOREM NoOrphanLockHolds == Spec => []NoOrphanLock
<1>1. Init => NoOrphanLock
  BY FileLockAssumption DEF Init, NoOrphanLock
<1>2. TypeOK /\ Registered /\ NoOrphanLock /\ [Next]_vars => NoOrphanLock'
  <2> SUFFICES ASSUME TypeOK, Registered, NoOrphanLock, [Next]_vars,
                      NEW q \in Procs, owner' = q
               PROVE  \E t \in Threads : /\ ProcOf[t] = q
                                         /\ pc'[t] \in {"held", "unlock"}
                                         /\ isOpen'[t]
    BY DEF NoOrphanLock, ThreadsOf
  <2> DEFINE Carried == \E t \in Threads : /\ ProcOf[t] = q
                                          /\ pc'[t] \in {"held", "unlock"}
                                          /\ isOpen'[t]
  <2>0. ASSUME owner = q
        PROVE  \E t \in Threads : /\ ProcOf[t] = q
                                  /\ pc[t] \in {"held", "unlock"}
                                  /\ isOpen[t]
    BY <2>0 DEF NoOrphanLock, ThreadsOf
  <2> USE <2>0, FileLockAssumption DEF TypeOK, Runs, Goto, Drop, Acquiring, Releasing
  <2>1. ASSUME NEW t \in Threads, Acquire(t) PROVE Carried
    BY <2>1 DEF Acquire
  <2>2. ASSUME NEW t \in Threads, CheckOkay(t) PROVE Carried
    BY <2>2 DEF CheckOkay
  <2>3. ASSUME NEW t \in Threads, Open(t) PROVE Carried
    BY <2>3 DEF Open
  <2>4. ASSUME NEW t \in Threads, OpenFails(t) PROVE Carried
    BY <2>4 DEF OpenFails, Retry
  <2>5. ASSUME NEW t \in Threads, Lockf(t) PROVE Carried
    BY <2>5 DEF Lockf
  <2>6. ASSUME NEW t \in Threads, LockfFails(t) PROVE Carried
    BY <2>6 DEF LockfFails, Retry
  <2>7. ASSUME NEW t \in Threads, Release(t) PROVE Carried
    BY <2>7 DEF Release
  <2>8. ASSUME NEW t \in Threads, Unlock(t) PROVE Carried
    BY <2>8 DEF Unlock
  <2>9. ASSUME NEW t \in Threads, Close(t) PROVE Carried
    BY <2>9 DEF Close
  <2>10. ASSUME NEW p \in Procs, Signal(p) PROVE Carried
    BY <2>10 DEF Signal
  <2>11. ASSUME NEW p \in Procs, ReleaseOne(p) PROVE Carried
    <3>1. PICK s \in todo[p] :
            /\ owner' = IF isOpen[s] THEN Drop(p) ELSE owner
            /\ isOpen' = [isOpen EXCEPT ![s] = FALSE]
            /\ UNCHANGED pc
      BY <2>11 DEF ReleaseOne
    <3>2. s \in Threads /\ ProcOf[s] = p
      BY <3>1 DEF Registered, ThreadsOf
    <3>3. owner = q /\ (isOpen[s] => q # p)
      BY <3>1
    <3>4. QED BY <3>1, <3>2, <3>3
  <2>12. ASSUME NEW p \in Procs, Disabled(p) PROVE Carried
    <3>1. ~isOpen[Main[p]]
      BY <2>12 DEF Disabled, Registered
    <3>2. QED BY <2>12, <3>1 DEF Disabled
  <2>13. ASSUME NEW p \in Procs, Broken(p) PROVE Carried
    BY <2>13 DEF Broken, Retry
  <2>14. ASSUME NEW p \in Procs, Exit(p) PROVE Carried
    BY <2>14 DEF Exit
  <2>15. CASE UNCHANGED vars
    BY <2>15 DEF vars
  <2>16. QED
    BY <2>1, <2>2, <2>3, <2>4, <2>5, <2>6, <2>7, <2>8, <2>9, <2>10, <2>11,
       <2>12, <2>13, <2>14, <2>15 DEF Next, Step, Handle
<1>3. QED
  BY <1>1, <1>2, TypeCorrect, RegisteredInvariant, PTL DEF Spec

-----------------------------------------------------------------------------
(* Once its handler is through, a process whose initial thread alone uses  *)
(* the file never takes the lock again: the handler's exception has left   *)
(* no acquire of that thread past the test of locks_okay.                  *)
PastCheck ==
  \A p \in Procs :
    /\ handler[p] \in {"releasing", "broken"} => ~locksOkay[p]
    /\ handler[p] = "done" => ~locksOkay[p] \/ pc[Main[p]] = "stopped"
    /\ handler[p] = "done" => pc[Main[p]] \notin {"open", "lockf"}

(* No acquire of the initial thread survives the handler.                  *)
LEMMA PastCheckInvariant == Spec => []PastCheck
<1>1. Init => PastCheck
  BY FileLockAssumption DEF Init, PastCheck
<1>2. TypeOK /\ PastCheck /\ [Next]_vars => PastCheck'
  <2> SUFFICES ASSUME TypeOK, PastCheck, [Next]_vars PROVE PastCheck'
    OBVIOUS
  <2> USE FileLockAssumption DEF TypeOK, PastCheck, Runs, Goto
  <2>1. ASSUME NEW t \in Threads, Acquire(t) PROVE PastCheck'
    BY <2>1 DEF Acquire
  <2>2. ASSUME NEW t \in Threads, CheckOkay(t) PROVE PastCheck'
    BY <2>2 DEF CheckOkay
  <2>3. ASSUME NEW t \in Threads, Open(t) PROVE PastCheck'
    BY <2>3 DEF Open
  <2>4. ASSUME NEW t \in Threads, OpenFails(t) \/ LockfFails(t)
        PROVE  PastCheck'
    BY <2>4 DEF OpenFails, LockfFails, Retry
  <2>5. ASSUME NEW t \in Threads, Lockf(t) PROVE PastCheck'
    BY <2>5 DEF Lockf
  <2>6. ASSUME NEW t \in Threads, Release(t) \/ Unlock(t) \/ Close(t)
        PROVE  PastCheck'
    BY <2>6 DEF Release, Unlock, Close
  <2>7. ASSUME NEW p \in Procs, Signal(p) PROVE PastCheck'
    BY <2>7 DEF Signal
  <2>8. ASSUME NEW p \in Procs, ReleaseOne(p) PROVE PastCheck'
    BY <2>8 DEF ReleaseOne
  <2>9. ASSUME NEW p \in Procs, Disabled(p) PROVE PastCheck'
    BY <2>9 DEF Disabled
  <2>10. ASSUME NEW p \in Procs, Broken(p) PROVE PastCheck'
    <3>1. /\ UNCHANGED locksOkay /\ handler[p] = "releasing"
          /\ handler' = [handler EXCEPT ![p] = "broken"]
          /\ \A t \in Threads : t # Main[p] => pc'[t] = pc[t]
      BY <2>10 DEF Broken, Retry
    <3>2. \A q \in Procs : q # p => Main[q] # Main[p]
      OBVIOUS
    <3>3. QED BY <3>1, <3>2
  <2>11. ASSUME NEW p \in Procs, Exit(p) PROVE PastCheck'
    <3>1. /\ UNCHANGED locksOkay
          /\ handler' = [handler EXCEPT ![p] = "done"]
          /\ \A q \in Procs :
               pc'[Main[q]] = IF q = p THEN "stopped" ELSE pc[Main[q]]
      BY <2>11 DEF Exit
    <3>2. QED BY <3>1
  <2>12. CASE UNCHANGED vars
    BY <2>12 DEF vars
  <2>13. QED
    BY <2>1, <2>2, <2>3, <2>4, <2>5, <2>6, <2>7, <2>8, <2>9, <2>10, <2>11,
       <2>12 DEF Next, Step, Handle
<1>3. QED
  BY <1>1, <1>2, TypeCorrect, PTL DEF Spec

(* LockFile implements the abstract lock when each process uses it from    *)
(* one thread: every step of acquire, release, a handler or an exit enters *)
(* Mutex, leaves it or stutters.                                           *)
THEOREM ImplementsMutex == Spec => MutexSpec
<1>1. Init => Mutex!Init
  BY DEF Init, Mutex!Init, Inside, InSection
<1>2. TypeOK /\ Registered /\ InsideOwns /\ [Next]_vars
        => [Mutex!Next]_Inside
  <2> SUFFICES ASSUME TypeOK, Registered, InsideOwns, [Next]_vars
               PROVE  [Mutex!Next]_Inside
    OBVIOUS
  <2>0. CASE ~OneUserPerProcess'
    <3>1. Inside' = {}
      BY <2>0 DEF Inside
    <3>2. Inside = {} \/ \E p \in Procs : Inside = {p}
      BY FileLockAssumption DEF Inside, InsideOwns
    <3>3. QED BY <3>1, <3>2 DEF Mutex!Next, Mutex!Leave
  <2> SUFFICES ASSUME OneUserPerProcess' PROVE [Mutex!Next]_Inside
    BY <2>0
  <2>1. OneUserPerProcess
    BY StillOneUser
  <2>2. \A u \in Threads : InSection(u) => owner = ProcOf[u]
    BY <2>1 DEF InsideOwns
  <2> DEFINE Kept == \A u \in Threads : InSection(u)' <=> InSection(u)
             Left(p) == \A u \in Threads :
                          InSection(u)' <=> InSection(u) /\ ProcOf[u] # p
  <2>3. Kept => Inside' = Inside
    BY <2>1 DEF Inside
  <2>4. ASSUME NEW p \in Procs, Left(p) PROVE [Mutex!Next]_Inside
    <3>1. CASE \E u \in Threads : InSection(u) /\ ProcOf[u] = p
      <4>1. Inside = {p}
        BY <2>1, <2>2, <3>1 DEF Inside
      <4>2. Inside' = {}
        BY <2>2, <2>4, <3>1 DEF Inside
      <4>3. QED BY <4>1, <4>2 DEF Mutex!Next, Mutex!Leave
    <3>2. CASE ~ \E u \in Threads : InSection(u) /\ ProcOf[u] = p
      BY <2>3, <2>4, <3>2
    <3>3. QED BY <3>1, <3>2
  <2>5. ASSUME NEW t \in Threads, Step(t), ~Lockf(t), ~Release(t) PROVE Kept
    BY <2>5 DEF Step, Acquire, CheckOkay, Open, OpenFails, LockfFails, Unlock,
                Close, Retry, Goto, InSection, Runs, TypeOK
  <2>6. ASSUME NEW t \in Threads, Lockf(t) PROVE [Mutex!Next]_Inside
    <3>1. ProcOf[t] \in Procs
      BY FileLockAssumption
    <3>2. ASSUME NEW u \in Threads, InSection(u) PROVE FALSE
      <4>1. owner = ProcOf[u] /\ pc[u] = "held" /\ ProcOf[u] \in Procs
        BY <2>2, <3>2, FileLockAssumption DEF InSection
      <4>2. pc[t] = "lockf" /\ ProcOf[t] = ProcOf[u]
        BY <2>6, <4>1, FileLockAssumption DEF Lockf
      <4>3. QED BY <2>1, <4>1, <4>2, SoleUser
    <3>3. \A u \in Threads : InSection(u)' <=> u = t
      BY <2>6, <3>2 DEF Lockf, Goto, InSection, Runs, TypeOK
    <3>4. Inside = {} /\ Inside' = {ProcOf[t]}
      BY <3>2, <3>3 DEF Inside
    <3>5. QED BY <3>1, <3>4 DEF Mutex!Next, Mutex!Enter
  <2>7. ASSUME NEW t \in Threads, Release(t) PROVE [Mutex!Next]_Inside
    <3>1. ProcOf[t] \in Procs
      BY FileLockAssumption
    <3>2. \A u \in Threads : InSection(u) /\ ProcOf[u] = ProcOf[t] => u = t
      BY <2>1, <2>7, SoleUser DEF Release, InSection
    <3>3. Left(ProcOf[t])
      BY <2>7, <3>2 DEF Release, Goto, InSection, Runs, TypeOK
    <3>4. QED BY <2>4, <3>1, <3>3
  <2>8. ASSUME NEW p \in Procs, Signal(p) PROVE Left(p)
    <3> SUFFICES ASSUME NEW u \in Threads
                 PROVE  InSection(u)' <=> InSection(u) /\ ProcOf[u] # p
      OBVIOUS
    <3>1. pc' = pc /\ handler' = [handler EXCEPT ![p] = "releasing"]
      BY <2>8 DEF Signal
    <3>2. CASE ProcOf[u] = p /\ pc[u] = "held"
      <4>1. u \in locks[p] /\ locks'[p] = locks[p] /\ handler'[p] # "ready"
        BY <2>8, <3>1, <3>2 DEF Signal, Registered, TypeOK
      <4>2. u = Main[p]
        BY <4>1 DEF OneUserPerProcess
      <4>3. QED BY <3>1, <3>2, <4>2 DEF InSection, Runs, TypeOK
    <3>3. CASE ProcOf[u] # p \/ pc[u] # "held"
      BY <3>1, <3>3, FileLockAssumption DEF InSection, Runs, TypeOK
    <3>4. QED BY <3>2, <3>3
  <2>9. ASSUME NEW p \in Procs, ReleaseOne(p) PROVE Kept
    BY <2>9 DEF ReleaseOne, InSection, Runs
  <2>10. ASSUME NEW p \in Procs, handler[p] = "releasing",
                NEW u \in Threads, ProcOf[u] = p, pc[u] = "held"
         PROVE  u = Main[p]
    BY <2>1, <2>10, SoleUserIsMain
  <2>11. ASSUME NEW p \in Procs, Disabled(p) PROVE Kept
    BY <2>10, <2>11, FileLockAssumption
       DEF Disabled, Goto, InSection, Runs, TypeOK
  <2>12. ASSUME NEW p \in Procs, Broken(p) PROVE Kept
    BY <2>10, <2>12, FileLockAssumption
       DEF Broken, Retry, Goto, Acquiring, Releasing, InSection, Runs, TypeOK
  <2>13. ASSUME NEW p \in Procs, Exit(p) PROVE Left(p)
    BY <2>13, FileLockAssumption DEF Exit, InSection, Runs, TypeOK
  <2>14. CASE UNCHANGED vars
    BY <2>3, <2>14 DEF vars, InSection, Runs
  <2>15. QED
    BY <2>3, <2>4, <2>5, <2>6, <2>7, <2>8, <2>9, <2>11, <2>12, <2>13, <2>14
       DEF Next, Handle
<1>3. QED
  BY <1>1, <1>2, TypeCorrect, RegisteredInvariant, InsideOwnsInvariant, PTL
     DEF Spec, MutexSpec, Mutex!Spec

(* "any locking attempts will raise LockingDisabled": after the handler a  *)
(* process whose initial thread alone uses the file never takes the lock.  *)
THEOREM NoLockAfterDisableHolds == Spec => NoLockAfterDisable
<1>1. TypeOK /\ Registered /\ PastCheck /\ [Next]_vars
        => [\A p \in Procs :
              handler[p] = "done" /\ owner # p /\ locks[p] \subseteq {Main[p]}
                => owner' # p]_vars
  <2> SUFFICES ASSUME TypeOK, Registered, PastCheck, Next, NEW p \in Procs,
                      handler[p] = "done", owner # p,
                      locks[p] \subseteq {Main[p]}
               PROVE  owner' # p
    OBVIOUS
  <2> USE FileLockAssumption DEF TypeOK, Drop
  <2>1. ASSUME NEW t \in Threads, Lockf(t) PROVE owner' # p
    <3>1. pc[t] = "lockf" /\ owner' = ProcOf[t] /\ t \in locks[ProcOf[t]]
      BY <2>1 DEF Lockf, Registered
    <3>2. ProcOf[t] # p
      BY <3>1 DEF PastCheck
    <3>3. QED BY <3>1, <3>2
  <2>2. ASSUME NEW t \in Threads, Step(t), ~Lockf(t) PROVE owner' # p
    BY <2>2 DEF Step, Acquire, CheckOkay, Open, OpenFails, LockfFails,
                Release, Unlock, Close
  <2>3. ASSUME NEW q \in Procs, Signal(q) \/ Handle(q) \/ Exit(q)
        PROVE  owner' # p
    BY <2>3 DEF Signal, Handle, ReleaseOne, Disabled, Broken, Exit
  <2>4. QED BY <2>1, <2>2, <2>3 DEF Next
<1>2. QED
  BY <1>1, TypeCorrect, RegisteredInvariant, PastCheckInvariant, PTL
     DEF Spec, NoLockAfterDisable

-----------------------------------------------------------------------------
(* How many steps of its own a thread can still take in acquire, with the  *)
(* tries that are left, or in release; and what an interrupted handler may *)
(* make it do again.                                                       *)
InCall(t) == pc[t] \in Acquiring \cup Releasing
Turn(t) ==
  CASE pc[t] = "check"             -> 3
    [] pc[t] \in {"open", "unlock"} -> 2
    [] OTHER                       -> 1
Retries(t) == IF pc[t] \in Acquiring THEN MaxTries - 1 - tries[t] ELSE 0
Again(t) == IF handler[ProcOf[t]] \in {"ready", "releasing"} THEN 2 ELSE 0
StepsLeft(t) == Turn(t) + 3 * Retries(t) + Again(t)

(* As long as a thread is in a call nobody lengthens it, and each step of  *)
(* the thread shortens it.                                                 *)
Nearing ==
  \A t \in Threads : InCall(t) /\ InCall(t)' =>
    StepsLeft(t)' <= StepsLeft(t) /\ (Step(t) => StepsLeft(t)' < StepsLeft(t))

(* As long as a handler releases locks it has no more of them to release,  *)
(* and after each one fewer.                                               *)
Clearing ==
  \A p \in Procs : handler[p] = "releasing" /\ handler'[p] = "releasing" =>
    /\ Cardinality(todo'[p]) <= Cardinality(todo[p])
    /\ ReleaseOne(p) => Cardinality(todo'[p]) < Cardinality(todo[p])

(* A call has some steps left, and no more than the tries allow.           *)
LEMMA StepsLeftType ==
  ASSUME TypeOK, NEW t \in Threads
  PROVE  /\ StepsLeft(t) \in Nat
         /\ InCall(t) => StepsLeft(t) \in 1 .. 3 * MaxTries + 2
<1>1. PICK m \in Nat, n \in Nat : m = MaxTries /\ n = tries[t] /\ n <= m - 1 /\ m >= 2
  <2>1. MaxTries \in Nat /\ MaxTries >= 2
    BY FileLockAssumption
  <2>2. tries[t] \in 0 .. MaxTries - 1
    BY DEF TypeOK
  <2> QED
    BY <2>1, <2>2
<1>2. PICK k \in Nat : k = Retries(t) /\ k <= m - 1
  BY <1>1 DEF Retries
<1>3. Turn(t) \in 1 .. 3 /\ Again(t) \in 0 .. 2
  BY DEF Turn, Again
<1> HIDE DEF Turn, Again
<1>4. StepsLeft(t) = Turn(t) + 3 * k + Again(t) /\ 3 * MaxTries + 2 = 3 * m + 2
  BY <1>1, <1>2 DEF StepsLeft
<1> QED
  BY <1>1, <1>2, <1>3, <1>4

(* A turn of retry_io that fails shortens the call.                        *)
LEMMA RetryShortens ==
  ASSUME TypeOK, NEW t \in Threads, pc[t] \in Acquiring, Retry(t), InCall(t)',
         Again(t)' <= Again(t)
  PROVE  StepsLeft(t)' < StepsLeft(t)
<1>1. /\ tries[t] + 1 < MaxTries
      /\ tries'[t] = tries[t] + 1 /\ pc'[t] = "check"
  BY DEF Retry, Goto, TypeOK, InCall, Acquiring, Releasing
<1>2. PICK m \in Nat, n \in Nat : m = MaxTries /\ n = tries[t] /\ n + 1 < m
  BY <1>1, FileLockAssumption DEF TypeOK
<1>3. Retries(t) = m - 1 - n /\ Retries(t)' = m - 1 - (n + 1)
  BY <1>1, <1>2 DEF Retries, Acquiring
<1>4. Turn(t)' = 3 /\ Turn(t) \in 1 .. 3
  BY <1>1 DEF Turn
<1>5. Again(t) \in 0 .. 2 /\ Again(t)' \in 0 .. 2
  BY DEF Again
<1> HIDE DEF Turn, Again
<1> QED
  BY <1>2, <1>3, <1>4, <1>5 DEF StepsLeft

(* A step of the thread itself shortens it.                                *)
LEMMA StepShortens ==
  ASSUME TypeOK, NEW t \in Threads, Step(t), InCall(t), InCall(t)'
  PROVE  StepsLeft(t)' < StepsLeft(t)
<1>1. handler' = handler /\ Again(t)' = Again(t) /\ Again(t) \in 0 .. 2
  <2>1. handler' = handler
    BY DEF Step, Acquire, CheckOkay, Open, OpenFails, Lockf, LockfFails, Release, Unlock, Close
  <2> QED
    BY <2>1 DEF Again
<1>2. ~Acquire(t) /\ ~Lockf(t) /\ ~Release(t) /\ ~Close(t)
  BY DEF Acquire, Lockf, Release, Close, InCall, Acquiring, Releasing, Goto, TypeOK
<1>3. CASE OpenFails(t) \/ LockfFails(t)
  <2>1. pc[t] \in Acquiring /\ Retry(t)
    BY <1>3 DEF OpenFails, LockfFails, Acquiring
  <2> QED
    BY <1>1, <2>1, RetryShortens
<1>4. CASE CheckOkay(t) \/ Open(t) \/ Unlock(t)
  <2>1. /\ tries' = tries
        /\ \/ pc[t] = "check" /\ pc'[t] = "open"
           \/ pc[t] = "open" /\ pc'[t] = "lockf"
           \/ pc[t] = "unlock" /\ pc'[t] = "close"
    BY <1>4 DEF CheckOkay, Open, Unlock, Goto, TypeOK, InCall, Acquiring, Releasing
  <2>2. Turn(t)' + 1 = Turn(t) /\ Turn(t)' \in Nat
    BY <2>1 DEF Turn
  <2>3. Retries(t)' = Retries(t) /\ Retries(t) \in Int
    BY <2>1, FileLockAssumption DEF Retries, Acquiring, TypeOK
  <2> HIDE DEF Turn, Retries, Again
  <2> QED
    BY <1>1, <2>2, <2>3 DEF StepsLeft
<1> QED
  BY <1>2, <1>3, <1>4 DEF Step

(* A step after which a thread is where it was, and its handler no younger,*)
(* does not lengthen its call.                                             *)
LEMMA NobodyLengthens ==
  ASSUME TypeOK, TypeOK', NEW t \in Threads, pc'[t] = pc[t], tries'[t] = tries[t],
         Again(t)' <= Again(t)
  PROVE  StepsLeft(t)' <= StepsLeft(t)
<1>1. Turn(t)' = Turn(t) /\ Turn(t) \in Nat
  BY DEF Turn
<1>2. Retries(t)' = Retries(t) /\ Retries(t) \in Int
  BY FileLockAssumption DEF Retries, TypeOK
<1>3. Again(t) \in Int /\ Again(t)' \in Int
  BY DEF Again
<1> HIDE DEF Turn, Retries, Again
<1> QED
  BY <1>1, <1>2, <1>3 DEF StepsLeft

(* What others do: the threads, and the handlers of all processes.         *)
LEMMA NearingStep ==
  ASSUME TypeOK, TypeOK', [Next]_vars
  PROVE  Nearing
<1> SUFFICES ASSUME NEW t \in Threads, InCall(t), InCall(t)'
             PROVE  /\ StepsLeft(t)' <= StepsLeft(t)
                    /\ Step(t) => StepsLeft(t)' < StepsLeft(t)
  BY DEF Nearing
<1>1. StepsLeft(t) \in Int /\ StepsLeft(t)' \in Int
  <2>1. \A u \in Threads : StepsLeft(u) \in Nat
    BY StepsLeftType
  <2>2. StepsLeft(t)' \in Int
    <3>1. MaxTries \in Int /\ tries'[t] \in Int
      BY FileLockAssumption DEF TypeOK
    <3>2. Turn(t)' \in Int /\ Again(t)' \in Int /\ Retries(t)' \in Int
      BY <3>1 DEF Turn, Again, Retries
    <3> HIDE DEF Turn, Again, Retries
    <3> QED
      BY <3>2 DEF StepsLeft
  <2> QED
    BY <2>1, <2>2
<1>2. CASE Step(t)
  <2>1. StepsLeft(t)' < StepsLeft(t)
    BY <1>2, StepShortens
  <2> QED
    BY <1>1, <2>1
<1>3. CASE ~Step(t)
  <2> SUFFICES StepsLeft(t)' <= StepsLeft(t)
    BY <1>3
  <2>1. ASSUME NEW u \in Threads, Step(u) PROVE StepsLeft(t)' <= StepsLeft(t)
    <3>1. /\ handler' = handler
          /\ u # t => pc'[t] = pc[t] /\ tries'[t] = tries[t]
      BY <2>1 DEF Step, Acquire, CheckOkay, Open, OpenFails, Lockf, LockfFails, Retry,
                  Release, Unlock, Close, Goto, TypeOK
    <3>2. Again(t)' <= Again(t)
      BY <3>1 DEF Again
    <3> QED
      BY <1>3, <2>1, <3>1, <3>2, NobodyLengthens
  <2>2. ASSUME NEW p \in Procs, Signal(p) \/ ReleaseOne(p) PROVE StepsLeft(t)' <= StepsLeft(t)
    <3>1. pc' = pc /\ tries' = tries
      BY <2>2 DEF Signal, ReleaseOne
    <3>2. \A q \in Procs : handler[q] \in {"ready", "releasing"}
                             <=> handler'[q] \in {"ready", "releasing"}
      BY <2>2 DEF Signal, ReleaseOne, TypeOK
    <3>3. Again(t)' <= Again(t)
      BY <3>2, FileLockAssumption DEF Again
    <3> QED
      BY <3>1, <3>3, NobodyLengthens
  <2>3. ASSUME NEW p \in Procs, Exit(p) PROVE StepsLeft(t)' <= StepsLeft(t)
    <3>1. ProcOf[t] # p
      BY <2>3 DEF Exit, InCall, Acquiring, Releasing
    <3>2. pc'[t] = pc[t] /\ tries'[t] = tries[t] /\ handler'[ProcOf[t]] = handler[ProcOf[t]]
      BY <2>3, <3>1, FileLockAssumption DEF Exit, TypeOK
    <3>3. Again(t)' <= Again(t)
      BY <3>2 DEF Again
    <3> QED
      BY <3>2, <3>3, NobodyLengthens
  <2>4. ASSUME NEW p \in Procs, Disabled(p) \/ Broken(p) PROVE StepsLeft(t)' <= StepsLeft(t)
    <3>1. /\ handler[p] = "releasing" /\ handler'[p] \in {"done", "broken"}
          /\ \A q \in Procs : q # p => handler'[q] = handler[q]
      BY <2>4 DEF Disabled, Broken, TypeOK
    <3>2. Again(t)' <= Again(t)
      BY <3>1, FileLockAssumption DEF Again
    <3>3. CASE t # Main[p]
      <4>1. pc'[t] = pc[t] /\ tries'[t] = tries[t]
        BY <2>4, <3>3, FileLockAssumption DEF Disabled, Broken, Retry, Goto, TypeOK
      <4> QED
        BY <3>2, <4>1, NobodyLengthens
    <3>4. CASE t = Main[p]
      <4>1. ~Disabled(p)
        BY <3>4 DEF Disabled, Goto, TypeOK, InCall, Acquiring, Releasing
      <4>2. CASE pc[t] \in Acquiring /\ Retry(t)
        <5>1. StepsLeft(t)' < StepsLeft(t)
          BY <3>2, <4>2, RetryShortens
        <5> QED
          BY <1>1, <5>1
      <4>3. CASE pc[t] \in Releasing /\ Goto(t, "unlock") /\ tries' = tries
        <5>1. pc'[t] = "unlock"
          BY <4>3 DEF Goto, TypeOK
        <5>2. Turn(t)' = 2 /\ Turn(t) \in 1 .. 2 /\ Retries(t)' = 0 /\ Retries(t) = 0
          BY <4>3, <5>1 DEF Turn, Retries, Acquiring, Releasing
        <5>3. Again(t)' = 0 /\ Again(t) = 2
          BY <3>1, <3>4, FileLockAssumption DEF Again
        <5> HIDE DEF Turn, Retries, Again
        <5> QED
          BY <5>2, <5>3 DEF StepsLeft
      <4> QED
        BY <2>4, <3>4, <4>1, <4>2, <4>3 DEF Broken, InCall, Acquiring, Releasing
    <3> QED
      BY <3>3, <3>4
  <2>5. CASE UNCHANGED vars
    <3>1. pc' = pc /\ tries' = tries /\ Again(t)' <= Again(t)
      BY <2>5 DEF vars, Again
    <3> QED
      BY <3>1, NobodyLengthens
  <2> QED
    BY <2>1, <2>2, <2>3, <2>4, <2>5 DEF Next, Handle
<1> QED
  BY <1>2, <1>3

(* The handlers: only ReleaseOne and Signal touch their lists.             *)
LEMMA ClearingStep ==
  ASSUME TypeOK, [Next]_vars
  PROVE  Clearing
<1> SUFFICES ASSUME NEW p \in Procs, handler[p] = "releasing", handler'[p] = "releasing"
             PROVE  /\ Cardinality(todo'[p]) <= Cardinality(todo[p])
                    /\ ReleaseOne(p) => Cardinality(todo'[p]) < Cardinality(todo[p])
  BY DEF Clearing
<1>1. IsFiniteSet(todo[p]) /\ Cardinality(todo[p]) \in Nat
  BY FileLockAssumption, FS_Subset, FS_CardinalityType DEF TypeOK
<1>2. CASE ReleaseOne(p)
  <2>1. PICK t \in todo[p] : todo'[p] = todo[p] \ {t}
    BY <1>2 DEF ReleaseOne, TypeOK
  <2>2. Cardinality(todo'[p]) = Cardinality(todo[p]) - 1
    BY <1>1, <2>1, FS_RemoveElement
  <2> QED
    BY <1>1, <2>2
<1>3. CASE ~ReleaseOne(p)
  <2>1. todo'[p] = todo[p]
    <3>1. ASSUME NEW q \in Procs, Signal(q) \/ ReleaseOne(q) PROVE todo'[p] = todo[p]
      BY <1>3, <3>1 DEF Signal, ReleaseOne, TypeOK
    <3>2. ASSUME NEW q \in Procs, Disabled(q) \/ Broken(q) \/ Exit(q) PROVE todo'[p] = todo[p]
      BY <3>2 DEF Disabled, Broken, Exit
    <3>3. ASSUME NEW t \in Threads, Step(t) PROVE todo'[p] = todo[p]
      BY <3>3 DEF Step, Acquire, CheckOkay, Open, OpenFails, Lockf, LockfFails,
                  Release, Unlock, Close
    <3>4. CASE UNCHANGED vars
      BY <3>4 DEF vars
    <3> QED
      BY <3>1, <3>2, <3>3, <3>4 DEF Next, Handle
  <2> QED
    BY <1>1, <1>3, <2>1
<1> QED
  BY <1>2, <1>3

(* acquire and release end, whatever other threads, processes and handlers *)
(* do: a thread in one of them comes out after at most 3 * MaxTries + 2    *)
(* steps of its own, which nobody can make more, and a handler after as    *)
(* many as there are locks.                                                *)
THEOREM CallsBounded ==
  Spec => /\ [][Nearing /\ Clearing]_vars
          /\ [](\A t \in Threads : InCall(t) => StepsLeft(t) \in 1 .. 3 * MaxTries + 2)
<1>1. TypeOK /\ TypeOK' /\ [Next]_vars => [Nearing /\ Clearing]_vars
  BY NearingStep, ClearingStep
<1>2. TypeOK => \A t \in Threads : InCall(t) => StepsLeft(t) \in 1 .. 3 * MaxTries + 2
  BY StepsLeftType
<1> QED
  BY <1>1, <1>2, TypeCorrect, PTL DEF Spec

=============================================================================
