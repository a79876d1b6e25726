--------------------------- MODULE DatastoreProofs ---------------------------
(* Theorems about Datastore, for any processes, threads, rows, values and  *)
(* nesting depth.                                                          *)
EXTENDS Datastore, TLAPS

(* How a thread's place in the code fixes its stack: what makes the bounds *)
(* of TypeOK inductive.                                                    *)
Shape ==
  \A t \in Threads :
    /\ pc[t] \in {"dblock", "filelock"} => stack[t] = 1 /\ level[t] = 0
    /\ pc[t] = "body" => 1 <= level[t] /\ level[t] <= stack[t]
    /\ pc[t] \in {"commit", "fileunlock", "dbunlock"} => stack[t] = 0 /\ level[t] = 0
    /\ pc[t] = "idle" => level[t] = 0

(* Types and shape are kept under all faults, signals included.            *)
LEMMA ShapeInvariant == Spec => [](TypeOK /\ Shape)
<1>1. Init => TypeOK /\ Shape
  BY DatastoreAssumption DEF Init, TypeOK, Shape, Phase, Nothing, Unread
<1>2. TypeOK /\ Shape /\ [Next]_vars => TypeOK' /\ Shape'
  <2> SUFFICES ASSUME TypeOK, Shape, [Next]_vars PROVE TypeOK' /\ Shape'
    OBVIOUS
  <2> USE DatastoreAssumption
      DEF TypeOK, Shape, Phase, Goto, DropFile, DropDb, data, locked, Nothing, Unread
  <2>1. ASSUME NEW t \in Threads, Enter(t) PROVE TypeOK' /\ Shape'
    <3>1. stack[t] \in Nat /\ level[t] \in Nat /\ MaxDepth \in Nat
      OBVIOUS
    <3>2. stack' \in [Threads -> 0 .. MaxDepth]
      BY <2>1, <3>1 DEF Enter
    <3>3. level' \in [Threads -> 0 .. MaxDepth]
      BY SMTT(30), <2>1, <3>1 DEF Enter
    <3>4. pc' \in [Threads -> Phase]
      <4>1. pc' = [pc EXCEPT ![t] = "dblock"] \/ pc' = [pc EXCEPT ![t] = "body"]
        BY <2>1 DEF Enter
      <4>2. CASE pc' = [pc EXCEPT ![t] = "dblock"]
        BY <4>2
      <4>3. CASE pc' = [pc EXCEPT ![t] = "body"]
        BY <4>3
      <4>4. QED
        BY <4>1, <4>2, <4>3
    <3>5. TypeOK'
      BY <2>1, <3>2, <3>3, <3>4 DEF Enter
    <3>6. Shape'
      BY <2>1, <3>1 DEF Enter
    <3>7. QED
      BY <3>5, <3>6
  <2>2. ASSUME NEW t \in Threads, LockDb(t) PROVE TypeOK' /\ Shape'
    BY <2>2 DEF LockDb
  <2>3. ASSUME NEW t \in Threads, LockFile(t) PROVE TypeOK' /\ Shape'
    BY <2>3 DEF LockFile
  <2>4. ASSUME NEW t \in Threads, LockFileFails(t) PROVE TypeOK' /\ Shape'
    BY <2>4 DEF LockFileFails
  <2>5. ASSUME NEW t \in Threads, NEW k \in Keys, Read(t, k) PROVE TypeOK' /\ Shape'
    BY <2>5 DEF Read, Store!Read
  <2>6. ASSUME NEW t \in Threads, NEW k \in Keys, NEW v \in Values, Write(t, k, v)
       PROVE  TypeOK' /\ Shape'
    BY <2>6 DEF Write, Store!Write
  <2>7. ASSUME NEW t \in Threads, WriteRefused(t) PROVE TypeOK' /\ Shape'
    BY <2>7 DEF WriteRefused
  <2>8. ASSUME NEW t \in Threads, Raise(t) PROVE TypeOK' /\ Shape'
    BY <2>8 DEF Raise
  <2>9. ASSUME NEW t \in Threads, Exit(t) PROVE TypeOK' /\ Shape'
    <3>1. stack[t] \in Nat /\ level[t] \in Nat /\ 1 <= level[t] /\ level[t] <= stack[t]
      BY <2>9 DEF Exit
    <3>2. stack[t] - 1 \in 0 .. MaxDepth /\ level[t] - 1 \in 0 .. MaxDepth
      BY <3>1
    <3>3. pc' = pc \/ pc' = [pc EXCEPT ![t] = "commit"] \/ pc' = [pc EXCEPT ![t] = "idle"]
      BY <2>9 DEF Exit
    <3>4. raising' = raising \/ raising' = [raising EXCEPT ![t] = FALSE]
      BY <2>9 DEF Exit
    <3>5. pc' \in [Threads -> Phase] /\ raising' \in [Threads -> BOOLEAN]
      <4>1. pc' \in [Threads -> Phase]
        <5>1. CASE pc' = pc
          BY <5>1
        <5>2. CASE pc' = [pc EXCEPT ![t] = "commit"]
          BY <5>2
        <5>3. CASE pc' = [pc EXCEPT ![t] = "idle"]
          BY <5>3
        <5>4. QED
          BY <3>3, <5>1, <5>2, <5>3
      <4>2. CASE raising' = raising
        BY <4>1, <4>2
      <4>3. CASE raising' = [raising EXCEPT ![t] = FALSE]
        BY <4>1, <4>3
      <4>4. QED
        BY <3>4, <4>2, <4>3
    <3>6. TypeOK'
      BY <2>9, <3>2, <3>5 DEF Exit
    <3>7. Shape'
      BY <2>9, <3>1 DEF Exit
    <3>8. QED
      BY <3>6, <3>7
  <2>10. ASSUME NEW t \in Threads, Commit(t) PROVE TypeOK' /\ Shape'
    BY <2>10 DEF Commit, Store!Overlay
  <2>11. ASSUME NEW t \in Threads, CommitFails(t) PROVE TypeOK' /\ Shape'
    <3>1. writes' = writes \/ writes' = [writes EXCEPT ![t] = Nothing]
      BY <2>11 DEF CommitFails
    <3>2. writes' \in [Threads -> [Keys -> Values \cup {NoValue}]]
      <4>1. CASE writes' = writes
        BY <4>1
      <4>2. CASE writes' = [writes EXCEPT ![t] = Nothing]
        BY <4>2
      <4>3. QED
        BY <3>1, <4>1, <4>2
    <3>3. TypeOK'
      BY <2>11, <3>2 DEF CommitFails
    <3>4. Shape'
      BY <2>11 DEF CommitFails
    <3>5. QED
      BY <3>3, <3>4
  <2>12. ASSUME NEW t \in Threads, UnlockFile(t) PROVE TypeOK' /\ Shape'
    BY <2>12 DEF UnlockFile
  <2>13. ASSUME NEW t \in Threads, UnlockDb(t) PROVE TypeOK' /\ Shape'
    BY <2>13 DEF UnlockDb
  <2>14. ASSUME NEW p \in Procs, Crash(p) PROVE TypeOK' /\ Shape'
    BY <2>14 DEF Crash
  <2>15. ASSUME NEW p \in Procs, Signal(p) PROVE TypeOK' /\ Shape'
    <3>1. Main[p] \in Threads /\ ProcOf[Main[p]] = p
      OBVIOUS
    <3>2. CASE pc[Main[p]] = "body"
      BY <2>15, <3>1, <3>2 DEF Signal
    <3>3. CASE pc[Main[p]] # "body"
      <4>1. dbLock' \in [Procs -> Threads \cup {NoThread}] /\ raising' \in [Threads -> BOOLEAN]
        BY <2>15, <3>1, <3>3 DEF Signal
      <4>2. TypeOK'
        BY <2>15, <3>1, <3>3, <4>1 DEF Signal
      <4>3. Shape'
        BY <2>15, <3>1, <3>3 DEF Signal
      <4>4. QED
        BY <4>2, <4>3
    <3>4. QED
      BY <3>2, <3>3
  <2>16. CASE UNCHANGED vars
    BY <2>16 DEF vars, data, locked
  <2>17. QED
    BY <2>1, <2>2, <2>3, <2>4, <2>5, <2>6, <2>7, <2>8, <2>9, <2>10,
       <2>11, <2>12, <2>13, <2>14, <2>15, <2>16
       DEF Next, Lock, Finish, Use
<1>3. QED
  BY <1>1, <1>2, PTL DEF Spec

(* Every variable keeps its type.                                          *)
THEOREM TypeCorrect == Spec => []TypeOK
  BY ShapeInvariant, PTL

(* A thread between LockFile and UnlockFile.                               *)
HasBoth(t) == InTransaction(t) \/ pc[t] = "fileunlock"

(* Without signals, a thread has both locks while its transaction is open, *)
(* and db_lock a little before and after.                                  *)
LocksHeld ==
  \A t \in Threads :
    /\ pc[t] \in {"filelock", "dbunlock"} \/ HasBoth(t) => dbLock[ProcOf[t]] = t
    /\ HasBoth(t) => fileLock = ProcOf[t]

(* Opening or closing an inner block takes and gives back no lock.         *)
LEMMA EnterKeepsBoth ==
  ASSUME NEW t \in Threads, TypeOK, Shape, Enter(t)
  PROVE  HasBoth(t)' => HasBoth(t)
<1>1. stack[t] \in Nat /\ level[t] \in Nat
  BY DatastoreAssumption DEF TypeOK
<1>2. CASE stack[t] = 0
  BY <1>2 DEF Enter, Goto, HasBoth, InTransaction, TypeOK
<1>3. CASE stack[t] # 0
  <2>1. pc'[t] = "body" /\ stack'[t] = stack[t] + 1 /\ level'[t] = level[t] + 1
    BY <1>3 DEF Enter, Goto, TypeOK
  <2>2. pc[t] = "body" \/ level[t] = 0
    BY DEF Enter, Shape
  <2>3. stack'[t] = level'[t] => stack[t] = level[t]
    BY <1>1, <2>1
  <2>4. QED
    BY <1>3, <2>1, <2>2, <2>3 DEF HasBoth, InTransaction
<1>4. QED
  BY <1>2, <1>3

(* A thread that leaves a with-block had the locks it still has.           *)
LEMMA ExitKeepsBoth ==
  ASSUME NEW t \in Threads, TypeOK, Shape, Exit(t)
  PROVE  HasBoth(t)' => HasBoth(t)
<1>1. stack[t] \in Nat /\ level[t] \in Nat
  BY DatastoreAssumption DEF TypeOK
<1>2. pc[t] = "body" /\ stack'[t] = stack[t] - 1 /\ level'[t] = level[t] - 1
  BY DEF Exit, TypeOK
<1>3. 1 <= level[t] /\ level[t] <= stack[t]
  BY <1>2 DEF Shape
<1>4. stack[t] = 1 => stack[t] = level[t]
  BY <1>1, <1>3
<1>5. stack[t] # 1 => pc'[t] \in {"body", "idle"}
  BY <1>2 DEF Exit, Goto, TypeOK
<1>6. pc'[t] # "fileunlock"
  BY <1>2 DEF Exit, Goto, TypeOK
<1>7. stack'[t] = level'[t] => stack[t] = level[t]
  BY <1>1, <1>2
<1>8. QED
  BY <1>2, <1>4, <1>5, <1>6, <1>7 DEF HasBoth, InTransaction

(* No fault but a signal makes a thread lose a lock it still counts on.    *)
LEMMA LocksInvariant ==
  ASSUME "signal" \notin Faults
  PROVE  Spec => []LocksHeld
<1>1. Init => LocksHeld
  BY DEF Init, LocksHeld, HasBoth, InTransaction
<1>2. TypeOK /\ Shape /\ LocksHeld /\ [Next]_vars => LocksHeld'
  <2> SUFFICES ASSUME TypeOK, Shape, LocksHeld, [Next]_vars PROVE LocksHeld'
    OBVIOUS
  <2> USE DatastoreAssumption
      DEF TypeOK, Shape, Phase, LocksHeld, HasBoth, InTransaction, Goto,
          DropFile, DropDb, data, locked
  <2>1. ASSUME NEW t \in Threads, Enter(t) PROVE LocksHeld'
    <3>1. \A u \in Threads : u # t => pc'[u] = pc[u] /\ stack'[u] = stack[u] /\ level'[u] = level[u]
      BY <2>1 DEF Enter
    <3>2. HasBoth(t)' => HasBoth(t)
      BY <2>1, EnterKeepsBoth
    <3>3. pc'[t] \notin {"filelock", "dbunlock"}
      BY <2>1 DEF Enter
    <3>4. dbLock' = dbLock /\ fileLock' = fileLock
      BY <2>1 DEF Enter
    <3>5. \A u \in Threads : HasBoth(u)' => HasBoth(u)
      BY <3>1, <3>2
    <3>6. \A u \in Threads : pc'[u] \in {"filelock", "dbunlock"} => pc[u] \in {"filelock", "dbunlock"}
      BY <3>1, <3>3
    <3>7. QED
      <4> HIDE DEF HasBoth, InTransaction
      <4> QED
        BY <3>4, <3>5, <3>6
  <2>2. ASSUME NEW t \in Threads, LockDb(t) PROVE LocksHeld'
    BY <2>2 DEF LockDb
  <2>3. ASSUME NEW t \in Threads, LockFile(t) PROVE LocksHeld'
    BY <2>3 DEF LockFile
  <2>4. ASSUME NEW t \in Threads, LockFileFails(t) PROVE LocksHeld'
    BY <2>4 DEF LockFileFails
  <2>5. ASSUME NEW t \in Threads, NEW k \in Keys, Read(t, k) PROVE LocksHeld'
    BY <2>5 DEF Read
  <2>6. ASSUME NEW t \in Threads, NEW k \in Keys, NEW v \in Values, Write(t, k, v)
       PROVE  LocksHeld'
    BY <2>6 DEF Write
  <2>7. ASSUME NEW t \in Threads, WriteRefused(t) PROVE LocksHeld'
    BY <2>7 DEF WriteRefused
  <2>8. ASSUME NEW t \in Threads, Raise(t) PROVE LocksHeld'
    BY <2>8 DEF Raise
  <2>9. ASSUME NEW t \in Threads, Exit(t) PROVE LocksHeld'
    <3>1. \A u \in Threads : u # t => pc'[u] = pc[u] /\ stack'[u] = stack[u] /\ level'[u] = level[u]
      BY <2>9 DEF Exit
    <3>2. HasBoth(t)' => HasBoth(t)
      BY <2>9, ExitKeepsBoth
    <3>3. pc'[t] \notin {"filelock", "dbunlock"}
      BY <2>9 DEF Exit
    <3>4. dbLock' = dbLock /\ fileLock' = fileLock
      BY <2>9 DEF Exit
    <3>5. \A u \in Threads : HasBoth(u)' => HasBoth(u)
      BY <3>1, <3>2
    <3>6. \A u \in Threads : pc'[u] \in {"filelock", "dbunlock"} => pc[u] \in {"filelock", "dbunlock"}
      BY <3>1, <3>3
    <3>7. QED
      <4> HIDE DEF HasBoth, InTransaction
      <4> QED
        BY <3>4, <3>5, <3>6
  <2>10. ASSUME NEW t \in Threads, Commit(t) PROVE LocksHeld'
    BY <2>10 DEF Commit
  <2>11. ASSUME NEW t \in Threads, CommitFails(t) PROVE LocksHeld'
    BY <2>11 DEF CommitFails
  <2>12. ASSUME NEW t \in Threads, UnlockFile(t) PROVE LocksHeld'
    BY <2>12 DEF UnlockFile
  <2>13. ASSUME NEW t \in Threads, UnlockDb(t) PROVE LocksHeld'
    BY <2>13 DEF UnlockDb
  <2>14. ASSUME NEW p \in Procs, Crash(p) PROVE LocksHeld'
    BY <2>14 DEF Crash
  <2>15. ASSUME NEW p \in Procs, Signal(p) PROVE LocksHeld'
    BY <2>15 DEF Signal
  <2>16. CASE UNCHANGED vars
    BY <2>16 DEF vars, data, locked
  <2>17. QED
    BY <2>1, <2>2, <2>3, <2>4, <2>5, <2>6, <2>7, <2>8, <2>9, <2>10,
       <2>11, <2>12, <2>13, <2>14, <2>15, <2>16
       DEF Next, Lock, Finish, Use
<1>3. QED
  BY <1>1, <1>2, ShapeInvariant, PTL DEF Spec
(* No two threads of any processes are inside a transaction, as long as no *)
(* signal takes the file lock from a thread that uses it.                  *)
THEOREM ExclusionHolds ==
  ASSUME "signal" \notin Faults
  PROVE  Spec => []Exclusion
<1>1. LocksHeld => Exclusion
  BY DatastoreAssumption DEF LocksHeld, HasBoth, Exclusion
<1>2. QED
  BY <1>1, LocksInvariant, PTL

-----------------------------------------------------------------------------
(* What a thread has read is current, and it starts with nothing read.     *)
ReadsCurrent ==
  \A t \in Threads :
    /\ pc[t] \in {"dblock", "filelock", "fileunlock", "dbunlock"} => reads[t] = Unread
    /\ pc[t] = "idle" /\ stack[t] = 0 => reads[t] = Unread
    /\ InTransaction(t) => \A k \in Keys : reads[t][k] \subseteq {db[k]}

(* While a thread has the database nobody else changes what it has read.   *)
LEMMA ReadsInvariant ==
  ASSUME "signal" \notin Faults
  PROVE  Spec => []ReadsCurrent
<1>1. Init => ReadsCurrent
  BY DEF Init, ReadsCurrent, InTransaction
<1>2. TypeOK /\ Shape /\ LocksHeld /\ ReadsCurrent /\ [Next]_vars => ReadsCurrent'
  <2> SUFFICES ASSUME TypeOK, Shape, LocksHeld, ReadsCurrent, [Next]_vars
               PROVE  ReadsCurrent'
    OBVIOUS
  <2> USE DatastoreAssumption
      DEF TypeOK, Shape, Phase, ReadsCurrent, InTransaction, Goto, data, locked, Unread
  <2>1. ASSUME NEW t \in Threads, Enter(t) PROVE ReadsCurrent'
    <3>1. \A u \in Threads : u # t => pc'[u] = pc[u] /\ stack'[u] = stack[u] /\ level'[u] = level[u]
      BY <2>1 DEF Enter
    <3>2. InTransaction(t)' => InTransaction(t)
      BY <2>1, EnterKeepsBoth DEF HasBoth, Enter
    <3>3. pc'[t] \in {"dblock", "body"} /\ (pc'[t] = "dblock" => pc[t] = "idle" /\ stack[t] = 0)
      BY <2>1 DEF Enter
    <3>4. reads' = reads /\ db' = db
      BY <2>1 DEF Enter
    <3>5. QED
      BY <3>1, <3>2, <3>3, <3>4
  <2>2. ASSUME NEW t \in Threads, LockDb(t) PROVE ReadsCurrent'
    BY <2>2 DEF LockDb
  <2>3. ASSUME NEW t \in Threads, LockFile(t) PROVE ReadsCurrent'
    BY <2>3 DEF LockFile
  <2>4. ASSUME NEW t \in Threads, LockFileFails(t) PROVE ReadsCurrent'
    BY <2>4 DEF LockFileFails
  <2>5. ASSUME NEW t \in Threads, NEW k \in Keys, Read(t, k) PROVE ReadsCurrent'
    <3>1. pc' = pc /\ stack' = stack /\ level' = level /\ db' = db /\ pc[t] = "body"
      BY <2>5 DEF Read, Store!Read
    <3>2. \A u \in Threads : u # t => reads'[u] = reads[u]
      BY <2>5 DEF Read, Store!Read
    <3>3. \A m \in Keys : reads'[t][m] \subseteq reads[t][m] \cup {db[m]}
      BY <2>5 DEF Read, Store!Read
    <3>4. QED
      BY <3>1, <3>2, <3>3
  <2>6. ASSUME NEW t \in Threads, NEW k \in Keys, NEW v \in Values, Write(t, k, v)
       PROVE  ReadsCurrent'
    BY <2>6 DEF Write, Store!Write
  <2>7. ASSUME NEW t \in Threads, WriteRefused(t) PROVE ReadsCurrent'
    BY <2>7 DEF WriteRefused
  <2>8. ASSUME NEW t \in Threads, Raise(t) PROVE ReadsCurrent'
    BY <2>8 DEF Raise
  <2>9. ASSUME NEW t \in Threads, Exit(t) PROVE ReadsCurrent'
    <3>1. \A u \in Threads : u # t => pc'[u] = pc[u] /\ stack'[u] = stack[u] /\ level'[u] = level[u]
      BY <2>9 DEF Exit
    <3>2. InTransaction(t)' => InTransaction(t)
      BY <2>9, ExitKeepsBoth DEF HasBoth, Exit
    <3>3. pc'[t] \in {"body", "commit", "idle"} /\ (pc'[t] = "idle" => stack'[t] # 0)
      <4>1. stack'[t] = stack[t] - 1 /\ stack[t] \in Nat
        BY <2>9 DEF Exit
      <4>2. pc'[t] \in {"body", "commit", "idle"} /\ (pc'[t] = "idle" => stack[t] # 1)
        BY <2>9 DEF Exit
      <4>3. QED
        BY <4>1, <4>2
    <3>4. reads' = reads /\ db' = db
      BY <2>9 DEF Exit
    <3>5. SUFFICES ASSUME NEW u \in Threads PROVE ReadsCurrent!(u)'
      OBVIOUS
    <3>6. CASE u # t
      BY <3>1, <3>4, <3>6
    <3>7. CASE u = t
      BY <3>2, <3>3, <3>4, <3>7
    <3>8. QED
      BY <3>6, <3>7
  <2>10. ASSUME NEW t \in Threads, Commit(t) PROVE ReadsCurrent'
    <3>1. reads'[t] = Unread /\ \A u \in Threads : u # t => reads'[u] = reads[u]
      BY <2>10 DEF Commit
    <3>2. \A u \in Threads : u # t => pc'[u] = pc[u]
      BY <2>10 DEF Commit
    <3>3. stack' = stack /\ level' = level
      BY <2>10 DEF Commit
    <3>4. InTransaction(t)
      <4>1. pc[t] = "commit"
        BY <2>10 DEF Commit
      <4>2. QED
        BY <4>1
    <3>5. \A u \in Threads : u # t => ~InTransaction(u)
      BY <3>4 DEF LocksHeld, HasBoth
    <3>6. QED
      BY <3>1, <3>2, <3>3, <3>5
  <2>11. ASSUME NEW t \in Threads, CommitFails(t) PROVE ReadsCurrent'
    <3>1. reads'[t] = Unread /\ \A u \in Threads : u # t => reads'[u] = reads[u]
      BY <2>11 DEF CommitFails
    <3>2. \A u \in Threads : u # t => pc'[u] = pc[u]
      BY <2>11 DEF CommitFails
    <3>3. stack' = stack /\ level' = level /\ db' = db
      BY <2>11 DEF CommitFails
    <3>4. QED
      BY <3>1, <3>2, <3>3
  <2>12. ASSUME NEW t \in Threads, UnlockFile(t) PROVE ReadsCurrent'
    BY <2>12 DEF UnlockFile
  <2>13. ASSUME NEW t \in Threads, UnlockDb(t) PROVE ReadsCurrent'
    BY <2>13 DEF UnlockDb
  <2>14. ASSUME NEW p \in Procs, Crash(p) PROVE ReadsCurrent'
    BY <2>14 DEF Crash
  <2>15. ASSUME NEW p \in Procs, Signal(p) PROVE ReadsCurrent'
    BY <2>15 DEF Signal
  <2>16. CASE UNCHANGED vars
    BY <2>16 DEF vars, data, locked
  <2>17. QED
    BY <2>1, <2>2, <2>3, <2>4, <2>5, <2>6, <2>7, <2>8, <2>9, <2>10,
       <2>11, <2>12, <2>13, <2>14, <2>15, <2>16
       DEF Next, Lock, Finish, Use
<1>3. QED
  BY <1>1, <1>2, ShapeInvariant, LocksInvariant, PTL DEF Spec

(* Nothing a transaction has read changes under it.                        *)
THEOREM IsolationHolds ==
  ASSUME "signal" \notin Faults
  PROVE  Spec => []Isolation
<1>1. ReadsCurrent => Isolation
  BY DEF ReadsCurrent, Isolation
<1>2. QED
  BY <1>1, ReadsInvariant, PTL

-----------------------------------------------------------------------------
(* The datastore implements the atomic store: a commit of the outermost    *)
(* with-block is the store's Commit, a failed commit or a crash discards,  *)
(* and everything else reads, writes or stutters.                          *)
THEOREM ImplementsStore ==
  ASSUME "signal" \notin Faults
  PROVE  Spec => Atomic
<1>1. Init => Store!Init
  BY DEF Init, Store!Init, Nothing, Unread, Store!Nothing, Store!Unread
<1>2. TypeOK /\ Shape /\ ReadsCurrent /\ [Next]_vars => [Store!Next]_Store!vars
  <2> SUFFICES ASSUME TypeOK, Shape, ReadsCurrent, [Next]_vars
               PROVE  [Store!Next]_Store!vars
    OBVIOUS
  <2> USE DatastoreAssumption
      DEF Store!Next, Store!vars, Nothing, Unread, Store!Nothing, Store!Unread, data
  <2>1. ASSUME NEW t \in Threads, Enter(t) PROVE [Store!Next]_Store!vars
    BY <2>1 DEF Enter
  <2>2. ASSUME NEW t \in Threads, LockDb(t) PROVE [Store!Next]_Store!vars
    BY <2>2 DEF LockDb
  <2>3. ASSUME NEW t \in Threads, LockFile(t) PROVE [Store!Next]_Store!vars
    BY <2>3 DEF LockFile
  <2>4. ASSUME NEW t \in Threads, LockFileFails(t) PROVE [Store!Next]_Store!vars
    BY <2>4 DEF LockFileFails
  <2>5. ASSUME NEW t \in Threads, NEW k \in Keys, Read(t, k) PROVE [Store!Next]_Store!vars
    BY <2>5 DEF Read
  <2>6. ASSUME NEW t \in Threads, NEW k \in Keys, NEW v \in Values, Write(t, k, v)
       PROVE  [Store!Next]_Store!vars
    BY <2>6 DEF Write
  <2>7. ASSUME NEW t \in Threads, WriteRefused(t) PROVE [Store!Next]_Store!vars
    BY <2>7 DEF WriteRefused
  <2>8. ASSUME NEW t \in Threads, Raise(t) PROVE [Store!Next]_Store!vars
    BY <2>8 DEF Raise
  <2>9. ASSUME NEW t \in Threads, Exit(t) PROVE [Store!Next]_Store!vars
    BY <2>9 DEF Exit
  <2>10. ASSUME NEW t \in Threads, Commit(t) PROVE [Store!Next]_Store!vars
    <3>1. pc[t] = "commit" /\ stack[t] = level[t]
      BY <2>10 DEF Commit, Shape
    <3>2. \A k \in Keys : reads[t][k] \subseteq {db[k]}
      BY <3>1 DEF ReadsCurrent, InTransaction
    <3>3. Store!Commit(t)
      BY <2>10, <3>2 DEF Commit, Store!Commit
    <3>4. QED
      BY <3>3
  <2>11. ASSUME NEW t \in Threads, CommitFails(t) PROVE [Store!Next]_Store!vars
    <3>1. reads' = [u \in Threads |-> IF u \in {t} THEN Unread ELSE reads[u]]
      BY <2>11 DEF CommitFails, TypeOK
    <3>2. \/ writes' = [u \in Threads |-> IF u \in {t} THEN Nothing ELSE writes[u]]
          \/ writes' = writes
      <4>1. CASE writes' = writes
        BY <4>1
      <4>2. CASE writes' = [writes EXCEPT ![t] = Nothing]
        BY <4>2 DEF TypeOK
      <4>3. QED
        BY <2>11, <4>1, <4>2 DEF CommitFails
    <3>3. Store!Discard({t})
      BY <2>11, <3>1, <3>2 DEF CommitFails, Store!Discard
    <3>4. QED
      BY <3>3
  <2>12. ASSUME NEW t \in Threads, UnlockFile(t) PROVE [Store!Next]_Store!vars
    BY <2>12 DEF UnlockFile
  <2>13. ASSUME NEW t \in Threads, UnlockDb(t) PROVE [Store!Next]_Store!vars
    BY <2>13 DEF UnlockDb
  <2>14. ASSUME NEW p \in Procs, Crash(p) PROVE [Store!Next]_Store!vars
    <3> DEFINE T == {u \in Threads : ProcOf[u] = p}
    <3>1. reads' = [u \in Threads |-> IF u \in T THEN Unread ELSE reads[u]]
      BY <2>14 DEF Crash
    <3>2. writes' = [u \in Threads |-> IF u \in T THEN Nothing ELSE writes[u]]
      BY <2>14 DEF Crash
    <3>3. Store!Discard(T)
      BY <2>14, <3>1, <3>2 DEF Crash, Store!Discard
    <3>4. QED
      BY <3>3
  <2>15. ASSUME NEW p \in Procs, Signal(p) PROVE [Store!Next]_Store!vars
    BY <2>15 DEF Signal
  <2>16. CASE UNCHANGED vars
    BY <2>16 DEF vars, data, locked
  <2>17. QED
    BY <2>1, <2>2, <2>3, <2>4, <2>5, <2>6, <2>7, <2>8, <2>9, <2>10,
       <2>11, <2>12, <2>13, <2>14, <2>15, <2>16
       DEF Next, Lock, Finish, Use
<1>3. QED
  BY <1>1, <1>2, ShapeInvariant, ReadsInvariant, PTL DEF Spec, Atomic, Store!Spec
-----------------------------------------------------------------------------
(* The thread that has db_lock is where it gives it back: the converse of  *)
(* LocksHeld.                                                              *)
HolderInside ==
  \A t \in Threads : dbLock[ProcOf[t]] = t =>
    pc[t] \in {"filelock", "dbunlock"} \/ HasBoth(t)

(* Entering a nested with-block keeps the transaction open.                *)
LEMMA EnterKeepsOpen ==
  ASSUME NEW t \in Threads, TypeOK, Shape, Enter(t), pc[t] = "body", InTransaction(t)
  PROVE  InTransaction(t)'
<1>1. stack[t] \in Nat /\ level[t] \in Nat /\ stack[t] # 0
  BY DatastoreAssumption DEF TypeOK, Shape
<1>2. pc'[t] = "body" /\ stack'[t] = stack[t] + 1 /\ level'[t] = level[t] + 1
  BY <1>1 DEF Enter, Goto, TypeOK
<1>3. QED
  BY <1>2 DEF InTransaction

(* Leaving a nested with-block keeps the transaction open.                 *)
LEMMA ExitKeepsOpen ==
  ASSUME NEW t \in Threads, TypeOK, Shape, Exit(t), InTransaction(t)
  PROVE  InTransaction(t)'
<1>1. stack[t] = level[t] /\ stack'[t] = stack[t] - 1 /\ level'[t] = level[t] - 1
  BY DEF Exit, TypeOK, InTransaction
<1>2. pc'[t] \in {"body", "commit"}
  BY <1>1 DEF Exit, Goto, TypeOK
<1>3. QED
  BY <1>1, <1>2 DEF InTransaction

(* HolderInside holds when every thread comes to _unlock by itself.        *)
LEMMA HolderInvariant ==
  ASSUME "signal" \notin Faults, "commit" \notin Faults
  PROVE  Spec => []HolderInside
<1>1. Init => HolderInside
  BY DatastoreAssumption DEF Init, HolderInside
<1>2. TypeOK /\ Shape /\ LocksHeld /\ HolderInside /\ [Next]_vars => HolderInside'
  <2> SUFFICES ASSUME TypeOK, Shape, LocksHeld, HolderInside, [Next]_vars
               PROVE  HolderInside'
    OBVIOUS
  <2> USE DatastoreAssumption
      DEF TypeOK, Shape, Phase, LocksHeld, HolderInside, HasBoth, InTransaction,
          Goto, DropFile, DropDb, data, locked
  <2>1. ASSUME NEW t \in Threads, Enter(t) PROVE HolderInside'
    <3>1. \A u \in Threads : u # t => pc'[u] = pc[u] /\ stack'[u] = stack[u] /\ level'[u] = level[u]
      BY <2>1 DEF Enter
    <3>2. pc[t] = "body" /\ HasBoth(t) => HasBoth(t)'
      BY <2>1, EnterKeepsOpen DEF InTransaction, HasBoth
    <3>3. dbLock' = dbLock /\ pc[t] \in {"idle", "body"}
      BY <2>1 DEF Enter
    <3>4. QED
      BY <3>1, <3>2, <3>3
  <2>2. ASSUME NEW t \in Threads, LockDb(t) PROVE HolderInside'
    BY <2>2 DEF LockDb
  <2>3. ASSUME NEW t \in Threads, LockFile(t) PROVE HolderInside'
    BY <2>3 DEF LockFile
  <2>4. ASSUME NEW t \in Threads, LockFileFails(t) PROVE HolderInside'
    BY <2>4 DEF LockFileFails
  <2>5. ASSUME NEW t \in Threads, NEW k \in Keys, Read(t, k) PROVE HolderInside'
    BY <2>5 DEF Read
  <2>6. ASSUME NEW t \in Threads, NEW k \in Keys, NEW v \in Values, Write(t, k, v)
       PROVE  HolderInside'
    BY <2>6 DEF Write
  <2>7. ASSUME NEW t \in Threads, WriteRefused(t) PROVE HolderInside'
    BY <2>7 DEF WriteRefused
  <2>8. ASSUME NEW t \in Threads, Raise(t) PROVE HolderInside'
    BY <2>8 DEF Raise
  <2>9. ASSUME NEW t \in Threads, Exit(t) PROVE HolderInside'
    <3>1. \A u \in Threads : u # t => pc'[u] = pc[u] /\ stack'[u] = stack[u] /\ level'[u] = level[u]
      BY <2>9 DEF Exit
    <3>2. pc[t] = "body" /\ HasBoth(t) => HasBoth(t)'
      BY <2>9, ExitKeepsOpen DEF InTransaction, HasBoth
    <3>3. dbLock' = dbLock /\ pc[t] = "body"
      BY <2>9 DEF Exit
    <3>4. SUFFICES ASSUME NEW u \in Threads PROVE HolderInside!(u)'
      OBVIOUS
    <3>5. CASE u # t
      BY <3>1, <3>3, <3>5
    <3>6. CASE u = t
      BY <3>2, <3>3, <3>6
    <3>7. QED
      BY <3>5, <3>6
  <2>10. ASSUME NEW t \in Threads, Commit(t) PROVE HolderInside'
    BY <2>10 DEF Commit
  <2>11. ASSUME NEW t \in Threads, CommitFails(t) PROVE HolderInside'
    BY <2>11 DEF CommitFails
  <2>12. ASSUME NEW t \in Threads, UnlockFile(t) PROVE HolderInside'
    BY <2>12 DEF UnlockFile
  <2>13. ASSUME NEW t \in Threads, UnlockDb(t) PROVE HolderInside'
    BY <2>13 DEF UnlockDb
  <2>14. ASSUME NEW p \in Procs, Crash(p) PROVE HolderInside'
    BY <2>14 DEF Crash
  <2>15. ASSUME NEW p \in Procs, Signal(p) PROVE HolderInside'
    BY <2>15 DEF Signal
  <2>16. CASE UNCHANGED vars
    BY <2>16 DEF vars, data, locked
  <2>17. QED
    BY <2>1, <2>2, <2>3, <2>4, <2>5, <2>6, <2>7, <2>8, <2>9, <2>10,
       <2>11, <2>12, <2>13, <2>14, <2>15, <2>16
       DEF Next, Lock, Finish, Use
<1>3. QED
  BY <1>1, <1>2, ShapeInvariant, LocksInvariant, PTL DEF Spec

(* A thread outside all with-blocks has no lock, unless a signal or a      *)
(* failed commit took it out before _unlock.                               *)
THEOREM OutsideUnlockedHolds ==
  ASSUME "signal" \notin Faults, "commit" \notin Faults
  PROVE  Spec => []OutsideUnlocked
<1>1. TypeOK /\ HolderInside => OutsideUnlocked
  BY DEF TypeOK, HolderInside, HasBoth, InTransaction, OutsideUnlocked
<1>2. QED
  BY <1>1, TypeCorrect, HolderInvariant, PTL

-----------------------------------------------------------------------------
(* Who has the lock file and db_lock: a process has the lock file through  *)
(* the thread that has its db_lock, and db_lock is with a thread of the    *)
(* process.                                                                *)
FileHeld ==
  /\ \A p \in Procs : dbLock[p] # NoThread => ProcOf[dbLock[p]] = p
  /\ fileLock # NoProc => dbLock[fileLock] # NoThread /\ HasBoth(dbLock[fileLock])

(* FileHeld holds when every thread comes to _unlock by itself.            *)
LEMMA FileHeldInvariant ==
  ASSUME "signal" \notin Faults, "commit" \notin Faults
  PROVE  Spec => []FileHeld
<1>1. Init => FileHeld
  BY DatastoreAssumption DEF Init, FileHeld
<1>2. TypeOK /\ Shape /\ LocksHeld /\ FileHeld /\ [Next]_vars => FileHeld'
  <2> SUFFICES ASSUME TypeOK, Shape, LocksHeld, FileHeld, [Next]_vars
               PROVE  FileHeld'
    OBVIOUS
  <2> USE DatastoreAssumption
      DEF TypeOK, Shape, Phase, LocksHeld, FileHeld, HasBoth, InTransaction,
          Goto, DropFile, DropDb, data, locked
  <2>1. ASSUME NEW t \in Threads, Enter(t) PROVE FileHeld'
    <3>1. \A u \in Threads : u # t => pc'[u] = pc[u] /\ stack'[u] = stack[u] /\ level'[u] = level[u]
      BY <2>1 DEF Enter
    <3>2. HasBoth(t) => HasBoth(t)'
      <4>1. HasBoth(t) => pc[t] = "body" /\ InTransaction(t)
        BY <2>1 DEF Enter
      <4>2. pc[t] = "body" /\ InTransaction(t) => InTransaction(t)'
        <5> HIDE DEF InTransaction
        <5> QED BY <2>1, EnterKeepsOpen
      <4> QED BY <4>1, <4>2
    <3>3. dbLock' = dbLock /\ fileLock' = fileLock
      BY <2>1 DEF Enter
    <3>4. \A u \in Threads : HasBoth(u) => HasBoth(u)'
      BY <3>1, <3>2
    <3>5. CASE fileLock = NoProc
      BY <3>3, <3>5
    <3>6. CASE fileLock # NoProc
      <4>1. PICK u \in Threads : u = dbLock[fileLock]
        BY <3>6
      <4>2. HasBoth(u)
        BY <3>6, <4>1
      <4>3. HasBoth(u)'
        <5> HIDE DEF HasBoth, InTransaction
        <5> QED BY <3>4, <4>2
      <4> QED BY <3>3, <4>1, <4>3
    <3>7. QED
      BY <3>5, <3>6
  <2>2. ASSUME NEW t \in Threads, LockDb(t) PROVE FileHeld'
    BY <2>2 DEF LockDb
  <2>3. ASSUME NEW t \in Threads, LockFile(t) PROVE FileHeld'
    BY <2>3 DEF LockFile
  <2>4. ASSUME NEW t \in Threads, LockFileFails(t) PROVE FileHeld'
    BY <2>4 DEF LockFileFails
  <2>5. ASSUME NEW t \in Threads, NEW k \in Keys, Read(t, k) PROVE FileHeld'
    BY <2>5 DEF Read
  <2>6. ASSUME NEW t \in Threads, NEW k \in Keys, NEW v \in Values, Write(t, k, v)
       PROVE  FileHeld'
    BY <2>6 DEF Write
  <2>7. ASSUME NEW t \in Threads, WriteRefused(t) PROVE FileHeld'
    BY <2>7 DEF WriteRefused
  <2>8. ASSUME NEW t \in Threads, Raise(t) PROVE FileHeld'
    BY <2>8 DEF Raise
  <2>9. ASSUME NEW t \in Threads, Exit(t) PROVE FileHeld'
    <3>1. \A u \in Threads : u # t => pc'[u] = pc[u] /\ stack'[u] = stack[u] /\ level'[u] = level[u]
      BY <2>9 DEF Exit
    <3>2. HasBoth(t) => HasBoth(t)'
      <4>1. HasBoth(t) => pc[t] = "body" /\ InTransaction(t)
        BY <2>9 DEF Exit
      <4>2. pc[t] = "body" /\ InTransaction(t) => InTransaction(t)'
        <5> HIDE DEF InTransaction
        <5> QED BY <2>9, ExitKeepsOpen
      <4> QED BY <4>1, <4>2
    <3>3. dbLock' = dbLock /\ fileLock' = fileLock
      BY <2>9 DEF Exit
    <3>4. \A u \in Threads : HasBoth(u) => HasBoth(u)'
      BY <3>1, <3>2
    <3>5. CASE fileLock = NoProc
      BY <3>3, <3>5
    <3>6. CASE fileLock # NoProc
      <4>1. PICK u \in Threads : u = dbLock[fileLock]
        BY <3>6
      <4>2. HasBoth(u)
        BY <3>6, <4>1
      <4>3. HasBoth(u)'
        <5> HIDE DEF HasBoth, InTransaction
        <5> QED BY <3>4, <4>2
      <4> QED BY <3>3, <4>1, <4>3
    <3>7. QED
      BY <3>5, <3>6
  <2>10. ASSUME NEW t \in Threads, Commit(t) PROVE FileHeld'
    BY <2>10 DEF Commit
  <2>11. ASSUME NEW t \in Threads, CommitFails(t) PROVE FileHeld'
    BY <2>11 DEF CommitFails
  <2>12. ASSUME NEW t \in Threads, UnlockFile(t) PROVE FileHeld'
    BY <2>12 DEF UnlockFile
  <2>13. ASSUME NEW t \in Threads, UnlockDb(t) PROVE FileHeld'
    BY <2>13 DEF UnlockDb
  <2>14. ASSUME NEW p \in Procs, Crash(p) PROVE FileHeld'
    BY <2>14 DEF Crash
  <2>15. ASSUME NEW p \in Procs, Signal(p) PROVE FileHeld'
    BY <2>15 DEF Signal
  <2>16. CASE UNCHANGED vars
    BY <2>16 DEF vars, data, locked
  <2>17. QED
    BY <2>1, <2>2, <2>3, <2>4, <2>5, <2>6, <2>7, <2>8, <2>9, <2>10,
       <2>11, <2>12, <2>13, <2>14, <2>15, <2>16
       DEF Next, Lock, Finish, Use
<1>3. QED
  BY <1>1, <1>2, ShapeInvariant, LocksInvariant, PTL DEF Spec

(* The guards of the steps that bring a thread through __enter__, out of   *)
(* its with-block and through __exit__.                                    *)
CanGo(t) ==
  \/ pc[t] = "dblock" /\ dbLock[ProcOf[t]] = NoThread
  \/ pc[t] = "filelock" /\ (locksOkay[ProcOf[t]] => fileLock \in {NoProc, ProcOf[t]})
  \/ pc[t] \in {"body", "commit", "fileunlock", "dbunlock"}

(* A thread that is not outside can go on itself, or another one can that  *)
(* has db_lock of the same process or the lock file.                       *)
NeverStuck ==
  \A t \in Threads : pc[t] # "idle" =>
    \E u \in Threads :
      /\ CanGo(u)
      /\ u = t \/ (dbLock[ProcOf[u]] = u /\ ProcOf[u] \in {ProcOf[t], fileLock})

(* The two locks are taken in one order and given back by whoever took     *)
(* them, so that nobody waits for somebody who waits in turn: for any      *)
(* processes and threads, through refused locks, exceptions and crashes,   *)
(* as long as no signal and no failed commit takes a thread out of         *)
(* __exit__ before _unlock.                                                *)
THEOREM NeverStuckHolds ==
  ASSUME "signal" \notin Faults, "commit" \notin Faults
  PROVE  Spec => []NeverStuck
<1>1. TypeOK /\ LocksHeld /\ HolderInside /\ FileHeld => NeverStuck
  <2> SUFFICES ASSUME TypeOK, LocksHeld, HolderInside, FileHeld,
                      NEW t \in Threads, pc[t] # "idle"
               PROVE  \E u \in Threads :
                        /\ CanGo(u)
                        /\ u = t \/ (dbLock[ProcOf[u]] = u /\ ProcOf[u] \in {ProcOf[t], fileLock})
    BY DEF NeverStuck
  <2> USE DatastoreAssumption
  <2>1. ProcOf[t] \in Procs /\ pc[t] \in Phase
    BY DEF TypeOK
  <2>2. ASSUME NEW h \in Threads, pc[h] = "filelock", ~CanGo(h)
        PROVE  \E u \in Threads : CanGo(u) /\ dbLock[ProcOf[u]] = u /\ ProcOf[u] = fileLock
    <3>1. fileLock # NoProc /\ fileLock \in Procs
      BY <2>2 DEF CanGo, TypeOK
    <3>2. PICK u \in Threads : u = dbLock[fileLock]
      BY <3>1 DEF FileHeld, TypeOK
    <3>3. ProcOf[u] = fileLock /\ HasBoth(u)
      BY <3>1, <3>2 DEF FileHeld
    <3>4. CanGo(u)
      BY <3>3 DEF CanGo, HasBoth, InTransaction
    <3> QED BY <3>2, <3>3, <3>4
  <2>3. CASE pc[t] = "filelock"
    BY <2>2, <2>3
  <2>4. CASE pc[t] = "dblock"
    <3>1. CASE dbLock[ProcOf[t]] = NoThread
      BY <2>4, <3>1 DEF CanGo
    <3>2. CASE dbLock[ProcOf[t]] # NoThread
      <4>1. PICK h \in Threads : h = dbLock[ProcOf[t]]
        BY <2>1, <3>2 DEF TypeOK
      <4>2. ProcOf[h] = ProcOf[t]
        BY <2>1, <3>2, <4>1 DEF FileHeld
      <4>3. pc[h] \in {"filelock", "dbunlock"} \/ HasBoth(h)
        BY <4>1, <4>2 DEF HolderInside
      <4>4. pc[h] # "filelock" => CanGo(h)
        BY <4>3 DEF CanGo, HasBoth, InTransaction
      <4> QED BY <2>2, <4>1, <4>2, <4>4
    <3> QED BY <3>1, <3>2
  <2>5. CASE pc[t] \in {"body", "commit", "fileunlock", "dbunlock"}
    BY <2>5 DEF CanGo
  <2> QED BY <2>1, <2>3, <2>4, <2>5 DEF Phase
<1>2. QED
  BY <1>1, TypeCorrect, LocksInvariant, HolderInvariant, FileHeldInvariant, PTL

=============================================================================
