---------------------------- MODULE WorkPoolProofs ----------------------------
(* Theorems about WorkPool, for any number of workers and tasks.           *)
EXTENDS WorkPool, FiniteSetTheorems, SequenceTheorems, TLAPS

(* Any set of workers is finite and no larger than the pool.               *)
LEMMA PoolSize ==
  ASSUME NEW S, S \subseteq Workers
  PROVE  IsFiniteSet(S) /\ Cardinality(S) \in 0 .. Cardinality(Workers)
<1>1. IsFiniteSet(S) /\ Cardinality(S) <= Cardinality(Workers)
  BY WorkPoolAssumption, FS_Subset
<1>2. Cardinality(S) \in Nat /\ Cardinality(Workers) \in Nat
  BY <1>1, WorkPoolAssumption, FS_CardinalityType
<1>3. QED
  BY <1>1, <1>2

(* The number of workers is a count.                                       *)
LEMMA Counts == Cardinality(Workers) \in Nat /\ 0 \in 0 .. Cardinality(Workers)
  BY WorkPoolAssumption, FS_CardinalityType

(* What the three deque operations do to the queue.                        *)
LEMMA Appended ==
  ASSUME NEW q \in Seq(Item), NEW x \in Item
  PROVE  /\ Append(q, x) \in Seq(Item)
         /\ Len(Append(q, x)) = Len(q) + 1
         /\ \A i \in 1 .. Len(q) : Append(q, x)[i] = q[i]
         /\ Append(q, x)[Len(q) + 1] = x
  BY AppendProperties

(* appendleft puts one item before the others.                             *)
LEMMA Pushed ==
  ASSUME NEW q \in Seq(Item), NEW x \in Item
  PROVE  <<x>> \o q \in Seq(Item) /\ Len(<<x>> \o q) = Len(q) + 1
<1>1. <<x>> \in Seq(Item) /\ Len(<<x>>) = 1
  OBVIOUS
<1>2. Len(q) \in Nat
  BY LenProperties
<1>3. QED
  BY <1>1, <1>2, ConcatProperties

(* popleft takes the first item and moves the others up.                   *)
LEMMA Popped ==
  ASSUME NEW q \in Seq(Item), q # <<>>
  PROVE  /\ Tail(q) \in Seq(Item)
         /\ Len(Tail(q)) = Len(q) - 1
         /\ \A i \in 1 .. Len(q) - 1 : Tail(q)[i] = q[i + 1]
         /\ Len(q) \in Nat \ {0}
         /\ Head(q) = q[1] /\ Head(q) \in Item
<1>1. Len(q) \in Nat \ {0}
  BY EmptySeq
<1>2. Head(q) = q[1]
  OBVIOUS
<1>3. QED
  BY <1>1, <1>2, HeadTailProperties

-----------------------------------------------------------------------------
(* A worker that works has a task, not a barrier or a termination, and a   *)
(* thread that is yet to be started is nowhere.                            *)
Places ==
  /\ \A w \in Workers : wpc[w] = "work" => work[w] \in Tasks
  /\ mpc = "added" => cur \in Workers /\ wpc[cur] = "none"

(* Types, and the places that they depend on.                              *)
LEMMA TypeInvariant == Spec => [](TypeOK /\ Places)
<1>1. Init => TypeOK /\ Places
  <2>1. <<>> \in Seq(Item)
    BY EmptySeq
  <2>2. Init => TypeOK
    <3> SUFFICES ASSUME Init PROVE TypeOK
      OBVIOUS
    <3>1. queue \in Seq(Item) /\ left \in 0 .. Cardinality(Workers)
      BY <2>1, Counts DEF Init
    <3>2. Terminate \in Item /\ work = [w \in Workers |-> Terminate]
      BY DEF Init, Item
    <3>3. QED
      BY <3>1, <3>2 DEF Init, TypeOK
  <2>3. Init => Places
    BY DEF Init, Places
  <2>4. QED
    BY <2>2, <2>3
<1>2. TypeOK /\ Places /\ [Next]_vars => TypeOK' /\ Places'
  <2> SUFFICES ASSUME TypeOK, Places, [Next]_vars PROVE TypeOK' /\ Places'
    OBVIOUS
  <2> USE DEF TypeOK, Places, Item, Goto, Kill, master, worker, work_queue
  <2>1. ASSUME NEW w \in Workers, AddThread(w) PROVE TypeOK' /\ Places'
    BY <2>1 DEF AddThread
  <2>2. ASSUME StartThread PROVE TypeOK' /\ Places'
    BY <2>2 DEF StartThread
  <2>3. ASSUME NextThread PROVE TypeOK' /\ Places'
    BY <2>3 DEF NextThread
  <2>4. ASSUME NEW t \in Tasks, AddWork(t) PROVE TypeOK' /\ Places'
    BY <2>4, Appended DEF AddWork
  <2>5. ASSUME Release PROVE TypeOK' /\ Places'
    BY <2>5 DEF Release
  <2>6. ASSUME NEW e \in BOOLEAN, BeginBarrier(e) PROVE TypeOK' /\ Places'
    BY <2>6, PoolSize DEF BeginBarrier
  <2>7. ASSUME AddBarrier PROVE TypeOK' /\ Places'
    BY <2>7, Counts, Appended DEF AddBarrier
  <2>8. ASSUME EndBarrier PROVE TypeOK' /\ Places'
    BY <2>8, PoolSize DEF EndBarrier
  <2>9. ASSUME Raise PROVE TypeOK' /\ Places'
    BY <2>9, PoolSize DEF Raise
  <2>10. ASSUME AddTerminate PROVE TypeOK' /\ Places'
    BY <2>10, Counts, Pushed DEF AddTerminate
  <2>11. ASSUME Join PROVE TypeOK' /\ Places'
    BY <2>11 DEF Join
  <2>12. ASSUME NEW w \in Workers, Iterate(w) PROVE TypeOK' /\ Places'
    BY <2>12, PoolSize DEF Iterate
  <2>13. ASSUME NEW w \in Workers, Valid(w) PROVE TypeOK' /\ Places'
    BY <2>13 DEF Valid
  <2>14. ASSUME NEW w \in Workers, Check(w) PROVE TypeOK' /\ Places'
    BY <2>14 DEF Check
  <2>15. ASSUME NEW w \in Workers, Acquire(w) PROVE TypeOK' /\ Places'
    BY <2>15 DEF Acquire
  <2>16. ASSUME NEW w \in Workers, Pop(w) PROVE TypeOK' /\ Places'
    <3>1. CASE queue = <<>>
      BY <2>16, <3>1 DEF Pop
    <3>2. CASE queue # <<>>
      <4>1. Tail(queue) \in Seq(Item) /\ Head(queue) \in Item
        BY <3>2, Popped
      <4>2. /\ Goto(w, CASE Head(queue) = Terminate -> "gone"
                          [] Head(queue) = Barrier   -> "reach"
                          [] OTHER                   -> "work")
            /\ work' = [work EXCEPT ![w] = Head(queue)]
            /\ queue' = Tail(queue) /\ wpc[w] = "pop" /\ mpc' = mpc /\ cur' = cur
        BY <2>16, <3>2 DEF Pop
      <4>3. Places'
        BY <4>1, <4>2
      <4>4. TypeOK'
        BY <2>16, <4>1, <4>2 DEF Pop
      <4>5. QED
        BY <4>3, <4>4
    <3>3. QED
      BY <3>1, <3>2
  <2>17. ASSUME NEW w \in Workers, Work(w) PROVE TypeOK' /\ Places'
    BY <2>17 DEF Work
  <2>18. ASSUME NEW w \in Workers, WorkCaught(w) PROVE TypeOK' /\ Places'
    BY <2>18 DEF WorkCaught
  <2>19. ASSUME NEW w \in Workers, Arrive(w) PROVE TypeOK' /\ Places'
    BY <2>19 DEF Arrive
  <2>20. ASSUME Signal PROVE TypeOK' /\ Places'
    BY <2>20, PoolSize DEF Signal
  <2>21. CASE UNCHANGED vars
    BY <2>21 DEF vars
  <2>22. QED
    BY <2>1, <2>2, <2>3, <2>4, <2>5, <2>6, <2>7, <2>8, <2>9, <2>10,
       <2>11, <2>12, <2>13, <2>14, <2>15, <2>16, <2>17, <2>18, <2>19,
       <2>20, <2>21
       DEF Next, Start, Leave, Client, Step
<1>3. QED
  BY <1>1, <1>2, PTL DEF Spec

(* Types, and the counters stay in range.                                  *)
THEOREM TypeCorrect == Spec => []TypeOK
  BY TypeInvariant, PTL

-----------------------------------------------------------------------------
(* Every permit of the semaphore, and every worker that has taken one, has *)
(* an item of its own in the queue.                                        *)
Popping == {w \in Workers : wpc[w] = "pop"}
Permits == sem + owed + Cardinality(Popping) <= Len(queue)

(* A step that adds no more permits than items keeps Permits.              *)
LEMMA PermitsKept ==
  ASSUME TypeOK, TypeOK', Permits,
         Popping' \subseteq Popping,
         sem' + owed' <= sem + owed + (Len(queue') - Len(queue))
  PROVE  Permits'
<1>1. Len(queue) \in Nat /\ Len(queue') \in Nat
  BY LenProperties DEF TypeOK
<1>2. IsFiniteSet(Popping) /\ Cardinality(Popping) \in Nat
  BY PoolSize DEF Popping
<1>3. Cardinality(Popping') \in Nat /\ Cardinality(Popping') <= Cardinality(Popping)
  BY <1>2, FS_Subset, FS_CardinalityType
<1>4. sem \in Nat /\ sem' \in Nat /\ owed \in Nat /\ owed' \in Nat
  BY DEF TypeOK
<1>5. QED
  BY SMTT(30), <1>1, <1>2, <1>3, <1>4 DEF Permits

(* No worker that has a permit finds the queue empty.                      *)
LEMMA PermitsInvariant == Spec => []Permits
<1>1. Init => Permits
  <2>1. ASSUME Init PROVE Popping = {} /\ queue = <<>> /\ sem = 0 /\ owed = 0
    BY <2>1 DEF Init, Popping
  <2>2. QED
    BY <2>1, FS_EmptySet DEF Permits
<1>2. TypeOK /\ TypeOK' /\ Permits /\ [Next]_vars => Permits'
  <2> SUFFICES ASSUME TypeOK, TypeOK', Permits, [Next]_vars PROVE Permits'
    OBVIOUS
  <2>0. Len(queue) \in Nat /\ sem \in Nat /\ owed \in {0, 1}
    BY LenProperties DEF TypeOK
  <2> DEFINE Same == Popping' \subseteq Popping /\ queue' = queue /\ sem' = sem /\ owed' <= owed
             Longer == Popping' \subseteq Popping /\ Len(queue') = Len(queue) + 1
                       /\ sem' = sem /\ owed = 0 /\ owed' = 1
  <2>a. Same => Permits'
    <3>1. ASSUME Same PROVE sem' + owed' <= sem + owed + (Len(queue') - Len(queue))
      <4>1. sem' = sem /\ owed' <= owed /\ Len(queue') - Len(queue) = 0
        BY <3>1, <2>0
      <4>2. sem \in Nat /\ owed \in Nat /\ owed' \in Nat
        BY DEF TypeOK
      <4>3. QED
        BY <4>1, <4>2
    <3>2. QED
      BY <3>1, PermitsKept
  <2>b. Longer => Permits'
    BY <2>0, PermitsKept DEF TypeOK
  <2>1. ASSUME NEW w \in Workers, AddThread(w) PROVE Permits'
    BY <2>1, <2>0, <2>a DEF AddThread, Popping, Goto, Kill, TypeOK, master, worker, work_queue
  <2>2. ASSUME StartThread PROVE Permits'
    BY <2>2, <2>0, <2>a DEF StartThread, Popping, Goto, Kill, TypeOK, master, worker, work_queue
  <2>3. ASSUME NextThread PROVE Permits'
    BY <2>3, <2>0, <2>a DEF NextThread, Popping, Goto, Kill, TypeOK, master, worker, work_queue
  <2>4. ASSUME NEW t \in Tasks, AddWork(t) PROVE Permits'
    BY <2>4, <2>b, Appended DEF AddWork, Popping, TypeOK, Item, master, worker
  <2>5. ASSUME Release PROVE Permits'
    <3>1. sem' + owed' = sem + owed /\ queue' = queue /\ Popping' = Popping
      BY <2>5, <2>0 DEF Release, Popping, worker
    <3>2. QED
      BY <3>1, <2>0, PermitsKept
  <2>6. ASSUME NEW e \in BOOLEAN, BeginBarrier(e) PROVE Permits'
    BY <2>6, <2>0, <2>a DEF BeginBarrier, Popping, Goto, Kill, TypeOK, master, worker, work_queue
  <2>7. ASSUME AddBarrier PROVE Permits'
    BY <2>7, <2>b, Appended DEF AddBarrier, Popping, TypeOK, Item, worker
  <2>8. ASSUME EndBarrier PROVE Permits'
    BY <2>8, <2>0, <2>a DEF EndBarrier, Popping, Goto, Kill, TypeOK, master, worker, work_queue
  <2>9. ASSUME Raise PROVE Permits'
    BY <2>9, <2>0, <2>a DEF Raise, Popping, Goto, Kill, TypeOK, master, worker, work_queue
  <2>10. ASSUME AddTerminate PROVE Permits'
    BY <2>10, <2>b, Pushed DEF AddTerminate, Popping, TypeOK, Item, worker
  <2>11. ASSUME Join PROVE Permits'
    BY <2>11, <2>0, <2>a DEF Join, Popping, Goto, Kill, TypeOK, master, worker, work_queue
  <2>12. ASSUME NEW w \in Workers, Iterate(w) PROVE Permits'
    BY <2>12, <2>0, <2>a DEF Iterate, Popping, Goto, Kill, TypeOK, master, worker, work_queue
  <2>13. ASSUME NEW w \in Workers, Valid(w) PROVE Permits'
    BY <2>13, <2>0, <2>a DEF Valid, Popping, Goto, Kill, TypeOK, master, worker, work_queue
  <2>14. ASSUME NEW w \in Workers, Check(w) PROVE Permits'
    BY <2>14, <2>0, <2>a DEF Check, Popping, Goto, Kill, TypeOK, master, worker, work_queue
  <2>15. ASSUME NEW w \in Workers, Acquire(w) PROVE Permits'
    <3>1. Popping' = Popping \cup {w} /\ w \notin Popping
      BY <2>15 DEF Acquire, Popping, Goto, TypeOK
    <3>2. IsFiniteSet(Popping) /\ Cardinality(Popping) \in Nat
      BY PoolSize DEF Popping
    <3>3. Cardinality(Popping') = Cardinality(Popping) + 1
      BY <3>1, <3>2, FS_AddElement
    <3>4. sem' = sem - 1 /\ owed' = owed /\ queue' = queue
      BY <2>15 DEF Acquire
    <3>5. QED
      BY <3>2, <3>3, <3>4, <2>0 DEF Permits
  <2>16. ASSUME NEW w \in Workers, Pop(w) PROVE Permits'
    <3>1. w \in Popping /\ Popping' = Popping \ {w}
      BY <2>16 DEF Pop, Popping, Goto, TypeOK
    <3>2. IsFiniteSet(Popping) /\ Cardinality(Popping) \in Nat
      BY PoolSize DEF Popping
    <3>3. Cardinality(Popping') = Cardinality(Popping) - 1
      BY <3>1, <3>2, FS_RemoveElement
    <3>4. Cardinality(Popping) # 0
      BY <3>1, <3>2, FS_EmptySet
    <3>5. queue # <<>>
      BY <3>2, <3>4, <2>0 DEF Permits
    <3>6. Len(queue') = Len(queue) - 1 /\ sem' = sem /\ owed' = owed
      BY <2>16, <3>5, Popped DEF Pop, TypeOK, work_queue
    <3>7. QED
      BY <3>2, <3>3, <3>6, <2>0 DEF Permits
  <2>17. ASSUME NEW w \in Workers, Work(w) PROVE Permits'
    BY <2>17, <2>0, <2>a DEF Work, Popping, Goto, Kill, TypeOK, master, worker, work_queue
  <2>18. ASSUME NEW w \in Workers, WorkCaught(w) PROVE Permits'
    BY <2>18, <2>0, <2>a DEF WorkCaught, Popping, Goto, Kill, TypeOK, master, worker, work_queue
  <2>19. ASSUME NEW w \in Workers, Arrive(w) PROVE Permits'
    BY <2>19, <2>0, <2>a DEF Arrive, Popping, Goto, Kill, TypeOK, master, worker, work_queue
  <2>20. ASSUME Signal PROVE Permits'
    BY <2>20, <2>0, <2>a DEF Signal, Popping, Goto, Kill, TypeOK, master, worker, work_queue
  <2>21. CASE UNCHANGED vars
    BY <2>21, <2>0, <2>a DEF vars, Popping, worker, work_queue
  <2>22. QED
    BY <2>1, <2>2, <2>3, <2>4, <2>5, <2>6, <2>7, <2>8, <2>9, <2>10,
       <2>11, <2>12, <2>13, <2>14, <2>15, <2>16, <2>17, <2>18, <2>19,
       <2>20, <2>21
       DEF Next, Start, Leave, Client, Step
<1>3. QED
  BY <1>1, <1>2, TypeCorrect, PTL DEF Spec

(* popleft never finds the deque empty.                                    *)
THEOREM PopFindsItemHolds == Spec => []PopFindsItem
<1>1. TypeOK /\ Permits => PopFindsItem
  <2> SUFFICES ASSUME TypeOK, Permits, NEW w \in Workers, wpc[w] = "pop" PROVE queue # <<>>
    BY DEF PopFindsItem
  <2>1. IsFiniteSet(Popping) /\ Cardinality(Popping) \in Nat /\ Popping # {}
    BY PoolSize DEF Popping
  <2>2. Cardinality(Popping) # 0
    BY <2>1, FS_EmptySet
  <2>3. QED
    BY <2>1, <2>2 DEF Permits, TypeOK
<1>2. QED
  BY <1>1, TypeCorrect, PermitsInvariant, PTL

-----------------------------------------------------------------------------
(* Where the barriers of the queue are, until the master kills: behind all *)
(* tasks, as many as are still due, and a worker that has one has left no  *)
(* task in the queue.                                                      *)
Ending  == mpc \in {"kill", "over"}
Reached == {w \in Workers : wpc[w] \in {"reach", "wait"}}
Waiting == {w \in Workers : wpc[w] = "wait"}
Due     == IF mpc = "barrier" THEN Cardinality(pool) - left - Cardinality(Reached) ELSE 0

Placed(i) == queue[i] # Terminate /\ (queue[i] = Barrier <=> i > Len(queue) - Due)

BarrierOrder ==
  ~Ending =>
    /\ ~caught
    /\ mpc = "added" => cur \in pool
    /\ mpc \in {"body", "barrier"} => pool # {}
    /\ \A w \in Workers : w \notin pool => wpc[w] = "none"
    /\ arrived = Waiting
    /\ mpc # "barrier" => Reached = {}
    /\ Due \in 0 .. Len(queue)
    /\ Reached # {} => Due = Len(queue)
    /\ \A i \in 1 .. Len(queue) : Placed(i)

(* A step that moves no worker to or from a barrier and leaves the queue.  *)
LEMMA OrderQuiet ==
  ASSUME BarrierOrder, ~Ending, caught' = caught,
         mpc' = "added" => cur' \in pool',
         mpc' \in {"body", "barrier"} => pool' # {},
         \A w \in Workers : w \notin pool' => wpc'[w] = "none",
         arrived' = arrived, Waiting' = Waiting, Reached' = Reached,
         queue' = queue, Due' = Due,
         mpc' # "barrier" => Reached = {}
  PROVE  BarrierOrder'
  BY DEF BarrierOrder, Placed

(* A worker goes from one place to another away from the barrier.          *)
LEMMA QuietMove ==
  ASSUME TypeOK, BarrierOrder, ~Ending',
         NEW w \in Workers, NEW place, Goto(w, place),
         wpc[w] \notin {"none", "reach", "wait"}, place \notin {"none", "reach", "wait"},
         UNCHANGED <<master, queue, pool, arrived, caught>>
  PROVE  BarrierOrder'
<1>1. \A u \in Workers : wpc'[u] = IF u = w THEN place ELSE wpc[u]
  BY DEF Goto, TypeOK
<1>2. Waiting' = Waiting /\ Reached' = Reached /\ ~Ending
  BY <1>1 DEF Waiting, Reached, Ending, master
<1>3. Due' = Due
  BY <1>2 DEF Due, master
<1>4. \A u \in Workers : u \notin pool => wpc'[u] = "none"
  BY <1>1, <1>2 DEF BarrierOrder
<1>5. QED
  BY <1>2, <1>3, <1>4, OrderQuiet DEF BarrierOrder, master

(* The barrier is full only when every worker of the pool waits there, and *)
(* then the queue is empty.                                                *)
EveryoneWaits == arrived = pool /\ Reached = arrived /\ queue = <<>>

(* A full barrier means that everyone waits there.                         *)
LEMMA BarrierFull ==
  ASSUME TypeOK, BarrierOrder, mpc = "barrier", left = 0,
         Cardinality(arrived) >= Cardinality(pool)
  PROVE  EveryoneWaits
<1>1. arrived \subseteq Reached /\ Reached \subseteq pool /\ pool # {}
  BY DEF BarrierOrder, Ending, Waiting, Reached
<1>2. IsFiniteSet(pool) /\ IsFiniteSet(Reached) /\ IsFiniteSet(arrived)
      /\ Cardinality(pool) \in Nat /\ Cardinality(Reached) \in Nat /\ Cardinality(arrived) \in Nat
  BY PoolSize DEF TypeOK, Reached
<1>3. Cardinality(arrived) <= Cardinality(Reached) /\ Cardinality(Reached) <= Cardinality(pool)
      /\ (Cardinality(arrived) = Cardinality(pool) => arrived = pool)
  BY <1>1, <1>2, FS_Subset
<1>4. arrived = pool /\ Reached = arrived /\ Due = 0
  BY <1>1, <1>2, <1>3 DEF Due
<1>5. queue = <<>>
  BY <1>4, EmptySeq DEF BarrierOrder, Ending, TypeOK
<1>6. QED
  BY <1>4, <1>5 DEF EveryoneWaits

(* The barriers come in order, behind the tasks added before them.         *)
LEMMA BarrierInvariant == Spec => []BarrierOrder
<1>1. Init => BarrierOrder
  <2> SUFFICES ASSUME Init PROVE BarrierOrder
    OBVIOUS
  <2>1. Reached = {} /\ Waiting = {} /\ Due = 0 /\ Len(queue) = 0
    BY DEF Init, Reached, Waiting, Due
  <2>2. QED
    BY <2>1 DEF Init, BarrierOrder
<1>2. TypeOK /\ TypeOK' /\ Places /\ BarrierOrder /\ [Next]_vars => BarrierOrder'
  <2> SUFFICES ASSUME TypeOK, TypeOK', Places, BarrierOrder, [Next]_vars, ~Ending'
               PROVE  BarrierOrder'
    BY DEF BarrierOrder
  <2>0. Len(queue) \in Nat /\ IsFiniteSet(Reached) /\ Cardinality(Reached) \in Nat
        /\ IsFiniteSet(pool) /\ Cardinality(pool) \in Nat /\ left \in Nat
    BY LenProperties, PoolSize DEF TypeOK, Reached
  <2>1. ASSUME NEW w \in Workers, AddThread(w) PROVE BarrierOrder'
    <3>1. mpc = "start" /\ ~Ending /\ Due = 0 /\ Due' = 0 /\ Reached = {} /\ Reached' = Reached /\ Waiting' = Waiting
      BY <2>1 DEF AddThread, BarrierOrder, Ending, Due, Reached, Waiting, worker
    <3>2. QED
      BY <2>1, <3>1, OrderQuiet DEF AddThread, BarrierOrder, worker, work_queue
  <2>2. ASSUME StartThread PROVE BarrierOrder'
    BY <2>2, WorkPoolAssumption, OrderQuiet DEF StartThread, Ending, BarrierOrder, Reached, Waiting, Due, Goto, TypeOK, master, worker, work_queue
  <2>3. ASSUME NextThread PROVE BarrierOrder'
    BY <2>3, WorkPoolAssumption, OrderQuiet DEF NextThread, Ending, BarrierOrder, Reached, Waiting, Due, Goto, TypeOK, master, worker, work_queue
  <2>4. ASSUME NEW t \in Tasks, AddWork(t) PROVE BarrierOrder'
    <3>1. mpc = "body" /\ mpc' = "body" /\ ~Ending /\ Due = 0 /\ Due' = 0 /\ Reached = {}
          /\ Reached' = {} /\ Waiting' = Waiting
      BY <2>4 DEF AddWork, BarrierOrder, Ending, Due, Reached, Waiting, worker, master
    <3>2. /\ Len(queue') = Len(queue) + 1 /\ queue'[Len(queue) + 1] = t
          /\ \A i \in 1 .. Len(queue) : queue'[i] = queue[i]
      BY <2>4, Appended DEF AddWork, TypeOK, Item
    <3>3. t # Barrier /\ t # Terminate
      BY WorkPoolAssumption
    <3>4. \A i \in 1 .. Len(queue') : Placed(i)'
      <4> SUFFICES ASSUME NEW i \in 1 .. Len(queue') PROVE Placed(i)'
        OBVIOUS
      <4>1. CASE i = Len(queue) + 1
        BY <4>1, <3>1, <3>2, <3>3, <2>0 DEF Placed
      <4>2. CASE i \in 1 .. Len(queue)
        BY <4>2, <3>1, <3>2, <2>0 DEF Placed, BarrierOrder
      <4>3. QED
        BY <4>1, <4>2, <3>2, <2>0
    <3>5. QED
      BY <2>4, <3>1, <3>2, <3>4, <2>0 DEF AddWork, BarrierOrder, worker, master
  <2>5. ASSUME Release PROVE BarrierOrder'
    BY <2>5, WorkPoolAssumption, OrderQuiet DEF Release, Ending, BarrierOrder, Reached, Waiting, Due, Goto, TypeOK, master, worker, work_queue
  <2>6. ASSUME NEW e \in BOOLEAN, BeginBarrier(e) PROVE BarrierOrder'
    <3>1. mpc = "body" /\ ~Ending /\ Due = 0 /\ Reached = {} /\ Reached' = Reached /\ Waiting' = Waiting
      BY <2>6, <2>0 DEF BeginBarrier, BarrierOrder, Ending, Due, Reached, Waiting, worker
    <3>2. Due' = Cardinality(pool) - Cardinality(pool) - Cardinality({})
      BY <2>6, <3>1 DEF BeginBarrier, Due
    <3>3. Due' = Due
      BY <3>1, <3>2, <2>0, FS_EmptySet
    <3>4. QED
      BY <2>6, <3>1, <3>3, OrderQuiet DEF BeginBarrier, BarrierOrder, worker, work_queue
  <2>7. ASSUME AddBarrier PROVE BarrierOrder'
    <3>1. mpc = "barrier" /\ mpc' = "barrier" /\ ~Ending /\ Reached' = Reached /\ Waiting' = Waiting
      BY <2>7 DEF AddBarrier, Ending, Reached, Waiting, worker
    <3>2. Due' = Due + 1
      BY <2>7, <3>1, <2>0 DEF AddBarrier, Due, TypeOK
    <3>3. Due \in 0 .. Len(queue) /\ (Reached # {} => Due = Len(queue))
          /\ \A i \in 1 .. Len(queue) : Placed(i)
      BY <3>1 DEF BarrierOrder
    <3>4. /\ Len(queue') = Len(queue) + 1 /\ queue'[Len(queue) + 1] = Barrier
          /\ \A i \in 1 .. Len(queue) : queue'[i] = queue[i]
      BY <2>7, Appended DEF AddBarrier, TypeOK, Item
    <3>5. \A i \in 1 .. Len(queue') : Placed(i)'
      <4> SUFFICES ASSUME NEW i \in 1 .. Len(queue') PROVE Placed(i)'
        OBVIOUS
      <4>1. CASE i = Len(queue) + 1
        BY <4>1, <3>2, <3>3, <3>4, <2>0, WorkPoolAssumption DEF Placed
      <4>2. CASE i \in 1 .. Len(queue)
        BY <4>2, <3>2, <3>3, <3>4, <2>0 DEF Placed
      <4>3. QED
        BY <4>1, <4>2, <3>4, <2>0
    <3>6. QED
      BY <2>7, <3>1, <3>2, <3>3, <3>4, <3>5, <2>0 DEF AddBarrier, BarrierOrder, worker
  <2>8. ASSUME EndBarrier PROVE BarrierOrder'
    <3>1. mpc = "barrier" /\ ~Ending /\ left = 0 /\ mpc' = "body"
      BY <2>8 DEF EndBarrier, Ending, Kill
    <3>2. EveryoneWaits
      BY <2>8, <3>1, BarrierFull DEF EndBarrier
    <3>3. Reached' = {} /\ Waiting' = {} /\ Due' = 0 /\ Len(queue') = 0
      BY <2>8, <3>1, <3>2 DEF EndBarrier, EveryoneWaits, Reached, Waiting, Due, TypeOK, work_queue
    <3>4. QED
      BY <2>8, <3>1, <3>2, <3>3, <2>0 DEF EndBarrier, EveryoneWaits, BarrierOrder, Waiting, TypeOK
  <2>9. ASSUME Raise PROVE BarrierOrder'
    BY <2>9 DEF Raise, Ending, Kill
  <2>10. ASSUME AddTerminate PROVE BarrierOrder'
    BY <2>10 DEF AddTerminate, Ending, Kill
  <2>11. ASSUME Join PROVE BarrierOrder'
    BY <2>11 DEF Join, Ending, Kill
  <2>12. ASSUME NEW w \in Workers, Iterate(w) PROVE BarrierOrder'
    BY <2>12, <2>0, QuietMove DEF Iterate, master, work_queue
  <2>13. ASSUME NEW w \in Workers, Valid(w) PROVE BarrierOrder'
    BY <2>13, <2>0, QuietMove DEF Valid, master, work_queue
  <2>14. ASSUME NEW w \in Workers, Check(w) PROVE BarrierOrder'
    BY <2>14, <2>0, QuietMove DEF Check, master, work_queue
  <2>15. ASSUME NEW w \in Workers, Acquire(w) PROVE BarrierOrder'
    BY <2>15, <2>0, QuietMove DEF Acquire, master, work_queue
  <2>16. ASSUME NEW w \in Workers, Pop(w) PROVE BarrierOrder'
    <3>1. ~Ending
      BY <2>16 DEF Pop, Ending, master
    <3>2. CASE queue = <<>>
      <4>1. Reached' = Reached /\ Waiting' = Waiting /\ Due' = Due
        BY <2>16, <3>2 DEF Pop, Goto, TypeOK, Reached, Waiting, Due, master
      <4>2. QED
        BY <2>16, <3>1, <3>2, <4>1, OrderQuiet DEF Pop, Goto, TypeOK, BarrierOrder, master
    <3>3. CASE queue # <<>>
      <4>1. /\ queue' = Tail(queue) /\ Len(queue') = Len(queue) - 1 /\ Head(queue) = queue[1]
            /\ \A i \in 1 .. Len(queue) - 1 : queue'[i] = queue[i + 1]
            /\ Len(queue) \in Nat \ {0}
        BY <2>16, <3>3, Popped DEF Pop, TypeOK
      <4>2. Head(queue) # Terminate /\ (Head(queue) = Barrier <=> 1 > Len(queue) - Due)
        BY <3>1, <4>1 DEF BarrierOrder, Placed
      <4>3. Due \in 0 .. Len(queue) /\ (Reached # {} => Due = Len(queue))
        BY <3>1 DEF BarrierOrder
      <4>4. \A i \in 1 .. Len(queue) : Placed(i)
        BY <3>1 DEF BarrierOrder
      <4>5. w \in pool /\ w \notin Reached
        BY <2>16, <3>1 DEF Pop, BarrierOrder, Reached
      <4>6. Waiting' = Waiting
        BY <2>16, <3>3 DEF Pop, Goto, TypeOK, Waiting
      <4>7. /\ caught' = caught /\ mpc' = mpc /\ cur' = cur /\ pool' = pool /\ arrived' = arrived
             /\ \A u \in Workers \ {w} : wpc'[u] = wpc[u]
        BY <2>16, <3>3 DEF Pop, Goto, TypeOK, master
      <4>8. Len(queue) \in Int /\ Due \in Int /\ 0 <= Due /\ Due <= Len(queue)
             /\ Len(queue') = Len(queue) - 1
        <5>1. Len(queue) \in Nat /\ Len(queue') = Len(queue) - 1
          BY <4>1
        <5>2. QED
          BY <5>1, <4>3
      <4>9. CASE Head(queue) = Barrier
        <5>1. Due = Len(queue) /\ mpc = "barrier"
          BY <4>1, <4>2, <4>3, <4>9 DEF Due
        <5>2. Reached' = Reached \cup {w}
          BY <2>16, <3>3, <4>2, <4>9 DEF Pop, Goto, TypeOK, Reached
        <5>3. Cardinality(Reached') = Cardinality(Reached) + 1
          BY <5>2, <4>5, <2>0, FS_AddElement
        <5>4. Due' = Due - 1
          BY <2>16, <5>1, <5>3, <2>0 DEF Pop, Due, master
        <5>5. \A i \in 1 .. Len(queue') : Placed(i)'
          BY <4>1, <4>3, <4>4, <5>1, <5>4 DEF Placed
        <5>6. Due' \in 0 .. Len(queue') /\ Due' = Len(queue')
          BY <4>1, <5>1, <5>4
        <5>7. QED
          BY <3>1, <4>5, <4>6, <4>7, <5>1, <5>5, <5>6 DEF BarrierOrder
      <4>10. CASE Head(queue) # Barrier
        <5>1. Due < Len(queue) /\ Reached = {}
          <6>1. ~(1 > Len(queue) - Due)
            BY <4>2, <4>10
          <6>2. Due < Len(queue)
            BY <6>1, <4>8
          <6>3. QED
            BY <6>2, <4>8, <4>3
        <5>2. Reached' = {}
          BY <2>16, <3>3, <4>2, <4>10, <5>1 DEF Pop, Goto, TypeOK, Reached
        <5>3. Due' = Due
          BY <2>16, <5>1, <5>2 DEF Pop, Due, master
        <5>4. \A i \in 1 .. Len(queue') : Placed(i)'
          <6> SUFFICES ASSUME NEW i \in 1 .. Len(queue') PROVE Placed(i)'
            OBVIOUS
          <6>1. i + 1 \in 1 .. Len(queue) /\ queue'[i] = queue[i + 1]
            BY <4>1
          <6>2. Placed(i + 1)
            BY <6>1, <4>4
          <6>3. QED
            <7>1. Len(queue') - Due' = Len(queue) - Due - 1
              BY <4>8, <5>3
            <7>2. i > Len(queue) - Due - 1 <=> i + 1 > Len(queue) - Due
              BY <4>8
            <7>3. QED
              BY <6>1, <6>2, <7>1, <7>2 DEF Placed
        <5>5. Due' \in 0 .. Len(queue')
          BY <4>1, <4>3, <5>1, <5>3
        <5>6. QED
          BY <3>1, <4>5, <4>6, <4>7, <5>2, <5>4, <5>5 DEF BarrierOrder
      <4>11. QED
        BY <4>9, <4>10
    <3>4. QED
      BY <3>2, <3>3
  <2>17. ASSUME NEW w \in Workers, Work(w) PROVE BarrierOrder'
    BY <2>17, <2>0, QuietMove DEF Work, master, work_queue
  <2>18. ASSUME NEW w \in Workers, WorkCaught(w) PROVE BarrierOrder'
    BY <2>18, <2>0, QuietMove DEF WorkCaught, master, work_queue
  <2>19. ASSUME NEW w \in Workers, Arrive(w) PROVE BarrierOrder'
    <3>1. ~Ending /\ Reached' = Reached /\ Waiting' = Waiting \cup {w} /\ Due' = Due
      BY ZenonT(30), <2>19 DEF Arrive, Ending, Reached, Waiting, Due, Goto, TypeOK, master
    <3>2. QED
      BY <2>19, <3>1 DEF Arrive, BarrierOrder, Placed, Goto, TypeOK, master, work_queue
  <2>20. ASSUME Signal PROVE BarrierOrder'
    BY <2>20 DEF Signal, Ending, Kill
  <2>21. CASE UNCHANGED vars
    BY <2>21, OrderQuiet DEF vars, Ending, BarrierOrder, Reached, Waiting, Due, master, worker, work_queue
  <2>22. QED
    BY <2>1, <2>2, <2>3, <2>4, <2>5, <2>6, <2>7, <2>8, <2>9, <2>10,
       <2>11, <2>12, <2>13, <2>14, <2>15, <2>16, <2>17, <2>18, <2>19, <2>20,
       <2>21
       DEF Next, Start, Leave, Client, Step
<1>3. QED
  BY <1>1, <1>2, TypeInvariant, PTL DEF Spec

-----------------------------------------------------------------------------
(* Until the master kills, a task that was added and is not finished waits *)
(* in the queue, or a worker has it.                                       *)
InQueue(t)  == \E i \in 1 .. Len(queue) : queue[i] = t
AtWork(t)   == \E w \in Workers : wpc[w] = "work" /\ work[w] = t
NothingLost == ~Ending => \A t \in added \ finished : InQueue(t) \/ AtWork(t)

(* Nobody takes an item, and nobody leaves its task.                       *)
LEMMA LostQuiet ==
  ASSUME NothingLost, ~Ending, added' = added, finished' = finished, queue' = queue,
         \A w \in Workers : wpc[w] = "work" => wpc'[w] = "work" /\ work'[w] = work[w]
  PROVE  NothingLost'
  BY DEF NothingLost, InQueue, AtWork

(* An item is put at the end of the queue.                                 *)
LEMMA LostAppend ==
  ASSUME TypeOK, NothingLost, ~Ending, NEW x \in Item, queue' = Append(queue, x),
         added' \subseteq added \cup {x}, UNCHANGED <<wpc, work, finished>>
  PROVE  NothingLost'
<1>1. /\ Len(queue) \in Nat /\ Len(queue') = Len(queue) + 1 /\ queue'[Len(queue) + 1] = x
      /\ \A i \in 1 .. Len(queue) : queue'[i] = queue[i]
  BY Appended, LenProperties DEF TypeOK
<1>2. InQueue(x)' /\ \A t \in Tasks : InQueue(t) => InQueue(t)'
  BY <1>1 DEF InQueue
<1>3. \A t \in added \ finished : (InQueue(t) \/ AtWork(t)) /\ t \in Tasks
  BY DEF NothingLost, TypeOK
<1>4. \A t \in Tasks : AtWork(t) => AtWork(t)'
  BY DEF AtWork
<1>5. QED
  BY <1>2, <1>3, <1>4 DEF NothingLost

(* A task that was added is in the queue, at work or finished.             *)
LEMMA LostInvariant == Spec => []NothingLost
<1>1. Init => NothingLost
  BY DEF Init, NothingLost
<1>2. TypeOK /\ Places /\ BarrierOrder /\ NothingLost /\ [Next]_vars => NothingLost'
  <2> SUFFICES ASSUME TypeOK, Places, BarrierOrder, NothingLost, [Next]_vars, ~Ending'
               PROVE  NothingLost'
    BY DEF NothingLost
  <2>1. ASSUME NEW w \in Workers, AddThread(w) PROVE NothingLost'
    BY <2>1, LostQuiet DEF AddThread, Ending, worker, work_queue
  <2>2. ASSUME StartThread PROVE NothingLost'
    <3>1. ~Ending /\ mpc = "added" /\ cur \in pool /\ wpc[cur] = "none"
      BY <2>2 DEF StartThread, Ending, BarrierOrder, Places
    <3>2. QED
      BY <2>2, <3>1, LostQuiet DEF StartThread, Goto, TypeOK, work_queue
  <2>3. ASSUME NextThread PROVE NothingLost'
    BY <2>3, LostQuiet DEF NextThread, Ending, Goto, TypeOK, BarrierOrder, master, worker, work_queue
  <2>4. ASSUME NEW t \in Tasks, AddWork(t) PROVE NothingLost'
    BY <2>4, LostAppend DEF AddWork, Ending, Item, worker
  <2>5. ASSUME Release PROVE NothingLost'
    BY <2>5, LostQuiet DEF Release, Ending, Goto, TypeOK, BarrierOrder, master, worker, work_queue
  <2>6. ASSUME NEW e \in BOOLEAN, BeginBarrier(e) PROVE NothingLost'
    BY <2>6, LostQuiet DEF BeginBarrier, Ending, Goto, TypeOK, BarrierOrder, master, worker, work_queue
  <2>7. ASSUME AddBarrier PROVE NothingLost'
    BY <2>7, LostAppend DEF AddBarrier, Ending, Item, worker
  <2>8. ASSUME EndBarrier PROVE NothingLost'
    BY <2>8, LostQuiet DEF EndBarrier, Ending, BarrierOrder, Waiting, TypeOK, work_queue
  <2>9. ASSUME Raise PROVE NothingLost'
    BY <2>9 DEF Raise, Ending, Kill
  <2>10. ASSUME AddTerminate PROVE NothingLost'
    BY <2>10 DEF AddTerminate, Ending, Kill
  <2>11. ASSUME Join PROVE NothingLost'
    BY <2>11 DEF Join, Ending, Kill
  <2>12. ASSUME NEW w \in Workers, Iterate(w) PROVE NothingLost'
    BY <2>12, LostQuiet DEF Iterate, Ending, Goto, TypeOK, BarrierOrder, master, worker, work_queue
  <2>13. ASSUME NEW w \in Workers, Valid(w) PROVE NothingLost'
    BY <2>13, LostQuiet DEF Valid, Ending, Goto, TypeOK, BarrierOrder, master, worker, work_queue
  <2>14. ASSUME NEW w \in Workers, Check(w) PROVE NothingLost'
    BY <2>14, LostQuiet DEF Check, Ending, Goto, TypeOK, BarrierOrder, master, worker, work_queue
  <2>15. ASSUME NEW w \in Workers, Acquire(w) PROVE NothingLost'
    BY <2>15, LostQuiet DEF Acquire, Ending, Goto, TypeOK, BarrierOrder, master, worker, work_queue
  <2>16. ASSUME NEW w \in Workers, Pop(w) PROVE NothingLost'
    <3>1. ~Ending
      BY <2>16 DEF Pop, Ending, master
    <3>2. CASE queue = <<>>
      BY <2>16, <3>1, <3>2, LostQuiet DEF Pop, Goto, TypeOK
    <3>3. CASE queue # <<>>
      <4>1. /\ queue' = Tail(queue) /\ Len(queue') = Len(queue) - 1 /\ Head(queue) = queue[1]
            /\ \A i \in 1 .. Len(queue) - 1 : queue'[i] = queue[i + 1]
            /\ Len(queue) \in Nat \ {0}
        BY <2>16, <3>3, Popped DEF Pop, TypeOK
      <4>2. \A t \in Tasks : InQueue(t) /\ t # Head(queue) => InQueue(t)'
        <5> SUFFICES ASSUME NEW t \in Tasks, t # Head(queue),
                            NEW i \in 1 .. Len(queue), queue[i] = t
                     PROVE  InQueue(t)'
          BY DEF InQueue
        <5>1. i # 1 /\ i - 1 \in 1 .. Len(queue) - 1 /\ (i - 1) + 1 = i
          BY <4>1
        <5>2. queue'[i - 1] = t /\ i - 1 \in 1 .. Len(queue')
          BY <4>1, <5>1
        <5>3. QED
          BY <5>2 DEF InQueue
      <4>3. \A t \in Tasks : AtWork(t) => AtWork(t)'
        BY <2>16, <3>3 DEF Pop, AtWork, Goto, TypeOK
      <4>4. \A t \in Tasks : t = Head(queue) => AtWork(t)'
        <5> SUFFICES ASSUME NEW t \in Tasks, t = Head(queue) PROVE AtWork(t)'
          OBVIOUS
        <5>1. Head(queue) # Terminate /\ Head(queue) # Barrier
          BY WorkPoolAssumption
        <5>2. work' = [work EXCEPT ![w] = Head(queue)] /\ wpc' = [wpc EXCEPT ![w] = "work"]
          BY <2>16, <3>3, <5>1 DEF Pop, Goto
        <5>3. work'[w] = t /\ wpc'[w] = "work"
          BY <5>2 DEF TypeOK
        <5>4. QED
          BY <5>3 DEF AtWork
      <4>5. \A t \in added' \ finished' : (InQueue(t) \/ AtWork(t)) /\ t \in Tasks
        BY <2>16, <3>1 DEF Pop, NothingLost, TypeOK
      <4>6. \A t \in added' \ finished' : InQueue(t)' \/ AtWork(t)'
        BY <4>2, <4>3, <4>4, <4>5
      <4>7. QED
        BY <4>6 DEF NothingLost
    <3>4. QED
      BY <3>2, <3>3
  <2>17. ASSUME NEW w \in Workers, Work(w) PROVE NothingLost'
    <3>1. ~Ending
      BY <2>17 DEF Work, Ending, master
    <3>2. \A t \in added' \ finished' : t \in Tasks /\ (InQueue(t) \/ (AtWork(t) /\ t # work[w]))
      BY <2>17, <3>1 DEF Work, NothingLost, TypeOK
    <3>3. \A t \in Tasks : AtWork(t) /\ t # work[w] => AtWork(t)'
      BY <2>17 DEF Work, AtWork, Goto, TypeOK
    <3>4. \A t \in Tasks : InQueue(t) => InQueue(t)'
      BY <2>17 DEF Work, InQueue, work_queue
    <3>5. QED
      BY <3>2, <3>3, <3>4 DEF NothingLost
  <2>18. ASSUME NEW w \in Workers, WorkCaught(w) PROVE NothingLost'
    BY <2>18 DEF WorkCaught, BarrierOrder, Ending, master
  <2>19. ASSUME NEW w \in Workers, Arrive(w) PROVE NothingLost'
    BY <2>19, LostQuiet DEF Arrive, Ending, Goto, TypeOK, BarrierOrder, master, worker, work_queue
  <2>20. ASSUME Signal PROVE NothingLost'
    BY <2>20 DEF Signal, Ending, Kill
  <2>21. CASE UNCHANGED vars
    BY <2>21, LostQuiet DEF vars, Ending, master, worker, work_queue
  <2>22. QED
    BY <2>1, <2>2, <2>3, <2>4, <2>5, <2>6, <2>7, <2>8, <2>9, <2>10,
       <2>11, <2>12, <2>13, <2>14, <2>15, <2>16, <2>17, <2>18, <2>19, <2>20,
       <2>21
       DEF Next, Start, Leave, Client, Step
<1>3. QED
  BY <1>1, <1>2, TypeInvariant, BarrierInvariant, PTL DEF Spec

(* "all work is now complete": a barrier opens only when every task that   *)
(* was added has been run.                                                 *)
THEOREM BarrierCompleteHolds == Spec => BarrierComplete
<1>1. TypeOK /\ Places /\ BarrierOrder /\ NothingLost /\ [Next]_vars
        => (arrived # {} /\ arrived' = {} => added \subseteq finished)
  <2> SUFFICES ASSUME TypeOK, Places, BarrierOrder, NothingLost, [Next]_vars,
                      arrived # {}, arrived' = {}
               PROVE  added \subseteq finished
    OBVIOUS
  <2>1. EndBarrier
    BY DEF Next, Start, Leave, Client, Step, vars, AddThread, StartThread, NextThread,
           AddWork, Release, BeginBarrier, AddBarrier, Raise, AddTerminate, Join, Iterate,
           Valid, Check, Acquire, Pop, Work, WorkCaught, Arrive, Signal
  <2>2. EveryoneWaits /\ ~Ending
    BY <2>1, BarrierFull DEF EndBarrier, Ending
  <2>3. \A t \in Tasks : ~InQueue(t)
    BY <2>2 DEF EveryoneWaits, InQueue
  <2>4. \A w \in Workers : wpc[w] # "work"
    BY <2>2 DEF EveryoneWaits, BarrierOrder, Waiting
  <2>5. QED
    BY <2>2, <2>3, <2>4 DEF NothingLost, AtWork, TypeOK
<1>2. QED
  BY <1>1, TypeInvariant, BarrierInvariant, LostInvariant, PTL DEF Spec, BarrierComplete

-----------------------------------------------------------------------------
(* Until a signal takes the master out of start_threads or kill_threads,   *)
(* the pool is complete when the constructor returns, and joined at last.  *)
Joined ==
  ~caught =>
    /\ mpc \in {"added", "started"} => cur \in pool
    /\ mpc \in {"body", "barrier", "kill", "over"} => pool = Workers
    /\ mpc = "over" => \A w \in Workers : wpc[w] = "gone"

(* Without a signal the constructor starts, and kill_threads joins, all.   *)
LEMMA JoinedHolds == Spec => []Joined
<1>1. Init => Joined
  BY DEF Init, Joined
<1>2. TypeOK /\ Joined /\ [Next]_vars => Joined'
  <2> SUFFICES ASSUME TypeOK, Joined, [Next]_vars PROVE Joined'
    OBVIOUS
  <2>1. ASSUME NEW w \in Workers, AddThread(w) PROVE Joined'
    BY <2>1 DEF AddThread, Joined, Goto, TypeOK, master, worker
  <2>2. ASSUME StartThread PROVE Joined'
    BY <2>2 DEF StartThread, Joined, Goto, TypeOK, master, worker
  <2>3. ASSUME NextThread PROVE Joined'
    BY <2>3 DEF NextThread, Joined, Goto, TypeOK, master, worker
  <2>4. ASSUME NEW t \in Tasks, AddWork(t) PROVE Joined'
    BY <2>4 DEF AddWork, Joined, Goto, TypeOK, master, worker
  <2>5. ASSUME Release PROVE Joined'
    BY <2>5 DEF Release, Joined, Goto, TypeOK, master, worker
  <2>6. ASSUME NEW e \in BOOLEAN, BeginBarrier(e) PROVE Joined'
    BY <2>6 DEF BeginBarrier, Joined, Goto, TypeOK, master, worker
  <2>7. ASSUME AddBarrier PROVE Joined'
    BY <2>7 DEF AddBarrier, Joined, Goto, TypeOK, master, worker
  <2>8. ASSUME EndBarrier PROVE Joined'
    BY <2>8 DEF EndBarrier, Joined, Kill
  <2>9. ASSUME Raise PROVE Joined'
    BY <2>9 DEF Raise, Joined, Kill
  <2>10. ASSUME AddTerminate PROVE Joined'
    BY <2>10 DEF AddTerminate, Joined, Goto, TypeOK, master, worker
  <2>11. ASSUME Join PROVE Joined'
    BY <2>11 DEF Join, Joined, worker
  <2>12. ASSUME NEW w \in Workers, Iterate(w) PROVE Joined'
    BY <2>12 DEF Iterate, Joined, Goto, TypeOK, master, worker
  <2>13. ASSUME NEW w \in Workers, Valid(w) PROVE Joined'
    BY <2>13 DEF Valid, Joined, Goto, TypeOK, master, worker
  <2>14. ASSUME NEW w \in Workers, Check(w) PROVE Joined'
    BY <2>14 DEF Check, Joined, Goto, TypeOK, master, worker
  <2>15. ASSUME NEW w \in Workers, Acquire(w) PROVE Joined'
    BY <2>15 DEF Acquire, Joined, Goto, TypeOK, master, worker
  <2>16. ASSUME NEW w \in Workers, Pop(w) PROVE Joined'
    BY <2>16 DEF Pop, Joined, Goto, TypeOK, master, worker
  <2>17. ASSUME NEW w \in Workers, Work(w) PROVE Joined'
    BY <2>17 DEF Work, Joined, Goto, TypeOK, master, worker
  <2>18. ASSUME NEW w \in Workers, WorkCaught(w) PROVE Joined'
    BY <2>18 DEF WorkCaught, Joined, Goto, TypeOK, master, worker
  <2>19. ASSUME NEW w \in Workers, Arrive(w) PROVE Joined'
    BY <2>19 DEF Arrive, Joined, Goto, TypeOK, master, worker
  <2>20. ASSUME Signal PROVE Joined'
    BY <2>20 DEF Signal, Joined
  <2>21. CASE UNCHANGED vars
    BY <2>21 DEF vars, Joined, master, worker
  <2>22. QED
    BY <2>1, <2>2, <2>3, <2>4, <2>5, <2>6, <2>7, <2>8, <2>9, <2>10,
       <2>11, <2>12, <2>13, <2>14, <2>15, <2>16, <2>17, <2>18, <2>19, <2>20,
       <2>21
       DEF Next, Start, Leave, Client, Step
<1>3. QED
  BY <1>1, <1>2, TypeCorrect, PTL DEF Spec

(* "once you get here, all workpool threads exited", if no signal came.    *)
THEOREM AllExitedHolds == Spec => []AllExited
<1>1. Joined => AllExited
  BY DEF Joined, AllExited
<1>2. QED
  BY <1>1, JoinedHolds, PTL

-----------------------------------------------------------------------------
(* A client adds work only to a pool whose threads were all started, and   *)
(* the queue holds no other tasks than those it added.                     *)
Staffed ==
  /\ mpc \in {"start", "added", "started"} => added = {}
  /\ mpc \in {"start", "body", "barrier"} => cur = Nobody
  /\ mpc \in {"body", "barrier"} => pool = Workers
  /\ mpc = "kill" => exiting
  /\ \A i \in 1 .. Len(queue) : queue[i] \in added \cup {Barrier, Terminate}

(* What TERMINATE at the head does to the places of the other items.       *)
LEMMA PushedItems ==
  ASSUME NEW q \in Seq(Item), NEW x \in Item
  PROVE  /\ (<<x>> \o q)[1] = x
         /\ \A i \in 1 .. Len(q) : (<<x>> \o q)[i + 1] = q[i]
<1>1. <<x>> \in Seq(Item) /\ Len(<<x>>) = 1 /\ <<x>>[1] = x
  OBVIOUS
<1>2. Len(q) \in Nat
  BY LenProperties
<1>3. \A i \in 1 .. 1 + Len(q) :
        (<<x>> \o q)[i] = IF i <= 1 THEN <<x>>[i] ELSE q[i - 1]
  BY <1>1, ConcatProperties
<1>4. \A i \in 1 .. Len(q) : i + 1 \in 1 .. 1 + Len(q) /\ ~(i + 1 <= 1) /\ (i + 1) - 1 = i
  BY <1>2
<1>5. 1 \in 1 .. 1 + Len(q)
  BY <1>2
<1>6. QED
  BY <1>1, <1>3, <1>4, <1>5

(* Nothing is added before the pool is complete, or while it is killed.    *)
LEMMA StaffedHolds == Spec => []Staffed
<1>1. Init => Staffed
  BY LenProperties DEF Init, Staffed
<1>2. TypeOK /\ Staffed /\ [Next]_vars => Staffed'
  <2> SUFFICES ASSUME TypeOK, Staffed, [Next]_vars PROVE Staffed'
    OBVIOUS
  <2>1. ASSUME NEW w \in Workers, AddThread(w) PROVE Staffed'
    BY <2>1 DEF AddThread, Staffed, work_queue
  <2>2. ASSUME StartThread PROVE Staffed'
    BY <2>2 DEF StartThread, Staffed, work_queue
  <2>3. ASSUME NextThread PROVE Staffed'
    BY <2>3 DEF NextThread, Staffed, work_queue
  <2>4. ASSUME NEW t \in Tasks, AddWork(t) PROVE Staffed'
    <3>1. queue \in Seq(Item) /\ t \in Item /\ queue' = Append(queue, t)
      BY <2>4 DEF AddWork, TypeOK, Item
    <3>2. Len(queue) \in Nat
      BY <3>1, LenProperties
    <3>3. \A i \in 1 .. Len(queue') : queue'[i] \in added' \cup {Barrier, Terminate}
      <4> SUFFICES ASSUME NEW i \in 1 .. Len(queue')
                   PROVE  queue'[i] \in added' \cup {Barrier, Terminate}
        OBVIOUS
      <4>1. i \in 1 .. Len(queue) \/ i = Len(queue) + 1
        BY <3>1, <3>2, Appended
      <4>2. added' = added \cup {t}
        BY <2>4 DEF AddWork
      <4>3. QED
        BY <3>1, <4>1, <4>2, Appended DEF Staffed
    <3>4. QED
      BY <2>4, <3>3 DEF AddWork, Staffed, master
  <2>5. ASSUME Release PROVE Staffed'
    BY <2>5 DEF Release, Staffed, master
  <2>6. ASSUME NEW e \in BOOLEAN, BeginBarrier(e) PROVE Staffed'
    BY <2>6 DEF BeginBarrier, Staffed, work_queue
  <2>7. ASSUME AddBarrier PROVE Staffed'
    <3>1. queue \in Seq(Item) /\ Barrier \in Item /\ queue' = Append(queue, Barrier)
      BY <2>7 DEF AddBarrier, TypeOK, Item
    <3>2. Len(queue) \in Nat
      BY <3>1, LenProperties
    <3>3. \A i \in 1 .. Len(queue') : queue'[i] \in added' \cup {Barrier, Terminate}
      <4> SUFFICES ASSUME NEW i \in 1 .. Len(queue')
                   PROVE  queue'[i] \in added' \cup {Barrier, Terminate}
        OBVIOUS
      <4>1. i \in 1 .. Len(queue) \/ i = Len(queue) + 1
        BY <3>1, <3>2, Appended
      <4>2. added' = added
        BY <2>7 DEF AddBarrier
      <4>3. QED
        BY <3>1, <4>1, <4>2, Appended DEF Staffed
    <3>4. QED
      BY <2>7, <3>3 DEF AddBarrier, Staffed
  <2>8. ASSUME EndBarrier PROVE Staffed'
    BY <2>8 DEF EndBarrier, Staffed, Kill, work_queue
  <2>9. ASSUME Raise PROVE Staffed'
    BY <2>9 DEF Raise, Staffed, Kill, work_queue
  <2>10. ASSUME AddTerminate PROVE Staffed'
    <3>1. queue \in Seq(Item) /\ Terminate \in Item /\ queue' = <<Terminate>> \o queue
      BY <2>10 DEF AddTerminate, TypeOK, Item
    <3>2. Len(queue) \in Nat /\ Len(queue') = Len(queue) + 1
      BY <3>1, LenProperties, Pushed
    <3>3. \A i \in 1 .. Len(queue') : queue'[i] \in added' \cup {Barrier, Terminate}
      <4> SUFFICES ASSUME NEW i \in 1 .. Len(queue')
                   PROVE  queue'[i] \in added' \cup {Barrier, Terminate}
        OBVIOUS
      <4>1. i = 1 \/ (i - 1 \in 1 .. Len(queue) /\ (i - 1) + 1 = i)
        BY <3>2
      <4>2. queue'[i] = Terminate \/ \E j \in 1 .. Len(queue) : queue'[i] = queue[j]
        BY <3>1, <4>1, PushedItems
      <4>3. added' = added
        BY <2>10 DEF AddTerminate
      <4>4. QED
        BY <4>2, <4>3 DEF Staffed
    <3>4. QED
      BY <2>10, <3>3 DEF AddTerminate, Staffed
  <2>11. ASSUME Join PROVE Staffed'
    BY <2>11 DEF Join, Staffed, work_queue
  <2>12. ASSUME NEW w \in Workers, Pop(w) PROVE Staffed'
    <3>1. CASE queue = <<>>
      BY <2>12, <3>1 DEF Pop, Staffed, master
    <3>2. CASE queue # <<>>
      <4>1. /\ queue' = Tail(queue) /\ Len(queue) \in Nat \ {0}
            /\ Len(queue') = Len(queue) - 1
            /\ \A i \in 1 .. Len(queue) - 1 : queue'[i] = queue[i + 1]
        BY <2>12, <3>2, Popped DEF Pop, TypeOK
      <4>2. \A i \in 1 .. Len(queue') : i + 1 \in 1 .. Len(queue) /\ queue'[i] = queue[i + 1]
        BY <4>1
      <4>3. \A i \in 1 .. Len(queue') : queue'[i] \in added' \cup {Barrier, Terminate}
        BY <2>12, <4>2 DEF Pop, Staffed
      <4>4. QED
        BY <2>12, <4>3 DEF Pop, Staffed, master
    <3>3. QED
      BY <3>1, <3>2
  <2>13. ASSUME NEW w \in Workers,
                Iterate(w) \/ Valid(w) \/ Check(w) \/ Acquire(w) \/ Work(w)
                           \/ WorkCaught(w) \/ Arrive(w)
         PROVE  Staffed'
    BY <2>13 DEF Iterate, Valid, Check, Acquire, Work, WorkCaught, Arrive, Staffed,
                 master, work_queue
  <2>14. ASSUME Signal PROVE Staffed'
    BY <2>14 DEF Signal, Staffed, Kill
  <2>15. CASE UNCHANGED vars
    BY <2>15 DEF vars, Staffed, master, work_queue
  <2>16. QED
    BY <2>1, <2>2, <2>3, <2>4, <2>5, <2>6, <2>7, <2>8, <2>9, <2>10,
       <2>11, <2>12, <2>13, <2>14, <2>15
       DEF Next, Start, Leave, Client, Step
<1>3. QED
  BY <1>1, <1>2, TypeCorrect, PTL DEF Spec

-----------------------------------------------------------------------------
(* While the master kills, the head of the queue and what is still to come *)
(* hold a TERMINATE for every worker that has not gone, unless a signal    *)
(* came while the threads were being started.                              *)
Live == {w \in Workers : wpc[w] # "gone"}

Enough ==
  mpc = "kill" /\ (added # {} \/ ~caught) =>
    \E n \in 0 .. Len(queue) : /\ \A i \in 1 .. n : queue[i] = Terminate
                               /\ Cardinality(Live) <= n + left

(* No worker rises from the dead, and no one touches the queue.            *)
LEMMA EnoughQuiet ==
  ASSUME TypeOK, Enough, mpc = "kill", Live' \subseteq Live,
         added' = added, caught' = caught, queue' = queue, left' = left
  PROVE  Enough'
<1>1. Cardinality(Live') <= Cardinality(Live)
      /\ Cardinality(Live') \in Nat /\ Cardinality(Live) \in Nat
  <2>1. Live \subseteq Workers /\ IsFiniteSet(Live)
    BY WorkPoolAssumption, FS_Subset DEF Live
  <2>2. IsFiniteSet(Live') /\ Cardinality(Live') <= Cardinality(Live)
    BY <2>1, FS_Subset
  <2>3. QED
    BY <2>1, <2>2, FS_CardinalityType
<1>2. left \in Int /\ Len(queue) \in Nat
  BY LenProperties, Counts DEF TypeOK
<1>3. SUFFICES ASSUME added # {} \/ ~caught PROVE Enough'
  BY DEF Enough
<1>4. PICK n \in 0 .. Len(queue) : /\ \A i \in 1 .. n : queue[i] = Terminate
                                   /\ Cardinality(Live) <= n + left
  BY <1>3 DEF Enough
<1>5. Cardinality(Live') <= n + left'
  BY <1>1, <1>2, <1>4
<1>6. QED
  BY <1>4, <1>5 DEF Enough

(* The master begins to kill a complete pool.                              *)
LEMMA EnoughStart ==
  ASSUME TypeOK, TypeOK', left' = Cardinality(Workers)
  PROVE  Enough'
<1>1. Live' \subseteq Workers
  BY DEF Live
<1>2. Cardinality(Live') \in 0 .. Cardinality(Workers)
  BY <1>1, PoolSize
<1>3. Len(queue') \in Nat /\ Cardinality(Workers) \in Nat
  BY LenProperties, Counts DEF TypeOK
<1>4. 0 \in 0 .. Len(queue') /\ Cardinality(Live') <= 0 + left'
      /\ \A i \in 1 .. 0 : queue'[i] = Terminate
  BY <1>2, <1>3
<1>5. QED
  BY <1>4 DEF Enough

(* kill_threads queues a TERMINATE for every worker that still lives.      *)
LEMMA EnoughHolds == Spec => []Enough
<1>1. Init => Enough
  BY DEF Init, Enough
<1>2. TypeOK /\ TypeOK' /\ Staffed /\ Enough /\ [Next]_vars => Enough'
  <2> SUFFICES ASSUME TypeOK, TypeOK', Staffed, Enough, [Next]_vars,
                      mpc' = "kill", added' # {} \/ ~caught'
               PROVE  Enough'
    BY DEF Enough
  <2>1. CASE Start \/ Client \/ EndBarrier
    <3>1. Raise \/ EndBarrier
      BY <2>1, Zenon DEF Start, AddThread, StartThread, NextThread, Client, AddWork,
                  BeginBarrier, master
    <3>2. left' = Cardinality(Workers)
      BY <3>1 DEF Raise, EndBarrier, Kill, Staffed
    <3>3. QED
      BY <3>2, EnoughStart
  <2>2. CASE Release
    <3>1. Live' \subseteq Live
      BY <2>2 DEF Release, Live, worker
    <3>2. QED
      BY <2>2, <3>1, EnoughQuiet DEF Release, master
  <2>3. CASE AddTerminate
    <3>1. queue \in Seq(Item) /\ Terminate \in Item /\ queue' = <<Terminate>> \o queue
      BY <2>3 DEF AddTerminate, TypeOK, Item
    <3>2. Len(queue) \in Nat /\ Len(queue') = Len(queue) + 1 /\ left \in Int
      BY <3>1, LenProperties, Pushed, Counts DEF TypeOK
    <3>3. mpc = "kill" /\ (added # {} \/ ~caught) /\ left' = left - 1 /\ Live' = Live
      BY <2>3 DEF AddTerminate, Live, worker
    <3>4. PICK n \in 0 .. Len(queue) : /\ \A i \in 1 .. n : queue[i] = Terminate
                                       /\ Cardinality(Live) <= n + left
      BY <3>3 DEF Enough
    <3>5. \A i \in 1 .. n + 1 : queue'[i] = Terminate
      <4> SUFFICES ASSUME NEW i \in 1 .. n + 1 PROVE queue'[i] = Terminate
        OBVIOUS
      <4>1. i = 1 \/ (i - 1 \in 1 .. n /\ i - 1 \in 1 .. Len(queue) /\ (i - 1) + 1 = i)
        BY <3>2
      <4>2. QED
        BY <3>1, <3>4, <4>1, PushedItems
    <3>6. n + 1 \in 0 .. Len(queue') /\ (n + 1) + left' = n + left
      BY <3>2, <3>3
    <3>7. Cardinality(Live') <= (n + 1) + left'
      BY <3>3, <3>4, <3>6
    <3>8. QED
      BY <3>5, <3>6, <3>7 DEF Enough
  <2>4. ASSUME NEW w \in Workers, Pop(w) PROVE Enough'
    <3>1. mpc = "kill" /\ (added # {} \/ ~caught) /\ left' = left
          /\ added' = added /\ caught' = caught
      BY <2>4 DEF Pop, master
    <3>2. Live' \subseteq Live
      BY <2>4 DEF Pop, Live, Goto, TypeOK
    <3>3. CASE queue = <<>>
      BY <2>4, <3>1, <3>2, <3>3, EnoughQuiet DEF Pop
    <3>4. CASE queue # <<>>
      <4>1. /\ queue' = Tail(queue) /\ Len(queue) \in Nat \ {0}
            /\ Len(queue') = Len(queue) - 1 /\ Head(queue) = queue[1]
            /\ \A i \in 1 .. Len(queue) - 1 : queue'[i] = queue[i + 1]
        BY <2>4, <3>4, Popped DEF Pop, TypeOK
      <4>2. PICK n \in 0 .. Len(queue) : /\ \A i \in 1 .. n : queue[i] = Terminate
                                         /\ Cardinality(Live) <= n + left
        BY <3>1 DEF Enough
      <4>3. IsFiniteSet(Live) /\ Cardinality(Live) \in Nat
        BY WorkPoolAssumption, FS_Subset, FS_CardinalityType DEF Live
      <4>4. left \in Int
        BY Counts DEF TypeOK
      <4>5. CASE n = 0
        <5>1. Cardinality(Live') <= Cardinality(Live) /\ Cardinality(Live') \in Nat
          BY <3>2, <4>3, FS_Subset, FS_CardinalityType
        <5>2. 0 \in 0 .. Len(queue') /\ Cardinality(Live') <= 0 + left'
          BY <3>1, <4>1, <4>2, <4>3, <4>4, <4>5, <5>1
        <5>3. QED
          BY <5>2 DEF Enough
      <4>6. CASE n # 0
        <5>1. Head(queue) = Terminate
          BY <4>1, <4>2, <4>6
        <5>2. wpc' = [wpc EXCEPT ![w] = "gone"] /\ wpc[w] = "pop"
          <6>1. Goto(w, CASE Head(queue) = Terminate -> "gone"
                          [] Head(queue) = Barrier   -> "reach"
                          [] OTHER                   -> "work")
            BY <2>4, <3>4 DEF Pop
          <6>2. QED
            BY <2>4, <5>1, <6>1, WorkPoolAssumption DEF Goto, Pop
        <5>3. Live' = Live \ {w} /\ w \in Live
          BY <5>2 DEF Live, TypeOK
        <5>4. Cardinality(Live') = Cardinality(Live) - 1
          BY <4>3, <5>3, FS_RemoveElement
        <5>5. n - 1 \in 0 .. Len(queue') /\ Cardinality(Live') <= (n - 1) + left'
          BY <3>1, <4>1, <4>2, <4>3, <4>4, <4>6, <5>4
        <5>6. \A i \in 1 .. n - 1 : i + 1 \in 1 .. n /\ i \in 1 .. Len(queue) - 1
          BY <4>1
        <5>7. \A i \in 1 .. n - 1 : queue'[i] = Terminate
          BY <4>1, <4>2, <5>6
        <5>8. QED
          BY <5>5, <5>7 DEF Enough
      <4>7. QED
        BY <4>5, <4>6
    <3>5. QED
      BY <3>3, <3>4
  <2>5. ASSUME NEW w \in Workers,
               Iterate(w) \/ Valid(w) \/ Check(w) \/ Acquire(w) \/ Work(w)
                          \/ WorkCaught(w) \/ Arrive(w)
        PROVE  Enough'
    <3>1. Live' \subseteq Live
      BY <2>5 DEF Iterate, Valid, Check, Acquire, Work, WorkCaught, Arrive, Live, Goto, TypeOK
    <3>2. /\ mpc = "kill" /\ added' = added /\ caught' = caught
          /\ queue' = queue /\ left' = left
      BY <2>5 DEF Iterate, Valid, Check, Acquire, Work, WorkCaught, Arrive, master, work_queue
    <3>3. QED
      BY <3>1, <3>2, EnoughQuiet
  <2>6. CASE Signal
    <3>1. ~exiting /\ left' = Cardinality(pool \ {cur}) /\ mpc # "over" /\ added' = added /\ caught'
      BY <2>6 DEF Signal, Kill
    <3>2. mpc \in {"body", "barrier"}
      BY <3>1 DEF Staffed, TypeOK
    <3>3. pool \ {cur} = Workers
      BY <3>2, WorkPoolAssumption DEF Staffed
    <3>4. QED
      BY <3>1, <3>3, EnoughStart
  <2>7. CASE UNCHANGED vars
    <3>1. Live' \subseteq Live
      BY <2>7 DEF vars, Live, worker
    <3>2. QED
      BY <2>7, <3>1, EnoughQuiet DEF vars, master, work_queue
  <2>8. ~AddBarrier /\ ~Join
    BY DEF AddBarrier, Join
  <2>9. QED
    BY <2>1, <2>2, <2>3, <2>4, <2>5, <2>6, <2>7, <2>8 DEF Next, Leave, Step
<1>3. QED
  BY <1>1, <1>2, TypeCorrect, StaffedHolds, PTL DEF Spec

(* A worker begins a task by taking it from the queue.                     *)
LEMMA TaskTaken ==
  ASSUME TypeOK, [Next]_vars, NEW w \in Workers, wpc[w] # "work", wpc'[w] = "work"
  PROVE  Pop(w)
<1>1. ~Start /\ ~Leave /\ ~Client /\ ~Signal /\ vars' # vars
  <2>1. ~Start
    BY DEF Start, AddThread, StartThread, NextThread, Goto, worker, TypeOK
  <2>2. ~Leave
    BY DEF Leave, Release, AddBarrier, EndBarrier, AddTerminate, Join, worker, TypeOK
  <2>3. ~Client /\ ~Signal /\ vars' # vars
    BY DEF Client, AddWork, BeginBarrier, Raise, Signal, vars, worker
  <2>4. QED
    BY <2>1, <2>2, <2>3
<1>2. PICK u \in Workers : Step(u)
  BY <1>1 DEF Next
<1>3. u = w
  BY <1>2 DEF Step, Iterate, Valid, Check, Acquire, Pop, Work, WorkCaught, Arrive, Goto, TypeOK
<1>4. QED
  BY <1>2, <1>3 DEF Step, Iterate, Valid, Check, Acquire, Work, WorkCaught, Arrive, Goto, TypeOK

(* "kills threads as quickly as possible": once every TERMINATE is queued  *)
(* and counted, whatever a worker takes from the queue is a TERMINATE, or  *)
(* the pool never had work: no worker begins another task.                 *)
THEOREM KillStopsWorkHolds == Spec => KillStopsWork
<1>1. TypeOK /\ Staffed /\ Enough /\ [Next]_vars =>
        \A w \in Workers : mpc = "kill" /\ left = 0 /\ owed = 0 /\ wpc'[w] = "work"
                             => wpc[w] = "work"
  <2> SUFFICES ASSUME TypeOK, Staffed, Enough, [Next]_vars, NEW w \in Workers,
                      mpc = "kill", left = 0, owed = 0, wpc'[w] = "work", wpc[w] # "work"
               PROVE  FALSE
    OBVIOUS
  <2>1. Pop(w)
    BY TaskTaken
  <2>2. queue # <<>>
    BY <2>1 DEF Pop, Goto, TypeOK
  <2>3. Head(queue) # Terminate /\ Head(queue) # Barrier
    BY <2>1, <2>2 DEF Pop, Goto, TypeOK
  <2>4. Head(queue) = queue[1] /\ Len(queue) \in Nat \ {0}
    BY <2>2, Popped DEF TypeOK
  <2>5. queue[1] \in added
    BY <2>3, <2>4 DEF Staffed
  <2>6. PICK n \in 0 .. Len(queue) : /\ \A i \in 1 .. n : queue[i] = Terminate
                                     /\ Cardinality(Live) <= n + left
    BY <2>5 DEF Enough
  <2>7. n = 0
    BY <2>3, <2>4, <2>6
  <2>8. w \in Live
    BY <2>1 DEF Pop, Live
  <2>9. IsFiniteSet(Live) /\ Cardinality(Live) \in Nat
    BY WorkPoolAssumption, FS_Subset, FS_CardinalityType DEF Live
  <2>10. Cardinality(Live) # 0
    BY <2>8, <2>9, FS_EmptySet
  <2>11. QED
    BY <2>6, <2>7, <2>9, <2>10
<1>2. QED
  BY <1>1, TypeCorrect, StaffedHolds, EnoughHolds, PTL DEF Spec, KillStopsWork

-----------------------------------------------------------------------------
(* Until a signal comes, the permits and the workers that have one are no  *)
(* fewer than the items either: no release is lost.                        *)
Exact == ~caught => sem + owed + Cardinality(Popping) = Len(queue)

(* A step that adds as many permits as items keeps Exact.                  *)
LEMMA ExactKept ==
  ASSUME TypeOK, TypeOK', Exact, ~caught, Popping' = Popping,
         sem' + owed' = sem + owed + (Len(queue') - Len(queue))
  PROVE  Exact'
<1>1. Len(queue) \in Nat /\ Len(queue') \in Nat /\ Cardinality(Popping) \in Nat
  BY LenProperties, PoolSize DEF TypeOK, Popping
<1>2. sem \in Nat /\ sem' \in Nat /\ owed \in Nat /\ owed' \in Nat
  BY DEF TypeOK
<1>3. Cardinality(Popping') = Cardinality(Popping)
  OBVIOUS
<1>4. sem + owed + Cardinality(Popping) = Len(queue)
  BY DEF Exact
<1>5. sem' + owed' + Cardinality(Popping) = Len(queue')
  BY SMTT(30), <1>1, <1>2, <1>4
<1>6. QED
  BY <1>3, <1>5 DEF Exact

(* Without a signal every item of the queue has a permit of its own.       *)
LEMMA ExactHolds == Spec => []Exact
<1>1. Init => Exact
  <2>1. ASSUME Init PROVE Popping = {} /\ Len(queue) = 0 /\ sem = 0 /\ owed = 0
    BY <2>1 DEF Init, Popping
  <2>2. QED
    BY <2>1, FS_EmptySet DEF Exact
<1>2. TypeOK /\ TypeOK' /\ Places /\ Permits /\ BarrierOrder /\ Exact /\ [Next]_vars => Exact'
  <2> SUFFICES ASSUME TypeOK, TypeOK', Places, Permits, BarrierOrder, Exact, [Next]_vars,
                      ~caught'
               PROVE  Exact'
    BY DEF Exact
  <2>0. Len(queue) \in Nat /\ sem \in Nat /\ owed \in {0, 1}
    BY LenProperties DEF TypeOK
  <2>1. CASE Release \/ AddTerminate \/ AddBarrier \/ \E t \in Tasks : AddWork(t)
    <3>1. ~caught /\ Popping' = Popping
      BY <2>1 DEF Release, AddTerminate, AddBarrier, AddWork, Popping, worker
    <3>2. CASE Release
      <4>1. sem' = sem + 1 /\ owed' = 0 /\ owed = 1 /\ queue' = queue
        BY <3>2 DEF Release
      <4>2. sem' + owed' = sem + owed + (Len(queue') - Len(queue))
        BY <2>0, <4>1
      <4>3. QED
        BY <3>1, <4>2, ExactKept
    <3>3. CASE AddTerminate \/ AddBarrier \/ \E t \in Tasks : AddWork(t)
      <4>1. sem' = sem /\ owed' = 1 /\ owed = 0 /\ Len(queue') = Len(queue) + 1
        BY <3>3, Pushed, Appended DEF AddTerminate, AddBarrier, AddWork, TypeOK, Item
      <4>2. sem' + owed' = sem + owed + (Len(queue') - Len(queue))
        BY <2>0, <4>1
      <4>3. QED
        BY <3>1, <4>2, ExactKept
    <3>4. QED
      BY <2>1, <3>2, <3>3
  <2>2. ASSUME NEW w \in Workers, Acquire(w) PROVE Exact'
    <3>1. Popping' = Popping \cup {w} /\ w \notin Popping /\ ~caught
      BY <2>2 DEF Acquire, Popping, Goto, TypeOK
    <3>2. IsFiniteSet(Popping) /\ Cardinality(Popping) \in Nat
      BY PoolSize DEF Popping
    <3>3. Cardinality(Popping') = Cardinality(Popping) + 1
      BY <3>1, <3>2, FS_AddElement
    <3>4. sem' = sem - 1 /\ owed' = owed /\ queue' = queue
      BY <2>2 DEF Acquire
    <3>5. sem + owed + Cardinality(Popping) = Len(queue)
      BY <3>1 DEF Exact
    <3>6. sem' + owed' + Cardinality(Popping') = Len(queue')
      BY <2>0, <3>2, <3>3, <3>4, <3>5
    <3>7. QED
      BY <3>6 DEF Exact
  <2>3. ASSUME NEW w \in Workers, Pop(w) PROVE Exact'
    <3>1. w \in Popping /\ Popping' = Popping \ {w} /\ ~caught
      BY <2>3 DEF Pop, Popping, Goto, TypeOK
    <3>2. IsFiniteSet(Popping) /\ Cardinality(Popping) \in Nat
      BY PoolSize DEF Popping
    <3>3. Cardinality(Popping') = Cardinality(Popping) - 1
      BY <3>1, <3>2, FS_RemoveElement
    <3>4. Cardinality(Popping) # 0
      BY <3>1, <3>2, FS_EmptySet
    <3>5. queue # <<>>
      BY <3>2, <3>4, <2>0 DEF Permits
    <3>6. Len(queue') = Len(queue) - 1 /\ sem' = sem /\ owed' = owed
      BY <2>3, <3>5, Popped DEF Pop, TypeOK, work_queue
    <3>7. sem + owed + Cardinality(Popping) = Len(queue)
      BY <3>1 DEF Exact
    <3>8. sem' + owed' + Cardinality(Popping') = Len(queue')
      BY <2>0, <3>2, <3>3, <3>6, <3>7
    <3>9. QED
      BY <3>8 DEF Exact
  <2>4. CASE \/ Start \/ EndBarrier \/ Join \/ Raise \/ (\E e \in BOOLEAN : BeginBarrier(e))
             \/ UNCHANGED vars
    <3>1. Popping' = Popping
      <4>1. CASE EndBarrier
        <5>1. \A u \in arrived : wpc[u] = "wait"
          BY <4>1 DEF EndBarrier, BarrierOrder, Ending, Waiting
        <5>2. QED
          BY <4>1, <5>1 DEF EndBarrier, Popping, TypeOK
      <4>2. CASE StartThread
        BY <4>2 DEF StartThread, Places, Popping, Goto, TypeOK
      <4>3. CASE ~EndBarrier /\ ~StartThread
        BY <2>4, <4>3 DEF Start, AddThread, NextThread, Join, Raise, BeginBarrier, vars,
                          worker, Popping
      <4>4. QED
        BY <4>1, <4>2, <4>3
    <3>2. sem' = sem /\ owed' = owed /\ queue' = queue /\ ~caught
      BY <2>4 DEF Start, AddThread, StartThread, NextThread, EndBarrier, Join, Raise,
                  BeginBarrier, vars, work_queue
    <3>3. sem' + owed' = sem + owed + (Len(queue') - Len(queue))
      BY <2>0, <3>2
    <3>4. QED
      BY <3>1, <3>2, <3>3, ExactKept
  <2>5. ASSUME NEW w \in Workers,
               Iterate(w) \/ Valid(w) \/ Check(w) \/ Work(w) \/ WorkCaught(w) \/ Arrive(w)
        PROVE  Exact'
    <3>1. Popping' = Popping
      BY <2>5 DEF Iterate, Valid, Check, Work, WorkCaught, Arrive, Popping, Goto, TypeOK
    <3>2. sem' = sem /\ owed' = owed /\ queue' = queue /\ ~caught
      BY <2>5 DEF Iterate, Valid, Check, Work, WorkCaught, Arrive, work_queue
    <3>3. sem' + owed' = sem + owed + (Len(queue') - Len(queue))
      BY <2>0, <3>2
    <3>4. QED
      BY <3>1, <3>2, <3>3, ExactKept
  <2>6. ~Signal
    BY DEF Signal
  <2>7. QED
    BY <2>1, <2>2, <2>3, <2>4, <2>5, <2>6 DEF Next, Leave, Client, Step
<1>3. QED
  BY <1>1, <1>2, TypeInvariant, PermitsInvariant, BarrierInvariant, PTL DEF Spec

-----------------------------------------------------------------------------
(* Until a signal comes, every thread of the pool is started, and when the *)
(* master kills nobody is at a barrier or on the way to one.               *)
Manned ==
  ~caught =>
    /\ \A w \in pool : wpc[w] = "none" => mpc = "added" /\ w = cur
    /\ mpc = "kill" => Reached = {} /\ \A i \in 1 .. Len(queue) : queue[i] # Barrier

(* Every worker is started, and has left the barriers, before the kill.    *)
LEMMA MannedHolds == Spec => []Manned
<1>1. Init => Manned
  BY DEF Init, Manned
<1>2. TypeOK /\ Staffed /\ BarrierOrder /\ Manned /\ [Next]_vars => Manned'
  <2> SUFFICES ASSUME TypeOK, Staffed, BarrierOrder, Manned, [Next]_vars, ~caught'
               PROVE  Manned'
    BY DEF Manned
  <2>1. ASSUME NEW w \in Workers, AddThread(w) PROVE Manned'
    BY <2>1 DEF AddThread, Manned, worker
  <2>2. ASSUME StartThread PROVE Manned'
    BY <2>2 DEF StartThread, Manned, Goto, TypeOK
  <2>3. ASSUME NextThread PROVE Manned'
    BY <2>3 DEF NextThread, Manned, worker
  <2>4. ASSUME Release PROVE Manned'
    BY <2>4 DEF Release, Manned, Reached, worker, master
  <2>5. CASE AddBarrier \/ (\E e \in BOOLEAN : BeginBarrier(e)) \/ \E t \in Tasks : AddWork(t)
    BY <2>5 DEF AddBarrier, BeginBarrier, AddWork, Manned, worker, master
  <2>6. ASSUME Raise PROVE Manned'
    <3>1. mpc = "body" /\ wpc' = wpc /\ queue' = queue /\ pool' = pool /\ ~caught
      BY <2>6 DEF Raise, worker, work_queue
    <3>2. Reached = {} /\ Due = 0 /\ \A i \in 1 .. Len(queue) : Placed(i)
      BY <3>1 DEF BarrierOrder, Ending, Due
    <3>3. Len(queue) \in Nat
      BY LenProperties DEF TypeOK
    <3>4. \A i \in 1 .. Len(queue) : queue[i] # Barrier
      BY <3>2, <3>3 DEF Placed
    <3>5. QED
      BY <3>1, <3>2, <3>4 DEF Manned, Reached
  <2>7. ASSUME EndBarrier PROVE Manned'
    <3>1. /\ mpc = "barrier" /\ left = 0 /\ Cardinality(arrived) >= Cardinality(pool)
          /\ pool' = pool /\ queue' = queue /\ ~caught
          /\ wpc' = [u \in Workers |-> IF u \in arrived THEN "check" ELSE wpc[u]]
      BY <2>7 DEF EndBarrier, work_queue
    <3>2. EveryoneWaits
      BY <3>1, BarrierFull
    <3>3. Reached' = {} /\ Len(queue') = 0
      BY <3>1, <3>2 DEF EveryoneWaits, Reached
    <3>4. \A u \in pool : wpc'[u] # "none"
      BY <3>1 DEF Manned, TypeOK
    <3>5. QED
      BY <3>1, <3>3, <3>4 DEF Manned
  <2>8. ASSUME AddTerminate PROVE Manned'
    <3>1. queue \in Seq(Item) /\ Terminate \in Item /\ queue' = <<Terminate>> \o queue
      BY <2>8 DEF AddTerminate, TypeOK, Item
    <3>2. Len(queue) \in Nat /\ Len(queue') = Len(queue) + 1
      BY <3>1, LenProperties, Pushed
    <3>3. mpc = "kill" /\ mpc' = mpc /\ cur' = cur /\ wpc' = wpc /\ pool' = pool /\ ~caught
      BY <2>8 DEF AddTerminate, worker
    <3>4. \A i \in 1 .. Len(queue') : queue'[i] # Barrier
      <4> SUFFICES ASSUME NEW i \in 1 .. Len(queue') PROVE queue'[i] # Barrier
        OBVIOUS
      <4>1. i = 1 \/ (i - 1 \in 1 .. Len(queue) /\ (i - 1) + 1 = i)
        BY <3>2
      <4>2. queue'[i] = Terminate \/ \E j \in 1 .. Len(queue) : queue'[i] = queue[j]
        BY <3>1, <4>1, PushedItems
      <4>3. QED
        BY <3>3, <4>2, WorkPoolAssumption DEF Manned
    <3>5. QED
      BY <3>3, <3>4 DEF Manned, Reached
  <2>9. ASSUME Join PROVE Manned'
    BY <2>9 DEF Join, Manned, worker
  <2>10. ASSUME NEW w \in Workers, Pop(w) PROVE Manned'
    <3>1. /\ ~caught /\ pool' = pool /\ mpc' = mpc /\ cur' = cur
          /\ wpc[w] = "pop" /\ wpc'[w] # "none"
          /\ \A u \in Workers : u # w => wpc'[u] = wpc[u]
      BY <2>10 DEF Pop, Goto, TypeOK, master
    <3>2. \A u \in pool : wpc'[u] = "none" => mpc' = "added" /\ u = cur'
      BY <3>1 DEF Manned, TypeOK
    <3>3. CASE mpc # "kill"
      BY <3>1, <3>2, <3>3 DEF Manned
    <3>4. CASE mpc = "kill" /\ queue = <<>>
      <4>1. queue' = queue /\ wpc'[w] = "gone"
        BY <2>10, <3>4 DEF Pop, Goto, TypeOK
      <4>2. Reached' = {}
        BY <3>1, <3>4, <4>1 DEF Manned, Reached
      <4>3. QED
        BY <3>1, <3>2, <3>4, <4>1, <4>2 DEF Manned
    <3>5. CASE mpc = "kill" /\ queue # <<>>
      <4>1. /\ queue' = Tail(queue) /\ Len(queue) \in Nat \ {0}
            /\ Len(queue') = Len(queue) - 1 /\ Head(queue) = queue[1]
            /\ \A i \in 1 .. Len(queue) - 1 : queue'[i] = queue[i + 1]
        BY <2>10, <3>5, Popped DEF Pop, TypeOK
      <4>2. Head(queue) # Barrier
        BY <3>1, <3>5, <4>1 DEF Manned
      <4>3. wpc'[w] \in {"gone", "work"}
        BY <2>10, <3>5, <4>2 DEF Pop, Goto, TypeOK
      <4>4. Reached' = {}
        BY <3>1, <3>5, <4>3 DEF Manned, Reached
      <4>5. \A i \in 1 .. Len(queue') : i + 1 \in 1 .. Len(queue) /\ queue'[i] = queue[i + 1]
        BY <4>1
      <4>6. \A i \in 1 .. Len(queue') : queue'[i] # Barrier
        BY <3>1, <3>5, <4>5 DEF Manned
      <4>7. QED
        BY <3>1, <3>2, <4>4, <4>6 DEF Manned
    <3>6. QED
      BY <3>3, <3>4, <3>5
  <2>11. ASSUME NEW w \in Workers,
                Iterate(w) \/ Valid(w) \/ Check(w) \/ Acquire(w) \/ Work(w)
                           \/ WorkCaught(w) \/ Arrive(w)
         PROVE  Manned'
    <3>1. /\ ~caught /\ pool' = pool /\ mpc' = mpc /\ cur' = cur /\ queue' = queue
      BY <2>11 DEF Iterate, Valid, Check, Acquire, Work, WorkCaught, Arrive, master, work_queue
    <3>2. /\ wpc'[w] # "none" /\ \A u \in Workers : u # w => wpc'[u] = wpc[u]
          /\ wpc'[w] \in {"reach", "wait"} => wpc[w] \in {"reach", "wait"}
      BY <2>11 DEF Iterate, Valid, Check, Acquire, Work, WorkCaught, Arrive, Goto, TypeOK
    <3>3. Reached' \subseteq Reached
      BY <3>2 DEF Reached
    <3>4. QED
      BY <3>1, <3>2, <3>3 DEF Manned, TypeOK
  <2>12. CASE UNCHANGED vars
    BY <2>12 DEF vars, Manned, Reached, master, worker, work_queue
  <2>13. ~Signal
    BY DEF Signal
  <2>14. QED
    BY <2>1, <2>2, <2>3, <2>4, <2>5, <2>6, <2>7, <2>8, <2>9, <2>10, <2>11, <2>12, <2>13
       DEF Next, Start, Leave, Client, Step
<1>3. QED
  BY <1>1, <1>2, TypeCorrect, StaffedHolds, BarrierInvariant, PTL DEF Spec

(* Barriers and the end of the pool do not deadlock, for any number of     *)
(* workers: before a signal, and unless a worker died, the master has an   *)
(* item to queue or to count, or may go on, or some worker can step.       *)
Ready(w) ==
  \/ wpc[w] \in {"main", "valid", "check", "pop", "work", "reach"}
  \/ wpc[w] = "acquire" /\ sem > 0

NeverStuck ==
  mpc \in {"barrier", "kill"} /\ ~caught /\ (mpc = "barrier" => Live = Workers) =>
    \/ owed = 1 \/ left > 0
    \/ mpc = "barrier" /\ Cardinality(arrived) >= Cardinality(pool)
    \/ mpc = "kill" /\ \A w \in pool : wpc[w] = "gone"
    \/ \E w \in Workers : Ready(w)

(* As long as there are items there are permits for living workers, so     *)
(* someone can step; when there are none the master's condition is met.    *)
THEOREM NeverStuckHolds == Spec => []NeverStuck
<1>1. TypeOK /\ Exact /\ Manned /\ Staffed /\ Enough /\ BarrierOrder /\ Joined => NeverStuck
  <2> SUFFICES ASSUME TypeOK, Exact, Manned, Staffed, Enough, BarrierOrder, Joined,
                      mpc \in {"barrier", "kill"}, ~caught, mpc = "barrier" => Live = Workers,
                      owed # 1, ~(left > 0), \A w \in Workers : ~Ready(w)
               PROVE  \/ mpc = "barrier" /\ Cardinality(arrived) >= Cardinality(pool)
                      \/ mpc = "kill" /\ \A w \in pool : wpc[w] = "gone"
    BY DEF NeverStuck
  <2>1. pool = Workers /\ left = 0 /\ owed = 0
    BY Counts DEF Joined, TypeOK
  <2>2. \A w \in Workers : wpc[w] \in {"acquire", "wait", "gone"}
    BY <2>1 DEF Manned, Ready, TypeOK
  <2>3. Cardinality(Popping) = 0
    <3>1. Popping = {}
      BY <2>2 DEF Popping
    <3>2. QED
      BY <3>1, FS_EmptySet
  <2>4. sem = Len(queue) /\ sem \in Nat
    BY <2>1, <2>3 DEF Exact, TypeOK
  <2>5. CASE mpc = "kill"
    <3>1. PICK n \in 0 .. Len(queue) : Cardinality(Live) <= n + left
      BY <2>5 DEF Enough
    <3>2. IsFiniteSet(Live) /\ Cardinality(Live) \in Nat
      BY WorkPoolAssumption, FS_Subset, FS_CardinalityType DEF Live
    <3>3. Cardinality(Live) <= sem
      BY <2>1, <2>4, <3>1, <3>2
    <3>4. \A w \in Workers : wpc[w] # "wait"
      BY <2>5 DEF Manned, Reached
    <3>5. ASSUME NEW w \in Live PROVE FALSE
      <4>1. w \in Workers /\ wpc[w] = "acquire"
        BY <2>2, <3>4 DEF Live
      <4>2. Cardinality(Live) # 0
        BY <3>2, FS_EmptySet
      <4>3. sem > 0
        BY <2>4, <3>2, <3>3, <4>2
      <4>4. QED
        BY <4>1, <4>3 DEF Ready
    <3>6. QED
      BY <2>1, <2>5, <3>5 DEF Live
  <2>6. CASE mpc = "barrier"
    <3>1. ~Ending /\ arrived = Waiting
      BY <2>6 DEF BarrierOrder, Ending
    <3>2. \A w \in Workers : wpc[w] # "gone"
      BY <2>6 DEF Live
    <3>3. CASE sem > 0
      <4>1. Waiting = Workers
        BY <2>2, <3>2, <3>3 DEF Ready, Waiting
      <4>2. Cardinality(arrived) = Cardinality(pool) /\ Cardinality(pool) \in Nat
        BY <2>1, <3>1, <4>1, Counts
      <4>3. QED
        BY <2>6, <4>2
    <3>4. CASE ~(sem > 0)
      <4>1. Len(queue) = 0
        BY <2>4, <3>4
      <4>2. Due = 0
        BY <3>1, <4>1 DEF BarrierOrder
      <4>3. Cardinality(Reached) \in Nat /\ Cardinality(Workers) \in Nat
        BY PoolSize, Counts DEF Reached
      <4>4. Cardinality(Reached) = Cardinality(pool)
        BY <2>1, <2>6, <4>2, <4>3 DEF Due
      <4>5. Reached = Waiting
        BY <2>2 DEF Reached, Waiting
      <4>6. QED
        BY <2>1, <2>6, <3>1, <4>3, <4>4, <4>5
    <3>5. QED
      BY <3>3, <3>4
  <2>7. QED
    BY <2>5, <2>6
<1>2. QED
  BY <1>1, TypeCorrect, ExactHolds, MannedHolds, StaffedHolds, EnoughHolds,
     BarrierInvariant, JoinedHolds, PTL

-----------------------------------------------------------------------------
(* A task is in one place of the queue, or has been taken by one worker,   *)
(* which keeps it as its last; what was added and is in neither is done.   *)
Apart(t) == /\ t \in added \ finished
            /\ \A i, j \in 1 .. Len(queue) : queue[i] = t /\ queue[j] = t => i = j
            /\ \A w \in Workers : work[w] # t

Distinct ==
  /\ finished \subseteq added
  /\ \A i \in 1 .. Len(queue) : queue[i] \in Tasks => Apart(queue[i])
  /\ \A w \in Workers : work[w] \in Tasks =>
       work[w] \in added /\ \A u \in Workers : work[u] = work[w] => u = w

(* No task is put into the queue or taken out of it.                       *)
LEMMA DistinctQuiet ==
  ASSUME Distinct, queue' = queue, work' = work, added' = added,
         finished' \subseteq added,
         \A i \in 1 .. Len(queue) : queue[i] \in Tasks => queue[i] \notin finished'
  PROVE  Distinct'
  BY DEF Distinct, Apart

(* An item is put at one end of the queue that is no task.                 *)
LEMMA DistinctPut ==
  ASSUME TypeOK, TypeOK', Distinct, UNCHANGED <<work, added, finished>>,
         \A i \in 1 .. Len(queue') : queue'[i] \in Tasks =>
           \E d \in {0, 1} : i - d \in 1 .. Len(queue) /\ queue'[i] = queue[i - d]
                             /\ \A j \in 1 .. Len(queue') : queue'[j] \in Tasks =>
                                  j - d \in 1 .. Len(queue) /\ queue'[j] = queue[j - d]
  PROVE  Distinct'
<1>1. ASSUME NEW i \in 1 .. Len(queue'), queue'[i] \in Tasks PROVE Apart(queue[i])'
  <2>1. PICK d \in {0, 1} :
          /\ i - d \in 1 .. Len(queue) /\ queue'[i] = queue[i - d]
          /\ \A j \in 1 .. Len(queue') : queue'[j] \in Tasks =>
               j - d \in 1 .. Len(queue) /\ queue'[j] = queue[j - d]
    BY <1>1
  <2>2. Apart(queue[i - d])
    BY <1>1, <2>1 DEF Distinct
  <2>3. ASSUME NEW j \in 1 .. Len(queue'), NEW k \in 1 .. Len(queue'),
               queue'[j] = queue'[i], queue'[k] = queue'[i]
        PROVE  j = k
    <3>1. /\ j - d \in 1 .. Len(queue) /\ queue[j - d] = queue[i - d]
          /\ k - d \in 1 .. Len(queue) /\ queue[k - d] = queue[i - d]
      BY <1>1, <2>1, <2>3
    <3>2. j - d = k - d
      BY <2>2, <3>1 DEF Apart
    <3>3. QED
      BY <3>2
  <2>4. QED
    BY <2>1, <2>2, <2>3 DEF Apart
<1>2. QED
  BY <1>1 DEF Distinct

(* A task is queued once, and leaves the queue when a worker takes it.     *)
LEMMA DistinctHolds == Spec => []Distinct
<1>1. Init => Distinct
  BY WorkPoolAssumption DEF Init, Distinct
<1>2. TypeOK /\ TypeOK' /\ Places /\ Distinct /\ [Next]_vars => Distinct'
  <2> SUFFICES ASSUME TypeOK, TypeOK', Places, Distinct, [Next]_vars PROVE Distinct'
    OBVIOUS
  <2>0. queue \in Seq(Item) /\ Len(queue) \in Nat
    BY LenProperties DEF TypeOK
  <2>1. ASSUME NEW t \in Tasks, AddWork(t) PROVE Distinct'
    <3>1. queue' = Append(queue, t) /\ t \in Item /\ t \notin added
          /\ added' = added \cup {t} /\ finished' = finished /\ work' = work
      BY <2>1 DEF AddWork, worker, Item
    <3>2. /\ Len(queue') = Len(queue) + 1 /\ queue'[Len(queue) + 1] = t
          /\ \A i \in 1 .. Len(queue) : queue'[i] = queue[i]
      BY <2>0, <3>1, Appended
    <3>3. \A i \in 1 .. Len(queue) : queue[i] # t
      BY <3>1 DEF Distinct, Apart
    <3>4. \A w \in Workers : work[w] # t
      BY <3>1 DEF Distinct
    <3>5. finished \subseteq added
      BY DEF Distinct
    <3>6. ASSUME NEW i \in 1 .. Len(queue'), queue'[i] \in Tasks PROVE Apart(queue[i])'
      <4>1. CASE i = Len(queue) + 1
        BY <2>0, <3>1, <3>2, <3>3, <3>4, <3>5, <4>1 DEF Apart
      <4>2. CASE i \in 1 .. Len(queue)
        <5>1. Apart(queue[i]) /\ queue'[i] = queue[i] /\ queue[i] # t
          BY <3>2, <3>3, <3>6, <4>2 DEF Distinct
        <5>2. \A j \in 1 .. Len(queue') : queue'[j] = queue[i] => j \in 1 .. Len(queue)
          BY <2>0, <3>2, <5>1
        <5>3. QED
          BY <3>1, <3>2, <5>1, <5>2 DEF Apart
      <4>3. QED
        BY <2>0, <3>2, <4>1, <4>2
    <3>7. QED
      BY <3>1, <3>6 DEF Distinct
  <2>2. ASSUME AddBarrier PROVE Distinct'
    <3>1. queue' = Append(queue, Barrier) /\ Barrier \in Item /\ Barrier \notin Tasks
          /\ UNCHANGED <<work, added, finished>>
      BY <2>2, WorkPoolAssumption DEF AddBarrier, worker, Item
    <3>2. /\ Len(queue') = Len(queue) + 1 /\ queue'[Len(queue) + 1] = Barrier
          /\ \A i \in 1 .. Len(queue) : queue'[i] = queue[i]
      BY <2>0, <3>1, Appended
    <3>3. \A i \in 1 .. Len(queue') : queue'[i] \in Tasks =>
            i - 0 \in 1 .. Len(queue) /\ queue'[i] = queue[i - 0]
      BY <2>0, <3>1, <3>2
    <3>4. QED
      BY <3>1, <3>3, DistinctPut
  <2>3. ASSUME AddTerminate PROVE Distinct'
    <3>1. queue' = <<Terminate>> \o queue /\ Terminate \in Item /\ Terminate \notin Tasks
          /\ UNCHANGED <<work, added, finished>>
      BY <2>3, WorkPoolAssumption DEF AddTerminate, worker, Item
    <3>2. /\ Len(queue') = Len(queue) + 1 /\ queue'[1] = Terminate
          /\ \A i \in 1 .. Len(queue) : queue'[i + 1] = queue[i]
      BY <2>0, <3>1, Pushed, PushedItems
    <3>3. \A i \in 1 .. Len(queue') : queue'[i] \in Tasks =>
            i - 1 \in 1 .. Len(queue) /\ queue'[i] = queue[i - 1]
      <4> SUFFICES ASSUME NEW i \in 1 .. Len(queue'), queue'[i] \in Tasks
                   PROVE  i - 1 \in 1 .. Len(queue) /\ queue'[i] = queue[i - 1]
        OBVIOUS
      <4>1. i # 1
        BY <3>1, <3>2
      <4>2. i - 1 \in 1 .. Len(queue) /\ (i - 1) + 1 = i
        BY <2>0, <3>2, <4>1
      <4>3. QED
        BY <3>2, <4>2
    <3>4. QED
      BY <3>1, <3>3, DistinctPut
  <2>4. ASSUME NEW w \in Workers, Pop(w) PROVE Distinct'
    <3>1. CASE queue = <<>>
      BY <2>4, <3>1, DistinctQuiet DEF Pop, Distinct, Apart
    <3>2. CASE queue # <<>>
      <4>1. /\ queue' = Tail(queue) /\ Len(queue) \in Nat \ {0}
            /\ Len(queue') = Len(queue) - 1 /\ Head(queue) = queue[1]
            /\ \A i \in 1 .. Len(queue) - 1 : queue'[i] = queue[i + 1]
            /\ added' = added /\ finished' = finished
        BY <2>4, <3>2, Popped DEF Pop, TypeOK
      <4>2. \A u \in Workers : work'[u] = IF u = w THEN queue[1] ELSE work[u]
        BY <2>4, <3>2, <4>1 DEF Pop, TypeOK
      <4>3. \A i \in 1 .. Len(queue') : i + 1 \in 1 .. Len(queue) /\ queue'[i] = queue[i + 1]
        BY <4>1
      <4>4. 1 \in 1 .. Len(queue)
        BY <4>1
      <4>5. ASSUME NEW i \in 1 .. Len(queue'), queue'[i] \in Tasks PROVE Apart(queue[i])'
        <5>1. i + 1 \in 1 .. Len(queue) /\ queue'[i] = queue[i + 1] /\ Apart(queue[i + 1])
          BY <4>3, <4>5 DEF Distinct
        <5>2. queue[1] # queue[i + 1]
          BY <4>4, <5>1 DEF Apart
        <5>3. \A u \in Workers : work'[u] # queue'[i]
          BY <4>2, <5>1, <5>2 DEF Apart
        <5>4. ASSUME NEW j \in 1 .. Len(queue'), NEW k \in 1 .. Len(queue'),
                     queue'[j] = queue'[i], queue'[k] = queue'[i]
              PROVE  j = k
          <6>1. j + 1 = k + 1
            BY <4>3, <5>1, <5>4 DEF Apart
          <6>2. QED
            BY <6>1
        <5>5. QED
          BY <4>1, <5>1, <5>3, <5>4 DEF Apart
      <4>6. ASSUME NEW u \in Workers, work'[u] \in Tasks
            PROVE  work'[u] \in added' /\ \A v \in Workers : work'[v] = work'[u] => v = u
        <5>1. queue[1] \in Tasks => queue[1] \in added /\ \A v \in Workers : work[v] # queue[1]
          BY <4>4 DEF Distinct, Apart
        <5>2. QED
          BY <4>1, <4>2, <4>6, <5>1 DEF Distinct
      <4>7. QED
        BY <4>1, <4>5, <4>6 DEF Distinct
    <3>3. QED
      BY <3>1, <3>2
  <2>5. ASSUME NEW w \in Workers, Work(w) PROVE Distinct'
    <3>1. /\ queue' = queue /\ work' = work /\ added' = added
          /\ finished' = finished \cup {work[w]}
      BY <2>5 DEF Work, work_queue
    <3>2. \A i \in 1 .. Len(queue) : queue[i] \in Tasks => queue[i] \notin finished'
      BY <3>1 DEF Distinct, Apart
    <3>3. finished' \subseteq added
      BY <2>5, <3>1 DEF Work, Places, Distinct
    <3>4. QED
      BY <3>1, <3>2, <3>3, DistinctQuiet
  <2>6. CASE \/ Start \/ Release \/ EndBarrier \/ Join \/ (\E e \in BOOLEAN : BeginBarrier(e))
             \/ Raise \/ Signal \/ UNCHANGED vars
    <3>1. queue' = queue /\ work' = work /\ added' = added /\ finished' = finished
      BY <2>6 DEF Start, AddThread, StartThread, NextThread, Release, EndBarrier, Join,
                  BeginBarrier, Raise, Signal, vars, worker, work_queue
    <3>2. QED
      BY <3>1, DistinctQuiet DEF Distinct, Apart
  <2>7. ASSUME NEW w \in Workers,
               Iterate(w) \/ Valid(w) \/ Check(w) \/ Acquire(w) \/ WorkCaught(w) \/ Arrive(w)
        PROVE  Distinct'
    <3>1. queue' = queue /\ work' = work /\ added' = added /\ finished' = finished
      BY <2>7 DEF Iterate, Valid, Check, Acquire, WorkCaught, Arrive, work_queue
    <3>2. QED
      BY <3>1, DistinctQuiet DEF Distinct, Apart
  <2>8. QED
    BY <2>1, <2>2, <2>3, <2>4, <2>5, <2>6, <2>7 DEF Next, Leave, Client, Step
<1>3. QED
  BY <1>1, <1>2, TypeInvariant, PTL DEF Spec

(* A task is begun once: when a worker begins it, it has been added and    *)
(* not been run, and no worker has had it, not even one that a signal took *)
(* out of it.                                                              *)
BegunOnce ==
  [][\A w \in Workers : wpc[w] # "work" /\ wpc'[w] = "work" =>
       /\ work'[w] \in added \ finished
       /\ \A u \in Workers : work[u] # work'[w]]_vars

(* No task is begun twice, however many workers there are.                 *)
THEOREM BegunOnceHolds == Spec => BegunOnce
<1>1. TypeOK /\ Distinct /\ [Next]_vars =>
        \A w \in Workers : wpc[w] # "work" /\ wpc'[w] = "work" =>
          /\ work'[w] \in added \ finished
          /\ \A u \in Workers : work[u] # work'[w]
  <2> SUFFICES ASSUME TypeOK, Distinct, [Next]_vars, NEW w \in Workers,
                      wpc[w] # "work", wpc'[w] = "work"
               PROVE  work'[w] \in added \ finished /\ \A u \in Workers : work[u] # work'[w]
    OBVIOUS
  <2>1. Pop(w)
    BY TaskTaken
  <2>2. queue # <<>>
    BY <2>1 DEF Pop, Goto, TypeOK
  <2>3. Head(queue) # Terminate /\ Head(queue) # Barrier /\ work'[w] = Head(queue)
    BY <2>1, <2>2 DEF Pop, Goto, TypeOK
  <2>4. Head(queue) = queue[1] /\ Len(queue) \in Nat \ {0} /\ Head(queue) \in Item
    BY <2>2, Popped DEF TypeOK
  <2>5. queue[1] \in Tasks /\ 1 \in 1 .. Len(queue)
    BY <2>3, <2>4 DEF Item
  <2>6. QED
    BY <2>3, <2>4, <2>5 DEF Distinct, Apart
<1>2. QED
  BY <1>1, TypeCorrect, DistinctHolds, PTL DEF Spec, BegunOnce

-----------------------------------------------------------------------------
(* How far a worker is from the semaphore, or from its end.                *)
Rank(w) ==
  CASE wpc[w] \in {"main", "reach"}         -> 5
    [] wpc[w] \in {"valid", "wait", "work"} -> 4
    [] wpc[w] = "check"                     -> 3
    [] wpc[w] = "acquire"                   -> 2
    [] wpc[w] = "pop"                       -> 1
    [] OTHER                                -> 0
Ranks == [w \in Workers |-> Rank(w)]

(* The sum of a function's values, as the size of a set.                   *)
UpTo(S, f) == UNION {{x} \X (1 .. f[x]) : x \in S}
Total(f)   == Cardinality(UpTo(Workers, f))

(* What is left to do in a barrier, or when the threads are killed: an     *)
(* item to queue is more than one that is queued, and that is more than    *)
(* any worker can have in hand.                                            *)
Todo == 7 * left + 5 * Len(queue) + owed + Total(Ranks)

(* There are finitely many pairs of a worker and a number.                 *)
LEMMA UpToFinite ==
  ASSUME NEW S, S \subseteq Workers, NEW f \in [Workers -> Nat]
  PROVE  IsFiniteSet(UpTo(S, f))
<1> DEFINE h == [x \in S |-> {x} \X (1 .. f[x])]
           T == {h[x] : x \in S}
<1>1. UpTo(S, f) = UNION T
  BY DEF UpTo
<1>2. h \in Surjection(S, T)
  BY DEF Surjection
<1> HIDE DEF T
<1>3. IsFiniteSet(T)
  BY <1>2, PoolSize, FS_Surjection
<1>4. ASSUME NEW x \in S PROVE IsFiniteSet({x} \X (1 .. f[x]))
  <2>1. PICK n \in Nat : n = f[x]
    OBVIOUS
  <2>2. IsFiniteSet(1 .. n)
    BY 1 \in Int, n \in Int, FS_Interval
  <2>3. IsFiniteSet({x})
    BY FS_Singleton
  <2> QED
    BY <2>1, <2>2, <2>3, FS_Product
<1>5. \A s \in {h[x] : x \in S} : IsFiniteSet(s)
  BY <1>4
<1>6. IsFiniteSet(UNION T)
  BY <1>3, <1>5, FS_UNION DEF T
<1> QED
  BY <1>1, <1>6

(* A sum is what one worker has and what the others have.                  *)
LEMMA OneAndOthers ==
  ASSUME NEW f \in [Workers -> Nat], NEW w \in Workers
  PROVE  /\ Cardinality(UpTo(Workers \ {w}, f)) \in Nat
         /\ Total(f) = Cardinality(UpTo(Workers \ {w}, f)) + f[w]
<1> DEFINE A == UpTo(Workers \ {w}, f)
           B == {w} \X (1 .. f[w])
<1>1. UpTo(Workers, f) = A \cup B
  BY DEF UpTo
<1>2. A \cap B = {}
  <2>1. \A p \in A : p[1] # w
    BY DEF UpTo
  <2>2. \A p \in B : p[1] = w
    OBVIOUS
  <2> QED
    BY <2>1, <2>2
<1>3. IsFiniteSet(A) /\ Cardinality(A) \in Nat
  BY UpToFinite, FS_CardinalityType
<1>4. PICK n \in Nat : n = f[w]
  OBVIOUS
<1>5. IsFiniteSet(B) /\ Cardinality(B) = n
  <2>1. IsFiniteSet(1 .. n) /\ Cardinality(1 .. n) = n
    BY 1 \in Int, n \in Int, FS_Interval
  <2>2. IsFiniteSet({w}) /\ Cardinality({w}) = 1
    BY FS_Singleton
  <2>3. IsFiniteSet(B) /\ Cardinality(B) = Cardinality({w}) * Cardinality(1 .. n)
    BY <1>4, <2>1, <2>2, FS_Product
  <2> QED
    BY <2>1, <2>2, <2>3
<1>6. Cardinality({}) = 0
  BY FS_EmptySet
<1>7. Cardinality(A \cup B) = Cardinality(A) + Cardinality(B) - Cardinality(A \cap B)
  BY <1>3, <1>5, FS_Union
<1> HIDE DEF A, B
<1>8. Cardinality(A \cup B) = Cardinality(A) + n
  <2>1. Cardinality(A \cap B) = 0
    BY <1>2, <1>6
  <2>2. PICK m \in Nat : m = Cardinality(A)
    BY <1>3
  <2> QED
    BY <1>5, <1>7, <2>1, <2>2
<1> QED
  BY <1>1, <1>3, <1>4, <1>8 DEF Total, A

(* So when one worker moves, the sum changes by its change.                *)
LEMMA OneMoves ==
  ASSUME NEW f \in [Workers -> Nat], NEW g \in [Workers -> Nat], NEW w \in Workers,
         \A u \in Workers \ {w} : g[u] = f[u]
  PROVE  Total(f) \in Nat /\ Total(g) \in Nat /\ Total(g) + f[w] = Total(f) + g[w]
<1>1. UpTo(Workers \ {w}, g) = UpTo(Workers \ {w}, f)
  BY DEF UpTo
<1>2. PICK c \in Nat : c = Cardinality(UpTo(Workers \ {w}, f))
  BY OneAndOthers
<1>3. PICK a \in Nat, b \in Nat : a = f[w] /\ b = g[w]
  OBVIOUS
<1>4. Total(f) = c + a /\ Total(g) = c + b
  BY <1>1, <1>2, <1>3, OneAndOthers
<1> QED
  BY <1>3, <1>4

(* Ranks are numbers.                                                      *)
LEMMA RankType == Ranks \in [Workers -> Nat] /\ \A w \in Workers : Rank(w) \in 0 .. 5
  BY DEF Rank, Ranks

(* What is left is a number.                                               *)
LEMMA TodoType == TypeOK => Todo \in Nat
<1> SUFFICES ASSUME TypeOK PROVE Todo \in Nat
  OBVIOUS
<1>1. PICK w \in Workers : TRUE
  BY WorkPoolAssumption
<1>2. Total(Ranks) \in Nat
  BY RankType, OneMoves, <1>1
<1>3. left \in Nat /\ Len(queue) \in Nat /\ owed \in Nat
  BY Counts, LenProperties DEF TypeOK
<1> QED
  BY <1>2, <1>3 DEF Todo

(* A worker that moves comes nearer, and if it takes an item from the      *)
(* queue, that was worth more.                                             *)
LEMMA WorkerNearer ==
  ASSUME TypeOK, TypeOK', NEW w \in Workers, Step(w)
  PROVE  Todo' < Todo
<1>1. PICK g \in [Workers -> Nat] : g = Ranks' /\ \A u \in Workers : g[u] = Rank(u)'
  <2>1. Ranks' = [u \in Workers |-> Rank(u)']
    BY DEF Ranks
  <2>2. \A u \in Workers : Rank(u)' \in Nat
    BY DEF Rank
  <2> QED
    BY <2>1, <2>2
<1>2. /\ left' = left /\ owed' = owed
      /\ \A u \in Workers \ {w} : wpc'[u] = wpc[u]
  BY DEF Step, Iterate, Valid, Check, Acquire, Pop, Work, WorkCaught, Arrive, Goto,
         master, worker, work_queue, TypeOK
<1>3. \A u \in Workers \ {w} : g[u] = Ranks[u]
  BY <1>1, <1>2 DEF Ranks, Rank
<1>4. PICK a \in Nat, b \in Nat, c \in Nat, d \in Nat :
        /\ a = Rank(w) /\ b = Rank(w)' /\ c = Total(Ranks) /\ d = Total(g)
        /\ d + a = c + b
  <2>1. Ranks[w] = Rank(w) /\ Rank(w) \in Nat /\ g[w] = Rank(w)' /\ Rank(w)' \in Nat
    BY <1>1, RankType DEF Ranks
  <2>2. /\ Total(Ranks) \in Nat /\ Total(g) \in Nat
        /\ Total(g) + Ranks[w] = Total(Ranks) + g[w]
    BY <1>3, RankType, OneMoves
  <2> QED
    BY <2>1, <2>2
<1>5. \/ b < a /\ queue' = queue
      \/ a = 1 /\ b <= 5 /\ queue # <<>> /\ queue' = Tail(queue)
  <2>1. CASE Pop(w)
    <3>1. wpc[w] = "pop" /\ a = 1
      BY <1>4, <2>1 DEF Pop, Rank
    <3>2. CASE queue = <<>> /\ Goto(w, "gone") /\ queue' = queue
      <4>1. wpc'[w] = "gone"
        BY <3>2 DEF Goto, TypeOK
      <4>2. b = 0
        BY <1>4, <4>1 DEF Rank
      <4> QED
        BY <3>1, <3>2, <4>2
    <3>3. CASE queue # <<>> /\ queue' = Tail(queue)
      <4>1. b <= 5
        BY <1>4 DEF Rank
      <4> QED
        BY <3>1, <3>3, <4>1
    <3> QED
      BY <2>1, <3>2, <3>3 DEF Pop
  <2>2. CASE ~Pop(w)
    <3>1. queue' = queue
      BY <2>2 DEF Step, Iterate, Valid, Check, Acquire, Work, WorkCaught, Arrive, work_queue
    <3>2. \/ wpc[w] = "main" /\ wpc'[w] = "valid"
          \/ wpc[w] \in {"valid", "work"} /\ wpc'[w] \in {"check", "gone"}
          \/ wpc[w] = "check" /\ wpc'[w] \in {"acquire", "gone"}
          \/ wpc[w] = "acquire" /\ wpc'[w] = "pop"
          \/ wpc[w] = "reach" /\ wpc'[w] = "wait"
      BY <2>2 DEF Step, Iterate, Valid, Check, Acquire, Work, WorkCaught, Arrive, Goto, TypeOK
    <3>3. b < a
      BY <1>4, <3>2 DEF Rank
    <3> QED
      BY <3>1, <3>3
  <2> QED
    BY <2>1, <2>2
<1>6. PICK n \in Nat, l \in Nat, o \in Nat : n = Len(queue) /\ l = left /\ o = owed
  BY Counts, LenProperties DEF TypeOK
<1>7. Todo = 7 * l + 5 * n + o + c
  BY <1>4, <1>6 DEF Todo
<1>8. CASE b < a /\ queue' = queue
  <2>1. Todo' = 7 * l + 5 * n + o + d
    BY <1>1, <1>2, <1>4, <1>6, <1>8 DEF Todo, Total, UpTo
  <2> QED
    BY <1>4, <1>7, <1>8, <2>1
<1>9. CASE a = 1 /\ b <= 5 /\ queue # <<>> /\ queue' = Tail(queue)
  <2>1. Len(queue') = n - 1 /\ n >= 1
    BY <1>6, <1>9, Popped DEF TypeOK
  <2>2. Todo' = 7 * l + 5 * (n - 1) + o + d
    BY <1>1, <1>2, <1>4, <1>6, <2>1 DEF Todo, Total, UpTo
  <2>3. d <= c + 4
    BY <1>4, <1>9
  <2>4. PICK m \in Nat : n = m + 1
    BY <2>1
  <2>5. Todo = 7 * l + 5 * m + 5 + o + c /\ Todo' = 7 * l + 5 * m + o + d
    BY <1>7, <2>2, <2>4
  <2> QED
    BY <1>4, <2>3, <2>5
<1> QED
  BY <1>5, <1>8, <1>9

(* A step of a barrier or of a killing, not its end, leaves less to do.    *)
Nearing == mpc \in {"barrier", "kill", "over"} /\ mpc' = mpc => Todo' < Todo

(* Whatever the workers, the tasks and the faults: in a barrier, while the *)
(* threads are killed and after it, every step leaves less to do, until    *)
(* the master comes out of it.  No worker and no master goes round for     *)
(* ever, and a barrier takes at most Todo steps from where it begins.      *)
THEOREM EveryStepCounts == Spec => [][Nearing]_vars /\ [](Todo \in Nat)
<1>1. ASSUME TypeOK, TypeOK', Staffed, [Next]_vars PROVE [Nearing]_vars
  <2> SUFFICES ASSUME Next, mpc \in {"barrier", "kill", "over"}, mpc' = mpc
               PROVE  Todo' < Todo
    BY <1>1 DEF Nearing
  <2>1. PICK n \in Nat, l \in Nat, o \in Nat, c \in Nat :
          n = Len(queue) /\ l = left /\ o = owed /\ c = Total(Ranks)
    <3>1. PICK w \in Workers : TRUE
      BY WorkPoolAssumption
    <3>2. Total(Ranks) \in Nat
      BY RankType, OneMoves, <3>1
    <3>3. left \in Nat /\ owed \in Nat
      BY <1>1, Counts DEF TypeOK
    <3>4. Len(queue) \in Nat
      BY <1>1, LenProperties DEF TypeOK
    <3> QED
      BY <3>2, <3>3, <3>4
  <2>2. Todo = 7 * l + 5 * n + o + c
    BY <2>1 DEF Todo
  <2>3. wpc' = wpc => Total(Ranks)' = c
    BY <2>1 DEF Total, Ranks, Rank, UpTo
  <2>4. CASE Release
    <3>1. Todo' = 7 * l + 5 * n + 0 + c /\ o = 1
      BY <2>1, <2>3, <2>4 DEF Release, Todo, master, worker
    <3> QED
      BY <2>1, <2>2, <3>1
  <2>5. CASE AddBarrier \/ AddTerminate
    <3>1. /\ l > 0 /\ left' = l - 1 /\ o = 0 /\ owed' = 1 /\ wpc' = wpc
          /\ \/ queue' = Append(queue, Barrier)
             \/ queue' = <<Terminate>> \o queue
      BY <2>1, <2>5 DEF AddBarrier, AddTerminate, worker
    <3>2. Len(queue') = n + 1
      BY <1>1, <2>1, <3>1, Appended, Pushed DEF TypeOK, Item
    <3>3. Todo' = 7 * (l - 1) + 5 * (n + 1) + 1 + c
      BY <2>1, <2>3, <3>1, <3>2 DEF Todo
    <3> QED
      BY <2>1, <2>2, <3>1, <3>3
  <2>6. ASSUME NEW w \in Workers, Step(w) PROVE Todo' < Todo
    BY <1>1, <2>6, WorkerNearer
  <2>7. ~EndBarrier /\ ~Join
    BY <1>1 DEF EndBarrier, Join, Kill
  <2>8. ~Signal
    BY <1>1 DEF Signal, Staffed, Kill
  <2>9. ~Start /\ ~Client
    BY DEF Start, Client, AddThread, StartThread, NextThread, AddWork, BeginBarrier, Raise
  <2> QED
    BY <2>4, <2>5, <2>6, <2>7, <2>8, <2>9 DEF Next, Leave
<1>2. TypeOK => Todo \in Nat
  BY TodoType
<1> QED
  BY <1>1, <1>2, TypeCorrect, StaffedHolds, PTL DEF Spec

=============================================================================
