----------------------------- MODULE DeliveryProofs -----------------------------
(***************************************************************************)
(* The theorems about the two modules on deliveries, and their proofs.     *)
(*                                                                         *)
(* Delivery, for any products, lists, times and numbers of runs: Placed    *)
(* says what a step of run() has already done, Slow how the age of an      *)
(* upstream file shows that it is whole, and Cached how old what the       *)
(* waiting process believes can be.                                        *)
(*                                                                         *)
(* Cycling, for any configurations, hours and failures: Begun and          *)
(* Accounted follow a slot's files through its delivery, Ordered the hours *)
(* of the tracker and the domains.  Aged says what a file of COM that is   *)
(* no longer young has outlived, and Tracked what had begun when the track *)
(* came.  Passed and Followed say what has come when a job or the tracker  *)
(* has passed an hour.  At the end every step is counted.                  *)
(***************************************************************************)
EXTENDS Delivery, Cycling, FiniteSetTheorems, TLAPS

-----------------------------------------------------------------------------
(* Delivery.                                                               *)
Running == {"run", "copy", "store", "call"}

Placed ==
  /\ pc \in Running => run > 0 /\ state = "RUNNING"
  /\ pc \in {"copy", "store", "call"} => cur \notin given
  /\ pc \in {"store", "call"} => file[cur] = run /\ cur \notin out
  /\ pc = "call" => cur \in avail
  /\ pc = "retract" => cur \in out
  /\ pc \in Running =>
       \A p \in given : p \in avail \ out /\ file[p] = run /\ called[p] = run

Slow ==
  \A p \in Upstream :
    /\ file[p] \in {None, Part, 1}
    /\ file[p] = Part => mtime[p] <= MinAge
    /\ p \in avail => file[p] = 1

Cached ==
  \A p \in believed : p \in avail \/ (p \in Mine /\ lost[p] <= age[p])

-----------------------------------------------------------------------------
(* Types are kept, for any products, lists, times and numbers of runs.     *)
THEOREM TypeCorrect == Spec => []TypeOK
<1> USE DeliveryAssumption DEF Products, None, Part
<1>1. Init => TypeOK
  BY DEF Init, TypeOK
<1>2. TypeOK /\ [Next]_vars => TypeOK'
  <2> SUFFICES ASSUME TypeOK, [Next]_vars
               PROVE  TypeOK'
    OBVIOUS
  <2> USE DEF TypeOK
  <2>1. CASE StartRun
    BY <2>1 DEF StartRun, disk, waiter, cache, history
  <2>2. ASSUME NEW p \in Mine, Copy(p)
        PROVE  TypeOK'
    BY <2>2 DEF Copy, disk, rows, waiter, cache, history
  <2>3. CASE Rename
    BY <2>3 DEF Rename, rows, waiter, cache
  <2>4. CASE Store
    BY <2>4 DEF Store, disk, waiter, cache, InTime, LookToCome
  <2>5. CASE CallCallbacks
    BY <2>5 DEF CallCallbacks, disk, rows, waiter, cache, history
  <2>6. CASE Raise
    BY <2>6 DEF Raise, Leave, disk, waiter, cache, history
  <2>7. CASE EndRun
    BY <2>7 DEF EndRun, Leave, disk, waiter, cache, history
  <2>8. CASE Crash
    BY <2>8 DEF Crash, Leave, disk, rows, waiter, cache, history
  <2>9. CASE StartUnrun
    BY <2>9 DEF StartUnrun, disk, rows, waiter, cache, history
  <2>10. ASSUME NEW p \in Mine, RemoveFile(p)
         PROVE  TypeOK'
    BY <2>10 DEF RemoveFile, rows, waiter, cache
  <2>11. CASE Retract
    BY <2>11 DEF Retract, disk, waiter, cache
  <2>12. CASE EndUnrun
    BY <2>12 DEF EndUnrun, Leave, disk, waiter, cache, history
  <2>13. ASSUME NEW p \in Upstream, UpstreamWrites(p)
         PROVE  TypeOK'
    BY <2>13 DEF UpstreamWrites, rows, task, waiter, cache, history
  <2>14. CASE Construct
    BY <2>14 DEF Construct, disk, rows, task, history
  <2>15. CASE Call
    BY <2>15 DEF Call, disk, rows, task, cache, history
  <2>16. ASSUME NEW p \in Products, Find(p)
         PROVE  TypeOK'
    BY <2>16 DEF Find, disk, rows, task, history
  <2>17. ASSUME NEW p \in Products, Check(p)
         PROVE  TypeOK'
    BY <2>17 DEF Check, disk, task, history
  <2>18. CASE EndRound
    BY <2>18 DEF EndRound, disk, rows, task, cache
  <2>19. CASE StartRound
    BY <2>19 DEF StartRound, disk, rows, task, cache, history
  <2>20. CASE Tick
    BY <2>20 DEF Tick, Older, rows, task, InTime, LookToCome
  <2>21. CASE UNCHANGED vars
    BY <2>21 DEF vars, disk, rows, task, waiter, cache, history
  <2> QED
    BY <2>1, <2>2, <2>3, <2>4, <2>5, <2>6, <2>7, <2>8, <2>9, <2>10, <2>11, <2>12,
       <2>13, <2>14, <2>15, <2>16, <2>17, <2>18, <2>19, <2>20, <2>21
       DEF Next, Run, Unrun, Wait
<1> QED
  BY <1>1, <1>2, PTL DEF Spec

(* What a step of run() relies on was done by the steps before it, and no  *)
(* other process takes it back: the products already delivered stay there, *)
(* whatever the waiting process checks and the other workflow writes.      *)
LEMMA PlacedHolds == Spec => []Placed
<1> USE DeliveryAssumption DEF Products, None, Part
<1>1. Init => Placed
  BY DEF Init, Placed, Running
<1>2. TypeOK /\ TypeOK' /\ Placed /\ [Next]_vars => Placed'
  <2> SUFFICES ASSUME TypeOK, TypeOK', Placed, [Next]_vars
               PROVE  Placed'
    OBVIOUS
  <2> USE DEF TypeOK, Placed, Running
  <2>1. CASE StartRun
    BY <2>1 DEF StartRun, disk, waiter, cache, history
  <2>2. ASSUME NEW p \in Mine, Copy(p)
       PROVE  Placed'
    BY <2>2 DEF Copy, disk, rows, waiter, cache, history
  <2>3. CASE Rename
    BY <2>3 DEF Rename, rows, waiter, cache
  <2>4. CASE Store
    BY <2>4 DEF Store, disk, waiter, cache
  <2>5. CASE CallCallbacks
    BY <2>5 DEF CallCallbacks, disk, rows, waiter, cache, history
  <2>6. CASE Raise
    BY <2>6 DEF Raise, Leave, disk, waiter, cache, history
  <2>7. CASE EndRun
    BY <2>7 DEF EndRun, Leave, disk, waiter, cache, history
  <2>8. CASE Crash
    BY <2>8 DEF Crash, Leave, disk, rows, waiter, cache, history
  <2>9. CASE StartUnrun
    BY <2>9 DEF StartUnrun, disk, rows, waiter, cache, history
  <2>10. ASSUME NEW p \in Mine, RemoveFile(p)
         PROVE  Placed'
    BY <2>10 DEF RemoveFile, rows, waiter, cache
  <2>11. CASE Retract
    BY <2>11 DEF Retract, disk, waiter, cache
  <2>12. CASE EndUnrun
    BY <2>12 DEF EndUnrun, Leave, disk, waiter, cache, history
  <2>13. ASSUME NEW p \in Upstream, UpstreamWrites(p)
         PROVE  Placed'
    BY <2>13 DEF UpstreamWrites, rows, task, waiter, cache, history
  <2>14. CASE Construct
    BY <2>14 DEF Construct, disk, rows, task, history
  <2>15. CASE Call
    BY <2>15 DEF Call, disk, rows, task, cache, history
  <2>16. ASSUME NEW p \in Products, Find(p)
         PROVE  Placed'
    BY <2>16 DEF Find, disk, rows, task, history
  <2>17. ASSUME NEW p \in Products, Check(p)
         PROVE  Placed'
    BY <2>17 DEF Check, OldEnough, disk, task, history
  <2>18. CASE EndRound
    BY <2>18 DEF EndRound, disk, rows, task, cache
  <2>19. CASE StartRound
    BY <2>19 DEF StartRound, disk, rows, task, cache, history
  <2>20. CASE Tick
    BY <2>20 DEF Tick, Older, rows, task
  <2>21. CASE UNCHANGED vars
    BY <2>21 DEF vars, disk, rows, task, waiter, cache, history
  <2> QED
    BY <2>1, <2>2, <2>3, <2>4, <2>5, <2>6, <2>7, <2>8, <2>9, <2>10, <2>11, <2>12,
       <2>13, <2>14, <2>15, <2>16, <2>17, <2>18, <2>19, <2>20, <2>21
       DEF Next, Run, Unrun, Wait
<1> QED
  BY <1>1, <1>2, TypeCorrect, PTL DEF Spec

(* A file of the other workflow that is older than MinAge is whole, and    *)
(* only such a file becomes available: UpstreamFile.check.                 *)
LEMMA SlowHolds == Spec => []Slow
<1> USE DeliveryAssumption DEF Products, None, Part
<1>1. Init => Slow
  <2> SUFFICES ASSUME Init, NEW p \in Upstream
               PROVE  /\ file[p] \in {None, Part, 1}
                      /\ file[p] = Part => mtime[p] <= MinAge
                      /\ p \in avail => file[p] = 1
    BY DEF Slow
  <2>1. file[p] = 0 /\ mtime[p] = 0 /\ avail = {}
    BY DEF Init
  <2> QED
    BY <2>1
<1>2. TypeOK /\ TypeOK' /\ Slow /\ [Next]_vars => Slow'
  <2> SUFFICES ASSUME TypeOK, TypeOK', Slow, [Next]_vars
               PROVE  Slow'
    OBVIOUS
  <2> USE DEF TypeOK, Slow
  <2>1. CASE StartRun
    BY <2>1 DEF StartRun, disk, waiter, cache, history
  <2>2. ASSUME NEW p \in Mine, Copy(p)
       PROVE  Slow'
    BY <2>2 DEF Copy, disk, rows, waiter, cache, history
  <2>3. CASE Rename
    BY <2>3 DEF Rename, rows, waiter, cache
  <2>4. CASE Store
    BY <2>4 DEF Store, disk, waiter, cache
  <2>5. CASE CallCallbacks
    BY <2>5 DEF CallCallbacks, disk, rows, waiter, cache, history
  <2>6. CASE Raise
    BY <2>6 DEF Raise, Leave, disk, waiter, cache, history
  <2>7. CASE EndRun
    BY <2>7 DEF EndRun, Leave, disk, waiter, cache, history
  <2>8. CASE Crash
    BY <2>8 DEF Crash, Leave, disk, rows, waiter, cache, history
  <2>9. CASE StartUnrun
    BY <2>9 DEF StartUnrun, disk, rows, waiter, cache, history
  <2>10. ASSUME NEW p \in Mine, RemoveFile(p)
         PROVE  Slow'
    BY <2>10 DEF RemoveFile, rows, waiter, cache
  <2>11. CASE Retract
    BY <2>11 DEF Retract, disk, waiter, cache
  <2>12. CASE EndUnrun
    BY <2>12 DEF EndUnrun, Leave, disk, waiter, cache, history
  <2>13. ASSUME NEW p \in Upstream, UpstreamWrites(p)
         PROVE  Slow'
    BY <2>13 DEF UpstreamWrites, rows, task, waiter, cache, history
  <2>14. CASE Construct
    BY <2>14 DEF Construct, disk, rows, task, history
  <2>15. CASE Call
    BY <2>15 DEF Call, disk, rows, task, cache, history
  <2>16. ASSUME NEW p \in Products, Find(p)
         PROVE  Slow'
    BY <2>16 DEF Find, disk, rows, task, history
  <2>17. ASSUME NEW p \in Products, Check(p)
         PROVE  Slow'
    BY <2>17 DEF Check, OldEnough, disk, task, history
  <2>18. CASE EndRound
    BY <2>18 DEF EndRound, disk, rows, task, cache
  <2>19. CASE StartRound
    BY <2>19 DEF StartRound, disk, rows, task, cache, history
  <2>20. CASE Tick
    BY <2>20 DEF Tick, Older, rows, task
  <2>21. CASE UNCHANGED vars
    BY <2>21 DEF vars, disk, rows, task, waiter, cache, history
  <2> QED
    BY <2>1, <2>2, <2>3, <2>4, <2>5, <2>6, <2>7, <2>8, <2>9, <2>10, <2>11, <2>12,
       <2>13, <2>14, <2>15, <2>16, <2>17, <2>18, <2>19, <2>20, <2>21
       DEF Next, Run, Unrun, Wait
<1> QED
  BY <1>1, <1>2, TypeCorrect, PTL DEF Spec

(* What the cache of the waiting process shows is in the database, or was  *)
(* until the age of the cache ago.                                         *)
LEMMA CachedHolds == Spec => []Cached
<1> USE DeliveryAssumption DEF Products, None, Part
<1>1. Init => Cached
  BY DEF Init, Cached, Young, Available
<1>2. TypeOK /\ TypeOK' /\ Cached /\ [Next]_vars => Cached'
  <2> SUFFICES ASSUME TypeOK, TypeOK', Cached, [Next]_vars
               PROVE  Cached'
    OBVIOUS
  <2> USE DEF TypeOK, Cached, Young, Available
  <2>1. CASE StartRun
    BY <2>1 DEF StartRun, disk, waiter, cache, history
  <2>2. ASSUME NEW p \in Mine, Copy(p)
       PROVE  Cached'
    BY <2>2 DEF Copy, disk, rows, waiter, cache, history
  <2>3. CASE Rename
    BY <2>3 DEF Rename, rows, waiter, cache
  <2>4. CASE Store
    BY <2>4 DEF Store, disk, waiter, cache
  <2>5. CASE CallCallbacks
    BY <2>5 DEF CallCallbacks, disk, rows, waiter, cache, history
  <2>6. CASE Raise
    BY <2>6 DEF Raise, Leave, disk, waiter, cache, history
  <2>7. CASE EndRun
    BY <2>7 DEF EndRun, Leave, disk, waiter, cache, history
  <2>8. CASE Crash
    BY <2>8 DEF Crash, Leave, disk, rows, waiter, cache, history
  <2>9. CASE StartUnrun
    BY <2>9 DEF StartUnrun, disk, rows, waiter, cache, history
  <2>10. ASSUME NEW p \in Mine, RemoveFile(p)
         PROVE  Cached'
    BY <2>10 DEF RemoveFile, rows, waiter, cache
  <2>11. CASE Retract
    BY <2>11 DEF Retract, disk, waiter, cache
  <2>12. CASE EndUnrun
    BY <2>12 DEF EndUnrun, Leave, disk, waiter, cache, history
  <2>13. ASSUME NEW p \in Upstream, UpstreamWrites(p)
         PROVE  Cached'
    BY <2>13 DEF UpstreamWrites, rows, task, waiter, cache, history
  <2>14. CASE Construct
    BY <2>14 DEF Construct, disk, rows, task, history
  <2>15. CASE Call
    BY <2>15 DEF Call, disk, rows, task, cache, history
  <2>16. ASSUME NEW p \in Products, Find(p)
         PROVE  Cached'
    BY <2>16 DEF Find, disk, rows, task, history
  <2>17. ASSUME NEW p \in Products, Check(p)
         PROVE  Cached'
    BY <2>17 DEF Check, OldEnough, disk, task, history
  <2>18. CASE EndRound
    BY <2>18 DEF EndRound, disk, rows, task, cache
  <2>19. CASE StartRound
    BY <2>19 DEF StartRound, disk, rows, task, cache, history
  <2>20. CASE Tick
    BY <2>20 DEF Tick, Older, rows, task
  <2>21. CASE UNCHANGED vars
    BY <2>21 DEF vars, disk, rows, task, waiter, cache, history
  <2> QED
    BY <2>1, <2>2, <2>3, <2>4, <2>5, <2>6, <2>7, <2>8, <2>9, <2>10, <2>11, <2>12,
       <2>13, <2>14, <2>15, <2>16, <2>17, <2>18, <2>19, <2>20, <2>21
       DEF Next, Run, Unrun, Wait
<1> QED
  BY <1>1, <1>2, TypeCorrect, PTL DEF Spec

-----------------------------------------------------------------------------
(* A product that the database shows available is there, and whole, unless *)
(* an undeliver of it has begun: deliver puts a whole file in place before *)
(* it says so, and undeliver is the only one to take it away.              *)
THEOREM AvailableWholeHolds == Spec => []AvailableWhole
<1> USE DeliveryAssumption DEF Products, None, Part
<1>1. Init => AvailableWhole
  BY DEF Init, AvailableWhole, Whole, Placed, Running, Slow
<1>2. TypeOK /\ Placed /\ Slow /\ TypeOK' /\ Placed' /\ Slow' /\ AvailableWhole
      /\ [Next]_vars => AvailableWhole'
  <2> SUFFICES ASSUME TypeOK, Placed, Slow, TypeOK', Placed', Slow',
                      AvailableWhole, [Next]_vars
               PROVE  AvailableWhole'
    OBVIOUS
  <2> USE DEF TypeOK, AvailableWhole, Whole, Placed, Running, Slow
  <2>1. CASE StartRun
    BY <2>1 DEF StartRun, disk, waiter, cache, history
  <2>2. ASSUME NEW p \in Mine, Copy(p)
       PROVE  AvailableWhole'
    BY <2>2 DEF Copy, disk, rows, waiter, cache, history
  <2>3. CASE Rename
    BY <2>3 DEF Rename, rows, waiter, cache
  <2>4. CASE Store
    BY <2>4 DEF Store, disk, waiter, cache
  <2>5. CASE CallCallbacks
    BY <2>5 DEF CallCallbacks, disk, rows, waiter, cache, history
  <2>6. CASE Raise
    BY <2>6 DEF Raise, Leave, disk, waiter, cache, history
  <2>7. CASE EndRun
    BY <2>7 DEF EndRun, Leave, disk, waiter, cache, history
  <2>8. CASE Crash
    BY <2>8 DEF Crash, Leave, disk, rows, waiter, cache, history
  <2>9. CASE StartUnrun
    BY <2>9 DEF StartUnrun, disk, rows, waiter, cache, history
  <2>10. ASSUME NEW p \in Mine, RemoveFile(p)
         PROVE  AvailableWhole'
    BY <2>10 DEF RemoveFile, rows, waiter, cache
  <2>11. CASE Retract
    BY <2>11 DEF Retract, disk, waiter, cache
  <2>12. CASE EndUnrun
    BY <2>12 DEF EndUnrun, Leave, disk, waiter, cache, history
  <2>13. ASSUME NEW p \in Upstream, UpstreamWrites(p)
         PROVE  AvailableWhole'
    BY <2>13 DEF UpstreamWrites, rows, task, waiter, cache, history
  <2>14. CASE Construct
    BY <2>14 DEF Construct, disk, rows, task, history
  <2>15. CASE Call
    BY <2>15 DEF Call, disk, rows, task, cache, history
  <2>16. ASSUME NEW p \in Products, Find(p)
         PROVE  AvailableWhole'
    BY <2>16 DEF Find, disk, rows, task, history
  <2>17. ASSUME NEW p \in Products, Check(p)
         PROVE  AvailableWhole'
    BY <2>17 DEF Check, OldEnough, disk, task, history
  <2>18. CASE EndRound
    BY <2>18 DEF EndRound, disk, rows, task, cache
  <2>19. CASE StartRound
    BY <2>19 DEF StartRound, disk, rows, task, cache, history
  <2>20. CASE Tick
    BY <2>20 DEF Tick, Older, rows, task
  <2>21. CASE UNCHANGED vars
    BY <2>21 DEF vars, disk, rows, task, waiter, cache, history
  <2> QED
    BY <2>1, <2>2, <2>3, <2>4, <2>5, <2>6, <2>7, <2>8, <2>9, <2>10, <2>11, <2>12,
       <2>13, <2>14, <2>15, <2>16, <2>17, <2>18, <2>19, <2>20, <2>21
       DEF Next, Run, Unrun, Wait
<1> QED
  BY <1>1, <1>2, TypeCorrect, PlacedHolds, SlowHolds, PTL DEF Spec

(* A task is COMPLETED only with all its products delivered by its last    *)
(* run, and stays so until it is run again or a product is withdrawn.      *)
THEOREM CompletedDeliveredHolds == Spec => []CompletedDelivered
<1> USE DeliveryAssumption DEF Products, None, Part
<1>1. Init => CompletedDelivered
  BY DEF Init, CompletedDelivered, Placed, Running
<1>2. TypeOK /\ Placed /\ TypeOK' /\ Placed' /\ CompletedDelivered /\ [Next]_vars
      => CompletedDelivered'
  <2> SUFFICES ASSUME TypeOK, Placed, TypeOK', Placed', CompletedDelivered,
                      [Next]_vars
               PROVE  CompletedDelivered'
    OBVIOUS
  <2> USE DEF TypeOK, CompletedDelivered, Placed, Running
  <2>1. CASE StartRun
    BY <2>1 DEF StartRun, disk, waiter, cache, history
  <2>2. ASSUME NEW p \in Mine, Copy(p)
       PROVE  CompletedDelivered'
    BY <2>2 DEF Copy, disk, rows, waiter, cache, history
  <2>3. CASE Rename
    BY <2>3 DEF Rename, rows, waiter, cache
  <2>4. CASE Store
    BY <2>4 DEF Store, disk, waiter, cache
  <2>5. CASE CallCallbacks
    BY <2>5 DEF CallCallbacks, disk, rows, waiter, cache, history
  <2>6. CASE Raise
    BY <2>6 DEF Raise, Leave, disk, waiter, cache, history
  <2>7. CASE EndRun
    BY <2>7 DEF EndRun, Leave, disk, waiter, cache, history
  <2>8. CASE Crash
    BY <2>8 DEF Crash, Leave, disk, rows, waiter, cache, history
  <2>9. CASE StartUnrun
    BY <2>9 DEF StartUnrun, disk, rows, waiter, cache, history
  <2>10. ASSUME NEW p \in Mine, RemoveFile(p)
         PROVE  CompletedDelivered'
    BY <2>10 DEF RemoveFile, rows, waiter, cache
  <2>11. CASE Retract
    BY <2>11 DEF Retract, disk, waiter, cache
  <2>12. CASE EndUnrun
    BY <2>12 DEF EndUnrun, Leave, disk, waiter, cache, history
  <2>13. ASSUME NEW p \in Upstream, UpstreamWrites(p)
         PROVE  CompletedDelivered'
    BY <2>13 DEF UpstreamWrites, rows, task, waiter, cache, history
  <2>14. CASE Construct
    BY <2>14 DEF Construct, disk, rows, task, history
  <2>15. CASE Call
    BY <2>15 DEF Call, disk, rows, task, cache, history
  <2>16. ASSUME NEW p \in Products, Find(p)
         PROVE  CompletedDelivered'
    BY <2>16 DEF Find, disk, rows, task, history
  <2>17. ASSUME NEW p \in Products, Check(p)
         PROVE  CompletedDelivered'
    BY <2>17 DEF Check, OldEnough, disk, task, history
  <2>18. CASE EndRound
    BY <2>18 DEF EndRound, disk, rows, task, cache
  <2>19. CASE StartRound
    BY <2>19 DEF StartRound, disk, rows, task, cache, history
  <2>20. CASE Tick
    BY <2>20 DEF Tick, Older, rows, task
  <2>21. CASE UNCHANGED vars
    BY <2>21 DEF vars, disk, rows, task, waiter, cache, history
  <2> QED
    BY <2>1, <2>2, <2>3, <2>4, <2>5, <2>6, <2>7, <2>8, <2>9, <2>10, <2>11, <2>12,
       <2>13, <2>14, <2>15, <2>16, <2>17, <2>18, <2>19, <2>20, <2>21
       DEF Next, Run, Unrun, Wait
<1> QED
  BY <1>1, <1>2, TypeCorrect, PlacedHolds, PTL DEF Spec

(* The action of wait_for_products is performed only on a product whose    *)
(* file is there, but for a withdrawal that is going on or that the cache  *)
(* has not seen yet.                                                       *)
THEOREM ActionFindsFileHolds == Spec => ActionFindsFile
<1> DEFINE Found(p) ==
      Whole(p) \/ p \in out \cap avail \/ (p \in Mine /\ lost[p] < CacheAge)
<1>1. TypeOK /\ Slow /\ Cached /\ AvailableWhole /\ [Next]_vars
        => [\A p \in seen' \ seen : Found(p)]_vars
  <2> SUFFICES ASSUME TypeOK, Slow, Cached, AvailableWhole, Next,
                      NEW p \in seen' \ seen
               PROVE  Found(p)
    OBVIOUS
  <2> USE DeliveryAssumption DEF Products, None, Part
  <2>1. Find(p) \/ Check(p)
    BY DEF Next, Run, Unrun, Wait, StartRun, Copy, Rename, Store, CallCallbacks,
           Raise, EndRun, Crash, StartUnrun, RemoveFile, Retract, EndUnrun,
           UpstreamWrites, Construct, Call, Find, Check, EndRound, StartRound,
           Tick, waiter
  <2>2. p \in avail => Found(p)
    BY DEF AvailableWhole
  <2>3. CASE Find(p)
    BY <2>2, <2>3 DEF Find, Available, Young, Cached, TypeOK
  <2>4. CASE Check(p)
    BY <2>2, <2>4 DEF Check, OldEnough, Slow, Whole, TypeOK
  <2> QED
    BY <2>1, <2>3, <2>4
<1> QED
  BY <1>1, TypeCorrect, SlowHolds, CachedHolds, AvailableWholeHolds, PTL
     DEF Spec, ActionFindsFile

-----------------------------------------------------------------------------
(* Cycling: the steps of the job that delivers an hour.                    *)
Busy == {"grids", "copy"}
RestartFiles(h, d) == {Core(h, d), Rest(h, d)}

(* A job that delivers an hour has the tracker's input of it ready, and    *)
(* copies files of that hour.                                              *)
Begun ==
  \A i \in Groups :
    /\ post[i] \in Busy => Here(i) \in trk
    /\ post[i] = "grids" => due[i] \cup left[i] \subseteq GridFiles(hour[i], dom[i])
    /\ post[i] = "copy" => due[i] = {} /\ left[i] \subseteq RestartFiles(hour[i], dom[i])
    /\ post[i] \notin Busy => due[i] = {} /\ left[i] = {}

(* A grid that COM has or that is on its way, if no copy of it has failed; *)
(* and what the delivery of a slot brings.                                 *)
Brought(f)   == f \in com \cup spoilt \/ Copying(f)
Handed(h, d) == /\ \A f \in GridFiles(h, d) : Brought(f)
                /\ HasRestart(h) => RestartFiles(h, d) \subseteq com

(* A nest's hour comes after its parent's, and the tracker takes the hours *)
(* one after the other.                                                    *)
Ordered ==
  /\ \A i \in Groups : dom[i] = 2 => <<hour[i], 1>> \in done
  /\ \A h \in Hours : <<h, 2>> \in trk => <<h, 1>> \in done
  /\ \A h \in Hours : h < thour => <<h, case.domains>> \in trk
  /\ \A h \in Hours : Trak(h) \in com => \A k \in 0 .. h : <<k, case.domains>> \in trk

(* What a step of a job's delivery has already brought.                    *)
Stage(i) ==
  /\ post[i] = "grids" => \A f \in GridFiles(hour[i], dom[i]) \ due[i] : Brought(f)
  /\ post[i] = "copy" =>
       /\ HasRestart(hour[i]) /\ res > hour[i]
       /\ \A f \in GridFiles(hour[i], dom[i]) : Brought(f)
       /\ RestartFiles(hour[i], dom[i]) \subseteq com \cup left[i]

(* No slot is lost: what the tracker has input of is done, being delivered *)
(* or known as torn.  Restart files come after the coupler's.              *)
Accounted ==
  /\ \A i \in Groups : Stage(i)
  /\ \A s \in done : Handed(s[1], s[2]) /\ (HasRestart(s[1]) => res > s[1])
  /\ \A h \in Hours : Core(h, 1) \in com =>
       res > h /\ <<h, 1>> \in trk /\ Brought(Static(1))
  /\ \A s \in trk : s \in done \cup torn \/ \E i \in Groups : post[i] \in Busy /\ Here(i) = s

(* While a file is young, a job that was delivering a slot when it came    *)
(* has been doing so since; or it takes long, or takes up a torn delivery. *)
Guarded(f, S) ==
  \A i \in Groups : post[i] \in Busy /\ Here(i) \in S =>
    i \in young[f] \cup slow \/ Here(i) \in torn

(* The parent's file of an hour outlives the rest of that hour's delivery, *)
(* and a copy of the static files that was going on when it came; the      *)
(* track outlives all deliveries of its hour and those before.             *)
UpTo(h) == (0 .. h) \X Domains
Aged ==
  /\ \A h \in Hours : Core(h, 1) \in com \cap Watched =>
       /\ Guarded(Core(h, 1), {<<h, 1>>})
       /\ Static(1) \notin spoilt =>
            \A i \in Groups : Static(1) \in left[i] => i \in young[Core(h, 1)] \cup slow
  /\ case.domains = 2 /\ Trak(case.track) \in com \cap Watched =>
       Guarded(Trak(case.track), UpTo(case.track))

-----------------------------------------------------------------------------
(* What the assumption says of the configuration that a behaviour is of.   *)
LEMMA CaseType ==
  ASSUME case \in Cases
  PROVE  /\ case.groups \in Nat \ {0} /\ case.domains \in {1, 2}
         /\ case.last \in Nat /\ case.track \in 0 .. Window
         /\ case.readers \subseteq Reader
         /\ Window \in Nat /\ MaxFailures \in Nat /\ Restarts \subseteq 1 .. Window - 1
BY CaseAssumption

(* A group's next slot is an hour of the loop, or the first one past it.   *)
LEMMA NextSlotType ==
  ASSUME CycleTypeOK, NEW i \in Groups, hour[i] \in Hours, NextSlot(i)
  PROVE  /\ hour' \in [Groups -> 0 .. case.last + case.groups]
         /\ dom' \in [Groups -> Domains]
         /\ \A j \in Groups : j # i => hour'[j] = hour[j] /\ dom'[j] = dom[j]
         /\ dom'[i] = 2 => dom[i] = 1 /\ hour'[i] = hour[i]
<1> USE CaseType DEF CycleTypeOK, Hours, Domains
<1>1. CASE dom[i] < case.domains
  BY <1>1 DEF NextSlot
<1>2. CASE ~(dom[i] < case.domains)
  <2>1. hour[i] + case.groups \in 0 .. case.last + case.groups
    OBVIOUS
  <2>2. QED BY <1>2, <2>1 DEF NextSlot
<1>3. QED BY <1>1, <1>2

(* A delivery is young for some of the groups, whatever comes.             *)
LEMMA AgeType ==
  ASSUME CycleTypeOK, Age
  PROVE  young' \in [Watched -> SUBSET Groups]
BY DEF CycleTypeOK, Age

(* The configuration is fixed, and with it what it defines.                *)
LEMMA CaseFixed ==
  ASSUME CycleTypeOK, [CycleNext]_cycleVars
  PROVE  /\ case' = case
         /\ Groups' = Groups /\ Domains' = Domains /\ Hours' = Hours
         /\ Slots' = Slots /\ Files' = Files /\ Watched' = Watched
<1>1. case' = case
  BY DEF CycleNext, Step, Model, Post, Fault, ModelWrites, ModelRestarts, Track,
     TrackerFails, SkipPost, RunPost, StartGrid, PassGrid, EndGrid, StartCopy, CopyRestart,
     MarkPost, EndPost, GridFails, PostFails, Outlast, Read, ReadFails, cycleVars
<1>2. QED
  BY <1>1 DEF Groups, Domains, Hours, Slots, Files, Watched, Waits, Trak, Core, Static

(* The files of a slot are files, those of one slot, and grids are no      *)
(* restart files.                                                          *)
LEMMA FileTypes ==
  ASSUME CycleTypeOK, NEW h \in Hours, NEW d \in Domains
  PROVE  /\ GridFiles(h, d) \subseteq Files /\ RestartFiles(h, d) \subseteq Files
         /\ GridFiles(h, d) \subseteq FilesOf(h, d)
         /\ HasRestart(h) => RestartFiles(h, d) \subseteq FilesOf(h, d)
<1>0. case.last \in Nat /\ Window \in Nat /\ Hours = 0 .. case.last
  BY CaseType DEF CycleTypeOK, Hours
<1>1. Grids(h) \subseteq Hours
  BY <1>0 DEF Grids
<1>2. 0 \in Hours
  BY <1>0
<1>3. Static(d) \in Files /\ \A k \in Hours : Mspec(k, d) \in Files
  BY <1>2 DEF Static, Mspec, Files, Kinds
<1>4. RestartFiles(h, d) \subseteq Files
  BY DEF RestartFiles, Core, Rest, Files, Kinds
<1> QED
  BY <1>1, <1>3, <1>4 DEF GridFiles, FilesOf, RestartFiles

(* The files are told apart by their kind, hour and domain.                *)
LEMMA FilesApart ==
  /\ \A h, d, k, e : RestartFiles(h, d) \cap GridFiles(k, e) = {}
  /\ \A h, k, e : Trak(h) \notin RestartFiles(k, e) /\ Trak(h) \notin GridFiles(k, e)
  /\ \A h, d, k, e : Core(h, d) \in RestartFiles(k, e) => h = k /\ d = e
  /\ \A d, k, e : Static(d) \in GridFiles(k, e) => d = e
  /\ \A h, d, k, e : Rest(h, d) \in RestartFiles(k, e) => h = k /\ d = e
  /\ \A h, d, k, e : Mspec(h, d) \in GridFiles(k, e) => h \in Grids(k) /\ d = e
  /\ \A h, d, k, e : Mspec(h, d) \notin RestartFiles(k, e) /\ Static(d) \notin RestartFiles(k, e)
  /\ \A h, k, e : Core(h, 1) # Rest(k, e) /\ Core(h, 1) # Trak(k)
BY DEF RestartFiles, GridFiles, Core, Rest, Static, Mspec, Trak

(* A job that looks at a grid.                                             *)
LEMMA GridLooked ==
  ASSUME CycleTypeOK, Begun, NEW i \in Groups, NEW f, NextGrid(i, f)
  PROVE  /\ f \in GridFiles(hour[i], dom[i]) /\ f \in Files
         /\ due' \in [Groups -> SUBSET Files] /\ due'[i] = due[i] \ {f}
         /\ due'[i] \subseteq GridFiles(hour[i], dom[i])
         /\ \A j \in Groups : j # i => due'[j] = due[j]
BY DEF NextGrid, Begun, CycleTypeOK

(* What a post job's step does, whichever it is.                           *)
LEMMA PostTypes ==
  ASSUME CycleTypeOK, Begun, case' = case, Groups' = Groups, Domains' = Domains,
         Hours' = Hours, Files' = Files, Watched' = Watched,
         young' \in [Watched -> SUBSET Groups], NEW i \in Groups, Post(i)
  PROVE  CycleTypeOK' /\ Begun'
<1>00. /\ case.groups \in Nat \ {0} /\ case.domains \in {1, 2} /\ case.last \in Nat
       /\ Window \in Nat /\ MaxFailures \in Nat
  BY CaseType DEF CycleTypeOK
<1>s. Slots' = Slots
  BY DEF Slots
<1>g. \A h, d : GridFiles(h, d)' = GridFiles(h, d) /\ RestartFiles(h, d)' = RestartFiles(h, d)
  BY DEF GridFiles, RestartFiles, Grids, Static, Mspec, Core, Rest
<1> USE <1>00, <1>s, <1>g DEF CycleTypeOK, Begun, Busy, Here, producer, delivery, store,
        others
<1>1. CASE SkipPost(i)
  BY <1>1, NextSlotType DEF SkipPost
<1>2. CASE RunPost(i)
  <2>1. GridFiles(hour[i], dom[i]) \subseteq Files
    BY <1>2, FileTypes DEF RunPost
  <2> QED BY <1>2, <2>1 DEF RunPost, Slots
<1>3. CASE StartGrid(i)
  <2>1. PICK f \in due[i] \ com : NextGrid(i, f) /\ left' = [left EXCEPT ![i] = {f}]
    BY <1>3 DEF StartGrid
  <2>2. /\ f \in GridFiles(hour[i], dom[i]) /\ f \in Files
        /\ due' \in [Groups -> SUBSET Files]
        /\ due'[i] \subseteq GridFiles(hour[i], dom[i])
        /\ \A j \in Groups : j # i => due'[j] = due[j]
    BY <2>1, GridLooked
  <2>3. post[i] = "grids"
    BY <2>1 DEF NextGrid
  <2>4. left' \in [Groups -> SUBSET Files] /\ left'[i] = {f}
        /\ \A j \in Groups : j # i => left'[j] = left[j]
    BY <2>1, <2>2
  <2>5. CycleTypeOK'
    BY <1>3, <2>2, <2>4 DEF StartGrid
  <2>6. /\ post' = post /\ hour' = hour /\ dom' = dom /\ trk' = trk
    BY <1>3 DEF StartGrid
  <2>7. Begun'
    BY <2>2, <2>3, <2>4, <2>6
  <2> QED BY <2>5, <2>7
<1>4. CASE PassGrid(i)
  <2>1. PICK f \in due[i] :
          /\ NextGrid(i, f)
          /\ com' = com \/ com' = com \cup {f}
          /\ spoilt' = spoilt \/ spoilt' = spoilt \cup {f}
    BY <1>4 DEF PassGrid
  <2>2. /\ f \in GridFiles(hour[i], dom[i]) /\ f \in Files
        /\ due' \in [Groups -> SUBSET Files]
        /\ due'[i] \subseteq GridFiles(hour[i], dom[i])
        /\ \A j \in Groups : j # i => due'[j] = due[j]
    BY <2>1, GridLooked
  <2>3. post[i] = "grids"
    BY <2>1 DEF NextGrid
  <2> QED BY <1>4, <2>1, <2>2, <2>3 DEF PassGrid
<1>5. CASE EndGrid(i)
  BY <1>5 DEF EndGrid
<1>6. CASE StartCopy(i)
  <2>1. RestartFiles(hour[i], dom[i]) \subseteq Files
    BY <1>6, FileTypes DEF StartCopy
  <2> QED BY <1>6, <2>1 DEF StartCopy, RestartFiles
<1>7. CASE CopyRestart(i)
  BY <1>7 DEF CopyRestart
<1>8. CASE MarkPost(i)
  <2>1. hour[i] \in Hours /\ NextSlot(i) /\ Here(i) \in trk
    BY <1>8 DEF MarkPost
  <2>2. done' \subseteq trk' /\ torn' \subseteq trk'
    BY <1>8, <2>1 DEF MarkPost
  <2>3. \A j \in Groups : j # i => hour'[j] = hour[j] /\ dom'[j] = dom[j]
    BY <2>1, NextSlotType
  <2>4. hour' \in [Groups -> 0 .. case.last + case.groups] /\ dom' \in [Groups -> Domains]
    BY <2>1, NextSlotType
  <2> QED BY <1>8, <2>2, <2>3, <2>4 DEF MarkPost
<1>9. CASE EndPost(i)
  BY <1>9 DEF EndPost
<1> QED
  BY <1>1, <1>2, <1>3, <1>4, <1>5, <1>6, <1>7, <1>8, <1>9 DEF Post

(* What is done or torn is in the tracker's input: this needs Begun.       *)
LEMMA CycleTypes == CycleSpec => [](CycleTypeOK /\ Begun)
<1>1. CycleInit => CycleTypeOK /\ Begun
  BY CaseType DEF CycleInit, CycleTypeOK, Begun, Busy, Groups, Domains, Hours
<1>2. CycleTypeOK /\ Begun /\ [CycleNext]_cycleVars => CycleTypeOK' /\ Begun'
  <2> SUFFICES ASSUME CycleTypeOK, Begun, [CycleNext]_cycleVars
               PROVE  CycleTypeOK' /\ Begun'
    OBVIOUS
  <2>0. /\ case' = case
        /\ Groups' = Groups /\ Domains' = Domains /\ Hours' = Hours
        /\ Slots' = Slots /\ Files' = Files /\ Watched' = Watched
    BY CaseFixed
  <2>00. /\ case.groups \in Nat \ {0} /\ case.domains \in {1, 2} /\ case.last \in Nat
         /\ Window \in Nat /\ MaxFailures \in Nat
    BY CaseType DEF CycleTypeOK
  <2>g. \A h, d : GridFiles(h, d)' = GridFiles(h, d)
                  /\ RestartFiles(h, d)' = RestartFiles(h, d)
    BY <2>0 DEF GridFiles, RestartFiles, Grids, Static, Mspec, Core, Rest
  <2>1. CASE UNCHANGED cycleVars
    BY <2>0, <2>g, <2>1 DEF cycleVars, CycleTypeOK, Begun, Busy, Here, producer, delivery,
       store, others
  <2>2. CASE CycleNext
    <3>3. young' \in [Watched -> SUBSET Groups]
      BY <2>2, AgeType DEF CycleNext
    <3>7. ASSUME NEW i \in Groups, Post(i) PROVE CycleTypeOK' /\ Begun'
      BY <2>0, <3>3, <3>7, PostTypes
    <3>5. CASE Track
      <4>1. Begun'
        BY <2>0, <2>g, <3>5 DEF Track, Begun, Busy, Here, delivery
      <4>2. thour \in Hours => Trak(thour) \in Files
        BY <2>00 DEF Files, Kinds, Trak, Domains
      <4>3. thour' \in 0 .. case.last + 1
        BY <2>00, <3>5 DEF Track, Hours
      <4>4. com' \subseteq Files
        BY <3>5, <4>2 DEF Track, CycleTypeOK
      <4>5. CycleTypeOK'
        BY <2>0, <3>3, <3>5, <4>3, <4>4 DEF Track, CycleTypeOK, producer, delivery
      <4> QED BY <4>1, <4>5
    <3>4. CASE Model
      <4>1. Begun'
        BY <2>0, <2>g, <3>4 DEF Model, ModelWrites, ModelRestarts, Begun, Busy, Here, delivery
      <4>2. logs' \in 0 .. case.last + 1 /\ res' \in 0 .. case.last + 1
        BY <2>00, <3>4 DEF Model, ModelWrites, ModelRestarts, Hours, CycleTypeOK
      <4>3. CycleTypeOK'
        BY <2>0, <3>3, <3>4, <4>2 DEF Model, ModelWrites, ModelRestarts, CycleTypeOK,
           delivery, store, others
      <4> QED BY <4>1, <4>3
    <3>6. CASE TrackerFails
      <4>1. Begun'
        BY <2>0, <2>g, <3>6 DEF TrackerFails, Begun, Busy, Here, delivery
      <4>2. thour' \in 0 .. case.last + 1 /\ failures' \in 0 .. MaxFailures
        BY <2>00, <3>6 DEF TrackerFails, CycleTypeOK
      <4>3. CycleTypeOK'
        BY <2>0, <3>3, <3>6, <4>2 DEF TrackerFails, CycleTypeOK, producer, delivery, store
      <4> QED BY <4>1, <4>3
    <3>9. ASSUME NEW r \in case.readers, Read(r) \/ ReadFails(r)
          PROVE  CycleTypeOK' /\ Begun'
      <4>1. Begun'
        BY <2>0, <2>g, <3>9 DEF Read, ReadFails, Begun, Busy, Here, delivery
      <4>2. reader' \in [case.readers -> {"waiting", "done", "dead"}]
        BY <3>9 DEF Read, ReadFails, CycleTypeOK
      <4>3. CycleTypeOK'
        BY <2>0, <3>3, <3>9, <4>2 DEF Read, ReadFails, CycleTypeOK, producer, delivery, store
      <4> QED BY <4>1, <4>3
    <3>8. ASSUME NEW i \in Groups, Fault(i) PROVE CycleTypeOK' /\ Begun'
      <4>0. i \in 0 .. case.last + case.groups /\ 1 \in Domains
        BY <2>00 DEF Groups, Domains
      <4>1. Begun'
        <5>1. CASE GridFails(i)
          BY <2>0, <2>g, <5>1 DEF GridFails, CycleTypeOK, Begun, Busy, Here
        <5>2. CASE PostFails(i)
          BY <2>0, <2>g, <5>2 DEF PostFails, CycleTypeOK, Begun, Busy, Here
        <5>3. CASE Outlast(i)
          BY <2>0, <2>g, <5>3 DEF Outlast, CycleTypeOK, Begun, Busy, Here, delivery
        <5> QED BY <3>8, <5>1, <5>2, <5>3 DEF Fault
      <4>2. failures' \in 0 .. MaxFailures
        BY <2>00, <3>8 DEF Fault, GridFails, PostFails, Outlast, CycleTypeOK
      <4>3. CASE GridFails(i)
        <5>1. com' \subseteq Files /\ spoilt' \subseteq Files
              /\ left' \in [Groups -> SUBSET Files]
          BY <4>3 DEF GridFails, CycleTypeOK
        <5>2. CycleTypeOK'
          BY <2>0, <3>3, <4>2, <4>3, <5>1 DEF GridFails, CycleTypeOK, producer
        <5> QED BY <4>1, <5>2
      <4>4. CASE PostFails(i)
        <5>1. com' \subseteq Files /\ spoilt' \subseteq Files
              /\ left' \in [Groups -> SUBSET Files] /\ due' \in [Groups -> SUBSET Files]
          BY <4>4 DEF PostFails, CycleTypeOK
        <5>2. torn' \subseteq trk /\ slow' \subseteq Groups
          BY <4>4 DEF PostFails, CycleTypeOK, Begun, Busy
        <5>3. /\ post' \in [Groups -> {"wait", "grids", "copy", "complete"}]
              /\ \A j \in Groups : post'[j] \notin {"wait", "complete"} => hour'[j] \in Hours
              /\ hour' \in [Groups -> 0 .. case.last + case.groups]
              /\ dom' \in [Groups -> Domains]
          BY <4>0, <4>4 DEF PostFails, CycleTypeOK
        <5>4. CycleTypeOK'
          BY <2>0, <3>3, <4>2, <4>4, <5>1, <5>2, <5>3 DEF PostFails, CycleTypeOK, producer
        <5> QED BY <4>1, <5>4
      <4>5. CASE Outlast(i)
        <5>1. CycleTypeOK'
          BY <2>0, <3>3, <4>2, <4>5 DEF Outlast, CycleTypeOK, producer, delivery
        <5> QED BY <4>1, <5>1
      <4> QED BY <3>8, <4>3, <4>4, <4>5 DEF Fault
    <3>10. QED
      BY <2>2, <3>4, <3>5, <3>6, <3>7, <3>8, <3>9 DEF CycleNext, Step
  <2>3. QED BY <2>1, <2>2
<1>3. QED BY <1>1, <1>2, PTL DEF CycleSpec

(* The hours, slots and files keep their types, whatever fails.            *)
THEOREM CycleTypeCorrect == CycleSpec => []CycleTypeOK
BY CycleTypes, PTL

-----------------------------------------------------------------------------
(* COM only grows: the tracks come from the tracker, the restart files     *)
(* from a job that copies their hour.                                      *)
LEMMA Arrivals ==
  ASSUME CycleTypeOK, Begun, [CycleNext]_cycleVars
  PROVE  /\ com \subseteq com' /\ spoilt \subseteq spoilt'
         /\ trk \subseteq trk' /\ done \subseteq done' /\ res <= res'
         /\ \A h \in Hours : Trak(h) \in com' \ com => Track /\ h = thour
         /\ \A h \in Hours : Core(h, 1) \in com' \ com =>
              \E i \in Groups : CopyRestart(i) /\ Here(i) = <<h, 1>>
<1>0. res \in Nat /\ case.last \in Nat
  BY CaseType DEF CycleTypeOK
<1> USE <1>0 DEF producer, delivery, store, others
<1>1. CASE UNCHANGED cycleVars
  BY <1>1 DEF cycleVars
<1>2. CASE Model
  BY <1>2 DEF Model, ModelWrites, ModelRestarts
<1>3. CASE Track
  BY <1>3 DEF Track, Trak, Core
<1>4. CASE TrackerFails
  BY <1>4 DEF TrackerFails
<1>k. ASSUME NEW i \in Groups, NEW c, c \subseteq due[i] \cup left[i],
             post[i] = "grids" \/ c \subseteq left[i] \ {Core(hour[i], dom[i])}
      PROVE  \A h : Trak(h) \notin c /\ Core(h, 1) \notin c
  <2>1. CASE post[i] = "grids"
    BY <1>k, <2>1, FilesApart DEF Begun, RestartFiles
  <2>2. CASE post[i] # "grids"
    <3>1. c \subseteq RestartFiles(hour[i], dom[i]) /\ Core(hour[i], dom[i]) \notin c
      BY <1>k, <2>2 DEF Begun, Busy
    <3> QED BY <3>1 DEF RestartFiles, Trak, Core, Rest
  <2> QED BY <2>1, <2>2
<1>5. ASSUME NEW i \in Groups, Post(i)
      PROVE  /\ com \subseteq com' /\ spoilt \subseteq spoilt'
             /\ trk \subseteq trk' /\ done \subseteq done' /\ res <= res'
             /\ \A h \in Hours : Trak(h) \in com' => Trak(h) \in com
             /\ \A h \in Hours : Core(h, 1) \in com' \ com => CopyRestart(i) /\ Here(i) = <<h, 1>>
  <2>1. CASE PassGrid(i)
    <3>1. PICK f \in due[i] : /\ post[i] = "grids"
                              /\ com' = com \/ com' = com \cup {f}
                              /\ spoilt' = spoilt \/ spoilt' = spoilt \cup {f}
      BY <2>1 DEF PassGrid, NextGrid
    <3>2. \A h : Trak(h) # f /\ Core(h, 1) # f
      BY <3>1, <1>k
    <3>3. trk' = trk /\ done' = done /\ res' = res
      BY <2>1 DEF PassGrid
    <3>4. QED BY <3>1, <3>2, <3>3
  <2>2. CASE EndGrid(i)
    <3>1. post[i] = "grids" /\ com' = com \cup left[i]
      BY <2>2 DEF EndGrid
    <3>2. \A h : Trak(h) \notin left[i] /\ Core(h, 1) \notin left[i]
      BY <3>1, <1>k
    <3>3. trk' = trk /\ done' = done /\ res' = res /\ spoilt' = spoilt
      BY <2>2 DEF EndGrid
    <3>4. QED BY <3>1, <3>2, <3>3
  <2>3. CASE CopyRestart(i)
    <3>1. PICK f \in left[i] : com' = com \cup {f}
      BY <2>3 DEF CopyRestart
    <3>2. f \in RestartFiles(hour[i], dom[i])
      BY <2>3, <3>1 DEF CopyRestart, Begun
    <3>3. ASSUME NEW h
          PROVE  /\ Trak(h) # f
                 /\ Core(h, 1) = f => Here(i) = <<h, 1>>
      BY <3>2, FilesApart DEF Here
    <3>4. trk' = trk /\ done' = done /\ res' = res /\ spoilt' = spoilt
      BY <2>3 DEF CopyRestart
    <3>5. QED BY <2>3, <3>1, <3>3, <3>4
  <2>4. CASE ~(PassGrid(i) \/ EndGrid(i) \/ CopyRestart(i))
    BY <1>5, <2>4 DEF Post, SkipPost, RunPost, StartGrid, StartCopy, MarkPost, EndPost
  <2>5. QED BY <2>1, <2>2, <2>3, <2>4
<1>6. ASSUME NEW i \in Groups, Fault(i)
      PROVE  /\ com \subseteq com' /\ spoilt \subseteq spoilt'
             /\ trk' = trk /\ done' = done /\ res' = res
             /\ \A h : Trak(h) \in com' => Trak(h) \in com
             /\ \A h : Core(h, 1) \in com' => Core(h, 1) \in com
  <2>1. CASE GridFails(i)
    <3>1. PICK c \in SUBSET left[i] : com' = com \cup c /\ post[i] = "grids"
      BY <2>1 DEF GridFails
    <3>2. \A h : Trak(h) \notin c /\ Core(h, 1) \notin c
      BY <3>1, <1>k
    <3> QED BY <2>1, <3>1, <3>2 DEF GridFails
  <2>2. CASE PostFails(i)
    <3>1. PICK c \in SUBSET (left[i] \ {Core(hour[i], dom[i])}) :
            com' = com \cup c /\ spoilt \subseteq spoilt'
      BY <2>2 DEF PostFails
    <3>2. \A h : Trak(h) \notin c /\ Core(h, 1) \notin c
      BY <3>1, <1>k
    <3> QED BY <2>2, <3>1, <3>2 DEF PostFails
  <2>3. CASE Outlast(i)
    BY <2>3 DEF Outlast
  <2> QED BY <1>6, <2>1, <2>2, <2>3 DEF Fault
<1>7. ASSUME NEW r \in case.readers, Read(r) \/ ReadFails(r)
      PROVE  com' = com /\ spoilt' = spoilt /\ trk' = trk /\ done' = done /\ res' = res
  BY <1>7 DEF Read, ReadFails
<1>8. QED
  BY <1>1, <1>2, <1>3, <1>4, <1>5, <1>6, <1>7 DEF CycleNext, Step

(* A job is left as it is by every step but its own, and by its own too    *)
(* when its delivery outlasts the age.                                     *)
LEMMA Mover ==
  ASSUME CycleTypeOK, [CycleNext]_cycleVars, NEW i \in Groups
  PROVE  \/ Post(i)
         \/ GridFails(i)
         \/ PostFails(i)
         \/ /\ post'[i] = post[i] /\ Here(i)' = Here(i) /\ hour'[i] = hour[i]
            /\ dom'[i] = dom[i] /\ left'[i] = left[i] /\ due'[i] = due[i]
            /\ i \in slow => i \in slow'
<1> DEFINE Still == /\ post'[i] = post[i] /\ hour'[i] = hour[i] /\ dom'[i] = dom[i]
                    /\ left'[i] = left[i] /\ due'[i] = due[i]
                    /\ i \in slow => i \in slow'
<1> USE DEF Here, delivery, store, others
<1>1. ASSUME NEW j \in Groups, j # i, Post(j) PROVE Still
  <2>1. CASE SkipPost(j) \/ MarkPost(j)
    <3>1. hour[j] \in Hours /\ NextSlot(j)
      BY <2>1 DEF SkipPost, MarkPost, CycleTypeOK
    <3>2. hour'[i] = hour[i] /\ dom'[i] = dom[i]
      BY <3>1, <1>1, NextSlotType
    <3>3. QED BY <2>1, <3>2, <1>1 DEF SkipPost, MarkPost, CycleTypeOK
  <2>2. CASE StartGrid(j) \/ PassGrid(j)
    BY <1>1, <2>2 DEF StartGrid, PassGrid, NextGrid, CycleTypeOK
  <2>3. CASE ~(SkipPost(j) \/ MarkPost(j) \/ StartGrid(j) \/ PassGrid(j))
    BY <1>1, <2>3 DEF Post, RunPost, EndGrid, StartCopy, CopyRestart, EndPost, CycleTypeOK
  <2>4. QED BY <2>1, <2>2, <2>3
<1>2. ASSUME NEW j \in Groups, j # i, Fault(j) PROVE Still
  BY <1>2 DEF Fault, GridFails, PostFails, Outlast, CycleTypeOK
<1>3. CASE Model \/ Track \/ TrackerFails
  BY <1>3 DEF Model, ModelWrites, ModelRestarts, Track, TrackerFails
<1>4. ASSUME NEW r \in case.readers, Read(r) \/ ReadFails(r) PROVE Still
  BY <1>4 DEF Read, ReadFails
<1>5. CASE UNCHANGED cycleVars
  BY <1>5 DEF cycleVars
<1>6. CASE Outlast(i)
  BY <1>6 DEF Outlast
<1>7. QED
  BY <1>1, <1>2, <1>3, <1>4, <1>5, <1>6 DEF CycleNext, Step, Fault

(* What a job was copying is brought or goes on, if it is a grid.          *)
LEMMA BroughtKept ==
  ASSUME CycleTypeOK, Begun, [CycleNext]_cycleVars, NEW h, NEW d, NEW f \in GridFiles(h, d),
         Brought(f)
  PROVE  Brought(f)'
<1>0. com \subseteq com' /\ spoilt \subseteq spoilt' /\ Groups' = Groups
  BY Arrivals, CaseFixed
<1>1. CASE f \in com \cup spoilt
  BY <1>0, <1>1 DEF Brought
<1>2. ASSUME NEW j \in Groups, f \in left[j] PROVE Brought(f)'
  <2>1. post[j] = "grids"
    BY <1>2, FilesApart DEF Begun, Busy
  <2>2. CASE left'[j] = left[j]
    BY <1>0, <1>2, <2>2 DEF Brought, Copying
  <2>3. CASE EndGrid(j)
    BY <1>2, <2>3 DEF EndGrid, Brought
  <2>4. CASE GridFails(j) \/ PostFails(j)
    BY <1>2, <2>1, <2>4 DEF GridFails, PostFails, Brought
  <2>5. CASE Post(j) /\ ~EndGrid(j)
    <3>1. left'[j] = left[j]
      BY <1>2, <2>1, <2>5 DEF Post, SkipPost, RunPost, StartGrid, PassGrid, NextGrid,
         StartCopy, CopyRestart, MarkPost, EndPost
    <3> QED BY <2>2, <3>1
  <2> QED BY <2>2, <2>3, <2>4, <2>5, Mover
<1> QED BY <1>1, <1>2 DEF Brought, Copying

(* What has been brought stays, since COM only grows.                      *)
LEMMA HandedKept ==
  ASSUME CycleTypeOK, Begun, [CycleNext]_cycleVars, NEW h, NEW d, Handed(h, d)
  PROVE  Handed(h, d)'
<1>1. /\ com \subseteq com' /\ case' = case
  BY Arrivals, CaseFixed
<1>2. /\ GridFiles(h, d)' = GridFiles(h, d) /\ RestartFiles(h, d)' = RestartFiles(h, d)
      /\ HasRestart(h)' = HasRestart(h)
  BY <1>1 DEF GridFiles, RestartFiles, Grids, Static, Mspec, Core, Rest, HasRestart
<1>3. \A f \in GridFiles(h, d) : Brought(f)'
  BY BroughtKept DEF Handed
<1> QED BY <1>1, <1>2, <1>3 DEF Handed

(* The order of the slots is kept.                                         *)
LEMMA OrderedHolds == CycleSpec => []Ordered
<1>1. CycleInit => Ordered
  BY CaseType DEF CycleInit, Ordered, Groups, Hours
<1>2. CycleTypeOK /\ Begun /\ Ordered /\ [CycleNext]_cycleVars => Ordered'
  <2> SUFFICES ASSUME CycleTypeOK, Begun, Ordered, [CycleNext]_cycleVars
               PROVE  Ordered'
    OBVIOUS
  <2>0. case' = case /\ Groups' = Groups /\ Domains' = Domains /\ Hours' = Hours
    BY CaseFixed
  <2>00. /\ case.groups \in Nat \ {0} /\ case.domains \in {1, 2} /\ case.last \in Nat
         /\ thour \in Nat
    BY CaseType DEF CycleTypeOK
  <2>a. trk \subseteq trk' /\ done \subseteq done'
    BY Arrivals
  <2>b. \A h \in Hours : Trak(h)' = Trak(h)
    BY <2>0 DEF Trak
  <2>1. \A i \in Groups : dom'[i] = 2 => <<hour'[i], 1>> \in done'
    <3> SUFFICES ASSUME NEW i \in Groups, dom'[i] = 2
                 PROVE  <<hour'[i], 1>> \in done'
      OBVIOUS
    <3>1. CASE dom'[i] = dom[i] /\ hour'[i] = hour[i]
      BY <3>1, <2>a DEF Ordered
    <3>2. CASE SkipPost(i) \/ MarkPost(i)
      <4>1. NextSlot(i) /\ hour[i] \in Hours /\ <<hour[i], dom[i]>> \in done'
        BY <2>a, <3>2 DEF SkipPost, MarkPost, Here, CycleTypeOK
      <4>2. dom[i] = 1 /\ hour'[i] = hour[i]
        BY <4>1, NextSlotType
      <4> QED BY <4>1, <4>2
    <3>3. CASE PostFails(i)
      BY <3>3 DEF PostFails, CycleTypeOK
    <3>4. CASE GridFails(i) \/ (Post(i) /\ ~(SkipPost(i) \/ MarkPost(i)))
      <4>1. dom' = dom /\ hour' = hour
        BY <3>4 DEF Post, GridFails, RunPost, StartGrid, PassGrid, EndGrid, StartCopy,
           CopyRestart, EndPost, delivery
      <4> QED BY <3>1, <4>1
    <3> QED BY <3>1, <3>2, <3>3, <3>4, Mover
  <2>2. \A h \in Hours : <<h, 2>> \in trk' => <<h, 1>> \in done'
    <3>1. CASE trk' = trk
      BY <3>1, <2>a DEF Ordered
    <3>2. ASSUME NEW i \in Groups, RunPost(i)
          PROVE  \A h \in Hours : <<h, 2>> \in trk' => <<h, 1>> \in done'
      BY <3>2, <2>a DEF RunPost, Ordered, Here
    <3>3. QED
      BY <3>1, <3>2 DEF CycleNext, Step, Model, ModelWrites, ModelRestarts, Track,
         TrackerFails, Post, Fault, SkipPost, StartGrid, PassGrid, EndGrid, StartCopy,
         CopyRestart, MarkPost, EndPost, GridFails, PostFails, Outlast, Read, ReadFails,
         delivery, cycleVars
  <2>3. \A h \in Hours : h < thour' => <<h, case.domains>> \in trk'
    <3>1. CASE thour' = thour
      BY <3>1, <2>a DEF Ordered
    <3>2. CASE Track
      BY <3>2, <2>a, <2>00 DEF Track, Ordered, Hours
    <3>3. CASE TrackerFails
      BY <3>3, <2>00 DEF TrackerFails, Hours
    <3>4. QED
      BY <3>1, <3>2, <3>3 DEF CycleNext, Step, Model, ModelWrites, ModelRestarts, Post,
         Fault, SkipPost, RunPost, StartGrid, PassGrid, EndGrid, StartCopy, CopyRestart,
         MarkPost, EndPost, GridFails, PostFails, Outlast, Read, ReadFails, others, cycleVars
  <2>4. \A h \in Hours : Trak(h) \in com' => \A k \in 0 .. h : <<k, case.domains>> \in trk'
    <3> SUFFICES ASSUME NEW h \in Hours, Trak(h) \in com', NEW k \in 0 .. h
                 PROVE  <<k, case.domains>> \in trk'
      OBVIOUS
    <3>1. CASE Trak(h) \in com
      BY <3>1, <2>a DEF Ordered
    <3>2. CASE Trak(h) \notin com
      <4>1. Track /\ h = thour
        BY <3>2, Arrivals
      <4>2. k \in Hours /\ (k < thour \/ k = thour)
        BY <4>1, <2>00 DEF Hours
      <4>3. QED BY <4>1, <4>2, <2>a DEF Track, Ordered
    <3>3. QED BY <3>1, <3>2
  <2>5. QED
    BY <2>0, <2>b, <2>1, <2>2, <2>3, <2>4 DEF Ordered
<1>3. QED BY <1>1, <1>2, CycleTypes, PTL DEF CycleSpec

-----------------------------------------------------------------------------
(* Only the job at a slot marks it, and only a mark clears a torn slot.    *)
LEMMA Marks ==
  ASSUME CycleTypeOK, [CycleNext]_cycleVars
  PROVE  /\ \A s \in done' \ done : \E i \in Groups : MarkPost(i) /\ s = Here(i)
         /\ \A s \in torn \ torn' : s \in done' /\ \E i \in Groups : MarkPost(i) /\ s = Here(i)
<1> USE DEF delivery, store, others
<1>1. ASSUME NEW i \in Groups, Post(i)
      PROVE  /\ \A s \in done' \ done : MarkPost(i) /\ s = Here(i)
             /\ \A s \in torn \ torn' : s \in done' /\ MarkPost(i) /\ s = Here(i)
  BY <1>1 DEF Post, SkipPost, RunPost, StartGrid, PassGrid, EndGrid, StartCopy, CopyRestart,
     MarkPost, EndPost
<1>2. ASSUME NEW i \in Groups, Fault(i)
      PROVE  done' = done /\ torn \subseteq torn'
  BY <1>2 DEF Fault, GridFails, PostFails, Outlast
<1>3. CASE Model \/ Track \/ TrackerFails
  BY <1>3 DEF Model, ModelWrites, ModelRestarts, Track, TrackerFails
<1>4. ASSUME NEW r \in case.readers, Read(r) \/ ReadFails(r)
      PROVE  done' = done /\ torn' = torn
  BY <1>4 DEF Read, ReadFails
<1>5. CASE UNCHANGED cycleVars
  BY <1>5 DEF cycleVars
<1>6. QED
  BY <1>1, <1>2, <1>3, <1>4, <1>5 DEF CycleNext, Step

(* A slot that is marked has been handed over.                             *)
LEMMA MarkedHanded ==
  ASSUME CycleTypeOK, Begun, NEW i \in Groups, Stage(i), MarkPost(i)
  PROVE  Handed(hour[i], dom[i]) /\ (HasRestart(hour[i]) => res > hour[i])
BY DEF MarkPost, Stage, Handed

(* A step of a delivery has brought what it stands for.                    *)
LEMMA StageKept ==
  ASSUME CycleTypeOK, CycleTypeOK', Begun, [CycleNext]_cycleVars, NEW i \in Groups, Stage(i)
  PROVE  Stage(i)'
<1>0. /\ com \subseteq com' /\ spoilt \subseteq spoilt' /\ res <= res'
      /\ res \in Nat /\ res' \in Nat /\ case' = case /\ hour[i] \in Nat
      /\ Groups' = Groups
  BY Arrivals, CaseFixed, CaseType DEF CycleTypeOK
<1>g. \A h, d : GridFiles(h, d)' = GridFiles(h, d) /\ RestartFiles(h, d)' = RestartFiles(h, d)
  BY <1>0 DEF GridFiles, RestartFiles, Grids, Static, Mspec, Core, Rest
<1>1. \A h, d : \A f \in GridFiles(h, d) : Brought(f) => Brought(f)'
  BY BroughtKept
<1>2. CASE post'[i] \in {"wait", "complete"}
  BY <1>2 DEF Stage
<1>3. CASE post'[i] = post[i] /\ hour'[i] = hour[i] /\ dom'[i] = dom[i] /\ left'[i] = left[i]
           /\ due'[i] = due[i]
  BY <1>0, <1>g, <1>1, <1>3 DEF Stage, HasRestart
<1>4. CASE RunPost(i)
  BY <1>g, <1>4 DEF RunPost, Stage, CycleTypeOK
<1>5. CASE StartGrid(i)
  <2>1. PICK f \in due[i] \ com : NextGrid(i, f) /\ left' = [left EXCEPT ![i] = {f}]
    BY <1>5 DEF StartGrid
  <2>2. post[i] = "grids" /\ due'[i] = due[i] \ {f} /\ f \in left'[i]
    BY <2>1 DEF NextGrid, CycleTypeOK
  <2>3. Brought(f)'
    BY <1>0, <2>2 DEF Brought, Copying
  <2>4. post'[i] = "grids" /\ hour'[i] = hour[i] /\ dom'[i] = dom[i]
    BY <1>5, <2>2 DEF StartGrid
  <2> QED BY <1>g, <1>1, <2>2, <2>3, <2>4 DEF Stage
<1>6. CASE PassGrid(i)
  <2>1. PICK f \in due[i] : NextGrid(i, f) /\ (f \in com \/ Copying(f))
    BY <1>6 DEF PassGrid
  <2>2. post[i] = "grids" /\ due'[i] = due[i] \ {f} /\ f \in GridFiles(hour[i], dom[i])
    BY <2>1, GridLooked DEF NextGrid
  <2>3. Brought(f)'
    BY <1>1, <2>1, <2>2 DEF Brought
  <2>4. post'[i] = "grids" /\ hour'[i] = hour[i] /\ dom'[i] = dom[i]
    BY <1>6, <2>2 DEF PassGrid
  <2> QED BY <1>g, <1>1, <2>2, <2>3, <2>4 DEF Stage
<1>7. CASE EndGrid(i) \/ GridFails(i)
  <2>1. /\ post'[i] = "grids" /\ post[i] = "grids" /\ hour'[i] = hour[i] /\ dom'[i] = dom[i]
        /\ due'[i] = due[i]
    BY <1>7 DEF EndGrid, GridFails
  <2> QED BY <1>g, <1>1, <2>1 DEF Stage
<1>8. CASE StartCopy(i)
  <2>1. /\ hour'[i] = hour[i] /\ dom'[i] = dom[i] /\ post[i] = "grids" /\ post'[i] = "copy"
        /\ res > hour[i] /\ HasRestart(hour[i]) /\ due[i] = {} /\ com' = com
        /\ left'[i] = RestartFiles(hour[i], dom[i]) \ com
    BY <1>8 DEF StartCopy, CycleTypeOK, RestartFiles, store
  <2>2. \A f \in GridFiles(hour[i], dom[i]) : Brought(f)'
    BY <1>1, <2>1 DEF Stage
  <2>3. HasRestart(hour[i])' /\ res' > hour'[i]
    BY <1>0, <2>1 DEF HasRestart
  <2> QED BY <1>g, <2>1, <2>2, <2>3 DEF Stage
<1>9. CASE CopyRestart(i)
  <2>1. PICK f \in left[i] : com' = com \cup {f} /\ left' = [left EXCEPT ![i] = @ \ {f}]
    BY <1>9 DEF CopyRestart
  <2>2. /\ hour'[i] = hour[i] /\ dom'[i] = dom[i] /\ post[i] = "copy" /\ post'[i] = "copy"
        /\ com' \cup left'[i] = com \cup left[i]
    BY <1>9, <2>1 DEF CopyRestart, CycleTypeOK
  <2>3. QED BY <1>0, <1>g, <1>1, <2>2 DEF Stage, HasRestart
<1>10. CASE SkipPost(i) \/ MarkPost(i) \/ EndPost(i) \/ PostFails(i)
  <2>1. post'[i] \in {"wait", "complete"}
    BY <1>10 DEF SkipPost, MarkPost, EndPost, PostFails, CycleTypeOK
  <2>2. QED BY <1>2, <2>1
<1> QED
  BY <1>3, <1>4, <1>5, <1>6, <1>7, <1>8, <1>9, <1>10, Mover DEF Post

(* What the tracker reads is done, at some post job, or known as torn.     *)
LEMMA AccountedHolds == CycleSpec => []Accounted
<1>1. CycleInit => Accounted
  BY DEF CycleInit, Accounted, Stage
<1>2. CycleTypeOK /\ Begun /\ Accounted /\ CycleTypeOK' /\ [CycleNext]_cycleVars => Accounted'
  <2> SUFFICES ASSUME CycleTypeOK, Begun, Accounted, CycleTypeOK', [CycleNext]_cycleVars
               PROVE  Accounted'
    OBVIOUS
  <2>0. /\ Groups' = Groups /\ Hours' = Hours /\ case' = case
        /\ done \subseteq done' /\ trk \subseteq trk'
        /\ res <= res' /\ res \in Nat /\ res' \in Nat
    BY CaseFixed, CaseType, Arrivals DEF CycleTypeOK
  <2>1. \A i \in Groups : Stage(i)'
    BY StageKept DEF Accounted
  <2>2. ASSUME NEW s \in done'
        PROVE  Handed(s[1], s[2])' /\ (HasRestart(s[1]) => res' > s[1])
    <3>1. s[1] \in Nat
      BY <2>0, CaseType DEF CycleTypeOK, Slots, Hours
    <3>2. CASE s \in done
      <4>1. Handed(s[1], s[2]) /\ (HasRestart(s[1]) => res > s[1])
        BY <3>2 DEF Accounted
      <4> QED BY <3>1, <4>1, <2>0, HandedKept
    <3>3. CASE s \notin done
      <4>1. PICK i \in Groups : MarkPost(i) /\ s = Here(i)
        BY <2>2, <3>3, Marks
      <4>2. s[1] = hour[i] /\ s[2] = dom[i] /\ Stage(i)
        BY <4>1 DEF Here, Accounted
      <4>3. Handed(s[1], s[2]) /\ (HasRestart(s[1]) => res > s[1])
        BY <4>1, <4>2, MarkedHanded
      <4>4. QED BY <3>1, <4>3, <2>0, HandedKept
    <3>4. QED BY <3>2, <3>3
  <2>3. ASSUME NEW h \in Hours, Core(h, 1) \in com'
        PROVE  res' > h /\ <<h, 1>> \in trk' /\ Brought(Static(1))'
    <3>1. h \in Nat
      BY CaseType DEF CycleTypeOK, Hours
    <3>a. \A k, d : Static(d) \in GridFiles(k, d)
      BY DEF GridFiles
    <3>2. CASE Core(h, 1) \in com
      <4>1. res > h /\ <<h, 1>> \in trk /\ Brought(Static(1))
        BY <3>2 DEF Accounted
      <4>2. Brought(Static(1))'
        BY <3>a, <4>1, BroughtKept
      <4> QED BY <3>1, <4>1, <4>2, <2>0
    <3>3. CASE Core(h, 1) \notin com
      <4>1. PICK i \in Groups : CopyRestart(i) /\ Here(i) = <<h, 1>>
        BY <2>3, <3>3, Arrivals
      <4>2. post[i] = "copy" /\ hour[i] = h /\ dom[i] = 1
        BY <4>1 DEF CopyRestart, Here
      <4>3. res > h /\ Brought(Static(1)) /\ <<h, 1>> \in trk
        BY <3>a, <4>1, <4>2 DEF Accounted, Stage, Begun, Busy
      <4>4. Brought(Static(1))'
        BY <3>a, <4>3, BroughtKept
      <4> QED BY <3>1, <4>3, <4>4, <2>0
    <3>4. QED BY <3>2, <3>3
  <2>4. ASSUME NEW s \in trk'
        PROVE  s \in done' \cup torn' \/ \E i \in Groups : post'[i] \in Busy /\ Here(i)' = s
    <3>1. CASE s \in done \cup torn
      BY <3>1, <2>0, Marks
    <3>2. ASSUME NEW i \in Groups, post[i] \in Busy, Here(i) = s
          PROVE  s \in done' \cup torn' \/ (post'[i] \in Busy /\ Here(i)' = s)
      <4>1. CASE MarkPost(i)
        BY <3>2, <4>1 DEF MarkPost
      <4>2. CASE PostFails(i)
        BY <3>2, <4>2 DEF PostFails, Busy
      <4>3. CASE GridFails(i) \/ (Post(i) /\ ~MarkPost(i))
        BY <3>2, <4>3 DEF Post, SkipPost, RunPost, StartGrid, PassGrid, NextGrid, EndGrid,
           StartCopy, CopyRestart, EndPost, GridFails, Busy, Here, delivery, CycleTypeOK
      <4>4. QED BY <3>2, <4>1, <4>2, <4>3, Mover
    <3>3. CASE s \notin trk
      <4>1. PICK i \in Groups : RunPost(i)
        BY <2>4, <3>3 DEF CycleNext, Step, Model, ModelWrites, ModelRestarts, Track,
           TrackerFails, Post, Fault, SkipPost, StartGrid, PassGrid, EndGrid, StartCopy,
           CopyRestart, MarkPost, EndPost, GridFails, PostFails, Outlast, Read, ReadFails,
           delivery, cycleVars
      <4>2. post'[i] \in Busy /\ Here(i)' = s
        BY <2>4, <4>1, <3>3 DEF RunPost, Busy, Here, CycleTypeOK
      <4>3. QED BY <4>2
    <3>4. QED BY <3>1, <3>2, <3>3 DEF Accounted
  <2>5. QED
    BY <2>0, <2>1, <2>2, <2>3, <2>4 DEF Accounted, HasRestart, Core, Static
<1>3. QED BY <1>1, <1>2, CycleTypes, PTL DEF CycleSpec

(* An hour with a done file has been delivered with all its restart files, *)
(* but for what was spoilt and what is still on its way: the job that      *)
(* marks it is past the end of its copies, and brings or has seen the rest.*)
THEOREM DoneDeliveredHolds == CycleSpec => []DoneDelivered
<1>1. Accounted => DoneDelivered
  BY DEF Accounted, DoneDelivered, Handed, FilesOf, Brought, Intact, RestartFiles
<1> QED BY <1>1, AccountedHolds, PTL

-----------------------------------------------------------------------------
(* The hours of a group, and what a job has passed when it stands at one   *)
(* of them; what the tracker has brought; who is why a file is young.      *)
Turn(i, h) == \E q \in Nat : h = case.groups * q + i

Passed ==
  \A i \in Groups :
    /\ Turn(i, hour[i])
    /\ \A h \in Hours : Turn(i, h) /\ h < hour[i] => \A d \in Domains : <<h, d>> \in done
    /\ post[i] = "complete" => hour[i] \notin Hours

Followed ==
  /\ \A h \in Hours : h < thour /\ h <= Window => Trak(h) \in com
  /\ \A f \in Watched : \A i \in young[f] : Delivers(i)

(* Division with a rest.                                                   *)
LEMMA Division ==
  ASSUME NEW g \in Nat \ {0}, NEW h \in Nat
  PROVE  \E q \in Nat, i \in 0 .. g - 1 : h = g * q + i
<1>1. h % g \in 0 .. g - 1
  BY SMTT(30)
<1>2. h \div g \in Nat
  BY SMTT(30)
<1>3. h = g * (h \div g) + (h % g)
  BY SMTT(30)
<1> QED
  BY <1>1, <1>2, <1>3

(* A group has its first hour and with each the next, none in between, and *)
(* every hour is of some group.                                            *)
LEMMA Turns ==
  ASSUME case \in Cases
  PROVE  /\ \A i \in Groups : i \in Nat /\ Turn(i, i)
         /\ \A i \in Groups : \A h \in Nat : Turn(i, h) => i <= h /\ Turn(i, h + case.groups)
         /\ \A i \in Groups : \A p, h \in Nat :
              Turn(i, p) /\ Turn(i, h) /\ h < p + case.groups => h <= p
         /\ \A h \in Nat : \E i \in Groups : Turn(i, h)
<1>0. case.groups \in Nat \ {0} /\ \A i \in Groups : i \in Nat
  BY CaseType DEF Groups
<1>1. PICK g \in Nat \ {0} : g = case.groups
  BY <1>0
<1>2. ASSUME NEW q \in Nat PROVE g * q \in Nat /\ g * (q + 1) = g * q + g
  <2>1. g * q \in Nat
    BY <1>1
  <2>2. g * (q + 1) = g * q + g
    BY <1>1
  <2> QED BY <2>1, <2>2
<1>3. ASSUME NEW i \in Groups PROVE Turn(i, i)
  <2>1. g * 0 = 0
    BY <1>1
  <2>2. i = g * 0 + i
    BY <1>0, <2>1
  <2> QED BY <1>1, <2>2 DEF Turn
<1>4. ASSUME NEW i \in Groups, NEW h \in Nat, Turn(i, h)
      PROVE  i <= h /\ Turn(i, h + case.groups)
  <2>1. PICK q \in Nat : h = g * q + i
    BY <1>1, <1>4 DEF Turn
  <2>2. h + g = g * (q + 1) + i /\ q + 1 \in Nat /\ g * q \in Nat
    BY <1>0, <1>2, <2>1
  <2> QED BY <1>0, <1>1, <2>1, <2>2 DEF Turn
<1>5. ASSUME NEW i \in Groups, NEW p \in Nat, NEW h \in Nat,
             Turn(i, p), Turn(i, h), h < p + case.groups
      PROVE  h <= p
  <2>1. PICK q \in Nat : p = g * q + i
    BY <1>1, <1>5 DEF Turn
  <2>2. PICK k \in Nat : h = g * k + i
    BY <1>1, <1>5 DEF Turn
  <2>3. CASE k <= q
    <3>1. PICK n \in Nat : q = k + n
      BY <2>3
    <3>2. g * q = g * k + g * n /\ g * n \in Nat /\ g * k \in Nat
      BY <3>1
    <3> QED BY <1>0, <2>1, <2>2, <3>2
  <2>4. CASE q < k
    <3>1. PICK n \in Nat : k = q + 1 + n
      BY <2>4
    <3>2. g * k = g * q + g + g * n /\ g * n \in Nat /\ g * q \in Nat
      BY <3>1
    <3> QED BY <1>0, <1>1, <1>5, <2>1, <2>2, <3>2
  <2> QED BY <2>3, <2>4
<1>6. ASSUME NEW h \in Nat PROVE \E i \in Groups : Turn(i, h)
  <2>1. PICK q \in Nat, i \in 0 .. g - 1 : h = g * q + i
    BY <1>1, Division
  <2> QED BY <1>1, <2>1 DEF Turn, Groups
<1> QED
  BY <1>0, <1>3, <1>4, <1>5, <1>6

(* Every hour is of one group.                                             *)
LEMMA Sole ==
  ASSUME case \in Cases, NEW i \in Groups, NEW j \in Groups, NEW h \in Nat,
         Turn(i, h), Turn(j, h)
  PROVE  i = j
<1>1. PICK g \in Nat \ {0} : g = case.groups
  BY CaseType
<1>2. i \in 0 .. g - 1 /\ j \in 0 .. g - 1
  BY <1>1 DEF Groups
<1>3. PICK p \in Nat, q \in Nat : h = g * p + i /\ h = g * q + j
  BY <1>1 DEF Turn
<1>4. CASE p = q
  <2>1. g * p = g * q /\ g * p \in Nat
    BY <1>4
  <2> QED BY <1>2, <1>3, <2>1
<1>5. ASSUME NEW a \in Nat, NEW b \in Nat, NEW n \in Nat, a = b + 1 + n
      PROVE  g * a >= g * b + g /\ g * b \in Nat
  <2>1. g * a = g * b + g + g * n /\ g * n \in Nat /\ g * b \in Nat
    BY <1>5
  <2> QED BY <2>1
<1>6. CASE p < q
  <2>1. PICK n \in Nat : q = p + 1 + n
    BY <1>6
  <2> QED BY <1>2, <1>3, <1>5, <2>1
<1>7. CASE q < p
  <2>1. PICK n \in Nat : p = q + 1 + n
    BY <1>7
  <2> QED BY <1>2, <1>3, <1>5, <2>1
<1> QED BY <1>4, <1>6, <1>7

(* What the job that has done a slot has passed when it goes on.           *)
LEMMA PassedNext ==
  ASSUME CycleTypeOK, Ordered, Passed, NEW i \in Groups, NextSlot(i), hour[i] \in Hours,
         NEW D, done \subseteq D, Here(i) \in D
  PROVE  /\ Turn(i, hour'[i])
         /\ \A h \in Hours : Turn(i, h) /\ h < hour'[i] => \A d \in Domains : <<h, d>> \in D
<1>0. /\ case.groups \in Nat \ {0} /\ case.domains \in {1, 2} /\ Domains = 1 .. case.domains
      /\ Hours \subseteq Nat /\ dom[i] \in Domains /\ case \in Cases
  BY CaseType DEF CycleTypeOK, Domains, Hours
<1>1. CASE dom[i] < case.domains
  BY <1>1 DEF NextSlot, Passed
<1>2. CASE ~(dom[i] < case.domains)
  <2>1. hour'[i] = hour[i] + case.groups /\ dom[i] = case.domains
    BY <1>0, <1>2 DEF NextSlot, CycleTypeOK
  <2>a. hour[i] \in Nat /\ Turn(i, hour[i])
    BY <1>0 DEF Passed
  <2>2. Turn(i, hour'[i])
    BY <1>0, <2>1, <2>a, Turns
  <2>3. ASSUME NEW h \in Hours, Turn(i, h), h < hour'[i], NEW d \in Domains
        PROVE  <<h, d>> \in D
    <3>1. h <= hour[i]
      <4>1. h \in Nat /\ h < hour[i] + case.groups
        BY <1>0, <2>1, <2>3
      <4> QED BY <1>0, <2>3, <2>a, <4>1, Turns
    <3>2. CASE h < hour[i]
      BY <2>3, <3>2 DEF Passed
    <3>3. CASE h = hour[i]
      <4>1. <<h, case.domains>> \in D
        BY <2>1, <3>3 DEF Here
      <4>2. case.domains = 2 => <<h, 1>> \in D
        BY <2>1, <3>3 DEF Ordered
      <4> QED BY <1>0, <4>1, <4>2
    <3>4. h \in Nat /\ hour[i] \in Nat
      BY <1>0, <2>a
    <3> QED BY <3>1, <3>2, <3>3, <3>4
  <2> QED BY <2>2, <2>3
<1> QED
  BY <1>1, <1>2

(* What lies behind a job is done, and a job is over past the last hour.   *)
LEMMA PassedHolds == CycleSpec => []Passed
<1>1. CycleInit => Passed
  <2> SUFFICES ASSUME CycleInit, NEW i \in Groups
               PROVE  /\ Turn(i, hour[i])
                      /\ \A h \in Hours : Turn(i, h) => ~(h < hour[i])
                      /\ post[i] # "complete"
    BY DEF Passed
  <2>1. case \in Cases /\ hour[i] = i /\ post[i] = "wait" /\ Hours \subseteq Nat
    BY CaseType DEF CycleInit, Hours
  <2> QED BY <2>1, Turns
<1>2. CycleTypeOK /\ Begun /\ Ordered /\ Passed /\ [CycleNext]_cycleVars => Passed'
  <2> SUFFICES ASSUME CycleTypeOK, Begun, Ordered, Passed, [CycleNext]_cycleVars,
                      NEW i \in Groups
               PROVE  /\ Turn(i, hour'[i])
                      /\ \A h \in Hours : Turn(i, h) /\ h < hour'[i] =>
                           \A d \in Domains : <<h, d>> \in done'
                      /\ post'[i] = "complete" => hour'[i] \notin Hours
    BY CaseFixed DEF Passed, Turn
  <2>0. case \in Cases /\ Hours \subseteq Nat /\ done \subseteq done'
    BY Arrivals, CaseType DEF CycleTypeOK, Hours
  <2>1. CASE post'[i] = post[i] /\ hour'[i] = hour[i]
    BY <2>0, <2>1 DEF Passed
  <2>2. CASE PostFails(i)
    <3>1. hour'[i] = i /\ post'[i] = "wait"
      BY <2>2 DEF PostFails, CycleTypeOK
    <3>2. \A h \in Hours : Turn(i, h) => i \in Nat /\ i <= h
      BY <2>0, Turns
    <3> QED BY <2>0, <3>1, <3>2, Turns
  <2>3. CASE SkipPost(i) \/ MarkPost(i)
    <3>1. NextSlot(i) /\ hour[i] \in Hours /\ Here(i) \in done' /\ post'[i] # "complete"
      BY <2>3 DEF SkipPost, MarkPost, CycleTypeOK
    <3> QED BY <2>0, <3>1, PassedNext
  <2>4. CASE EndPost(i)
    <3>1. hour'[i] = hour[i] /\ hour[i] \notin Hours
      BY <2>4 DEF EndPost, delivery
    <3> QED BY <2>0, <3>1 DEF Passed
  <2>5. CASE \/ RunPost(i) \/ StartGrid(i) \/ PassGrid(i) \/ EndGrid(i) \/ GridFails(i)
             \/ StartCopy(i) \/ CopyRestart(i)
    <3>1. hour'[i] = hour[i] /\ post'[i] # "complete"
      BY <2>5 DEF RunPost, StartGrid, PassGrid, NextGrid, EndGrid, GridFails, StartCopy,
         CopyRestart, CycleTypeOK
    <3> QED BY <2>0, <3>1 DEF Passed
  <2> QED BY <2>1, <2>2, <2>3, <2>4, <2>5, Mover DEF Post
<1> QED
  BY <1>1, <1>2, CycleTypes, OrderedHolds, PTL DEF CycleSpec

(* The tracker's files are there up to its hour, and a file is young only  *)
(* while somebody delivers.                                                *)
LEMMA FollowedHolds == CycleSpec => []Followed
<1>1. CycleInit => Followed
  BY CaseType DEF CycleInit, Followed, Hours
<1>2. CycleTypeOK /\ Begun /\ Followed /\ [CycleNext]_cycleVars => Followed'
  <2> SUFFICES ASSUME CycleTypeOK, Begun, Followed, [CycleNext]_cycleVars
               PROVE  /\ \A h \in Hours : h < thour' /\ h <= Window => Trak(h) \in com'
                      /\ \A f \in Watched : \A i \in young'[f] : Delivers(i)'
    BY CaseFixed DEF Followed, Trak
  <2>0. com \subseteq com' /\ Hours \subseteq Nat /\ thour \in Nat /\ Window \in Nat
    BY Arrivals, CaseType DEF Hours, CycleTypeOK
  <2>1. \A h \in Hours : h < thour' /\ h <= Window => Trak(h) \in com'
    <3>1. CASE thour' = thour
      BY <2>0, <3>1 DEF Followed
    <3>2. CASE Track
      <4>1. thour' = thour + 1 /\ (thour <= Window => Trak(thour) \in com')
        BY <3>2 DEF Track
      <4>2. \A h \in Hours : h < thour' => h < thour \/ h = thour
        BY <2>0, <4>1
      <4> QED BY <2>0, <4>1, <4>2 DEF Followed
    <3>3. CASE TrackerFails
      BY <2>0, <3>3 DEF TrackerFails
    <3> QED
      BY <3>1, <3>2, <3>3 DEF CycleNext, Step, Model, ModelWrites, ModelRestarts, Post,
         Fault, SkipPost, RunPost, StartGrid, PassGrid, EndGrid, StartCopy, CopyRestart,
         MarkPost, EndPost, GridFails, PostFails, Outlast, Read, ReadFails, others, cycleVars
  <2>2. \A f \in Watched : \A i \in young'[f] : Delivers(i)'
    <3>1. CASE CycleNext
      BY <3>1 DEF CycleNext, Age
    <3>2. CASE UNCHANGED cycleVars
      BY <3>2 DEF cycleVars, producer, delivery, Followed, Delivers
    <3> QED BY <3>1, <3>2
  <2> QED BY <2>1, <2>2
<1> QED
  BY <1>1, <1>2, CycleTypes, PTL DEF CycleSpec

-----------------------------------------------------------------------------
(* What a file must outlive when it comes goes on, is torn, or is known to *)
(* take long; what begins later takes up a torn delivery.                  *)
LEMMA GuardKept ==
  ASSUME CycleTypeOK, CycleTypeOK', Begun, Accounted, Passed, CycleNext,
         NEW f \in com' \cap Watched, NEW S, \A s \in S : HasRestart(s[1]) => res' > s[1],
         f \in com => Guarded(f, S) /\ S \subseteq trk
  PROVE  Guarded(f, S)'
<1>0. case' = case /\ Groups' = Groups /\ Watched' = Watched /\ case \in Cases
  BY CaseFixed DEF CycleTypeOK
<1> SUFFICES ASSUME NEW i \in Groups, post'[i] \in Busy, Here(i)' \in S
             PROVE  i \in young'[f] \cup slow' \/ Here(i)' \in torn'
  BY <1>0 DEF Guarded
<1>1. Delivers(i)'
  <2>1. HasRestart(hour'[i]) => res' > hour'[i]
    BY DEF Here
  <2> QED BY <1>0, <2>1 DEF Delivers, Busy, HasRestart
<1>2. f \notin com \/ i \in young[f] => i \in young'[f] \cup slow'
  BY <1>0, <1>1 DEF CycleNext, Age
<1>3. CASE f \notin com
  BY <1>2, <1>3
<1>4. CASE f \in com
  <2>1. ASSUME post[i] \in Busy, Here(i)' = Here(i), i \in slow => i \in slow'
        PROVE  i \in young'[f] \cup slow' \/ Here(i)' \in torn'
    <3>1. i \in young[f] \cup slow \/ Here(i) \in torn
      BY <1>4, <2>1 DEF Guarded
    <3>2. CASE i \in young[f] \cup slow
      BY <1>2, <2>1, <3>2
    <3>3. CASE Here(i) \in torn /\ Here(i) \notin torn'
      <4>1. PICK k \in Groups : MarkPost(k) /\ Here(i) = Here(k)
        BY <3>3, Marks
      <4>2. hour[k] \in Nat /\ hour[k] = hour[i]
        BY <1>0, <4>1, CaseType DEF Here, CycleTypeOK
      <4>3. k = i
        BY <1>0, <4>2, Sole DEF Passed
      <4> QED BY <4>1, <4>3 DEF MarkPost, Busy, CycleTypeOK
    <3> QED BY <2>1, <3>1, <3>2, <3>3
  <2>2. CASE RunPost(i)
    <3>1. /\ Here(i)' = Here(i) /\ Here(i) \notin done /\ post[i] = "wait"
          /\ torn' = torn /\ Here(i) \in trk
      BY <1>4, <2>2 DEF RunPost, Here, store
    <3>2. ASSUME NEW k \in Groups, post[k] \in Busy, Here(k) = Here(i) PROVE FALSE
      <4>1. hour[k] = hour[i] /\ hour[i] \in Nat
        BY <1>0, <3>2, CaseType DEF Here, CycleTypeOK
      <4>2. k = i
        BY <1>0, <4>1, Sole DEF Passed
      <4> QED BY <3>1, <3>2, <4>2 DEF Busy
    <3> QED BY <3>1, <3>2 DEF Accounted
  <2>3. CASE SkipPost(i) \/ MarkPost(i) \/ EndPost(i) \/ PostFails(i)
    BY <2>3 DEF SkipPost, MarkPost, EndPost, PostFails, Busy, CycleTypeOK
  <2>4. CASE StartGrid(i) \/ PassGrid(i) \/ EndGrid(i) \/ GridFails(i) \/ StartCopy(i)
             \/ CopyRestart(i)
    <3>1. post[i] \in Busy /\ hour' = hour /\ dom' = dom /\ slow' = slow
      BY <2>4 DEF StartGrid, PassGrid, NextGrid, EndGrid, GridFails, StartCopy, CopyRestart,
         Busy, store
    <3> QED BY <2>1, <3>1 DEF Here
  <2>5. CASE /\ post'[i] = post[i] /\ Here(i)' = Here(i)
             /\ i \in slow => i \in slow'
    BY <2>1, <2>5
  <2> QED BY <2>2, <2>3, <2>4, <2>5, Mover DEF CycleNext, Post
<1> QED BY <1>3, <1>4

(* Nobody begins to copy the static files once they have been brought.     *)
LEMMA StaticGuarded ==
  ASSUME CycleTypeOK, CycleTypeOK', Begun, Begun', Accounted, CycleNext, NEW h \in Hours,
         NEW f, f = Core(h, 1), f \in com' \cap Watched,
         f \in com /\ Static(1) \notin spoilt =>
           \A i \in Groups : Static(1) \in left[i] => i \in young[f] \cup slow,
         Static(1) \notin spoilt', NEW i \in Groups, Static(1) \in left'[i]
  PROVE  i \in young'[f] \cup slow'
<1>0. /\ case' = case /\ Groups' = Groups /\ Watched' = Watched
      /\ spoilt \subseteq spoilt'
  BY CaseFixed, Arrivals DEF CycleNext
<1>1. Delivers(i)'
  BY <1>0 DEF Begun, Delivers, Busy
<1>2. f \notin com \/ i \in young[f] => i \in young'[f] \cup slow'
  BY <1>0, <1>1 DEF CycleNext, Age
<1>3. CASE f \notin com
  BY <1>2, <1>3
<1>4. CASE f \in com
  <2>1. Static(1) \in com \/ Copying(Static(1))
    BY <1>0, <1>4 DEF Accounted, Brought
  <2>2. ASSUME left'[i] = left[i], i \in slow => i \in slow'
        PROVE  i \in young'[f] \cup slow'
    BY <1>0, <1>2, <1>4, <2>2
  <2>3. CASE StartGrid(i)
    <3>1. PICK g : g \notin com /\ ~Copying(g) /\ left'[i] = {g}
      BY <2>3 DEF StartGrid, CycleTypeOK
    <3> QED BY <2>1, <3>1
  <2>4. CASE StartCopy(i)
    <3>1. left'[i] \subseteq RestartFiles(hour[i], dom[i])
      BY <2>4 DEF StartCopy, RestartFiles, CycleTypeOK
    <3> QED BY <3>1, FilesApart
  <2>5. CASE EndGrid(i) \/ GridFails(i) \/ PostFails(i) \/ MarkPost(i)
    BY <2>5 DEF EndGrid, GridFails, PostFails, MarkPost, CycleTypeOK
  <2>6. CASE CopyRestart(i)
    <3>1. left'[i] \subseteq left[i] /\ slow' = slow
      BY <2>6 DEF CopyRestart, CycleTypeOK
    <3> QED BY <1>0, <1>2, <1>4, <3>1
  <2>7. CASE SkipPost(i) \/ RunPost(i) \/ PassGrid(i) \/ EndPost(i)
    <3>1. left' = left /\ slow' = slow
      BY <2>7 DEF SkipPost, RunPost, PassGrid, EndPost, store, delivery
    <3> QED BY <2>2, <3>1
  <2> QED BY <2>2, <2>3, <2>4, <2>5, <2>6, <2>7, Mover DEF CycleNext, Post
<1> QED BY <1>3, <1>4

(* What the track's being in COM says.                                     *)
Tracked ==
  case.domains = 2 /\ case.track \in Hours /\ Trak(case.track) \in com =>
    \A s \in UpTo(case.track) : s \in trk /\ (HasRestart(s[1]) => res > s[1])

(* The slots up to the track's hour are in the tracker's input when the    *)
(* track is in COM, and their restart files have been written.             *)
LEMMA TrackedHolds == CycleSpec => []Tracked
<1>1. CycleTypeOK /\ Ordered /\ Accounted => Tracked
  <2> SUFFICES ASSUME CycleTypeOK, Ordered, Accounted, case.domains = 2,
                      case.track \in Hours, Trak(case.track) \in com,
                      NEW s \in UpTo(case.track)
               PROVE  s \in trk /\ (HasRestart(s[1]) => res > s[1])
    BY DEF Tracked
  <2>0. /\ case.last \in Nat /\ case.track \in Nat /\ Domains = {1, 2}
        /\ Hours = 0 .. case.last
    BY CaseType DEF CycleTypeOK, Domains, Hours
  <2>1. PICK k \in 0 .. case.track, d \in {1, 2} : s = <<k, d>>
    BY <2>0 DEF UpTo
  <2>2. k \in Hours /\ <<k, 2>> \in trk
    BY <2>0 DEF Ordered
  <2>3. <<k, 1>> \in done
    BY <2>2 DEF Ordered
  <2>4. HasRestart(k) => res > k
    BY <2>3 DEF Accounted
  <2> QED BY <2>1, <2>2, <2>3, <2>4 DEF CycleTypeOK
<1> QED BY <1>1, CycleTypes, OrderedHolds, AccountedHolds, PTL

(* What a file that is waited for must outlive, it does outlive.           *)
LEMMA AgedHolds == CycleSpec => []Aged
<1>1. CycleInit => Aged
  BY DEF CycleInit, Aged
<1>2. /\ CycleTypeOK /\ Begun /\ Accounted /\ Tracked /\ Passed /\ Aged
      /\ CycleTypeOK' /\ Begun' /\ Accounted' /\ Tracked' /\ [CycleNext]_cycleVars
      => Aged'
  <2> SUFFICES ASSUME CycleTypeOK, Begun, Accounted, Tracked, Passed, Aged,
                      CycleTypeOK', Begun', Accounted', Tracked', [CycleNext]_cycleVars
               PROVE  Aged'
    OBVIOUS
  <2>0. /\ case' = case /\ Hours' = Hours /\ Watched' = Watched /\ Groups' = Groups
        /\ Domains' = Domains
    BY CaseFixed
  <2>c. CASE UNCHANGED cycleVars
    <3>1. UNCHANGED <<case, post, hour, dom, left, com, spoilt, young, slow, torn>>
      BY <2>c DEF cycleVars, delivery, store
    <3>2. \A f, S : Guarded(f, S)' = Guarded(f, S)
      BY <2>0, <3>1 DEF Guarded, Here
    <3> QED
      BY <2>0, <3>1, <3>2 DEF Aged, Core, Trak, Static, UpTo
  <2> SUFFICES ASSUME CycleNext PROVE Aged'
    BY <2>c
  <2>1. ASSUME NEW h \in Hours, Core(h, 1) \in com' \cap Watched
        PROVE  /\ Guarded(Core(h, 1), {<<h, 1>>})'
               /\ Static(1) \notin spoilt' =>
                    \A i \in Groups : Static(1) \in left'[i] => i \in young'[Core(h, 1)] \cup slow'
    <3>0. PICK f : f = Core(h, 1)
      OBVIOUS
    <3>1. res' > h
      BY <2>0, <2>1 DEF Accounted, Core
    <3>2. f \in com => Guarded(f, {<<h, 1>>}) /\ {<<h, 1>>} \subseteq trk
      BY <2>1, <3>0 DEF Aged, Accounted
    <3>3. Guarded(f, {<<h, 1>>})'
      BY <2>1, <3>0, <3>1, <3>2, GuardKept
    <3>4. f \in com /\ Static(1) \notin spoilt =>
            \A i \in Groups : Static(1) \in left[i] => i \in young[f] \cup slow
      BY <2>1, <3>0 DEF Aged
    <3>5. ASSUME Static(1) \notin spoilt', NEW i \in Groups, Static(1) \in left'[i]
          PROVE  i \in young'[f] \cup slow'
      BY <2>1, <3>0, <3>4, <3>5, StaticGuarded
    <3>6. Core(h, 1)' = Core(h, 1)
      BY DEF Core
    <3> QED BY <2>0, <3>0, <3>3, <3>5, <3>6 DEF Guarded
  <2>2. ASSUME case.domains = 2, Trak(case.track) \in com' \cap Watched
        PROVE  Guarded(Trak(case.track), UpTo(case.track))'
    <3>0. PICK f, S : f = Trak(case.track) /\ S = UpTo(case.track)
      OBVIOUS
    <3>1. case.track \in Hours /\ Trak(case.track)' = f /\ UpTo(case.track)' = S
      BY <2>0, <2>2, <3>0 DEF CycleTypeOK, Files, Trak, UpTo
    <3>2. \A s \in S : HasRestart(s[1]) => res' > s[1]
      BY <2>0, <2>2, <3>0, <3>1 DEF Tracked, HasRestart
    <3>3. f \in com => Guarded(f, S) /\ S \subseteq trk
      BY <2>2, <3>0, <3>1 DEF Aged, Tracked
    <3>4. Guarded(f, S)'
      BY <2>2, <3>0, <3>2, <3>3, GuardKept
    <3> QED BY <3>1, <3>4 DEF Guarded
  <2>3. Static(1)' = Static(1) /\ \A h : Core(h, 1)' = Core(h, 1)
    BY DEF Static, Core
  <2>4. Trak(case.track)' = Trak(case.track)
    BY <2>0 DEF Trak
  <2> QED
    BY <2>0, <2>1, <2>2, <2>3, <2>4 DEF Aged
<1>3. QED
  BY <1>1, <1>2, CycleTypes, AccountedHolds, TrackedHolds, PassedHolds, PTL DEF CycleSpec

(* A file of a slot that the tracker has input of is there, is spoilt, is  *)
(* late, or is on its way, when nobody that is not slow or torn delivers   *)
(* the slot.                                                               *)
LEMMA SlotThere ==
  ASSUME CycleTypeOK, Accounted, NEW s \in trk, NEW g \in FilesOf(s[1], s[2]),
         NEW S, s \in S, NEW w, young[w] = {}, Guarded(w, S)
  PROVE  g \in com \cup spoilt \/ Copying(g) \/ Late(g)
<1>1. CASE s \in torn
  BY <1>1 DEF Late
<1>2. CASE s \in done
  BY <1>2 DEF Accounted, Handed, Brought, FilesOf, RestartFiles
<1>3. ASSUME NEW i \in Groups, post[i] \in Busy, Here(i) = s PROVE Late(g)
  <2>1. i \in slow \/ s \in torn
    BY <1>3 DEF Guarded
  <2>2. s[1] = hour[i] /\ s[2] = dom[i]
    BY <1>3 DEF Here
  <2> QED BY <2>1, <2>2 DEF Late
<1> QED BY <1>1, <1>2, <1>3 DEF Accounted

(* A copy that is going on for a slot that only the slow and the torn      *)
(* deliver is late.                                                        *)
LEMMA CopyLate ==
  ASSUME CycleTypeOK, Begun, Accounted, NEW g, NEW i \in Groups, g \in left[i],
         \/ i \in slow
         \/ \E S, w : Here(i) \in S /\ Guarded(w, S) /\ young[w] = {}
  PROVE  Late(g)
<1>1. post[i] \in Busy
  BY DEF Begun
<1>2. hour[i] \in Hours /\ dom[i] \in Domains
  BY <1>1 DEF CycleTypeOK, Busy
<1>3. g \in FilesOf(hour[i], dom[i])
  <2>1. CASE post[i] = "grids"
    BY <1>2, <2>1, FileTypes DEF Begun
  <2>2. CASE post[i] = "copy"
    BY <1>2, <2>2, FileTypes DEF Begun, Accounted, Stage
  <2> QED BY <1>1, <2>1, <2>2 DEF Busy
<1>4. i \in slow \/ Here(i) \in torn
  BY <1>1 DEF Guarded
<1> QED BY <1>3, <1>4 DEF Late, Here

(* The files whose age a job of the next cycle waits for stand for all     *)
(* that they promise.                                                      *)
LEMMA StartComplete ==
  ASSUME CycleTypeOK, Begun, Ordered, Accounted, Tracked, Aged,
         NEW r \in case.readers, CanStart(r), NEW g \in Promised(r)
  PROVE  Intact(g) \/ g \in spoilt \/ Late(g)
<1>0. /\ case.domains \in {1, 2} /\ case.last \in Nat /\ case.track \in 0 .. Window
      /\ r \in Reader /\ Window \in Nat /\ Restarts \subseteq 1 .. Window - 1
      /\ Domains = 1 .. case.domains /\ Hours = 0 .. case.last
  BY CaseType DEF CycleTypeOK, Domains, Hours
<1>1. PICK h \in Nat : h = r[2] /\ h >= 1 /\ HasRestart(h)
  <2>1. r[2] \in Restarts
    BY <1>0 DEF Reader
  <2>2. r[2] \in 1 .. Window - 1
    BY <1>0, <2>1
  <2>3. QED BY <1>0, <2>1, <2>2 DEF HasRestart
<1>2. PICK w : w = Core(h, 1) /\ w \in com \cap Watched /\ young[w] = {}
  BY <1>1 DEF CanStart, Waits, Old, Watched
<1>3. h \in Hours
  BY <1>2 DEF CycleTypeOK, Files, Core
<1>4. /\ <<h, 1>> \in trk /\ Guarded(w, {<<h, 1>>})
      /\ Static(1) \notin spoilt => \A i \in Groups : Static(1) \in left[i] => i \in slow
  BY <1>2, <1>3 DEF Aged, Accounted
<1>5. HasRestart(h) /\ Static(1) \in FilesOf(h, 1)
      /\ Core(h, 1) \in FilesOf(h, 1) /\ Rest(h, 1) \in FilesOf(h, 1)
  BY <1>1 DEF FilesOf, GridFiles
<1>6. ASSUME g \in com \cup spoilt \/ Copying(g) \/ Late(g),
             ASSUME NEW i \in Groups, g \in left[i] PROVE g \in spoilt \/ Late(g)
      PROVE  Intact(g) \/ g \in spoilt \/ Late(g)
  BY <1>6 DEF Intact, Copying
<1>7. CASE g \in {Core(h, 1), Rest(h, 1), Static(1)}
  <2>1. g \in com \cup spoilt \/ Copying(g) \/ Late(g)
    <3>1. PICK s : s = <<h, 1>>
      OBVIOUS
    <3>2. g \in FilesOf(s[1], s[2]) /\ s \in {<<h, 1>>} /\ s \in trk
      BY <1>4, <1>5, <1>7, <3>1
    <3> QED BY <1>2, <1>4, <3>2, SlotThere
  <2>2. ASSUME NEW i \in Groups, g \in left[i] PROVE g \in spoilt \/ Late(g)
    <3>1. CASE g = Static(1)
      BY <1>4, <2>2, <3>1, CopyLate
    <3>2. CASE g \in RestartFiles(h, 1)
      <4>1. post[i] = "copy"
        BY <2>2, <3>2, FilesApart DEF Begun, Busy
      <4>2. Here(i) = <<h, 1>>
        <5>1. g \in RestartFiles(hour[i], dom[i])
          BY <2>2, <4>1 DEF Begun
        <5>2. g \in {Core(h, 1), Rest(h, 1)}
          BY <3>2 DEF RestartFiles
        <5>3. hour[i] = h /\ dom[i] = 1
          BY <5>1, <5>2, FilesApart
        <5> QED BY <5>3 DEF Here
      <4>3. Here(i) \in {<<h, 1>>} /\ Guarded(w, {<<h, 1>>}) /\ young[w] = {}
        BY <1>2, <1>4, <4>2
      <4>4. \E T, v : Here(i) \in T /\ Guarded(v, T) /\ young[v] = {}
        BY <4>3
      <4> QED BY <2>2, <4>4, CopyLate
    <3> QED BY <1>7, <3>1, <3>2 DEF RestartFiles
  <2> QED BY <1>6, <2>1, <2>2
<1>8. CASE g \notin {Core(h, 1), Rest(h, 1), Static(1)}
  <2>1. case.domains = 2 /\ r[1] = "vi" /\ TrackedPast(h) /\ g \in Reads(r)
    BY <1>0, <1>1, <1>8 DEF Promised, Reads
  <2>2. PICK v, S : /\ v = Trak(case.track) /\ S = UpTo(case.track)
                    /\ v \in com \cap Watched /\ young[v] = {} /\ Guarded(v, S)
    BY <2>1 DEF CanStart, Waits, Old, Watched, Aged
  <2>3. case.track \in Hours /\ case.track \in Nat /\ Domains = {1, 2}
    BY <1>0, <2>1, <2>2 DEF CycleTypeOK, Files, Trak
  <2>4. \A s \in S : s \in trk
    BY <2>1, <2>2, <2>3 DEF Tracked
  <2>5. PICK k \in Hours, d \in Domains :
          /\ <<k, d>> \in S /\ g \in FilesOf(k, d)
          /\ g \in RestartFiles(k, d) \/ g \in GridFiles(k, d)
    <3>1. PICK d \in Domains : g \in {Core(h, d), Rest(h, d), Static(d), Mspec(h, d)}
      BY <1>1, <2>1 DEF Reads
    <3>2. h <= case.track
      BY <1>1, <2>1, <2>3 DEF TrackedPast
    <3>3. CASE g # Mspec(h, d)
      <4>1. g \in FilesOf(h, d) /\ (g \in RestartFiles(h, d) \/ g \in GridFiles(h, d))
        BY <1>1, <3>1, <3>3 DEF FilesOf, GridFiles, RestartFiles
      <4> QED BY <1>3, <2>2, <2>3, <3>2, <4>1 DEF UpTo
    <3>4. CASE g = Mspec(h, d) /\ h < case.track
      <4>1. h + 1 \in Hours /\ h + 1 \in 0 .. case.track
        BY <1>0, <1>1, <2>3, <3>4
      <4>2. h \in Grids(h + 1)
        BY <1>0, <1>1, <3>4 DEF Grids
      <4>3. g \in GridFiles(h + 1, d) /\ g \in FilesOf(h + 1, d)
        BY <3>4, <4>2 DEF FilesOf, GridFiles
      <4> QED BY <2>2, <4>1, <4>3 DEF UpTo
    <3>5. CASE g = Mspec(h, d) /\ ~(h < case.track)
      <4>1. h = case.last /\ h = case.track
        BY <1>1, <2>1, <3>5 DEF TrackedPast
      <4>2. h \in Grids(h)
        BY <1>0, <1>1, <4>1 DEF Grids, HasRestart
      <4>3. g \in GridFiles(h, d) /\ g \in FilesOf(h, d)
        BY <3>5, <4>2 DEF FilesOf, GridFiles
      <4> QED BY <1>3, <2>2, <2>3, <3>2, <4>3 DEF UpTo
    <3> QED BY <3>3, <3>4, <3>5
  <2>6. g \in com \cup spoilt \/ Copying(g) \/ Late(g)
    <3>1. PICK s : s = <<k, d>>
      OBVIOUS
    <3>2. g \in FilesOf(s[1], s[2]) /\ s \in S /\ s \in trk
      BY <2>4, <2>5, <3>1
    <3> QED BY <2>2, <3>2, SlotThere
  <2>7. ASSUME NEW i \in Groups, g \in left[i] PROVE g \in spoilt \/ Late(g)
    <3>1. post[i] \in Busy
      BY <2>7 DEF Begun
    <3>2. hour[i] \in Hours /\ dom[i] \in Domains /\ hour[i] \in Nat
      <4>1. hour[i] \in Hours /\ dom[i] \in Domains
        BY <3>1 DEF CycleTypeOK, Busy
      <4>2. \A m \in Hours : m \in Nat
        BY <1>0
      <4> QED BY <4>1, <4>2
    <3>3. CASE hour[i] <= case.track
      <4>1. Here(i) \in S
        BY <2>2, <2>3, <3>2, <3>3 DEF Here, UpTo
      <4> QED BY <2>2, <2>7, <4>1, CopyLate
    <3>4. CASE hour[i] > case.track /\ dom[i] = 2
      BY <2>7, <3>4 DEF Late
    <3>5. CASE hour[i] > case.track /\ dom[i] = 1
      <4>1. PICK e \in Domains : g \in {Core(h, e), Rest(h, e), Static(e), Mspec(h, e)}
        BY <1>1, <2>1 DEF Reads
      <4>2. h <= case.track /\ (h < case.track \/ h = case.last)
        BY <1>1, <2>1, <2>3 DEF TrackedPast
      <4>3. CASE post[i] = "copy"
        <5>1. g \in RestartFiles(hour[i], 1)
          BY <2>7, <3>5, <4>3 DEF Begun
        <5>2. g \in {Core(h, e), Rest(h, e)}
          BY <4>1, <5>1, FilesApart
        <5>3. hour[i] = h
          BY <5>1, <5>2, FilesApart
        <5> QED BY <3>2, <3>5, <4>2, <5>3, <2>3
      <4>4. CASE post[i] = "grids"
        <5>1. g \in GridFiles(hour[i], 1)
          BY <2>7, <3>5, <4>4 DEF Begun
        <5>2. g # Static(e) \/ e # 1
          BY <1>8
        <5>3. g = Mspec(h, e)
          BY <4>1, <5>1, <5>2, FilesApart DEF RestartFiles
        <5>4. h \in Grids(hour[i])
          BY <5>1, <5>3, FilesApart
        <5>5. hour[i] = h + 1 \/ (hour[i] = h /\ h = case.last)
          BY <1>1, <3>2, <5>4 DEF Grids
        <5> QED BY <1>0, <1>1, <2>3, <3>2, <3>5, <4>2, <5>5
      <4> QED BY <3>1, <4>3, <4>4 DEF Busy
    <3> QED BY <2>3, <3>2, <3>3, <3>4, <3>5
  <2> QED BY <1>6, <2>6, <2>7
<1> QED BY <1>7, <1>8

(* A job of the next cycle that starts finds all that is promised to it:   *)
(* for any configuration, any number and order of post jobs, and whatever  *)
(* fails, up to the files that were spoilt and those that are late.        *)
THEOREM HandoverCompleteHolds == CycleSpec => HandoverComplete
<1>1. CycleTypeOK /\ Begun /\ Ordered /\ Accounted /\ Tracked /\ Aged
        /\ [CycleNext]_cycleVars
      => [\A r \in case.readers : reader'[r] # reader[r] =>
            \A f \in Promised(r) : Intact(f) \/ f \in spoilt \/ Late(f)]_cycleVars
  <2> SUFFICES ASSUME CycleTypeOK, Begun, Ordered, Accounted, Tracked, Aged, CycleNext,
                      NEW r \in case.readers, reader'[r] # reader[r], NEW f \in Promised(r)
               PROVE  Intact(f) \/ f \in spoilt \/ Late(f)
    OBVIOUS
  <2>1. Read(r) \/ ReadFails(r)
    BY DEF CycleNext, Step, Model, ModelWrites, ModelRestarts, Track, TrackerFails, Post,
       Fault, SkipPost, RunPost, StartGrid, PassGrid, EndGrid, StartCopy, CopyRestart,
       MarkPost, EndPost, GridFails, PostFails, Outlast, Read, ReadFails, others, CycleTypeOK
  <2>2. CanStart(r)
    BY <2>1 DEF Read, ReadFails
  <2>3. QED BY <2>2, StartComplete
<1>2. QED
  BY <1>1, CycleTypes, OrderedHolds, AccountedHolds, TrackedHolds, AgedHolds, PTL
     DEF CycleSpec, HandoverComplete


-----------------------------------------------------------------------------
(* The guards of a post job's steps, and of all steps but failures.        *)
PostMoves(i) ==
  \/ post[i] = "wait" /\ hour[i] \in Hours /\ (Here(i) \in done \/ logs > hour[i])
  \/ post[i] = "wait" /\ hour[i] \notin Hours
  \/ Delivers(i)
  \/ post[i] = "grids" /\ (due[i] # {} \/ left[i] # {})

(* As long as a job of the next cycle waits, something goes on; or it      *)
(* waits for a static file of which a copy has failed.                     *)
HandoverGoesOn ==
  \/ \A r \in case.readers : reader[r] # "waiting" \/ Static(1) \in Waits(r) \cap spoilt
  \/ logs \in Hours /\ logs <= res
  \/ res \in Hours /\ res <= logs
  \/ \E i \in Groups : PostMoves(i)
  \/ thour \in Hours /\ <<thour, case.domains>> \in trk
  \/ \E r \in case.readers : CanStart(r)

(* What the jobs of the next cycle wait for are hours of the forecast.     *)
WaitsWithin ==
  \A c \in Cases : \A r \in c.readers : r[2] <= c.last /\ (r[1] = "vi" => c.track <= c.last)

(* When nothing but readers can go on, every slot is done and nothing is   *)
(* young.                                                                  *)
LEMMA AllDelivered ==
  ASSUME CycleTypeOK, Passed, Followed,
         ~(logs \in Hours /\ logs <= res), ~(res \in Hours /\ res <= logs),
         \A i \in Groups : ~PostMoves(i),
         ~(thour \in Hours /\ <<thour, case.domains>> \in trk)
  PROVE  /\ Slots \subseteq done
         /\ \A h \in Hours : h <= Window => Trak(h) \in com
         /\ \A f \in Watched : young[f] = {}
         /\ \A i \in Groups : post[i] = "complete"
<1>0. /\ case \in Cases /\ case.groups \in Nat \ {0} /\ case.domains \in {1, 2}
      /\ case.last \in Nat /\ Hours = 0 .. case.last /\ Domains = 1 .. case.domains
      /\ logs \in 0 .. case.last + 1 /\ res \in 0 .. case.last + 1
      /\ thour \in 0 .. case.last + 1
  BY CaseType DEF CycleTypeOK, Hours, Domains
<1>1. logs = case.last + 1 /\ res = case.last + 1
  BY <1>0
<1>2. ASSUME NEW i \in Groups
      PROVE  post[i] = "complete" /\ \A h \in Hours : h < hour[i]
  <2>1. /\ post[i] \in {"wait", "grids", "copy", "complete"}
        /\ hour[i] \in 0 .. case.last + case.groups
        /\ post[i] = "grids" => hour[i] \in Hours
    BY DEF CycleTypeOK
  <2>2. \A h \in Hours : logs > h /\ res > h
    BY <1>0, <1>1
  <2>3. post[i] = "complete"
    BY <2>1, <2>2 DEF PostMoves, Delivers
  <2>4. hour[i] \notin Hours
    BY <2>3 DEF Passed
  <2> QED BY <1>0, <2>1, <2>3, <2>4
<1>3. ASSUME NEW h \in Hours, NEW d \in Domains PROVE <<h, d>> \in done
  <2>1. PICK i \in Groups : Turn(i, h)
    BY <1>0, Turns
  <2> QED BY <1>2, <2>1 DEF Passed
<1>4. thour = case.last + 1
  <2> SUFFICES ASSUME thour \in Hours PROVE FALSE
    BY <1>0
  <2>1. <<thour, case.domains>> \in trk
    BY <1>0, <1>3 DEF CycleTypeOK
  <2> QED BY <2>1
<1>5. \A h \in Hours : h <= Window => Trak(h) \in com
  BY <1>0, <1>4 DEF Followed
<1>6. ASSUME NEW f \in Watched PROVE young[f] = {}
  <2> SUFFICES ASSUME NEW i \in young[f] PROVE FALSE
    OBVIOUS
  <2>1. i \in Groups /\ Delivers(i)
    BY <1>6 DEF Followed, CycleTypeOK
  <2> QED BY <1>2, <2>1 DEF Delivers
<1> QED
  BY <1>2, <1>3, <1>5, <1>6 DEF Slots

(* The jobs of the next cycle do not wait for what never comes: as long as *)
(* one of them has not started, the model, a post job or the tracker can   *)
(* go on, or one of the readers can start; for any configuration whose     *)
(* readers wait for hours of the forecast, also when it is shorter than    *)
(* the window, and after any failures, but for a copy of a static file     *)
(* that has failed and that nobody has made again.                         *)
THEOREM HandoverGoesOnHolds ==
  ASSUME WaitsWithin
  PROVE  CycleSpec => []HandoverGoesOn
<1>1. CycleTypeOK /\ Begun /\ Passed /\ Followed /\ Accounted => HandoverGoesOn
  <2> SUFFICES ASSUME CycleTypeOK, Begun, Passed, Followed, Accounted,
                      NEW r \in case.readers, reader[r] = "waiting",
                      Static(1) \notin Waits(r) \cap spoilt,
                      ~(logs \in Hours /\ logs <= res), ~(res \in Hours /\ res <= logs),
                      \A i \in Groups : ~PostMoves(i),
                      ~(thour \in Hours /\ <<thour, case.domains>> \in trk)
               PROVE  CanStart(r)
    BY DEF HandoverGoesOn
  <2>0. /\ case \in Cases /\ case.domains \in {1, 2} /\ case.last \in Nat
        /\ case.track \in 0 .. Window /\ r \in Reader
        /\ Window \in Nat /\ Restarts \subseteq 1 .. Window - 1
        /\ Hours = 0 .. case.last /\ Domains = 1 .. case.domains
    BY CaseType DEF CycleTypeOK, Domains, Hours
  <2>1. /\ Slots \subseteq done
        /\ \A h \in Hours : h <= Window => Trak(h) \in com
        /\ \A f \in Watched : young[f] = {}
        /\ \A i \in Groups : post[i] = "complete"
    BY AllDelivered
  <2>2. r[2] \in 1 .. Window - 1 /\ r[2] \in Restarts
    BY <2>0 DEF Reader
  <2>3. r[2] \in Hours /\ HasRestart(r[2])
    BY <2>0, <2>2 DEF WaitsWithin, HasRestart
  <2>4. <<r[2], 1>> \in done
    BY <2>0, <2>1, <2>3 DEF Slots
  <2>5. Core(r[2], 1) \in com /\ (Static(1) \in Waits(r) => Static(1) \in com)
    <3>1. Handed(r[2], 1)
      <4>1. PICK s : s = <<r[2], 1>>
        OBVIOUS
      <4>2. s \in done /\ s[1] = r[2] /\ s[2] = 1
        BY <2>4, <4>1
      <4> QED BY <4>2 DEF Accounted
    <3>2. \A i \in Groups : left[i] = {}
      BY <2>1 DEF Begun, Busy
    <3>3. Core(r[2], 1) \in com /\ Brought(Static(1))
      BY <2>3, <3>1 DEF Handed, RestartFiles, GridFiles
    <3> QED BY <3>2, <3>3 DEF Brought, Copying
  <2>6. r[1] = "vi" => Trak(case.track) \in com
    BY <2>0, <2>1 DEF WaitsWithin
  <2>7. Waits(r) \subseteq com
    BY <2>5, <2>6 DEF Waits
  <2>8. Waits(r) \subseteq Watched
    BY DEF Watched
  <2> QED BY <2>1, <2>7, <2>8 DEF CanStart, Old
<1> QED
  BY <1>1, CycleTypes, PassedHolds, FollowedHolds, AccountedHolds, PTL

-----------------------------------------------------------------------------
(* How far a job of a cycle has come: its slot, and in the slot what it    *)
(* does, with the grids and the commands of the cmdfile one by one.        *)
Ahead(i, f) == (IF f \in due[i] THEN 2 ELSE 0) + (IF f \in left[i] THEN 1 ELSE 0)
GridsAhead(i) == Ahead(i, Static(dom[i])) + Ahead(i, Mspec(hour[i] - 1, dom[i]))
                   + Ahead(i, Mspec(hour[i], dom[i]))
RestAhead(i)  == Ahead(i, Core(hour[i], dom[i])) + Ahead(i, Rest(hour[i], dom[i]))
At(i) ==
  CASE post[i] = "wait"     -> 0
    [] post[i] = "grids"    -> 10 - GridsAhead(i)
    [] post[i] = "copy"     -> 17 - RestAhead(i)
    [] post[i] = "complete" -> 18
Place(i) == 20 * (2 * hour[i] + dom[i]) + At(i)
Places   == 0 .. 40 * (case.last + case.groups) + 60

(* What has happened since the last failure, and how much that can be.     *)
Behind  == {p \in Groups \X Places : p[2] < Place(p[1])}
Started == {r \in case.readers : reader[r] # "waiting"}
Since   == logs + res + thour + Cardinality(Behind) + Cardinality(Started)
Width   == 3 * (case.last + 1) + Cardinality(Groups \X Places)
             + Cardinality(case.readers) + 1
Progress == failures * Width + Since

Counted ==
  /\ \A i \in Groups : Place(i) \in Places
  /\ IsFiniteSet(Behind) /\ Cardinality(Behind) \in Nat
  /\ IsFiniteSet(Started) /\ Cardinality(Started) \in Nat
  /\ Since \in 0 .. Width - 1 /\ Width \in Nat

(* The readers and the places of the jobs are finitely many.               *)
LEMMA FinitelyMany ==
  ASSUME CycleTypeOK
  PROVE  /\ IsFiniteSet(case.readers) /\ Cardinality(case.readers) \in Nat
         /\ IsFiniteSet(Groups \X Places) /\ Cardinality(Groups \X Places) \in Nat
<1>0. /\ case.groups \in Nat \ {0} /\ case.last \in Nat /\ case.readers \subseteq Reader
      /\ Window \in Nat /\ Restarts \subseteq 1 .. Window - 1
  BY CaseType DEF CycleTypeOK
<1>1. IsFiniteSet(Groups)
  <2>1. PICK n \in Int : n = case.groups - 1
    BY <1>0
  <2>2. 0 \in Int
    OBVIOUS
  <2> QED
    BY <2>1, <2>2, FS_Interval DEF Groups
<1>2. IsFiniteSet(Places)
  <2>1. PICK n \in Int : n = 40 * (case.last + case.groups) + 60
    BY <1>0
  <2>2. 0 \in Int
    OBVIOUS
  <2> QED
    BY <2>1, <2>2, FS_Interval DEF Places
<1>3. IsFiniteSet(Jobs)
  <2>1. IsFiniteSet({"merge"}) /\ Jobs = ({"merge"} \cup {"vi"}) \cup {"analysis"}
    BY FS_Singleton DEF Jobs
  <2>2. IsFiniteSet({"merge"} \cup {"vi"})
    BY <2>1, FS_AddElement
  <2> QED
    BY <2>1, <2>2, FS_AddElement
<1>4. IsFiniteSet(Restarts)
  <2>1. PICK n \in Int : n = Window - 1
    BY <1>0
  <2>2. 1 \in Int
    OBVIOUS
  <2>3. IsFiniteSet(1 .. Window - 1)
    BY <2>1, <2>2, FS_Interval
  <2> QED
    BY <1>0, <2>3, FS_Subset
<1>5. IsFiniteSet(Reader)
  BY <1>3, <1>4, FS_Product DEF Reader
<1>6. IsFiniteSet(case.readers)
  BY <1>0, <1>5, FS_Subset
<1>7. IsFiniteSet(Groups \X Places)
  BY <1>1, <1>2, FS_Product
<1> QED
  BY <1>6, <1>7, FS_CardinalityType

(* What a job has ahead of it in a slot is a number.                       *)
LEMMA AheadType ==
  ASSUME NEW i
  PROVE  GridsAhead(i) \in 0 .. 9 /\ RestAhead(i) \in 0 .. 6
<1>1. \A f : Ahead(i, f) \in 0 .. 3
  BY DEF Ahead
<1> HIDE DEF Ahead
<1> QED BY <1>1 DEF GridsAhead, RestAhead

(* And so is how far it has come in it.                                    *)
LEMMA AtType ==
  ASSUME CycleTypeOK, NEW i \in Groups
  PROVE  /\ At(i) \in 0 .. 18
         /\ post[i] = "wait" => At(i) = 0
         /\ post[i] = "grids" => At(i) = 10 - GridsAhead(i) /\ At(i) \in 1 .. 10
         /\ post[i] = "copy" => At(i) = 17 - RestAhead(i) /\ At(i) \in 11 .. 17
         /\ post[i] = "complete" => At(i) = 18
<1>1. post[i] \in {"wait", "grids", "copy", "complete"}
  BY DEF CycleTypeOK
<1>2. GridsAhead(i) \in 0 .. 9 /\ RestAhead(i) \in 0 .. 6
  BY AheadType
<1> HIDE DEF GridsAhead, RestAhead
<1> QED BY <1>1, <1>2 DEF At

(* A job's place is a number, within the bound.                            *)
LEMMA PlaceType ==
  ASSUME CycleTypeOK, NEW i \in Groups
  PROVE  Place(i) \in Places
<1>0. case.groups \in Nat \ {0} /\ case.last \in Nat /\ case.domains \in {1, 2}
  BY CaseType DEF CycleTypeOK
<1>1. hour[i] \in 0 .. case.last + case.groups /\ dom[i] \in {1, 2}
  BY <1>0 DEF CycleTypeOK, Domains
<1>2. At(i) \in 0 .. 18
  BY AtType
<1> HIDE DEF At
<1> QED
  BY <1>0, <1>1, <1>2 DEF Place, Places

(* What has happened is counted by finite sets, within their bounds.       *)
LEMMA PartsAreFinite == ASSUME CycleTypeOK PROVE Counted
<1>0. /\ case.last \in Nat /\ logs \in 0 .. case.last + 1 /\ res \in 0 .. case.last + 1
      /\ thour \in 0 .. case.last + 1
  BY CaseType DEF CycleTypeOK
<1> DEFINE P == Groups \X Places
           R == case.readers
<1>1. /\ IsFiniteSet(P) /\ Cardinality(P) \in Nat
      /\ IsFiniteSet(R) /\ Cardinality(R) \in Nat
  BY FinitelyMany
<1>2. Behind \in SUBSET P /\ Started \in SUBSET R
  BY DEF Behind, Started
<1> HIDE DEF P, R
<1>3. IsFiniteSet(Behind) /\ Cardinality(Behind) <= Cardinality(P)
  BY <1>1, <1>2, FS_Subset
<1>4. IsFiniteSet(Started) /\ Cardinality(Started) <= Cardinality(R)
  BY <1>1, <1>2, FS_Subset
<1>5. Cardinality(Behind) \in Nat /\ Cardinality(Started) \in Nat
  BY <1>3, <1>4, FS_CardinalityType
<1>6. Since \in 0 .. Width - 1 /\ Width \in Nat
  BY <1>0, <1>1, <1>3, <1>4, <1>5 DEF P, R, Since, Width
<1> QED
  BY <1>3, <1>4, <1>5, <1>6, PlaceType DEF Counted

(* A job that comes further, alone, adds to what has happened.             *)
LEMMA FurtherCounts ==
  ASSUME Counted, Counted', Groups' = Groups, Places' = Places,
         NEW i \in Groups, Place(i)' > Place(i),
         \A j \in Groups : j # i => Place(j)' = Place(j)
  PROVE  Cardinality(Behind') > Cardinality(Behind)
<1>0. Places \subseteq Int
  BY DEF Places
<1>1. Places \subseteq Int /\ \A j \in Groups : Place(j) \in Places /\ Place(j)' \in Places
  BY <1>0 DEF Counted
<1>2. \A p \in Behind : p \in Behind'
  <2> SUFFICES ASSUME NEW p \in Behind PROVE p \in Behind'
    OBVIOUS
  <2>1. p \in Groups \X Places /\ p[2] < Place(p[1])
    BY DEF Behind
  <2>2. p[1] \in Groups /\ p[2] \in Int
    BY <1>1, <2>1
  <2>3. p[2] < Place(p[1])'
    <3>1. PICK k \in Groups : k = p[1]
      BY <2>2
    <3>2. CASE k = i
      BY <1>1, <2>1, <2>2, <3>1, <3>2
    <3>3. CASE k # i
      BY <2>1, <3>1, <3>3
    <3> QED
      BY <3>2, <3>3
  <2> QED
    BY <2>1, <2>3 DEF Behind
<1>3. <<i, Place(i)>> \in Behind' /\ <<i, Place(i)>> \notin Behind
  <2>0. PICK k \in Int, m \in Int : k = Place(i) /\ m = Place(i)' /\ k < m
    BY <1>1
  <2>1. Place(i) \in Places /\ ~(Place(i) < Place(i)) /\ Place(i) < Place(i)'
    BY <1>1, <2>0
  <2> QED
    BY <2>1 DEF Behind
<1>4. /\ IsFiniteSet(Behind') /\ Cardinality(Behind') \in Nat
      /\ Cardinality(Behind) \in Nat
  BY DEF Counted
<1>5. Behind \in SUBSET (Behind')
  BY <1>2
<1>6. /\ Cardinality(Behind) <= Cardinality(Behind')
      /\ Cardinality(Behind') = Cardinality(Behind) => Behind' = Behind
  BY <1>4, <1>5, FS_Subset
<1> QED
  BY <1>3, <1>4, <1>6

(* A job that looks at a grid, or whose copy ends, has less ahead of it.   *)
LEMMA AheadCounts ==
  ASSUME NEW i \in Groups, hour' = hour, dom' = dom, hour[i] \in Nat,
         \A f : Ahead(i, f)' <= Ahead(i, f), NEW g, Ahead(i, g)' < Ahead(i, g)
  PROVE  /\ g \in GridFiles(hour[i], dom[i]) => GridsAhead(i)' < GridsAhead(i)
         /\ g \in RestartFiles(hour[i], dom[i]) => RestAhead(i)' < RestAhead(i)
<1>1. \A f : Ahead(i, f) \in 0 .. 3 /\ Ahead(i, f)' \in 0 .. 3
  BY DEF Ahead
<1>2. /\ Static(dom[i])' = Static(dom[i]) /\ Mspec(hour[i], dom[i])' = Mspec(hour[i], dom[i])
      /\ Mspec(hour[i] - 1, dom[i])' = Mspec(hour[i] - 1, dom[i])
      /\ Core(hour[i], dom[i])' = Core(hour[i], dom[i])
      /\ Rest(hour[i], dom[i])' = Rest(hour[i], dom[i])
  BY DEF Static, Mspec, Core, Rest
<1>3. ASSUME g \in GridFiles(hour[i], dom[i]) PROVE GridsAhead(i)' < GridsAhead(i)
  <2>1. PICK a, b, c : /\ a = Static(dom[i]) /\ b = Mspec(hour[i] - 1, dom[i])
                       /\ c = Mspec(hour[i], dom[i])
    OBVIOUS
  <2>2. g \in {a, b, c}
    BY <1>3, <2>1 DEF GridFiles, Grids
  <2>3. GridsAhead(i) = Ahead(i, a) + Ahead(i, b) + Ahead(i, c)
    BY <2>1 DEF GridsAhead
  <2>4. GridsAhead(i)' = Ahead(i, a)' + Ahead(i, b)' + Ahead(i, c)'
    BY <1>2, <2>1 DEF GridsAhead
  <2> HIDE DEF GridsAhead
  <2> QED
    BY <1>1, <2>2, <2>3, <2>4
<1>4. ASSUME g \in RestartFiles(hour[i], dom[i]) PROVE RestAhead(i)' < RestAhead(i)
  <2>1. PICK a, b : a = Core(hour[i], dom[i]) /\ b = Rest(hour[i], dom[i])
    OBVIOUS
  <2>2. g \in {a, b}
    BY <1>4, <2>1 DEF RestartFiles
  <2>3. RestAhead(i) = Ahead(i, a) + Ahead(i, b)
    BY <2>1 DEF RestAhead
  <2>4. RestAhead(i)' = Ahead(i, a)' + Ahead(i, b)'
    BY <1>2, <2>1 DEF RestAhead
  <2> HIDE DEF RestAhead
  <2> QED
    BY <1>1, <2>2, <2>3, <2>4
<1> QED
  BY <1>3, <1>4

(* A job that goes on comes further: to a later step of its slot, or to a  *)
(* later slot.                                                             *)
LEMMA PostComesFurther ==
  ASSUME CycleTypeOK, Begun, case' = case, NEW i \in Groups, Post(i)
  PROVE  /\ Place(i)' > Place(i)
         /\ \A j \in Groups : j # i => Place(j)' = Place(j)
<1>0. /\ case.groups \in Nat \ {0} /\ case.domains \in {1, 2} /\ case.last \in Nat
      /\ hour[i] \in Nat /\ dom[i] \in {1, 2} /\ dom[i] <= case.domains
  BY CaseType DEF CycleTypeOK, Domains
<1>1. /\ At(i) \in 0 .. 18 /\ (post[i] # "complete" => At(i) \in 0 .. 17)
      /\ GridsAhead(i) \in 0 .. 9 /\ GridsAhead(i)' \in 0 .. 9
      /\ RestAhead(i) \in 0 .. 6 /\ RestAhead(i)' \in 0 .. 6
  <2>1. post[i] \in {"wait", "grids", "copy", "complete"}
    BY DEF CycleTypeOK
  <2>2. \A f : Ahead(i, f) \in 0 .. 3 /\ Ahead(i, f)' \in 0 .. 3
    BY DEF Ahead
  <2>3. GridsAhead(i)' \in 0 .. 9 /\ RestAhead(i)' \in 0 .. 6
    BY <2>2 DEF GridsAhead, RestAhead
  <2>4. GridsAhead(i) \in 0 .. 9 /\ RestAhead(i) \in 0 .. 6
    BY AheadType
  <2> HIDE DEF GridsAhead, RestAhead
  <2> QED BY <2>1, <2>3, <2>4, AtType
<1>2. ASSUME NextSlot(i), hour[i] \in Hours, post'[i] = "wait", post[i] # "complete"
      PROVE  Place(i)' > Place(i)
  <2>1. At(i)' = 0
    BY <1>2 DEF At
  <2>2. \/ hour'[i] = hour[i] /\ dom'[i] = dom[i] + 1
        \/ hour'[i] = hour[i] + case.groups /\ dom'[i] = 1
    BY <1>0, <1>2 DEF NextSlot, CycleTypeOK
  <2>3. Place(i)' = 20 * (2 * hour'[i] + dom'[i])
    BY <2>1, <2>2, <1>0 DEF Place
  <2>4. PICK a \in 0 .. 17 : a = At(i)
    BY <1>1, <1>2
  <2> QED
    BY <1>0, <2>2, <2>3, <2>4 DEF Place
<1>3. ASSUME NEW j \in Groups, j # i PROVE Place(j)' = Place(j)
  <2>1. hour'[j] = hour[j] /\ dom'[j] = dom[j]
    <3>1. CASE SkipPost(i) \/ MarkPost(i)
      <4>1. hour[i] \in Hours /\ NextSlot(i)
        BY <3>1 DEF SkipPost, MarkPost, CycleTypeOK
      <4> QED BY <1>3, <4>1, NextSlotType
    <3>2. CASE ~(SkipPost(i) \/ MarkPost(i))
      BY <3>2 DEF Post, RunPost, StartGrid, PassGrid, EndGrid, StartCopy, CopyRestart,
         EndPost, delivery
    <3> QED BY <3>1, <3>2
  <2>2. post'[j] = post[j] /\ left'[j] = left[j] /\ due'[j] = due[j]
    BY <1>3 DEF Post, SkipPost, RunPost, StartGrid, PassGrid, EndGrid, NextGrid, StartCopy,
       CopyRestart, MarkPost, EndPost, delivery, CycleTypeOK
  <2>3. \A f : Ahead(j, f)' = Ahead(j, f)
    BY <2>2 DEF Ahead
  <2>4. /\ Static(dom[j])' = Static(dom[j]) /\ Mspec(hour[j], dom[j])' = Mspec(hour[j], dom[j])
        /\ Mspec(hour[j] - 1, dom[j])' = Mspec(hour[j] - 1, dom[j])
        /\ Core(hour[j], dom[j])' = Core(hour[j], dom[j])
        /\ Rest(hour[j], dom[j])' = Rest(hour[j], dom[j])
    BY <2>1 DEF Static, Mspec, Core, Rest
  <2>5. GridsAhead(j)' = GridsAhead(j) /\ RestAhead(j)' = RestAhead(j)
    BY <2>3, <2>4 DEF GridsAhead, RestAhead
  <2> HIDE DEF GridsAhead, RestAhead
  <2>6. At(j)' = At(j)
    BY <2>2, <2>5 DEF At
  <2> QED
    BY <2>1, <2>6 DEF Place
<1>4. ASSUME hour' = hour, dom' = dom, NEW k \in 0 .. 18, NEW m \in 0 .. 18,
             At(i) = k, At(i)' = m, m > k
      PROVE  Place(i)' > Place(i)
  <2>1. Place(i)' = 20 * (2 * hour[i] + dom[i]) + m
    BY <1>4 DEF Place
  <2> QED
    BY <1>0, <1>4, <2>1 DEF Place
<1>5. ASSUME post[i] = "grids", post' = post, hour' = hour, dom' = dom,
             \A f : Ahead(i, f)' <= Ahead(i, f),
             NEW g \in GridFiles(hour[i], dom[i]), Ahead(i, g)' < Ahead(i, g)
      PROVE  Place(i)' > Place(i)
  <2>1. GridsAhead(i)' < GridsAhead(i)
    BY <1>0, <1>5, AheadCounts
  <2>2. At(i) = 10 - GridsAhead(i) /\ At(i)' = 10 - GridsAhead(i)'
    BY <1>5 DEF At
  <2>3. PICK k \in 0 .. 9, m \in 0 .. 9 : k = GridsAhead(i) /\ m = GridsAhead(i)' /\ m < k
    BY <1>1, <2>1
  <2>4. At(i) = 10 - k /\ At(i)' = 10 - m /\ 10 - k \in 0 .. 18 /\ 10 - m \in 0 .. 18
        /\ 10 - m > 10 - k
    BY <2>2, <2>3
  <2> QED
    BY <1>4, <1>5, <2>4
<1>6. CASE SkipPost(i) \/ MarkPost(i)
  <2>1. post[i] # "complete" /\ post'[i] = "wait" /\ hour[i] \in Hours /\ NextSlot(i)
    BY <1>6 DEF SkipPost, MarkPost, CycleTypeOK
  <2> QED
    BY <1>2, <1>3, <2>1
<1>7. CASE RunPost(i)
  <2>1. post[i] = "wait" /\ post'[i] = "grids" /\ hour' = hour /\ dom' = dom
    BY <1>7 DEF RunPost, CycleTypeOK
  <2>2. At(i) = 0 /\ At(i)' = 10 - GridsAhead(i)'
    BY <2>1 DEF At
  <2>3. PICK m \in 0 .. 9 : m = GridsAhead(i)'
    BY <1>1
  <2>4. 0 \in 0 .. 18 /\ 10 - m \in 0 .. 18 /\ 10 - m > 0
    BY <2>3
  <2> QED
    BY <1>3, <1>4, <2>1, <2>2, <2>3, <2>4
<1>8. CASE StartGrid(i)
  <2>1. PICK f \in due[i] : NextGrid(i, f) /\ left' = [left EXCEPT ![i] = {f}]
    BY <1>8 DEF StartGrid
  <2>2. /\ post[i] = "grids" /\ post' = post /\ hour' = hour /\ dom' = dom
        /\ left[i] = {} /\ left'[i] = {f} /\ due'[i] = due[i] \ {f}
    BY <1>8, <2>1 DEF StartGrid, NextGrid, CycleTypeOK
  <2>3. f \in GridFiles(hour[i], dom[i])
    BY <2>1, GridLooked
  <2>4. /\ \A g : Ahead(i, g)' <= Ahead(i, g)
        /\ Ahead(i, f)' < Ahead(i, f)
    BY <2>1, <2>2 DEF Ahead
  <2> QED
    BY <1>3, <1>5, <2>2, <2>3, <2>4
<1>9. CASE PassGrid(i)
  <2>1. PICK f \in due[i] : NextGrid(i, f)
    BY <1>9 DEF PassGrid
  <2>2. /\ post[i] = "grids" /\ post' = post /\ hour' = hour /\ dom' = dom
        /\ left' = left /\ due'[i] = due[i] \ {f}
    BY <1>9, <2>1 DEF PassGrid, NextGrid, CycleTypeOK
  <2>3. f \in GridFiles(hour[i], dom[i])
    BY <2>1, GridLooked
  <2>4. /\ \A g : Ahead(i, g)' <= Ahead(i, g)
        /\ Ahead(i, f)' < Ahead(i, f)
    BY <2>1, <2>2 DEF Ahead
  <2> QED
    BY <1>3, <1>5, <2>2, <2>3, <2>4
<1>10. CASE EndGrid(i)
  <2>1. /\ post[i] = "grids" /\ post' = post /\ hour' = hour /\ dom' = dom
        /\ left[i] # {} /\ left'[i] = {} /\ due' = due
    BY <1>10 DEF EndGrid, CycleTypeOK
  <2>2. PICK f \in left[i] : f \in GridFiles(hour[i], dom[i])
    BY <2>1 DEF Begun
  <2>3. /\ \A g : Ahead(i, g)' <= Ahead(i, g)
        /\ Ahead(i, f)' < Ahead(i, f)
    BY <2>1, <2>2 DEF Ahead
  <2> QED
    BY <1>3, <1>5, <2>1, <2>2, <2>3
<1>11. CASE StartCopy(i)
  <2>1. post[i] = "grids" /\ post'[i] = "copy" /\ hour' = hour /\ dom' = dom
    BY <1>11 DEF StartCopy, CycleTypeOK
  <2>2. At(i) = 10 - GridsAhead(i) /\ At(i)' = 17 - RestAhead(i)'
    BY <2>1 DEF At
  <2>3. PICK k \in 0 .. 9, m \in 0 .. 6 : k = GridsAhead(i) /\ m = RestAhead(i)'
    BY <1>1
  <2>4. 10 - k \in 0 .. 18 /\ 17 - m \in 0 .. 18 /\ 17 - m > 10 - k
    BY <2>3
  <2> QED
    BY <1>3, <1>4, <2>1, <2>2, <2>3, <2>4
<1>12. CASE CopyRestart(i)
  <2>1. PICK f \in left[i] : left' = [left EXCEPT ![i] = @ \ {f}]
    BY <1>12 DEF CopyRestart
  <2>2. /\ post[i] = "copy" /\ post' = post /\ hour' = hour /\ dom' = dom
        /\ left'[i] = left[i] \ {f} /\ due' = due
    BY <1>12, <2>1 DEF CopyRestart, CycleTypeOK
  <2>3. f \in RestartFiles(hour[i], dom[i])
    BY <2>1, <2>2 DEF Begun
  <2>4. /\ \A g : Ahead(i, g)' <= Ahead(i, g)
        /\ Ahead(i, f)' < Ahead(i, f)
    BY <2>1, <2>2 DEF Ahead
  <2>5. RestAhead(i)' < RestAhead(i)
    BY <1>0, <2>2, <2>3, <2>4, AheadCounts
  <2>6. At(i) = 17 - RestAhead(i) /\ At(i)' = 17 - RestAhead(i)'
    BY <2>2 DEF At
  <2>7. PICK k \in 0 .. 6, m \in 0 .. 6 : k = RestAhead(i) /\ m = RestAhead(i)' /\ m < k
    BY <1>1, <2>5
  <2>8. At(i) = 17 - k /\ At(i)' = 17 - m /\ 17 - k \in 0 .. 18 /\ 17 - m \in 0 .. 18
        /\ 17 - m > 17 - k
    BY <2>6, <2>7
  <2> QED
    BY <1>3, <1>4, <2>2, <2>8
<1>13. CASE EndPost(i)
  <2>1. post[i] = "wait" /\ post'[i] = "complete" /\ hour' = hour /\ dom' = dom
    BY <1>13 DEF EndPost, CycleTypeOK, delivery
  <2>2. At(i) = 0 /\ At(i)' = 18
    BY <2>1 DEF At
  <2> QED
    BY <1>3, <1>4, <2>1, <2>2
<1> QED
  BY <1>6, <1>7, <1>8, <1>9, <1>10, <1>11, <1>12, <1>13 DEF Post

(* Between two failures every step adds to what has happened.              *)
LEMMA StepAdds ==
  ASSUME CycleTypeOK, Begun, Counted, Counted', CycleNext
  PROVE  /\ Width' = Width
         /\ \/ failures' = failures /\ Since' > Since
            \/ failures' = failures + 1
<1>0. case' = case /\ Groups' = Groups
  BY CaseFixed DEF CycleNext
<1>1. Places' = Places /\ Width' = Width
  BY <1>0 DEF Places, Width
<1>2. /\ logs \in Nat /\ res \in Nat /\ thour \in Nat
      /\ IsFiniteSet(Behind) /\ Cardinality(Behind) \in Nat
      /\ IsFiniteSet(Started) /\ Cardinality(Started) \in Nat
  BY DEF CycleTypeOK, Counted
<1>3. ASSUME NEW i \in Groups, Post(i)
      PROVE  failures' = failures /\ Since' > Since
  <2>1. Cardinality(Behind') > Cardinality(Behind)
    BY <1>0, <1>1, <1>3, FurtherCounts, PostComesFurther
  <2>2. /\ logs' = logs /\ res' = res /\ thour' = thour /\ reader' = reader
        /\ failures' = failures
    BY <1>3 DEF Post, SkipPost, RunPost, StartGrid, PassGrid, EndGrid, StartCopy,
       CopyRestart, MarkPost, EndPost, producer, others
  <2>3. Started' = Started
    BY <1>0, <2>2 DEF Started
  <2>4. Cardinality(Behind') \in Nat
    BY DEF Counted
  <2> QED
    BY <1>2, <2>1, <2>2, <2>3, <2>4 DEF Since
<1>4. ASSUME post' = post, delivery' = delivery
      PROVE  Behind' = Behind
  <2>1. \A j \in Groups : Place(j)' = Place(j)
    BY <1>4 DEF Place, At, GridsAhead, RestAhead, Ahead, Core, Rest, Static, Mspec, delivery
  <2> HIDE DEF Place
  <2> QED
    BY <1>0, <1>1, <2>1 DEF Behind
<1>5. CASE Model \/ Track
  <2>1. /\ post' = post /\ delivery' = delivery /\ reader' = reader /\ failures' = failures
    BY <1>5 DEF Model, ModelWrites, ModelRestarts, Track, others
  <2>2. Behind' = Behind /\ Started' = Started
    BY <1>0, <1>4, <2>1 DEF Started
  <2>3. \/ logs' = logs + 1 /\ res' = res /\ thour' = thour
        \/ logs' = logs /\ res' = res + 1 /\ thour' = thour
        \/ logs' = logs /\ res' = res /\ thour' = thour + 1
    BY <1>5 DEF Model, ModelWrites, ModelRestarts, Track, producer, others
  <2>4. /\ Cardinality(Behind') = Cardinality(Behind)
        /\ Cardinality(Started') = Cardinality(Started)
    BY <2>2
  <2>5. Since' = logs' + res' + thour' + Cardinality(Behind) + Cardinality(Started)
    BY <2>4 DEF Since
  <2>6. Since' > Since
    BY <1>2, <2>3, <2>5 DEF Since
  <2> QED
    BY <1>1, <2>1, <2>6
<1>6. ASSUME NEW r \in case.readers, Read(r) \/ ReadFails(r)
      PROVE  failures' = failures /\ Since' > Since
  <2>1. /\ post' = post /\ delivery' = delivery
        /\ logs' = logs /\ res' = res /\ thour' = thour /\ failures' = failures
    BY <1>6 DEF Read, ReadFails, producer
  <2>2. Behind' = Behind
    BY <1>4, <2>1
  <2>3. PICK s \in {"done", "dead"} :
          reader[r] = "waiting" /\ reader' = [reader EXCEPT ![r] = s]
    BY <1>6 DEF Read, ReadFails, CanStart
  <2>4. Started' = Started \cup {r} /\ r \notin Started
    BY <1>0, <2>3 DEF Started, CycleTypeOK
  <2>5. Cardinality(Started') = Cardinality(Started) + 1
    BY <1>2, <2>4, FS_AddElement
  <2>6. Cardinality(Behind') = Cardinality(Behind)
    BY <2>2
  <2>7. Since' = logs + res + thour + Cardinality(Behind) + Cardinality(Started) + 1
    BY <1>2, <2>1, <2>5, <2>6 DEF Since
  <2>8. Since' > Since
    BY <1>2, <2>7 DEF Since
  <2> QED
    BY <2>1, <2>8
<1>7. CASE TrackerFails \/ \E i \in Groups : Fault(i)
  BY <1>1, <1>7 DEF TrackerFails, Fault, GridFails, PostFails, Outlast
<1> QED
  BY <1>1, <1>3, <1>5, <1>6, <1>7 DEF CycleNext, Step

(* Every step of a cycle is progress: the model, a job, the tracker or a   *)
(* reader comes further, also a job that begins again and skips what is    *)
(* done; and a failure, which sends a job back to its first hour or the    *)
(* tracker to hour 0, uses up one of those that are admitted.              *)
THEOREM EveryStepCounts ==
  CycleSpec => [][Progress' > Progress /\ Width' = Width]_cycleVars
<1>1. CycleTypeOK /\ Begun /\ Counted /\ Counted' /\ [CycleNext]_cycleVars =>
        [Progress' > Progress /\ Width' = Width]_cycleVars
  <2> SUFFICES ASSUME CycleTypeOK, Begun, Counted, Counted', CycleNext
               PROVE  Progress' > Progress /\ Width' = Width
    OBVIOUS
  <2>1. /\ Width' = Width
        /\ \/ failures' = failures /\ Since' > Since
           \/ failures' = failures + 1
    BY StepAdds
  <2>2. Since \in 0 .. Width - 1 /\ Width \in Nat /\ Since' \in 0 .. Width' - 1
    BY DEF Counted
  <2>3. PICK s \in Nat, t \in Nat : s = Since /\ t = Since'
    BY <2>1, <2>2
  <2>4. PICK w \in Nat : w = Width
    BY <2>2
  <2>5. PICK n \in Nat : n = failures
    BY DEF CycleTypeOK
  <2>6. n * w \in Nat /\ (n + 1) * w = n * w + w
    BY <2>4, <2>5
  <2>7. Progress = n * w + s
    BY <2>3, <2>4, <2>5 DEF Progress
  <2>8. CASE failures' = failures /\ Since' > Since
    <3>1. Progress' = n * w + t /\ t > s
      BY <2>1, <2>3, <2>4, <2>5, <2>8 DEF Progress
    <3> QED
      BY <2>1, <2>6, <2>7, <3>1
  <2>9. CASE failures' = failures + 1
    <3>1. Progress' = (n + 1) * w + t /\ s < w
      BY <2>1, <2>2, <2>3, <2>4, <2>5, <2>9 DEF Progress
    <3> QED
      BY <2>1, <2>6, <2>7, <3>1
  <2> QED
    BY <2>1, <2>8, <2>9
<1> QED
  BY <1>1, CycleTypes, PartsAreFinite, PTL DEF CycleSpec

(* There is an end to the progress, a number of steps that depends on the  *)
(* configuration alone: no order of the deliveries and failures lets a     *)
(* cycle go on for ever.  When it can go on no more every reader has       *)
(* started, by HandoverGoesOnHolds, if the readers wait for hours of the   *)
(* forecast.                                                               *)
THEOREM StepsBounded == CycleSpec => [](Progress \in 0 .. (MaxFailures + 1) * Width - 1)
<1>1. CycleTypeOK => Progress \in 0 .. (MaxFailures + 1) * Width - 1
  <2> SUFFICES ASSUME CycleTypeOK
               PROVE  Progress \in 0 .. (MaxFailures + 1) * Width - 1
    OBVIOUS
  <2>1. PICK w \in Nat, s \in Nat : w = Width /\ s = Since /\ s <= w - 1
    BY PartsAreFinite DEF Counted
  <2>2. PICK n \in Nat, m \in Nat : n = failures /\ m = MaxFailures /\ n <= m
    BY CaseType DEF CycleTypeOK
  <2>3. PICK k \in Nat : m = n + k
    BY <2>2
  <2>4. /\ n * w \in Nat /\ k * w \in Nat
        /\ (m + 1) * w = n * w + k * w + w
    BY <2>1, <2>2, <2>3
  <2>5. Progress = n * w + s
    BY <2>1, <2>2 DEF Progress
  <2> QED
    BY <2>1, <2>2, <2>4, <2>5
<1> QED
  BY <1>1, CycleTypes, PTL
=============================================================================
