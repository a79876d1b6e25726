---------------------------- MODULE DatumCacheProofs ----------------------------
(***************************************************************************)
(* Proofs about DatumCache, for any processes, threads, values, fields and *)
(* age of the cache, with refused transactions, crashes and call_callbacks.*)
(***************************************************************************)
EXTENDS DatumCache, TLAPS

(* Who is in a method, and has the Datum's lock or the transaction.        *)
InMethod(t) == pc[t] \notin {"idle", "failed"}
Behind(t)   == pc[t] \in {"locked", "store", "inside", "written", "left"}

(* One thread has the Datum's lock, one the transaction.                   *)
LockHeld  == \A t \in Threads : Held(t) /\ Behind(t) => lock[ProcOf[t]] = t
StoreHeld == \A t \in Threads : pc[t] \in {"inside", "written"} \/ outer[t] => store = t

(* The draft is the row but for what an open transaction has written.      *)
DraftClean ==
  /\ store = NoThread => draft = row
  /\ \A t \in Threads : pc[t] = "inside" /\ ~outer[t] => draft = row

(* Before the first constructor returns, a process has nothing but it.     *)
Constructed ==
  \A t \in Threads :
    /\ outer[t] => ProcOf[t] \in made
    /\ InMethod(t) /\ call[t] # "create" => ProcOf[t] \in made
    /\ call[t] = "create" =>
         /\ ProcOf[t] \notin made /\ pc[t] \in {"store", "inside", "written", "left"}
         /\ \A u \in Threads : ProcOf[u] = ProcOf[t] /\ u # t => ~InMethod(u)

(* A row is never removed, and the cache of a constructed Datum has one.   *)
RowsThere ==
  /\ row \in Rows => draft \in Rows
  /\ made # {} => row \in Rows
  /\ \A p \in made : cache[p] \in Rows
  /\ \A t \in Threads : call[t] = "create" =>
       /\ pc[t] \in {"written", "left"} => draft \in Rows /\ cache[ProcOf[t]] \in Rows
       /\ pc[t] = "left" => row \in Rows

(* The arguments of set_loc_avail.                                         *)
Wanted ==
  \A t \in Threads : call[t] = "setboth" => want[t] \in Rows

(* The values that process p may have in its cache.                        *)
Fresh(p, f, v) ==
  \/ v = row[f]
  \/ store # NoThread /\ ProcOf[store] = p /\ v = draft[f]
  \/ v \in Values /\ gone[f][v] <= age[p]

(* A set that has not yet come to the cache, or not to the database.       *)
Pending(t, f) ==
  \/ call[t] = "set" /\ pc[t] \in {"written", "left"} /\ want[t][f] # NoValue
  \/ call[t] = "setboth" /\ pc[t] \in {"store", "inside"}

(* The cache has been filled.                                              *)
Loaded(p) ==
  \/ p \in made
  \/ \E t \in Threads : /\ ProcOf[t] = p /\ call[t] = "create"
                        /\ pc[t] \in {"written", "left"}

(* Every field is as fresh as the cache's age says, or has a pending set.  *)
CacheFresh ==
  \A p \in Procs : Loaded(p) /\ p \notin spoilt /\ age[p] < CacheAge =>
    \A f \in Fields : \/ Fresh(p, f, cache[p][f])
                      \/ \E t \in Threads : ProcOf[t] = p /\ Pending(t, f)

(* What a set will put into the cache is as fresh as what it replaces.     *)
WantFresh ==
  \A t \in Threads : \A f \in Fields :
    /\ call[t] = "set" /\ pc[t] \in {"written", "left"} /\ want[t][f] # NoValue
    /\ ProcOf[t] \notin spoilt /\ age[ProcOf[t]] < CacheAge
    => Fresh(ProcOf[t], f, want[t][f])

(* A set on its way.                                                       *)
OnItsWay ==
  \A t \in Threads : ProcOf[t] \notin spoilt =>
    /\ call[t] = "setboth" /\ pc[t] \in {"store", "inside"} => cache[ProcOf[t]] = want[t]
    /\ call[t] \in {"set", "setboth"} /\ pc[t] = "written" => draft = Set(draft, want[t])

-----------------------------------------------------------------------------
(* Who is where, without the data.                                         *)
Control ==
  /\ store \in Threads \cup {NoThread} /\ outer \in [Threads -> BOOLEAN]
  /\ made \subseteq Procs /\ spoilt \subseteq Procs
  /\ lock \in [Procs -> Threads \cup {NoThread}]
  /\ pc \in [Threads -> {"idle", "lock", "locked", "store", "inside",
                         "written", "left", "failed"}]
  /\ call \in [Threads -> Method] /\ want \in [Threads -> Wants]
  /\ LockHeld /\ StoreHeld /\ Constructed /\ Wanted

(* What a thread wants that sets nothing.                                  *)
LEMMA NoRowWanted == NoRow \in Wants
  BY DEF NoRow, Wants

(* Holders of the locks, and constructors, are who they should be.         *)
LEMMA ControlInvariant == Spec => []Control
<1>1. Init => Control
  BY DatumAssumption, NoRowWanted
     DEF Init, Control, Method, LockHeld, StoreHeld, Constructed, Wanted, Held, Behind, InMethod
<1>2. Control /\ [Next]_vars => Control'
  <2> SUFFICES ASSUME Control, [Next]_vars PROVE Control'
    OBVIOUS
  <2> USE DatumAssumption DEF Control, Method, LockHeld, StoreHeld, Constructed, Wanted,
             Held, Behind, InMethod
  <2>1. ASSUME NEW t \in Threads, Create(t) PROVE Control'
    BY <2>1, NoRowWanted DEF Create, Begins, database
  <2>2. ASSUME NEW t \in Threads, NEW m \in Method, NEW w \in Writes \cup {NoRow}, Call(t, m, w)
        PROVE  Control'
    BY <2>2, NoRowWanted DEF Call, Begins, database, object, Wants
  <2>3. ASSUME NEW t \in Threads, Bare(t) PROVE Control'
    BY <2>3, NoRowWanted DEF Bare, Begins, database, object
  <2>4. ASSUME NEW t \in Threads, Begin(t) PROVE Control'
    BY <2>4, NoRowWanted DEF Begin, Begins, database, object
  <2>5. ASSUME NEW t \in Threads, Lock(t) PROVE Control'
    BY <2>5 DEF Lock, Goto, database
  <2>6. ASSUME NEW t \in Threads, Hit(t) PROVE Control'
    BY <2>6, NoRowWanted DEF Hit, Ends, Begins, Unlocked, database
  <2>7. ASSUME NEW t \in Threads, Miss(t) PROVE Control'
    BY <2>7 DEF Miss, Goto, database
  <2>8. ASSUME NEW t \in Threads, Enter(t) PROVE Control'
    <3>1. \A u \in Threads : pc[u] \in {"inside", "written"} \/ outer[u] => u = t
      BY <2>8 DEF Enter
    <3>2. CASE call[t] = "outer"
      <4>1. /\ pc' = [pc EXCEPT ![t] = "idle"] /\ call' = [call EXCEPT ![t] = "get"]
            /\ want' = [want EXCEPT ![t] = NoRow] /\ outer' = [outer EXCEPT ![t] = TRUE]
            /\ store' = t /\ pc[t] = "store"
            /\ UNCHANGED <<made, lock, spoilt>>
        BY <2>8, <3>2 DEF Enter, Ends, Begins, object
      <4>2. LockHeld' /\ Wanted'
        BY <4>1
      <4>3. StoreHeld'
        BY <3>1, <4>1
      <4>4. Constructed'
        BY <3>2, <4>1
      <4>5. QED
        BY <4>1, <4>2, <4>3, <4>4, NoRowWanted
    <3>3. CASE call[t] # "outer"
      BY <2>8, <3>1, <3>3 DEF Enter, Goto, object
    <3>4. QED
      BY <3>2, <3>3
  <2>9. ASSUME NEW t \in Threads, Refused(t) PROVE Control'
    BY <2>9, NoRowWanted DEF Refused, Ends, Begins, Unlocked, database
  <2>10. ASSUME NEW t \in Threads, Refresh(t) PROVE Control'
    BY <2>10 DEF Refresh, Goto, database
  <2>11. ASSUME NEW t \in Threads, Store(t) PROVE Control'
    BY <2>11 DEF Store, Goto, object
  <2>12. ASSUME NEW t \in Threads, InitDatum(t) PROVE Control'
    BY <2>12 DEF InitDatum, Goto
  <2>13. ASSUME NEW t \in Threads, Leave(t) PROVE Control'
    BY <2>13 DEF Leave, CommitDraft, Goto, object, database
  <2>14. ASSUME NEW t \in Threads, Return(t) PROVE Control'
    BY <2>14, NoRowWanted DEF Return, Ends, Begins, Unlocked, database
  <2>15. ASSUME NEW t \in Threads, End(t) PROVE Control'
    BY <2>15 DEF End, CommitDraft, object
  <2>16. ASSUME NEW p \in Procs, Crash(p) PROVE Control'
    BY <2>16, NoRowWanted DEF Crash
  <2>17. CASE Tick
    BY <2>17 DEF Tick, thread
  <2>18. CASE UNCHANGED vars
    BY <2>18 DEF vars, database, object, thread
  <2>19. QED
    BY <2>1, <2>2, <2>3, <2>4, <2>5, <2>6, <2>7, <2>8, <2>9, <2>10, <2>11, <2>12, <2>13,
       <2>14, <2>15, <2>16, <2>17, <2>18 DEF Next, Run
<1>3. QED
  BY <1>1, <1>2, PTL DEF Spec

-----------------------------------------------------------------------------
(* The rows: in the database, in the open transaction and in the caches.   *)
Data ==
  /\ row \in Rows \cup {NoRow} /\ draft \in Rows \cup {NoRow}
  /\ cache \in [Procs -> Rows \cup {NoRow}]
  /\ DraftClean /\ RowsThere

(* A row in which some fields are set is a row.                            *)
LEMMA SetIsRow ==
  ASSUME NEW r \in Rows, NEW w \in Wants
  PROVE  Set(r, w) \in Rows
  BY DEF Set, Rows, Wants

(* Rows stay complete: no field is lost on the way to a cache or back.     *)
LEMMA DataInvariant == Spec => []Data
<1>1. Init => Data
  BY DatumAssumption DEF Init, Data, DraftClean, RowsThere
<1>2. Control /\ Data /\ [Next]_vars => Data'
  <2> SUFFICES ASSUME Control, Data, [Next]_vars PROVE Data'
    OBVIOUS
  <2>0. /\ ProcOf \in [Threads -> Procs] /\ NoThread \notin Threads
        /\ StoreHeld /\ Constructed /\ Wanted
        /\ pc \in [Threads -> {"idle", "lock", "locked", "store", "inside",
                         "written", "left", "failed"}]
        /\ want \in [Threads -> Wants] /\ call \in [Threads -> Method]
        /\ store \in Threads \cup {NoThread} /\ outer \in [Threads -> BOOLEAN]
    BY DatumAssumption DEF Control
  <2> USE <2>0 DEF Data, DraftClean, RowsThere, InMethod
  <2>1. ASSUME NEW t \in Threads, Create(t) PROVE Data'
    BY <2>1 DEF Create, Begins, database
  <2>2. ASSUME NEW t \in Threads, NEW m \in Method, NEW w \in Writes \cup {NoRow}, Call(t, m, w)
        PROVE  Data'
    BY <2>2 DEF Call, Begins, database, object
  <2>3. ASSUME NEW t \in Threads, Bare(t) PROVE Data'
    BY <2>3 DEF Bare, Begins, database, object
  <2>4. ASSUME NEW t \in Threads, Begin(t) PROVE Data'
    BY <2>4 DEF Begin, Begins, database, object
  <2>5. ASSUME NEW t \in Threads, Lock(t) PROVE Data'
    BY <2>5 DEF Lock, Goto, database
  <2>6. ASSUME NEW t \in Threads, Hit(t) PROVE Data'
    BY <2>6 DEF Hit, Ends, Begins, database
  <2>7. ASSUME NEW t \in Threads, Miss(t) PROVE Data'
    BY <2>7 DEF Miss, Goto, database, Wanted, Constructed
  <2>8. ASSUME NEW t \in Threads, Enter(t) PROVE Data'
    BY <2>8 DEF Enter, Ends, Begins, Goto, object, StoreHeld
  <2>9. ASSUME NEW t \in Threads, Refused(t) PROVE Data'
    BY <2>9 DEF Refused, Ends, Begins, database
  <2>10. ASSUME NEW t \in Threads, Refresh(t) PROVE Data'
    BY <2>10 DEF Refresh, Goto, database, Constructed
  <2>11. ASSUME NEW t \in Threads, Store(t) PROVE Data'
    BY <2>11, SetIsRow DEF Store, Goto, object, Constructed, StoreHeld
  <2>12. ASSUME NEW t \in Threads, InitDatum(t) PROVE Data'
    <3>1. draft' \in Rows
      <4>1. \A f \in Fields : draft'[f] \in Values
        BY <2>12, DatumAssumption DEF InitDatum, Rows
      <4>2. QED
        BY <2>12, <4>1 DEF InitDatum, Rows
    <3>2. /\ cache' = [cache EXCEPT ![ProcOf[t]] = draft']
          /\ pc' = [pc EXCEPT ![t] = "written"] /\ pc[t] = "inside" /\ call[t] = "create"
          /\ UNCHANGED <<row, store, made, outer, call>>
      BY <2>12 DEF InitDatum, Goto
    <3>3. DraftClean'
      BY <3>2 DEF StoreHeld
    <3>4. RowsThere'
      BY <3>1, <3>2 DEF Constructed
    <3>5. QED
      BY <3>1, <3>2, <3>3, <3>4
  <2>13. ASSUME NEW t \in Threads, Leave(t) PROVE Data'
    BY <2>13 DEF Leave, CommitDraft, Goto, object, database, StoreHeld, Constructed
  <2>14. ASSUME NEW t \in Threads, Return(t) PROVE Data'
    <3>1. /\ pc' = [pc EXCEPT ![t] = "idle"] /\ call' = [call EXCEPT ![t] = "get"]
          /\ pc[t] = "left"
          /\ made' = IF call[t] = "create" THEN made \cup {ProcOf[t]} ELSE made
          /\ cache' = IF call[t] = "set"
                      THEN [cache EXCEPT ![ProcOf[t]] = Set(@, want[t])] ELSE cache
          /\ UNCHANGED <<row, draft, store, outer>>
      BY <2>14 DEF Return, Ends, Begins, database
    <3>2. DraftClean'
      BY <3>1
    <3>3. CASE call[t] = "set"
      <4>1. Set(cache[ProcOf[t]], want[t]) \in Rows
        BY <3>1, <3>3, SetIsRow DEF Constructed
      <4>2. QED
        BY <3>1, <3>2, <3>3, <4>1 DEF Constructed
    <3>4. CASE call[t] # "set"
      BY <3>1, <3>2, <3>4 DEF Constructed
    <3>5. QED
      BY <3>3, <3>4
  <2>15. ASSUME NEW t \in Threads, End(t) PROVE Data'
    BY <2>15 DEF End, CommitDraft, object, StoreHeld
  <2>16. ASSUME NEW p \in Procs, Crash(p) PROVE Data'
    BY <2>16 DEF Crash, StoreHeld
  <2>17. CASE Tick
    BY <2>17 DEF Tick, thread
  <2>18. CASE UNCHANGED vars
    BY <2>18 DEF vars, database, object, thread
  <2>19. QED
    BY <2>1, <2>2, <2>3, <2>4, <2>5, <2>6, <2>7, <2>8, <2>9, <2>10, <2>11, <2>12, <2>13,
       <2>14, <2>15, <2>16, <2>17, <2>18 DEF Next, Run
<1>3. QED
  BY <1>1, <1>2, ControlInvariant, PTL DEF Spec

-----------------------------------------------------------------------------
(* The ages are counted up to their limits.                                *)
Ages ==
  /\ age \in [Procs -> 0 .. CacheAge]
  /\ gone \in [Fields -> [Values -> 0 .. Old]]

(* Both counters stop at their limit.                                      *)
LEMMA AgesInvariant == Spec => []Ages
<1>1. Init => Ages
  BY DatumAssumption DEF Init, Ages, Old
<1>2. Ages /\ [Next]_vars => Ages'
  <2> SUFFICES ASSUME Ages, [Next]_vars PROVE Ages'
    OBVIOUS
  <2>0. CacheAge \in Nat /\ 0 \in 0 .. CacheAge /\ 0 \in 0 .. Old /\ Old \in 0 .. Old
    BY DatumAssumption DEF Old
  <2>1. ASSUME CommitDraft, UNCHANGED age PROVE Ages'
    BY <2>0, <2>1 DEF CommitDraft, Ages
  <2>2. ASSUME NEW p \in Procs, age' = [age EXCEPT ![p] = 0], UNCHANGED gone PROVE Ages'
    BY <2>0, <2>2 DEF Ages
  <2>3. ASSUME UNCHANGED <<age, gone>> PROVE Ages'
    BY <2>3 DEF Ages
  <2>4. CASE Tick
    BY <2>0, <2>4 DEF Tick, Ages, Older, Old
  <2>5. ASSUME NEW t \in Threads, Create(t) \/ Refresh(t) PROVE Ages'
    BY <2>2, <2>5, DatumAssumption DEF Create, Refresh, database
  <2>6. ASSUME NEW t \in Threads, Leave(t) \/ End(t) PROVE Ages'
    BY <2>1, <2>3, <2>6 DEF Leave, End, object, database
  <2>7. ASSUME NEW p \in Procs, Crash(p) PROVE Ages'
    BY <2>2, <2>7 DEF Crash
  <2>8. ASSUME NEW t \in Threads,
               Bare(t) \/ Begin(t) \/ Lock(t) \/ Hit(t) \/ Miss(t) \/ Enter(t) \/ Refused(t)
        PROVE Ages'
    BY <2>3, <2>8 DEF Bare, Begin, Lock, Hit, Miss, Enter, Refused, object, database
  <2>9. ASSUME NEW t \in Threads, Store(t) \/ InitDatum(t) \/ Return(t)
        PROVE Ages'
    BY <2>3, <2>9 DEF Store, InitDatum, Return, object, database
  <2>10. ASSUME NEW t \in Threads, NEW m \in Method, NEW w \in Writes \cup {NoRow}, Call(t, m, w)
         PROVE  Ages'
    BY <2>3, <2>10 DEF Call, object, database
  <2>11. CASE UNCHANGED vars
    BY <2>3, <2>11 DEF vars, object, database
  <2>12. QED
    BY <2>4, <2>5, <2>6, <2>7, <2>8, <2>9, <2>10, <2>11 DEF Next, Run
<1>3. QED
  BY <1>1, <1>2, PTL DEF Spec

(* The types of the variables.                                             *)
THEOREM TypeCorrect == Spec => []TypeOK
<1>1. Control /\ Data /\ Ages => TypeOK
  BY DEF Control, Data, Ages, TypeOK
<1>2. QED
  BY <1>1, ControlInvariant, DataInvariant, AgesInvariant, PTL

-----------------------------------------------------------------------------
(* A thread's place changes by a step of its own, or a crash of its process*)
LEMMA OwnStep ==
  ASSUME Control, [Next]_vars, NEW t \in Threads, pc'[t] # pc[t]
  PROVE  \/ Create(t) \/ Bare(t) \/ Begin(t) \/ Run(t)
         \/ \E m \in Method, w \in Writes \cup {NoRow} : Call(t, m, w)
         \/ Crash(ProcOf[t])
<1>0. pc \in [Threads -> {"idle", "lock", "locked", "store", "inside",
                         "written", "left", "failed"}]
  BY DEF Control
<1>1. ASSUME NEW u \in Threads, u # t, Create(u) \/ Bare(u) \/ Begin(u)
      PROVE  pc'[t] = pc[t]
  BY <1>0, <1>1 DEF Create, Bare, Begin, Begins
<1>2. ASSUME NEW u \in Threads, u # t, NEW m \in Method, NEW w \in Writes \cup {NoRow},
             Call(u, m, w)
      PROVE  pc'[t] = pc[t]
  BY <1>0, <1>2 DEF Call, Begins
<1>3. ASSUME NEW u \in Threads, u # t, Run(u)
      PROVE  pc'[t] = pc[t]
  <2>1. \E place : pc' = [pc EXCEPT ![u] = place]
    BY <1>3 DEF Run, Lock, Hit, Miss, Enter, Refused, Refresh, Store, InitDatum, Leave, Return,
       Goto, Ends, Begins
  <2>2. QED
    BY <1>0, <1>3, <2>1
<1>4. ASSUME NEW u \in Threads, End(u)
      PROVE  pc'[t] = pc[t]
  BY <1>4 DEF End
<1>5. ASSUME NEW p \in Procs, p # ProcOf[t], Crash(p)
      PROVE  pc'[t] = pc[t]
  BY <1>5 DEF Crash
<1>6. Tick \/ UNCHANGED vars => pc'[t] = pc[t]
  BY DEF Tick, vars, thread
<1>7. QED
  BY <1>1, <1>2, <1>3, <1>4, <1>5, <1>6 DEF Next

-----------------------------------------------------------------------------
(* A set that is done again changes nothing, one of all fields gives them. *)
LEMMA SetTwice ==
  ASSUME NEW r \in Rows, NEW w \in Wants
  PROVE  Set(Set(r, w), w) = Set(r, w)
  BY DEF Set, Rows

(* The set of both fields, as set_loc_avail does it.                       *)
LEMMA SetAll ==
  ASSUME NEW w \in Rows
  PROVE  Set(w, w) = w
  BY DEF Set, Rows

(* Threads of one process that are behind the Datum's lock are one.        *)
LEMMA OneHolder ==
  ASSUME Control, NEW t \in Threads, NEW u \in Threads, ProcOf[t] = ProcOf[u],
         Held(t), Behind(t), Held(u), Behind(u)
  PROVE  t = u
  BY DEF Control, LockHeld

(* What a set wants is where the next step of it looks for it.             *)
LEMMA OnItsWayInvariant == Spec => []OnItsWay
<1>1. Init => OnItsWay
  BY DEF Init, OnItsWay
<1>2. Control /\ Data /\ OnItsWay /\ [Next]_vars => OnItsWay'
  <2> SUFFICES ASSUME Control, Data, OnItsWay, [Next]_vars PROVE OnItsWay'
    OBVIOUS
  <2>0. /\ ProcOf \in [Threads -> Procs] /\ NoThread \notin Threads
        /\ StoreHeld /\ Constructed /\ Wanted /\ LockHeld
        /\ pc \in [Threads -> {"idle", "lock", "locked", "store", "inside",
                         "written", "left", "failed"}]
        /\ want \in [Threads -> Wants] /\ call \in [Threads -> Method]
        /\ cache \in [Procs -> Rows \cup {NoRow}]
    BY DatumAssumption DEF Control, Data
  <2> USE <2>0 DEF OnItsWay, InMethod
  <2>1. ASSUME NEW t \in Threads, Create(t) PROVE OnItsWay'
    BY <2>1 DEF Create, Begins, database
  <2>2. ASSUME NEW t \in Threads, NEW m \in Method, NEW w \in Writes \cup {NoRow}, Call(t, m, w)
        PROVE  OnItsWay'
    BY <2>2 DEF Call, Begins, database, object
  <2>3. ASSUME NEW t \in Threads, Bare(t) \/ Begin(t) PROVE OnItsWay'
    BY <2>3 DEF Bare, Begin, Begins, database, object
  <2>5. ASSUME NEW t \in Threads, Lock(t) PROVE OnItsWay'
    BY <2>5 DEF Lock, Goto, database
  <2>6. ASSUME NEW t \in Threads, Hit(t) PROVE OnItsWay'
    BY <2>6 DEF Hit, Ends, Begins, database
  <2>7. ASSUME NEW t \in Threads, Miss(t) PROVE OnItsWay'
    BY <2>7 DEF Miss, Goto, database, LockHeld, Held, Behind
  <2>8. ASSUME NEW t \in Threads, Enter(t) PROVE OnItsWay'
    BY <2>8 DEF Enter, Ends, Begins, Goto, object
  <2>9. ASSUME NEW t \in Threads, Refused(t) PROVE OnItsWay'
    BY <2>9 DEF Refused, Ends, Begins, database
  <2>10. ASSUME NEW t \in Threads, Refresh(t) PROVE OnItsWay'
    BY <2>10 DEF Refresh, Goto, database, LockHeld, Held, Behind
  <2>11. ASSUME NEW t \in Threads, Store(t) PROVE OnItsWay'
    BY <2>11, SetTwice, SetAll 
       DEF Store, Goto, object, StoreHeld, Data, RowsThere, Constructed, Wanted
  <2>12. ASSUME NEW t \in Threads, InitDatum(t) PROVE OnItsWay'
    BY <2>12 DEF InitDatum, Goto, Constructed, StoreHeld
  <2>13. ASSUME NEW t \in Threads, Leave(t) PROVE OnItsWay'
    BY <2>13 DEF Leave, CommitDraft, Goto, object, database
  <2>14. ASSUME NEW t \in Threads, Return(t) PROVE OnItsWay'
    BY <2>14 DEF Return, Ends, Begins, database, LockHeld, Held, Behind
  <2>15. ASSUME NEW t \in Threads, End(t) PROVE OnItsWay'
    BY <2>15 DEF End, CommitDraft, object
  <2>16. ASSUME NEW p \in Procs, Crash(p) PROVE OnItsWay'
    BY <2>16 DEF Crash, StoreHeld
  <2>17. CASE Tick
    BY <2>17 DEF Tick, thread
  <2>18. CASE UNCHANGED vars
    BY <2>18 DEF vars, database, object, thread
  <2>19. QED
    BY <2>1, <2>2, <2>3, <2>5, <2>6, <2>7, <2>8, <2>9, <2>10, <2>11, <2>12, <2>13,
       <2>14, <2>15, <2>16, <2>17, <2>18 DEF Next, Run
<1>3. QED
  BY <1>1, <1>2, ControlInvariant, DataInvariant, PTL DEF Spec

(* "setting a data or metadata value will cause an immediate write to the  *)
(* database": what a set was asked to store is in the row at the end of    *)
(* its transaction.                                                        *)
THEOREM SetStoredHolds == Spec => SetStored
<1>1. Control /\ Data /\ OnItsWay /\ [Next]_vars =>
        [\A t \in Threads : ProcOf[t] \notin spoilt => Stores(t)]_vars
  <2> SUFFICES ASSUME Control, Data, OnItsWay, [Next]_vars, NEW t \in Threads,
                      ProcOf[t] \notin spoilt, pc[t] = "written", pc'[t] = "left",
                      call[t] \in {"set", "setboth"}
               PROVE  draft' = Set(draft', want[t])
    BY DEF Stores
  <2>1. Leave(t)
    <3>1. ~Crash(ProcOf[t])
      BY DEF Crash, Control
    <3>2. Run(t)
      BY <3>1, OwnStep DEF Create, Bare, Begin, Call
    <3>3. QED
      BY <3>2 DEF Run, Lock, Hit, Miss, Enter, Refused, Refresh, Store, InitDatum, Return
  <2>2. draft' = draft
    BY <2>1 DEF Leave, CommitDraft, database
  <2>3. QED
    BY <2>2 DEF OnItsWay
<1>2. QED
  BY <1>1, ControlInvariant, DataInvariant, OnItsWayInvariant, PTL DEF Spec, SetStored

-----------------------------------------------------------------------------
(* What a cache has was in the row not longer ago than its age, is the     *)
(* draft of its process, or belongs to a set that is not finished.         *)
Freshness == CacheFresh /\ WantFresh

(* Every step keeps it, one by one: a commit puts the values that it       *)
(* replaces at age 0, and a tick ages both sides alike.                    *)
LEMMA FreshInvariant == Spec => []Freshness
<1>1. Init => Freshness
  BY DEF Init, Freshness, CacheFresh, WantFresh, Loaded
<1>2. Control /\ Data /\ Ages /\ Freshness /\ [Next]_vars => Freshness'
  <2> SUFFICES ASSUME Control, Data, Ages, Freshness, [Next]_vars PROVE Freshness'
    OBVIOUS
  <2>0. /\ ProcOf \in [Threads -> Procs] /\ NoThread \notin Threads /\ NoValue \notin Values
        /\ StoreHeld /\ Constructed /\ Wanted /\ LockHeld /\ DraftClean /\ RowsThere
        /\ pc \in [Threads -> {"idle", "lock", "locked", "store", "inside",
                         "written", "left", "failed"}]
        /\ want \in [Threads -> Wants] /\ call \in [Threads -> Method]
        /\ cache \in [Procs -> Rows \cup {NoRow}]
        /\ store \in Threads \cup {NoThread}
    BY DatumAssumption DEF Control, Data
  <2> USE <2>0 DEF Freshness, CacheFresh, WantFresh, Fresh, Loaded, Pending, InMethod
  <2>values. ASSUME NEW p \in Procs, Loaded(p), NEW f \in Fields PROVE cache[p][f] \in Values
    BY <2>values DEF RowsThere, Rows
  <2>ages. \A q \in Procs : age[q] \in 0 .. CacheAge
    BY DEF Ages
  <2>commit. ASSUME CommitDraft, UNCHANGED age, NEW p \in Procs, NEW f \in Fields, NEW v \in Values,
               Fresh(p, f, v)
        PROVE  Fresh(p, f, v)'
    <3>1. v = draft[f] => v = row'[f]
      BY <2>commit DEF CommitDraft
    <3>2. v # draft[f] /\ v = row[f] => gone'[f][v] = 0
      BY <2>commit DEF CommitDraft
    <3>3. v # draft[f] /\ v # row[f] => gone'[f][v] = gone[f][v]
      BY <2>commit DEF CommitDraft
    <3>4. QED
      BY <2>ages, <2>commit, <3>1, <3>2, <3>3
  <2>1. ASSUME NEW t \in Threads, Create(t) PROVE Freshness'
    BY <2>1 DEF Create, Begins, database, Constructed
  <2>2. ASSUME NEW t \in Threads, NEW m \in Method, NEW w \in Writes \cup {NoRow}, Call(t, m, w)
        PROVE  Freshness'
    BY <2>2 DEF Call, Begins, database, object
  <2>3. ASSUME NEW t \in Threads, Bare(t) \/ Begin(t) PROVE Freshness'
    BY SMTT(30), <2>3 DEF Bare, Begin, Begins, database, object
  <2>5. ASSUME NEW t \in Threads, Lock(t) PROVE Freshness'
    BY <2>5 DEF Lock, Goto, database
  <2>6. ASSUME NEW t \in Threads, Hit(t) PROVE Freshness'
    BY <2>6 DEF Hit, Ends, Begins, database
  <2>7. ASSUME NEW t \in Threads, Miss(t) PROVE Freshness'
    BY <2>7 DEF Miss, Goto, database
  <2>8. ASSUME NEW t \in Threads, Enter(t) PROVE Freshness'
    BY <2>8 DEF Enter, Ends, Begins, Goto, object, StoreHeld
  <2>9. ASSUME NEW t \in Threads, Refused(t) PROVE Freshness'
    BY <2>9 DEF Refused, Ends, Begins, database
  <2>10. ASSUME NEW t \in Threads, Refresh(t) PROVE Freshness'
    BY <2>10 DEF Refresh, Goto, database, LockHeld, Held, Behind, StoreHeld, Constructed
  <2>11. ASSUME NEW t \in Threads, Store(t) PROVE Freshness'
    BY <2>11 DEF Store, Goto, object, StoreHeld, Set, LockHeld, Held, Behind
  <2>12. ASSUME NEW t \in Threads, InitDatum(t) PROVE Freshness'
    BY <2>12 DEF InitDatum, Goto, Constructed, StoreHeld
  <2>13. ASSUME NEW t \in Threads, Leave(t) PROVE Freshness'
    <3>1. /\ pc' = [pc EXCEPT ![t] = "left"] /\ pc[t] = "written"
          /\ UNCHANGED <<made, cache, age, spoilt, call, want>>
      BY <2>13 DEF Leave, Goto, object
    <3>2. ASSUME NEW p \in Procs, NEW f \in Fields, NEW v \in Values, Fresh(p, f, v)
          PROVE  Fresh(p, f, v)'
      <4>1. CASE outer[t]
        BY <2>13, <3>1, <3>2, <4>1 DEF Leave, database
      <4>2. CASE ~outer[t]
        <5>1. CommitDraft
          BY <2>13, <4>2 DEF Leave
        <5>2. QED
          BY <2>commit, <3>1, <3>2, <5>1
      <4>3. QED
        BY <4>1, <4>2
    <3>3. CacheFresh'
      BY <2>values, <3>1, <3>2
    <3>4. WantFresh'
      BY SMTT(30), <3>1, <3>2 DEF Wants
    <3>5. QED
      BY <3>3, <3>4
  <2>14. ASSUME NEW t \in Threads, Return(t) PROVE Freshness'
    <3>1. /\ pc' = [pc EXCEPT ![t] = "idle"] /\ call' = [call EXCEPT ![t] = "get"]
          /\ want' = [want EXCEPT ![t] = NoRow] /\ pc[t] = "left"
          /\ made' = IF call[t] = "create" THEN made \cup {ProcOf[t]} ELSE made
          /\ cache' = IF call[t] = "set"
                      THEN [cache EXCEPT ![ProcOf[t]] = Set(@, want[t])] ELSE cache
          /\ UNCHANGED <<row, draft, gone, store, age, spoilt>>
      BY <2>14 DEF Return, Ends, Begins, database
    <3>2. WantFresh'
      BY <3>1
    <3>3. CASE call[t] # "set"
      BY <3>1, <3>2, <3>3
    <3>4. CASE call[t] = "set"
      <4>1. ASSUME NEW u \in Threads, u # t, ProcOf[u] = ProcOf[t], NEW f \in Fields
            PROVE  ~Pending(u, f)
        BY <3>1, <3>4, <4>1, OneHolder DEF Held, Behind
      <4>2. ProcOf[t] \in made
        BY <3>1, <3>4 DEF Constructed
      <4>3. ASSUME NEW f \in Fields
            PROVE  cache'[ProcOf[t]][f] = IF want[t][f] = NoValue THEN cache[ProcOf[t]][f]
                                                                  ELSE want[t][f]
        BY <3>1, <3>4 DEF Set
      <4>4. ASSUME NEW p \in Procs, Loaded(p)', p \notin spoilt, age[p] < CacheAge,
                   NEW f \in Fields
            PROVE  (\/ Fresh(p, f, cache[p][f])
                    \/ \E u \in Threads : ProcOf[u] = p /\ Pending(u, f))'
        <5>1. CASE p = ProcOf[t]
          BY <3>1, <3>4, <4>1, <4>2, <4>3, <4>4, <5>1
        <5>2. CASE p # ProcOf[t]
          BY <3>1, <3>4, <4>4, <5>2
        <5>3. QED
          BY <5>1, <5>2
      <4>5. QED
        BY <3>1, <3>2, <4>4
    <3>5. QED
      BY <3>3, <3>4
  <2>15. ASSUME NEW t \in Threads, End(t) PROVE Freshness'
    <3>1. CommitDraft /\ UNCHANGED <<made, cache, age, spoilt, pc, call, want>>
      BY <2>15 DEF End, object
    <3>2. CacheFresh'
      BY <2>values, <2>commit, <3>1
    <3>3. WantFresh'
      BY SMTT(30), <2>commit, <3>1 DEF Wants
    <3>4. QED
      BY <3>2, <3>3
  <2>16. ASSUME NEW p \in Procs, Crash(p) PROVE Freshness'
    BY <2>16 DEF Crash, StoreHeld
  <2>17. CASE Tick
    <3>1. UNCHANGED <<row, draft, store, made, cache, spoilt, pc, call, want>>
      BY <2>17 DEF Tick, thread
    <3>2. ASSUME NEW p \in Procs, age'[p] < CacheAge PROVE age[p] < CacheAge /\ age'[p] = age[p] + 1
      BY <2>17, <2>ages, <3>2, DatumAssumption DEF Tick, Older
    <3>3. ASSUME NEW f \in Fields, NEW v \in Values
          PROVE  gone[f][v] \in Nat /\ gone'[f][v] \in Nat /\ gone'[f][v] <= gone[f][v] + 1
      BY <2>17, DatumAssumption DEF Tick, Older, Ages, Old
    <3>4. ASSUME NEW p \in Procs, NEW f \in Fields, NEW v \in Values, age'[p] < CacheAge,
                 Fresh(p, f, v)
          PROVE  Fresh(p, f, v)'
      <4>1. gone[f][v] <= age[p] => gone'[f][v] <= age'[p]
        BY <2>ages, <3>2, <3>3, <3>4
      <4>2. QED
        BY <3>1, <3>4, <4>1
    <3>5. CacheFresh'
      BY <2>values, <3>1, <3>2, <3>4
    <3>6. WantFresh'
      BY <3>1, <3>2, <3>4 DEF Wants
    <3>7. QED
      BY <3>5, <3>6
  <2>18. CASE UNCHANGED vars
    BY <2>18 DEF vars, database, object, thread
  <2>19. QED
    BY <2>1, <2>2, <2>3, <2>5, <2>6, <2>7, <2>8, <2>9, <2>10, <2>11, <2>12, <2>13,
       <2>14, <2>15, <2>16, <2>17, <2>18 DEF Next, Run
<1>3. QED
  BY <1>1, <1>2, ControlInvariant, DataInvariant, AgesInvariant, PTL DEF Spec

(* "Cache data will be discarded once its age is older than _cacheage":    *)
(* what a thread reads from the cache was in the database at most that     *)
(* long ago, whatever other threads and processes wrote in between.        *)
THEOREM ReadFreshHolds == Spec => []ReadFresh
<1>1. Control /\ Data /\ Ages /\ Freshness => ReadFresh
  <2> SUFFICES ASSUME Control, Data, Ages, Freshness, NEW t \in Threads,
                      pc[t] = "locked", call[t] = "get", ProcOf[t] \notin spoilt,
                      age[ProcOf[t]] < CacheAge, NEW f \in Fields
               PROVE  Current(f, cache[ProcOf[t]][f], CacheAge)
    BY DEF ReadFresh
  <2>1. ProcOf[t] \in Procs /\ ProcOf[t] \in made
    BY DatumAssumption DEF Control, Constructed, InMethod
  <2>2. ASSUME NEW u \in Threads, ProcOf[u] = ProcOf[t] PROVE ~Pending(u, f)
    BY <2>2 DEF Control, LockHeld, Held, Behind, Pending
  <2>3. Fresh(ProcOf[t], f, cache[ProcOf[t]][f])
    BY <2>1, <2>2 DEF Freshness, CacheFresh, Loaded
  <2>4. ASSUME NEW v \in Values, gone[f][v] <= age[ProcOf[t]] PROVE gone[f][v] <= CacheAge
    BY <2>1, <2>4, DatumAssumption DEF Ages, Old
  <2>5. QED
    BY <2>3, <2>4 DEF Fresh, Current
<1>2. QED
  BY <1>1, ControlInvariant, DataInvariant, AgesInvariant, FreshInvariant, PTL

-----------------------------------------------------------------------------
(* Whoever has the Datum's lock is in a method that will release it, and   *)
(* whoever has the database in one that will leave it, or between two      *)
(* calls of its with-block.                                                *)
Holders ==
  /\ \A t \in Threads : store = t => pc[t] \in {"inside", "written"} \/ outer[t]
  /\ \A p \in Procs : \A t \in Threads :
       lock[p] = t => ProcOf[t] = p /\ Held(t) /\ Behind(t)
  /\ \A t \in Threads : outer[t] => pc[t] # "failed"
  /\ \A t \in Threads : outer[t] \/ call[t] = "outer" => t \in Nests
  /\ \A t \in Threads : pc[t] = "lock" => Held(t)
  /\ \A t \in Threads : call[t] = "outer" => pc[t] = "store"

(* Every exit of a method gives back what it took, the failing ones too.   *)
LEMMA HoldersInvariant == Spec => []Holders
<1>1. Init => Holders
  BY DatumAssumption DEF Init, Holders
<1>2. Control /\ Holders /\ [Next]_vars => Holders'
  <2> SUFFICES ASSUME Control, Holders, [Next]_vars PROVE Holders'
    OBVIOUS
  <2> USE DatumAssumption DEF Holders, Held, Behind
  <2>1. ASSUME NEW t \in Threads, Create(t) PROVE Holders'
    BY <2>1 DEF Create, Begins, database, Control
  <2>2. ASSUME NEW t \in Threads, NEW m \in Method, NEW w \in Writes \cup {NoRow}, Call(t, m, w)
        PROVE  Holders'
    BY <2>2 DEF Call, Begins, database, object, Control
  <2>3. ASSUME NEW t \in Threads, Bare(t) PROVE Holders'
    BY <2>3 DEF Bare, Begins, database, object, Control
  <2>4. ASSUME NEW t \in Threads, Begin(t) PROVE Holders'
    BY <2>4 DEF Begin, Begins, database, object, Control
  <2>5. ASSUME NEW t \in Threads, Lock(t) PROVE Holders'
    BY <2>5 DEF Lock, Goto, database, Control
  <2>6. ASSUME NEW t \in Threads, Hit(t) PROVE Holders'
    BY <2>6 DEF Hit, Unlocked, Ends, Begins, database, Control, LockHeld
  <2>7. ASSUME NEW t \in Threads, Miss(t) PROVE Holders'
    BY <2>7 DEF Miss, Goto, database, Control
  <2>8. ASSUME NEW t \in Threads, Enter(t) PROVE Holders'
    <3>1. CASE call[t] = "outer"
      BY <2>8, <3>1 DEF Enter, Ends, Begins, Goto, object, Control, Constructed, InMethod,
                        StoreHeld
    <3>2. CASE call[t] # "outer"
      BY <2>8, <3>2 DEF Enter, Goto, object, Control, StoreHeld
    <3> QED
      BY <3>1, <3>2
  <2>9. ASSUME NEW t \in Threads, Refused(t) PROVE Holders'
    BY <2>9 DEF Refused, Unlocked, Ends, Begins, database, Control, LockHeld
  <2>10. ASSUME NEW t \in Threads, Refresh(t) \/ Store(t) \/ InitDatum(t) PROVE Holders'
    BY <2>10 DEF Refresh, Store, InitDatum, Goto, database, object, Control
  <2>11. ASSUME NEW t \in Threads, Leave(t) PROVE Holders'
    BY <2>11 DEF Leave, CommitDraft, Goto, database, object, Control
  <2>12. ASSUME NEW t \in Threads, Return(t) PROVE Holders'
    BY <2>12 DEF Return, Unlocked, Ends, Begins, database, Control, LockHeld
  <2>13. ASSUME NEW t \in Threads, End(t) PROVE Holders'
    BY <2>13 DEF End, CommitDraft, object, Control, StoreHeld
  <2>14. ASSUME NEW p \in Procs, Crash(p) PROVE Holders'
    BY <2>14 DEF Crash, Control
  <2>15. CASE Tick \/ UNCHANGED vars
    BY <2>15 DEF Tick, vars, thread, object, database
  <2> QED
    BY <2>1, <2>2, <2>3, <2>4, <2>5, <2>6, <2>7, <2>8, <2>9, <2>10, <2>11, <2>12, <2>13,
       <2>14, <2>15 DEF Next, Run
<1>3. QED
  BY <1>1, <1>2, ControlInvariant, PTL DEF Spec

(* A thread can go on.                                                     *)
CanStep(t) ==
  \/ pc[t] = "idle" /\ outer[t]
  \/ pc[t] = "lock" /\ lock[ProcOf[t]] = NoThread
  \/ pc[t] = "store" /\ (outer[t] \/ store = NoThread)
  \/ pc[t] \in {"locked", "inside", "written", "left"}

WaitsFor(t) == IF pc[t] = "lock" THEN lock[ProcOf[t]] ELSE store

(* There is no cycle of waits, for any number of threads and processes: a  *)
(* thread that waits does so for one that can go on, or that itself waits  *)
(* for the database until one goes on that has it.  The exception is a     *)
(* thread that asks for a Datum in the middle of its own with-block.       *)
NoDeadlock ==
  \A t \in Threads : pc[t] \in {"lock", "store"} /\ ~CanStep(t) /\ ~Crossed =>
    /\ WaitsFor(t) \in Threads
    /\ ~CanStep(WaitsFor(t)) =>
         /\ pc[WaitsFor(t)] = "store"
         /\ store \in Threads /\ CanStep(store)

(* The lock of a Datum and the database never deadlock without Crossed.    *)
THEOREM NoDeadlockHolds == Spec => []NoDeadlock
<1>1. Control /\ Holders => NoDeadlock
  <2> SUFFICES ASSUME Control, Holders, ~Crossed,
                      NEW t \in Threads, pc[t] \in {"lock", "store"}, ~CanStep(t)
               PROVE  /\ WaitsFor(t) \in Threads
                      /\ ~CanStep(WaitsFor(t)) =>
                           pc[WaitsFor(t)] = "store" /\ store \in Threads /\ CanStep(store)
    BY DEF NoDeadlock
  <2>1. ASSUME NEW u \in Threads, store = u PROVE CanStep(u)
    <3>1. pc[u] \notin {"failed", "lock"} /\ (pc[u] \in {"inside", "written"} \/ outer[u])
      BY <2>1 DEF Holders, Crossed
    <3> QED
      BY <3>1 DEF Control, CanStep
  <2>2. CASE pc[t] = "store"
    <3>1. WaitsFor(t) = store /\ store \in Threads
      BY <2>2 DEF Control, CanStep, WaitsFor
    <3> QED
      BY <2>1, <3>1
  <2>3. CASE pc[t] = "lock"
    <3>1. PICK u \in Threads : u = lock[ProcOf[t]] /\ u = WaitsFor(t)
      BY <2>3, DatumAssumption DEF Control, CanStep, WaitsFor
    <3>2. Behind(u)
      BY <3>1, DatumAssumption DEF Holders
    <3>3. CASE CanStep(u)
      BY <3>1, <3>3
    <3>4. CASE ~CanStep(u)
      <4>1. pc[u] = "store" /\ store \in Threads
        BY <3>2, <3>4 DEF Behind, CanStep, Control
      <4> QED
        BY <2>1, <3>1, <4>1
    <3> QED
      BY <3>3, <3>4
  <2> QED
    BY <2>2, <2>3
<1>2. QED
  BY <1>1, ControlInvariant, HoldersInvariant, PTL

(* Where no thread has a with-block around its calls, that exception is    *)
(* never met: the Datum and the database are always taken in one order.    *)
THEOREM NeverCrossed ==
  ASSUME Nests = {} PROVE Spec => []~Crossed
<1>1. Control /\ Holders => ~Crossed
  BY DEF Holders, Crossed, Control
<1>2. QED
  BY <1>1, ControlInvariant, HoldersInvariant, PTL

=============================================================================
