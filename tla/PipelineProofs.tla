---------------------------- MODULE PipelineProofs ----------------------------
(***************************************************************************)
(* Theorems about Pipeline, for any threads, pipelines, inputs and         *)
(* capacities: its types, ReturnedWhole, that no pipeline gets stuck, that *)
(* a pipe loses nothing, and that there is an end to the steps.            *)
(*                                                                         *)
(* The argument for ReturnedWhole: a job that manage has no more is done,  *)
(* and only the clock ends the one that reads the output, when all         *)
(* programs have been waited for.  Nobody can write then, so what this     *)
(* last read finds is all.  The job that writes the input, if the clock    *)
(* ends it before the end of the string, has found a reader; but the       *)
(* program that was to read it has ended, the parent has closed its copy   *)
(* before manage began, and all that was forked since has none: it is a    *)
(* child that is stuck.                                                    *)
(***************************************************************************)
EXTENDS Pipeline, FiniteSetTheorems, WellFoundedInduction, TLAPS

Past(t) == pc[t] \in {"manage", "returned", "raised"}

(* Which processes hold descriptors of pipes that they do not use.         *)
Ended ==
  \A q \in Programs :
    /\ prog[q] \in {"none", "exited", "reaped"} => reads[q] = {}
    /\ prog[q] = "runs" => reads[q] \subseteq {In(q)}
    /\ prog[q] = "stuck" => crossed

Closed == \A t \in Threads : Past(t) \/ at[t] > 1 => <<t, 0>> \notin reads[Parent]

(* The jobs that manage has no more.                                       *)
Watched ==
  \A t \in Threads :
    /\ pc[t] = "returned" => work[t] = {}
    /\ Past(t) => \A i \in 1 .. Last[t] : i \notin work[t] => prog[<<t, i>>] = "reaped"

Forced ==
  \A t \in Threads : force[t] =>
    /\ Past(t) /\ work[t] \subseteq {InJob, OutJob}
    /\ \A q \in Programs : <<t, 0>> \in reads[q] => prog[q] = "stuck"

Kept ==
  \A t \in Captured :
    amount[<<t, Last[t]>>] + out[t] = put[<<t, Last[t]>>]

Emptied ==
  \A t \in Captured : Past(t) /\ OutJob \notin work[t]
    => force[t] /\ amount[<<t, Last[t]>>] = 0

Written ==
  \A t \in Threads : Past(t) /\ InJob \notin work[t] => nin[t] = Input[t] \/ crossed

Later == Ended /\ Closed /\ Watched /\ Forced /\ Kept /\ Emptied /\ Written

-----------------------------------------------------------------------------
(* Programs and pipes are where they are looked for.                       *)
LEMMA Named ==
  /\ \A t \in Threads : Last[t] \in Nat \ {0} /\ Input[t] \in Nat
  /\ \A t \in Threads : \A i \in 1 .. Last[t] : <<t, i>> \in Programs
  /\ \A t \in Threads : Input[t] > 0 => <<t, 0>> \in Pipes
  /\ \A t \in Captured : <<t, Last[t]>> \in Pipes
  /\ \A q \in Programs : /\ q[1] \in Threads /\ q[2] \in 1 .. Last[q[1]]
                         /\ q = <<q[1], q[2]>> /\ q # Parent /\ q \in Processes
  /\ Parent \in Processes
<1> USE PipelineAssumption
<1>1. \A t \in Threads : Last[t] \in Nat \ {0} /\ Input[t] \in Nat
  OBVIOUS
<1>2. ASSUME NEW t \in Threads, NEW i \in 1 .. Last[t]
      PROVE  <<t, i>> \in Programs
  BY <1>1 DEF Programs
<1>3. ASSUME NEW t \in Threads, NEW i \in 0 .. Last[t]
      PROVE  <<t, i>> \in Threads \X UNION {0 .. Last[u] : u \in Threads}
  OBVIOUS
<1>4. ASSUME NEW t \in Threads, Input[t] > 0
      PROVE  <<t, 0>> \in Pipes
  <2>1. 0 \in 0 .. Last[t] /\ Last[t] # 0
    BY <1>1
  <2>2. <<t, 0>> \in Threads \X UNION {0 .. Last[u] : u \in Threads}
    BY <1>3, <2>1
  <2> QED
    BY <1>4, <2>1, <2>2 DEF Pipes
<1>5. ASSUME NEW t \in Captured
      PROVE  <<t, Last[t]>> \in Pipes
  <2>1. t \in Threads
    OBVIOUS
  <2>2. Last[t] \in 0 .. Last[t] /\ Last[t] # 0
    BY <1>1, <2>1
  <2>3. <<t, Last[t]>> \in Threads \X UNION {0 .. Last[u] : u \in Threads}
    BY <1>3, <2>1, <2>2
  <2> QED
    BY <2>2, <2>3 DEF Pipes
<1>6. ASSUME NEW q \in Programs
      PROVE  /\ q[1] \in Threads /\ q[2] \in 1 .. Last[q[1]]
             /\ q = <<q[1], q[2]>> /\ q # Parent /\ q \in Processes
  <2>1. q[1] \in Threads /\ q[2] \in UNION {1 .. Last[t] : t \in Threads} /\ q = <<q[1], q[2]>>
    BY DEF Programs
  <2>2. q[2] \in 1 .. Last[q[1]]
    BY <2>1, <1>1 DEF Programs
  <2> QED
    BY <2>1, <2>2 DEF Parent, Processes
<1> QED
  BY <1>2, <1>4, <1>5, <1>6 DEF Processes

-----------------------------------------------------------------------------
(* A step keeps the types.                                                 *)
LEMMA TypeStep == TypeOK /\ [Next]_vars => TypeOK'
<1> USE PipelineAssumption DEF TypeOK
<1> SUFFICES ASSUME TypeOK, [Next]_vars
             PROVE  TypeOK'
  OBVIOUS
<1>1. TypeOK'
  <2>1. ASSUME NEW t \in Threads, MakePipes(t)
        PROVE  TypeOK'
    BY <2>1, Named
       DEF MakePipes, NewPipes, Locks, launching, programs, ends, managing,
           history
  <2>2. ASSUME NEW t \in Threads, Fork(t)
        PROVE  TypeOK'
    BY <2>2, Named DEF Fork, launching, programs, ends, managing, history
  <2>3. ASSUME NEW t \in Threads, CloseEnds(t)
        PROVE  TypeOK'
    <3>1. Parent \in Processes /\ Last[t] \in Nat /\ at[t] \in Nat /\ Jobs(t) \in SUBSET Int
      BY Named DEF Jobs
    <3>2. plock' \in Threads \cup {Nobody}
      BY <2>3 DEF CloseEnds, Locks
    <3>3. reads' \in [Processes -> SUBSET Pipes] /\ writes' \in [Processes -> SUBSET Pipes]
      BY <2>3, <3>1 DEF CloseEnds
    <3>4. CASE at[t] < Last[t]
      BY SMTT(30), <2>3, <3>1, <3>2, <3>3, <3>4 DEF CloseEnds, programs, history
    <3>5. CASE ~(at[t] < Last[t])
      <4>1. work' = [work EXCEPT ![t] = Jobs(t)] /\ pc' = [pc EXCEPT ![t] = "manage"]
            /\ UNCHANGED <<at, programs, amount, force, nin, out, history>>
        BY <2>3, <3>5 DEF CloseEnds
      <4>2. work' \in [Threads -> SUBSET Int] /\ \A u \in Threads : work'[u] \subseteq Jobs(u)
        BY <4>1, <3>1
      <4> QED
        BY <4>1, <4>2, <3>2, <3>3 DEF programs, history
    <3> QED
      BY <3>4, <3>5
  <2>4. ASSUME NEW t \in Threads, Unlock(t)
        PROVE  TypeOK'
    BY <2>4, Named DEF Unlock, launching, programs, ends, managing, history
  <2>5. ASSUME NEW t \in Threads, WriteIn(t)
        PROVE  TypeOK'
    <3> DEFINE left == Input[t] - nin[t]
               n == IF left < Cap - amount[<<t, 0>>] THEN left ELSE Cap - amount[<<t, 0>>]
    <3>1. <<t, 0>> \in Pipes /\ Input[t] \in Nat /\ Parent \in Processes
      BY <2>5, Named DEF WriteIn, Has, Jobs, InJob
    <3>2. n \in Nat /\ amount[<<t, 0>>] + n \in 0 .. Cap /\ nin[t] + n \in Nat /\ nin[t] + n <= Input[t]
      <4>1. left \in Nat /\ amount[<<t, 0>>] \in 0 .. Cap /\ nin[t] \in Nat
        BY <3>1
      <4> QED
        BY <4>1, <3>1
    <3>3. /\ amount' = [amount EXCEPT ![<<t, 0>>] = @ + n] /\ nin' = [nin EXCEPT ![t] = @ + n]
          /\ \/ /\ work' = [work EXCEPT ![t] = @ \ {InJob}] /\ plock' = t
                /\ writes' = [writes EXCEPT ![Parent] = @ \ {<<t, 0>>}]
             \/ UNCHANGED <<work, plock, writes>>
          /\ UNCHANGED <<at, pc, programs, reads, force, out, history>>
      BY <2>5 DEF WriteIn, Done, Locks
    <3> HIDE DEF n
    <3> QED
      BY SMTT(30), <3>1, <3>2, <3>3 DEF programs, history, InJob
  <2>6. ASSUME NEW t \in Threads, WriteFails(t)
        PROVE  TypeOK'
    BY <2>6, Named
       DEF WriteFails, Has, launching, programs, ends, managing, history
  <2>7. ASSUME NEW t \in Threads, ReadOut(t)
        PROVE  TypeOK'
    <3>1. <<t, Last[t]>> \in Pipes /\ Parent \in Processes
      BY <2>7, Named DEF ReadOut, Has, Jobs, OutJob
    <3>2. /\ out' = [out EXCEPT ![t] = @ + amount[<<t, Last[t]>>]]
          /\ amount' = [amount EXCEPT ![<<t, Last[t]>>] = 0]
          /\ \/ /\ work' = [work EXCEPT ![t] = @ \ {OutJob}] /\ plock' = t
                /\ reads' = [reads EXCEPT ![Parent] = @ \ {<<t, Last[t]>>}]
             \/ UNCHANGED <<work, plock, reads>>
          /\ UNCHANGED <<at, pc, programs, writes, force, nin, history>>
      BY <2>7 DEF ReadOut, Done, Locks
    <3>3. amount[<<t, Last[t]>>] \in Nat /\ 0 \in 0 .. Cap
      BY <3>1
    <3>4. /\ out' \in [Threads -> Nat] /\ amount' \in [Pipes -> 0 .. Cap]
          /\ reads' \in [Processes -> SUBSET Pipes] /\ plock' \in Threads \cup {Nobody}
      BY <3>1, <3>2, <3>3
    <3>5. work' \in [Threads -> SUBSET Int] /\ \A u \in Threads : work'[u] \subseteq Jobs(u)
      BY <3>2
    <3> QED
      BY <3>2, <3>4, <3>5 DEF programs, history
  <2>8. ASSUME NEW t \in Threads, ForceClose(t)
        PROVE  TypeOK'
    BY <2>8, Named DEF ForceClose, launching, programs, ends, managing, history
  <2>9. ASSUME NEW t \in Threads, Return(t)
        PROVE  TypeOK'
    BY <2>9, Named DEF Return, launching, programs, ends, managing, history
  <2>10. ASSUME NEW t \in Threads, KillForThread(t)
        PROVE  TypeOK'
    BY <2>10, Named
       DEF KillForThread, Managed, launching, programs, ends, managing, history
  <2>11. ASSUME NEW t \in Threads, NEW i \in 1 .. Last[t], CheckProcess(<<t, i>>)
        PROVE  TypeOK'
    BY <2>11, Named
       DEF CheckProcess, Has, Done, launching, programs, ends, managing,
           history
  <2>12. ASSUME NEW q \in Programs, Exec(q)
        PROVE  TypeOK'
    BY <2>12, Named DEF Exec, launching, programs, ends, managing, history
  <2>13. ASSUME NEW q \in Programs, Read(q)
        PROVE  TypeOK'
    BY <2>13, Named DEF Read, launching, programs, ends, managing, history
  <2>14. ASSUME NEW q \in Programs, Write(q)
        PROVE  TypeOK'
    BY <2>14, Named
       DEF Write, HasMore, launching, programs, ends, managing, history
  <2>15. ASSUME NEW q \in Programs, prog[q] \in {"forked", "runs"}, Exits(q)
        PROVE  TypeOK'
    BY <2>15, Named DEF Exits, launching, programs, ends, managing, history
  <2>16. CASE UNCHANGED vars
    BY <2>16, Named DEF vars, launching, programs, ends, managing, history
  <2> QED
    BY <2>1, <2>2, <2>3, <2>4, <2>5, <2>6, <2>7, <2>8, <2>9,
       <2>10, <2>11, <2>12, <2>13, <2>14, <2>15, <2>16
       DEF Next, Thread, Launch, Manage, Program, ExecFails, BrokenPipe, Finish, Quit
<1> QED
  BY <1>1

(* Types are kept, for any threads, pipelines, inputs and capacities.      *)
THEOREM TypeCorrect == Spec => []TypeOK
<1>1. Init => TypeOK
  <2> SUFFICES ASSUME Init
               PROVE  TypeOK
    OBVIOUS
  <2>1. \A t \in Threads : Last[t] \in Nat \ {0} /\ Input[t] \in Nat
    BY PipelineAssumption
  <2>2. ASSUME NEW t \in Threads
        PROVE  at[t] <= Last[t] /\ nin[t] <= Input[t] /\ work[t] \subseteq Jobs(t)
    BY <2>1 DEF Init
  <2>3. /\ plock \in Threads \cup {Nobody} /\ at \in [Threads -> Nat \ {0}]
        /\ pc \in [Threads -> {"pipe", "fork", "close", "manage", "returned", "raised"}]
        /\ prog \in [Programs -> {"none", "forked", "stuck", "runs", "exited", "reaped"}]
    BY DEF Init
  <2>4. /\ reads \in [Processes -> SUBSET Pipes] /\ writes \in [Processes -> SUBSET Pipes]
        /\ amount \in [Pipes -> 0 .. Cap]
    BY PipelineAssumption DEF Init
  <2>5. /\ got \in [Programs -> Nat] /\ put \in [Programs -> Nat] /\ work \in [Threads -> SUBSET Int]
        /\ nin \in [Threads -> Nat] /\ out \in [Threads -> Nat]
    BY DEF Init
  <2>6. force \in [Threads -> BOOLEAN] /\ killed \in [Threads -> BOOLEAN] /\ crossed \in BOOLEAN
    BY DEF Init
  <2> QED
    BY <2>2, <2>3, <2>4, <2>5, <2>6 DEF TypeOK
<1> QED
  BY <1>1, TypeStep, PTL DEF Spec

-----------------------------------------------------------------------------
(* A step keeps what is said of descriptors, jobs, the clock and the pipes *)
(* to and from the parent.                                                 *)
LEMMA LaterStep == TypeOK /\ Later /\ [Next]_vars => Later'
<1> SUFFICES ASSUME TypeOK, Later, [Next]_vars
             PROVE  Later'
  OBVIOUS
<1> USE DEF Later
<1>1. Later'
  <2>1. ASSUME NEW t \in Threads, MakePipes(t)
        PROVE  Later'
    <3>1. ~Past(t) /\ ~force[t]
      BY <2>1 DEF MakePipes, Past, Forced
    <3>2. /\ \A u \in Threads : u # t => pc'[u] = pc[u]
          /\ pc'[t] = "fork"
          /\ reads'[Parent] = reads[Parent] \cup NewPipes(<<t, at[t]>>)
          /\ \A q \in Programs : reads'[q] = reads[q]
          /\ UNCHANGED <<at, prog, work, force, crossed>>
      BY <2>1, Named DEF MakePipes, TypeOK, programs, managing, history
    <3>3. \A k \in NewPipes(<<t, at[t]>>) : k[1] = t /\ (at[t] # 1 => k[2] = at[t])
      BY DEF NewPipes, In, Out
    <3>4. Ended'
      BY <2>1, Named
         DEF MakePipes, NewPipes, Ended, TypeOK, launching, programs, ends,
             managing, history
    <3>5. Closed'
      BY <3>1, <3>2, <3>3 DEF Closed, Past
    <3>6. Watched'
      BY <2>1, Named
         DEF MakePipes, NewPipes, Watched, Past, TypeOK, launching, programs,
             ends, managing, history
    <3>7. Forced'
      BY <3>1, <3>2 DEF Forced, Past
    <3>8. Emptied'
      BY <2>1, Named
         DEF MakePipes, NewPipes, Emptied, Past, TypeOK, launching, programs,
             ends, managing, history
    <3>9. Written'
      BY <2>1, Named
         DEF MakePipes, NewPipes, Written, Past, TypeOK, launching, programs,
             ends, managing, history
    <3>10. Kept'
      BY <2>1 DEF MakePipes, Kept, launching, programs, ends, managing, history
    <3> QED
      BY <3>4, <3>5, <3>6, <3>7, <3>8, <3>9, <3>10
  <2>2. ASSUME NEW t \in Threads, Fork(t)
        PROVE  Later'
    <3>1. ~Past(t) /\ ~force[t]
      BY <2>2 DEF Fork, Past, Forced
    <3>2. Ended'
      BY <2>2, Named
         DEF Fork, Ended, TypeOK, launching, programs, ends, managing, history
    <3>3. Closed'
      BY <2>2, Named
         DEF Fork, Closed, Past, TypeOK, launching, programs, ends, managing,
             history
    <3>4. Watched'
      BY <2>2, Named
         DEF Fork, Watched, Past, TypeOK, launching, programs, ends, managing,
             history
    <3>5. Forced'
      <4> SUFFICES ASSUME NEW u \in Threads, force[u]
                   PROVE  /\ Past(u)' /\ work'[u] \subseteq {InJob, OutJob}
                          /\ \A q \in Programs : <<u, 0>> \in reads'[q] => prog'[q] = "stuck"
        BY <2>2 DEF Fork, Forced, managing
      <4>1. u # t /\ Past(u) /\ work[u] \subseteq {InJob, OutJob} /\ <<u, 0>> \notin reads[Parent]
        BY <3>1 DEF Forced, Closed
      <4>2. Past(u)' /\ work'[u] \subseteq {InJob, OutJob}
        BY <2>2, <4>1 DEF Fork, Past, managing, TypeOK
      <4>3. ASSUME NEW q \in Programs, <<u, 0>> \in reads'[q]
            PROVE  prog'[q] = "stuck"
        <5>1. q # <<t, at[t]>>
          BY <2>2, <4>1, <4>3, Named DEF Fork, TypeOK
        <5> QED
          BY <2>2, <4>3, <5>1, Named DEF Fork, Forced, TypeOK
      <4> QED
        BY <4>2, <4>3
    <3>6. Emptied'
      BY <2>2, Named
         DEF Fork, Emptied, Past, TypeOK, launching, programs, ends, managing,
             history
    <3>7. Written'
      BY <2>2, Named
         DEF Fork, Written, Past, TypeOK, launching, programs, ends, managing,
             history
    <3>8. Kept'
      BY <2>2 DEF Fork, Kept, launching, programs, ends, managing, history
    <3> QED
      BY <3>2, <3>3, <3>4, <3>5, <3>6, <3>7, <3>8
  <2>3. ASSUME NEW t \in Threads, CloseEnds(t)
        PROVE  Later'
    <3>1. ~Past(t) /\ ~force[t]
      BY <2>3 DEF CloseEnds, Past, Forced
    <3>2. /\ \A u \in Threads : u # t => pc'[u] = pc[u] /\ at'[u] = at[u] /\ work'[u] = work[u]
          /\ at[t] \in Nat \ {0} /\ at'[t] \in Nat \ {0} /\ (at[t] = 1 \/ at[t] > 1)
          /\ pc'[t] = "pipe" \/ (pc'[t] = "manage" /\ work'[t] = Jobs(t) /\ at'[t] = at[t])
      <4>1. /\ at[t] \in Nat \ {0} /\ Last[t] \in Nat
            /\ pc = [u \in Threads |-> pc[u]] /\ at = [u \in Threads |-> at[u]]
            /\ work = [u \in Threads |-> work[u]]
        BY Named DEF TypeOK
      <4>2. CASE at[t] < Last[t]
        <5>1. /\ at' = [at EXCEPT ![t] = @ + 1] /\ pc' = [pc EXCEPT ![t] = "pipe"]
              /\ work' = work /\ at[t] + 1 \in Nat \ {0}
          BY <2>3, <4>1, <4>2 DEF CloseEnds
        <5> QED
          BY <4>1, <4>2, <5>1
      <4>3. CASE ~(at[t] < Last[t])
        <5>1. /\ at' = at /\ pc' = [pc EXCEPT ![t] = "manage"]
              /\ work' = [work EXCEPT ![t] = Jobs(t)]
          BY <2>3, <4>3 DEF CloseEnds
        <5> QED
          BY <4>1, <5>1
      <4> QED
        BY <4>2, <4>3
    <3>3. /\ reads'[Parent] = reads[Parent] \ {<<t, at[t] - 1>>}
          /\ \A q \in Programs : reads'[q] = reads[q]
          /\ UNCHANGED <<prog, amount, force, nin, crossed>>
      BY <2>3, Named DEF CloseEnds, TypeOK, programs, history, In
    <3>4. Ended'
      BY <2>3, Named
         DEF CloseEnds, Ended, TypeOK, launching, programs, ends, managing,
             history
    <3>5. Closed'
      <4>1. ASSUME NEW u \in Threads, u # t, Past(u)' \/ at'[u] > 1
            PROVE  <<u, 0>> \notin reads'[Parent]
        BY <3>2, <3>3, <4>1 DEF Closed, Past
      <4>2. <<t, 0>> \notin reads'[Parent]
        BY <3>2, <3>3 DEF Closed
      <4> QED
        BY <4>1, <4>2 DEF Closed
    <3>6. Watched'
      <4>1. \A i \in 1 .. Last[t] : i \in Jobs(t)
        BY Named DEF Jobs, InJob, OutJob
      <4> QED
        BY <3>2, <3>3, <4>1 DEF Watched, Past
    <3>7. Forced'
      BY <3>1, <3>2, <3>3 DEF Forced, Past
    <3>8. Emptied'
      <4>1. t \in Captured => OutJob \in Jobs(t)
        BY Named DEF Jobs, InJob, OutJob
      <4> QED
        BY <3>2, <3>3, <4>1, PipelineAssumption DEF Emptied, Past
    <3>9. Written'
      <4>1. InJob \notin Jobs(t) => nin[t] = Input[t]
        BY Named DEF Jobs, InJob, OutJob, TypeOK
      <4> QED
        BY <3>2, <3>3, <4>1 DEF Written, Past
    <3>10. Kept'
      BY <2>3 DEF CloseEnds, Kept, launching, programs, ends, managing, history
    <3> QED
      BY <3>4, <3>5, <3>6, <3>7, <3>8, <3>9, <3>10
  <2>4. ASSUME NEW t \in Threads, Unlock(t)
        PROVE  Later'
    <3>1. Ended' /\ Closed' /\ Watched' /\ Forced' /\ Kept' /\ Emptied' /\ Written'
      BY <2>4
         DEF Unlock, Ended, Closed, Watched, Forced, Kept, Emptied, Written,
             Past, launching, programs, ends, managing, history
    <3> QED
      BY <3>1
  <2>5. ASSUME NEW t \in Threads, WriteIn(t)
        PROVE  Later'
    <3>1. /\ \A u \in Threads : work'[u] \subseteq work[u] /\ work[u] \ {InJob} \subseteq work'[u]
          /\ \A u \in Threads : u # t => work'[u] = work[u] /\ nin'[u] = nin[u]
          /\ UNCHANGED <<pc, at, prog, reads, force, crossed>>
      BY <2>5 DEF WriteIn, Done, TypeOK, programs, history
    <3>2. <<t, 0>> \in Pipes /\ \A u \in Captured : amount'[<<u, Last[u]>>] = amount[<<u, Last[u]>>]
      <4>1. <<t, 0>> \in Pipes
        BY <2>5, Named DEF WriteIn, Has, Jobs, InJob, TypeOK
      <4>2. \A u \in Captured : <<u, Last[u]>> \in Pipes /\ <<u, Last[u]>> # <<t, 0>>
        BY Named, PipelineAssumption
      <4> QED
        BY <2>5, <4>1, <4>2 DEF WriteIn, TypeOK
    <3>3. Watched'
      BY <2>5, Named
         DEF WriteIn, Has, Done, Watched, Past, InJob, OutJob, TypeOK,
             launching, programs, ends, managing, history
    <3>4. Forced'
      BY <3>1 DEF Forced, Past
    <3>5. Kept'
      BY <2>5, Named
         DEF WriteIn, Has, Done, Kept, InJob, OutJob, TypeOK, launching,
             programs, ends, managing, history
    <3>6. Emptied'
      BY <3>1, <3>2, PipelineAssumption DEF Emptied, Past, InJob, OutJob
    <3>7. Written'
      <4> SUFFICES ASSUME Past(t), InJob \notin work'[t]
                   PROVE  nin'[t] = Input[t] \/ crossed
        BY <3>1 DEF Written, Past
      <4>1. /\ Wanted(<<t, 0>>) /\ InJob \in work[t]
            /\ force[t] \/ nin'[t] = nin[t] + (Input[t] - nin[t])
        BY <2>5 DEF WriteIn, Has, TypeOK
      <4>2. CASE force[t]
        <5>1. PICK q \in Processes : <<t, 0>> \in reads[q]
          BY <4>1 DEF Wanted
        <5>2. q \in Programs
          BY <5>1 DEF Closed, Processes
        <5> QED
          BY <4>2, <5>1, <5>2 DEF Forced, Ended
      <4>3. CASE nin'[t] = nin[t] + (Input[t] - nin[t])
        BY <4>3, Named DEF TypeOK
      <4> QED
        BY <4>1, <4>2, <4>3
    <3>8. Ended' /\ Closed'
      BY <2>5
         DEF WriteIn, Ended, Closed, Past, launching, programs, ends, managing,
             history
    <3> QED
      BY <3>3, <3>4, <3>5, <3>6, <3>7, <3>8
  <2>6. ASSUME NEW t \in Threads, WriteFails(t)
        PROVE  Later'
    <3>1. Closed'
      BY <2>6, Named
         DEF WriteFails, Has, Closed, Past, TypeOK, launching, programs, ends,
             managing, history
    <3>2. Watched'
      BY <2>6, Named
         DEF WriteFails, Has, Watched, Past, TypeOK, launching, programs, ends,
             managing, history
    <3>3. Forced'
      BY <2>6, Named
         DEF WriteFails, Has, Forced, Past, TypeOK, launching, programs, ends,
             managing, history
    <3>4. Emptied'
      BY <2>6, Named
         DEF WriteFails, Has, Emptied, Past, TypeOK, launching, programs, ends,
             managing, history
    <3>5. Written'
      BY <2>6, Named
         DEF WriteFails, Has, Written, Past, TypeOK, launching, programs, ends,
             managing, history
    <3>6. Ended' /\ Kept'
      BY <2>6
         DEF WriteFails, Ended, Kept, launching, programs, ends, managing,
             history
    <3> QED
      BY <3>1, <3>2, <3>3, <3>4, <3>5, <3>6
  <2>7. ASSUME NEW t \in Threads, ReadOut(t)
        PROVE  Later'
    <3>1. /\ \A u \in Threads : work'[u] \subseteq work[u] /\ work[u] \ {OutJob} \subseteq work'[u]
          /\ \A u \in Threads : u # t => work'[u] = work[u] /\ out'[u] = out[u]
          /\ UNCHANGED <<pc, at, prog, put, force, nin, crossed>>
      BY <2>7 DEF ReadOut, Done, TypeOK, programs, history
    <3>2. /\ t \in Captured /\ OutJob \in work[t]
          /\ out'[t] = out[t] + amount[<<t, Last[t]>>] /\ amount'[<<t, Last[t]>>] = 0
          /\ \A u \in Captured : u # t => amount'[<<u, Last[u]>>] = amount[<<u, Last[u]>>]
      <4>1. t \in Captured /\ OutJob \in work[t]
        BY <2>7 DEF ReadOut, Has, Jobs, OutJob, TypeOK
      <4>2. \A u \in Captured : <<u, Last[u]>> \in Pipes /\ (u # t => <<u, Last[u]>> # <<t, Last[t]>>)
        BY Named
      <4> QED
        BY <2>7, <4>1, <4>2 DEF ReadOut, TypeOK
    <3>3. \A q \in Programs : reads'[q] = reads[q]
      BY <2>7, Named DEF ReadOut, TypeOK
    <3>4. OutJob \notin work'[t] => force[t]
      BY <2>7, <3>2 DEF ReadOut
    <3>5. Ended'
      BY <2>7, Named
         DEF ReadOut, Has, Done, Ended, InJob, OutJob, TypeOK, launching,
             programs, ends, managing, history
    <3>6. Closed'
      BY <2>7, Named
         DEF ReadOut, Has, Done, Closed, Past, InJob, OutJob, TypeOK,
             launching, programs, ends, managing, history
    <3>7. Watched'
      BY <3>1 DEF Watched, Past, OutJob
    <3>8. Forced'
      BY <3>1, <3>3 DEF Forced, Past
    <3>9. Kept'
      <4>1. \A u \in Captured : amount[<<u, Last[u]>>] \in Nat /\ out[u] \in Nat
        BY Named, PipelineAssumption DEF TypeOK
      <4> QED
        BY <3>1, <3>2, <4>1, PipelineAssumption DEF Kept
    <3>10. Emptied'
      BY <3>1, <3>2, <3>4, PipelineAssumption DEF Emptied, Past
    <3>11. Written'
      BY <3>1 DEF Written, Past, InJob, OutJob
    <3> QED
      BY <3>5, <3>6, <3>7, <3>8, <3>9, <3>10, <3>11
  <2>8. ASSUME NEW t \in Threads, ForceClose(t)
        PROVE  Later'
    <3>1. Forced'
      <4>1. /\ Past(t) /\ work[t] \subseteq {InJob, OutJob}
            /\ \A q \in Programs : prog[q] # "forked"
            /\ force' = [force EXCEPT ![t] = TRUE]
            /\ UNCHANGED <<pc, work, reads, prog>>
        BY <2>8 DEF ForceClose, Past, programs, ends
      <4>2. ASSUME NEW q \in Programs, <<t, 0>> \in reads[q]
            PROVE  prog[q] = "stuck"
        <5>1. ASSUME prog[q] = "runs"
              PROVE  FALSE
          <6>1. <<t, 0>> = <<q[1], q[2] - 1>>
            BY <4>2, <5>1 DEF Ended, In
          <6>2. q = <<t, 1>> /\ 1 \in 1 .. Last[t]
            BY <6>1, Named
          <6>3. prog[<<t, 1>>] = "reaped"
            BY <4>1, <6>2 DEF Watched, InJob, OutJob
          <6> QED
            BY <5>1, <6>2, <6>3
        <5> QED
          BY <4>1, <4>2, <5>1 DEF Ended, TypeOK
      <4> QED
        BY <4>1, <4>2 DEF Forced, Past, TypeOK
    <3>2. Emptied'
      BY <2>8, Named
         DEF ForceClose, Emptied, Past, TypeOK, launching, programs, ends,
             managing, history
    <3>3. Ended' /\ Closed' /\ Watched' /\ Kept' /\ Written'
      BY <2>8
         DEF ForceClose, Ended, Closed, Watched, Kept, Written, Past,
             launching, programs, ends, managing, history
    <3> QED
      BY <3>1, <3>2, <3>3
  <2>9. ASSUME NEW t \in Threads, Return(t)
        PROVE  Later'
    <3>1. Closed'
      BY <2>9, Named
         DEF Return, Closed, Past, TypeOK, launching, programs, ends, managing,
             history
    <3>2. Watched'
      BY <2>9, Named
         DEF Return, Watched, Past, TypeOK, launching, programs, ends,
             managing, history
    <3>3. Forced'
      BY <2>9, Named
         DEF Return, Forced, Past, TypeOK, launching, programs, ends, managing,
             history
    <3>4. Emptied'
      BY <2>9, Named
         DEF Return, Emptied, Past, TypeOK, launching, programs, ends,
             managing, history
    <3>5. Written'
      BY <2>9, Named
         DEF Return, Written, Past, TypeOK, launching, programs, ends,
             managing, history
    <3>6. Ended' /\ Kept'
      BY <2>9
         DEF Return, Ended, Kept, launching, programs, ends, managing, history
    <3> QED
      BY <3>1, <3>2, <3>3, <3>4, <3>5, <3>6
  <2>10. ASSUME NEW t \in Threads, KillForThread(t)
        PROVE  Later'
    <3>1. Ended'
      BY <2>10, Named
         DEF KillForThread, Managed, Ended, TypeOK, launching, programs, ends,
             managing, history
    <3>2. Closed'
      BY <2>10, Named
         DEF KillForThread, Managed, Closed, Past, TypeOK, launching, programs,
             ends, managing, history
    <3>3. Watched'
      BY <2>10, Named
         DEF KillForThread, Managed, Watched, Past, TypeOK, launching,
             programs, ends, managing, history
    <3>4. Forced'
      BY <2>10, Named
         DEF KillForThread, Managed, Forced, Past, TypeOK, launching, programs,
             ends, managing, history
    <3>5. Kept' /\ Emptied' /\ Written'
      BY <2>10
         DEF KillForThread, Kept, Emptied, Written, Past, launching, programs,
             ends, managing, history
    <3> QED
      BY <3>1, <3>2, <3>3, <3>4, <3>5
  <2>11. ASSUME NEW t \in Threads, NEW i \in 1 .. Last[t], CheckProcess(<<t, i>>)
        PROVE  Later'
    <3>1. Ended'
      BY <2>11, Named
         DEF CheckProcess, Has, Done, Ended, InJob, OutJob, TypeOK, launching,
             programs, ends, managing, history
    <3>2. Watched'
      BY <2>11, Named
         DEF CheckProcess, Has, Done, Watched, Past, InJob, OutJob, TypeOK,
             launching, programs, ends, managing, history
    <3>3. Forced'
      <4>1. /\ prog[<<t, i>>] = "exited" /\ <<t, i>> \in Programs
            /\ prog' = [prog EXCEPT ![<<t, i>>] = "reaped"]
            /\ \A u \in Threads : work'[u] \subseteq work[u]
            /\ UNCHANGED <<pc, reads, force>>
        BY <2>11, Named DEF CheckProcess, Done, TypeOK, ends
      <4>2. reads[<<t, i>>] = {}
        BY <4>1 DEF Ended
      <4> QED
        BY <4>1, <4>2 DEF Forced, Past, TypeOK
    <3>4. Emptied'
      BY <2>11, Named
         DEF CheckProcess, Has, Done, Emptied, Past, InJob, OutJob, TypeOK,
             launching, programs, ends, managing, history
    <3>5. Written'
      BY <2>11, Named
         DEF CheckProcess, Has, Done, Written, Past, InJob, OutJob, TypeOK,
             launching, programs, ends, managing, history
    <3>6. Closed' /\ Kept'
      BY <2>11
         DEF CheckProcess, Closed, Kept, Past, launching, programs, ends,
             managing, history
    <3> QED
      BY <3>1, <3>2, <3>3, <3>4, <3>5, <3>6
  <2>12. ASSUME NEW q \in Programs, Exec(q)
        PROVE  Later'
    <3>1. Ended'
      BY <2>12, Named
         DEF Exec, Ended, TypeOK, launching, programs, ends, managing, history
    <3>2. Closed'
      BY <2>12, Named
         DEF Exec, Closed, Past, TypeOK, launching, programs, ends, managing,
             history
    <3>3. Watched'
      BY <2>12, Named
         DEF Exec, Watched, Past, TypeOK, launching, programs, ends, managing,
             history
    <3>4. Forced'
      BY <2>12, Named
         DEF Exec, Forced, Past, TypeOK, launching, programs, ends, managing,
             history
    <3>5. Kept' /\ Emptied' /\ Written'
      BY <2>12
         DEF Exec, Kept, Emptied, Written, Past, launching, programs, ends,
             managing, history
    <3> QED
      BY <3>1, <3>2, <3>3, <3>4, <3>5
  <2>13. ASSUME NEW q \in Programs, Read(q)
        PROVE  Later'
    <3>1. Kept'
      <4>1. \A u \in Captured : <<u, Last[u]>> \in Pipes /\ <<u, Last[u]>> # In(q)
        BY Named, PipelineAssumption DEF In
      <4> QED
        BY <2>13, <4>1 DEF Read, Kept, TypeOK, managing
    <3>2. Emptied'
      BY <2>13, Named
         DEF Read, Emptied, Past, TypeOK, launching, programs, ends, managing,
             history
    <3>3. Ended' /\ Closed' /\ Watched' /\ Forced' /\ Written'
      BY <2>13
         DEF Read, Ended, Closed, Watched, Forced, Written, Past, launching,
             programs, ends, managing, history
    <3> QED
      BY <3>1, <3>2, <3>3
  <2>14. ASSUME NEW q \in Programs, Write(q)
        PROVE  Later'
    <3>1. Kept'
      <4> SUFFICES ASSUME NEW u \in Captured
                   PROVE  amount'[<<u, Last[u]>>] + out'[u] = put'[<<u, Last[u]>>]
        BY DEF Kept
      <4>1. /\ <<u, Last[u]>> \in Pipes /\ <<u, Last[u]>> \in Programs /\ Out(q) = q
            /\ amount[<<u, Last[u]>>] \in Nat /\ out[u] \in Nat /\ put[<<u, Last[u]>>] \in Nat
        BY Named, PipelineAssumption DEF Out, TypeOK
      <4>2. /\ amount' = [amount EXCEPT ![q] = @ + 1] /\ put' = [put EXCEPT ![q] = @ + 1]
            /\ out' = out
        BY <2>14, <4>1 DEF Write, managing
      <4>3. CASE q = <<u, Last[u]>>
        BY <4>1, <4>2, <4>3 DEF Kept, TypeOK
      <4>4. CASE q # <<u, Last[u]>>
        BY <4>1, <4>2, <4>4 DEF Kept, TypeOK
      <4> QED
        BY <4>3, <4>4
    <3>2. Emptied'
      <4> SUFFICES ASSUME NEW u \in Captured, Past(u), OutJob \notin work[u]
                   PROVE  force[u] /\ amount'[<<u, Last[u]>>] = 0
        BY <2>14 DEF Write, Emptied, Past, managing
      <4>1. force[u] /\ amount[<<u, Last[u]>>] = 0 /\ u \in Threads
        BY PipelineAssumption DEF Emptied
      <4>2. Last[u] \in 1 .. Last[u] /\ Last[u] \notin work[u] /\ <<u, Last[u]>> \in Pipes /\ Out(q) = q
        <5>1. work[u] \subseteq {InJob, OutJob} /\ Last[u] \in Nat \ {0} /\ <<u, Last[u]>> \in Pipes
          BY <4>1, Named DEF Forced
        <5>2. Out(q) = q
          BY Named DEF Out
        <5> QED
          BY <5>1, <5>2 DEF InJob, OutJob
      <4>3. q # <<u, Last[u]>>
        BY <2>14, <4>1, <4>2 DEF Watched, Write
      <4> QED
        BY <2>14, <4>1, <4>2, <4>3 DEF Write, TypeOK
    <3>3. Ended' /\ Closed' /\ Watched' /\ Forced' /\ Written'
      BY <2>14
         DEF Write, Ended, Closed, Watched, Forced, Written, Past, launching,
             programs, ends, managing, history
    <3> QED
      BY <3>1, <3>2, <3>3
  <2>15. ASSUME NEW q \in Programs, prog[q] \in {"forked", "runs"}, Exits(q)
        PROVE  Later'
    <3>1. Ended'
      BY <2>15, Named
         DEF Exits, Ended, TypeOK, launching, programs, ends, managing, history
    <3>2. Closed'
      BY <2>15, Named
         DEF Exits, Closed, Past, TypeOK, launching, programs, ends, managing,
             history
    <3>3. Watched'
      BY <2>15, Named
         DEF Exits, Watched, Past, TypeOK, launching, programs, ends, managing,
             history
    <3>4. Forced'
      BY <2>15, Named
         DEF Exits, Forced, Past, TypeOK, launching, programs, ends, managing,
             history
    <3>5. Kept' /\ Emptied' /\ Written'
      BY <2>15
         DEF Exits, Kept, Emptied, Written, Past, launching, programs, ends,
             managing, history
    <3> QED
      BY <3>1, <3>2, <3>3, <3>4, <3>5
  <2>16. CASE UNCHANGED vars
    <3>1. Ended' /\ Closed' /\ Watched' /\ Forced' /\ Kept' /\ Emptied' /\ Written'
      BY <2>16
         DEF vars, Ended, Closed, Watched, Forced, Kept, Emptied, Written,
             Past, launching, programs, ends, managing, history
    <3> QED
      BY <3>1
  <2> QED
    BY <2>1, <2>2, <2>3, <2>4, <2>5, <2>6, <2>7, <2>8, <2>9,
       <2>10, <2>11, <2>12, <2>13, <2>14, <2>15, <2>16
       DEF Next, Thread, Launch, Manage, Program, ExecFails, BrokenPipe, Finish, Quit
<1> QED
  BY <1>1

(* What the parent has closed, forced and emptied stays so.                *)
LEMMA LaterHolds == Spec => []Later
<1>1. Init => Later
  <2> SUFFICES ASSUME Init
               PROVE  Later
    OBVIOUS
  <2>1. \A t \in Threads : ~Past(t) /\ ~force[t] /\ pc[t] # "returned"
    BY DEF Init, Past
  <2>2. Ended /\ Closed
    BY Named DEF Init, Ended, Closed
  <2>3. Kept
    <3>1. ASSUME NEW t \in Captured
          PROVE  amount[<<t, Last[t]>>] = 0 /\ out[t] = 0 /\ put[<<t, Last[t]>>] = 0
      <4>1. t \in Threads /\ <<t, Last[t]>> \in Pipes /\ <<t, Last[t]>> \in Programs
        <5>1. t \in Threads
          BY PipelineAssumption
        <5>2. Last[t] \in Nat \ {0}
          BY <5>1, Named
        <5>3. Last[t] \in 1 .. Last[t]
          BY <5>2
        <5> QED
          BY <5>1, <5>3, Named
      <4> QED
        BY <4>1 DEF Init
    <3> QED
      BY <3>1 DEF Kept
  <2> QED
    BY <2>1, <2>2, <2>3, PipelineAssumption
       DEF Later, Watched, Forced, Emptied, Written
<1> QED
  BY <1>1, LaterStep, TypeCorrect, PTL DEF Spec

(* When communicate returns, every program has been waited for, the output *)
(* is all that the last one wrote, and the input has gone into the pipe:   *)
(* for any threads, pipelines, inputs and capacities.                      *)
THEOREM ReturnedWholeHolds == Spec => []ReturnedWhole
<1>1. TypeOK /\ Later => ReturnedWhole
  <2> SUFFICES ASSUME TypeOK, Later, NEW t \in Threads, pc[t] = "returned"
               PROVE  /\ \A i \in 1 .. Last[t] : prog[<<t, i>>] = "reaped"
                      /\ t \in Captured => out[t] = put[<<t, Last[t]>>]
                      /\ nin[t] = Input[t] \/ crossed
    BY DEF ReturnedWhole
  <2>1. Past(t) /\ work[t] = {}
    BY DEF Past, Later, Watched
  <2>2. \A i \in 1 .. Last[t] : prog[<<t, i>>] = "reaped"
    BY <2>1 DEF Later, Watched
  <2>3. t \in Captured => out[t] = put[<<t, Last[t]>>]
    BY <2>1 DEF Later, Kept, Emptied, TypeOK
  <2>4. nin[t] = Input[t] \/ crossed
    BY <2>1 DEF Later, Written
  <2> QED
    BY <2>2, <2>3, <2>4
<1> QED
  BY <1>1, LaterHolds, TypeCorrect, PTL

-----------------------------------------------------------------------------
(* Who holds which end of a pipe: a program that runs its own two, the     *)
(* parent those of the program it is launching, and later those of the     *)
(* input that is not written and of the output.                            *)
Clean ==
  \A q \in Programs :
    /\ prog[q] \in {"none", "exited", "reaped"} => writes[q] = {}
    /\ prog[q] = "runs" => writes[q] \subseteq {Out(q)}

Fed ==
  \A k \in writes[Parent] :
    \/ k[2] = 0 /\ (Past(k[1]) => InJob \in work[k[1]])
    \/ k[2] = at[k[1]] /\ pc[k[1]] \in {"fork", "close"}

Drained ==
  \A k \in reads[Parent] :
    k[2] >= at[k[1]] - 1 /\ (Past(k[1]) => k[2] >= Last[k[1]])

Born ==
  \A q \in Programs : prog[q] = "none" =>
    /\ ~Past(q[1]) /\ q[2] >= at[q[1]]
    /\ pc[q[1]] = "close" => q[2] # at[q[1]]

(* A program that has been waited for is no job of manage's any more.      *)
Waited ==
  \A q \in Programs : prog[q] = "reaped" => Past(q[1]) /\ q[2] \notin work[q[1]]

Owned == Clean /\ Fed /\ Drained /\ Born

(* A pipe is named by its thread and place; place 0 needs an input.        *)
LEMMA PipeNames ==
  \A k \in Pipes : /\ k[1] \in Threads /\ k[2] \in 0 .. Last[k[1]] /\ k = <<k[1], k[2]>>
                   /\ k[2] = 0 => Input[k[1]] > 0
<1> SUFFICES ASSUME NEW k \in Pipes
             PROVE  /\ k[1] \in Threads /\ k[2] \in 0 .. Last[k[1]] /\ k = <<k[1], k[2]>>
                    /\ k[2] = 0 => Input[k[1]] > 0
  OBVIOUS
<1>1. k \in Threads \X UNION {0 .. Last[t] : t \in Threads} /\ k[2] <= Last[k[1]]
      /\ (k[2] = 0 => Input[k[1]] > 0)
  BY DEF Pipes
<1>2. PICK t \in Threads : k[2] \in 0 .. Last[t]
  BY <1>1
<1>3. k[1] \in Threads /\ k = <<k[1], k[2]>> /\ Last[k[1]] \in Nat /\ Last[t] \in Nat
  BY <1>1, Named
<1> QED
  BY <1>1, <1>2, <1>3

(* Nothing changes for the parent's ends and for unborn programs.          *)
LEMMA OwnedQuiet ==
  ASSUME TypeOK, Owned, pc' = pc, at' = at,
         \A t \in Threads : InJob \in work[t] => InJob \in work'[t],
         reads'[Parent] = reads[Parent], writes'[Parent] = writes[Parent],
         \A q \in Programs :
           /\ prog'[q] = "none" => prog[q] = "none"
           /\ \/ prog'[q] = prog[q] /\ writes'[q] = writes[q]
              \/ prog'[q] = "runs" /\ writes'[q] \subseteq {Out(q)}
              \/ prog'[q] \in {"exited", "reaped"} /\ writes'[q] = {}
  PROVE  Owned'
<1>1. Clean'
  BY DEF Owned, Clean
<1>2. Fed'
  <2>1. \A k \in writes[Parent] : k[1] \in Threads
    BY PipeNames, Named DEF TypeOK
  <2> QED
    BY <2>1 DEF Owned, Fed, Past
<1>3. Drained' /\ Born'
  BY DEF Owned, Drained, Born, Past
<1> QED
  BY <1>1, <1>2, <1>3 DEF Owned

(* Every step keeps the parent to the ends of the pipes it will close.     *)
LEMMA OwnedStep == TypeOK /\ Owned /\ Ended /\ [Next]_vars => Owned'
<1> SUFFICES ASSUME TypeOK, Owned, Ended, [Next]_vars PROVE Owned'
  OBVIOUS
<1> USE DEF Owned
<1>1. ASSUME NEW t \in Threads, MakePipes(t) PROVE Owned'
  <2>1. /\ pc[t] = "pipe" /\ pc' = [pc EXCEPT ![t] = "fork"]
        /\ reads'[Parent] = reads[Parent] \cup NewPipes(<<t, at[t]>>)
        /\ writes'[Parent] = writes[Parent] \cup NewPipes(<<t, at[t]>>)
        /\ \A q \in Programs : reads'[q] = reads[q] /\ writes'[q] = writes[q]
        /\ UNCHANGED <<at, prog, work>>
    BY <1>1, Named DEF MakePipes, programs, managing, TypeOK
  <2>2. /\ \A u \in Threads : pc'[u] = IF u = t THEN "fork" ELSE pc[u]
        /\ at[t] \in Nat \ {0}
    BY <2>1 DEF TypeOK
  <2>3. \A k \in NewPipes(<<t, at[t]>>) :
          /\ k[1] = t /\ (k[2] = at[t] \/ (k[2] = 0 /\ at[t] = 1))
    BY DEF NewPipes, In, Out
  <2>4. \A k \in reads[Parent] \cup writes[Parent] : k[1] \in Threads
    BY PipeNames, Named DEF TypeOK
  <2>5. Clean'
    BY <2>1 DEF Clean
  <2>6. Fed'
    BY <2>1, <2>2, <2>3, <2>4 DEF Fed, Past
  <2>7. Drained'
    BY <2>1, <2>2, <2>3, <2>4 DEF Drained, Past
  <2>8. Born'
    BY <2>1, <2>2, Named DEF Born, Past
  <2> QED
    BY <2>5, <2>6, <2>7, <2>8
<1>2. ASSUME NEW t \in Threads, Fork(t) PROVE Owned'
  <2>0. <<t, at[t]>> \in Programs
    BY Named DEF TypeOK
  <2>1. /\ pc[t] = "fork" /\ pc' = [pc EXCEPT ![t] = "close"]
        /\ reads'[Parent] = reads[Parent] /\ writes'[Parent] = writes[Parent]
        /\ prog'[<<t, at[t]>>] \in {"forked", "stuck"}
        /\ \A q \in Programs : q # <<t, at[t]>> => prog'[q] = prog[q] /\ writes'[q] = writes[q]
        /\ UNCHANGED <<at, work>>
    BY <1>2, <2>0, Named DEF Fork, launching, managing, TypeOK
  <2>2. \A u \in Threads : pc'[u] = IF u = t THEN "close" ELSE pc[u]
    BY <2>1 DEF TypeOK
  <2>3. \A k \in reads[Parent] \cup writes[Parent] : k[1] \in Threads
    BY PipeNames, Named DEF TypeOK
  <2>4. Clean'
    BY <2>1 DEF Clean
  <2>5. Fed'
    BY <2>1, <2>2, <2>3 DEF Fed, Past
  <2>6. Drained'
    BY <2>1, <2>2, <2>3 DEF Drained, Past
  <2>7. Born'
    <3> SUFFICES ASSUME NEW q \in Programs, prog'[q] = "none"
                 PROVE  /\ ~Past(q[1])' /\ q[2] >= at'[q[1]]
                        /\ pc'[q[1]] = "close" => q[2] # at'[q[1]]
      BY DEF Born
    <3>1. q # <<t, at[t]>> /\ prog[q] = "none" /\ q[1] \in Threads /\ q = <<q[1], q[2]>>
      BY <2>1, Named
    <3>2. q[1] = t => q[2] # at[t]
      BY <3>1
    <3> QED
      BY <2>1, <2>2, <3>1, <3>2 DEF Born, Past
  <2> QED
    BY <2>4, <2>5, <2>6, <2>7
<1>3. ASSUME NEW t \in Threads, CloseEnds(t) PROVE Owned'
  <2>0. at[t] \in Nat \ {0} /\ at[t] <= Last[t] /\ Last[t] \in Nat
    BY Named DEF TypeOK
  <2>1. /\ pc[t] = "close" /\ prog' = prog
        /\ reads'[Parent] = reads[Parent] \ {<<t, at[t] - 1>>}
        /\ writes'[Parent] = writes[Parent] \ {<<t, at[t]>>}
        /\ \A q \in Programs : writes'[q] = writes[q]
    BY <1>3, Named DEF CloseEnds, programs, TypeOK, In, Out
  <2>2. /\ \A u \in Threads : u # t => pc'[u] = pc[u] /\ at'[u] = at[u] /\ work'[u] = work[u]
        /\ \/ at[t] < Last[t] /\ pc'[t] = "pipe" /\ at'[t] = at[t] + 1
           \/ at[t] = Last[t] /\ pc'[t] = "manage" /\ work'[t] = Jobs(t) /\ at'[t] = at[t]
    <3>0. /\ pc = [u \in Threads |-> pc[u]] /\ at = [u \in Threads |-> at[u]]
          /\ work = [u \in Threads |-> work[u]]
      BY DEF TypeOK
    <3>1. CASE at[t] < Last[t]
      <4>1. /\ at' = [at EXCEPT ![t] = @ + 1] /\ pc' = [pc EXCEPT ![t] = "pipe"]
            /\ work' = work
        BY <1>3, <3>1 DEF CloseEnds
      <4> QED
        BY <3>0, <3>1, <4>1
    <3>2. CASE ~(at[t] < Last[t])
      <4>1. /\ at' = at /\ pc' = [pc EXCEPT ![t] = "manage"]
            /\ work' = [work EXCEPT ![t] = Jobs(t)]
        BY <1>3, <3>2 DEF CloseEnds
      <4>2. at[t] = Last[t]
        BY <2>0, <3>2
      <4> QED
        BY <3>0, <4>1, <4>2
    <3> QED
      BY <3>1, <3>2
  <2>3. \A k \in reads[Parent] \cup writes[Parent] :
          k \in Pipes /\ k[1] \in Threads /\ k = <<k[1], k[2]>> /\ k[2] \in 0 .. Last[k[1]]
    BY PipeNames, Named DEF TypeOK
  <2>4. Clean'
    BY <2>1 DEF Clean
  <2>5. Fed'
    <3> SUFFICES ASSUME NEW k \in writes'[Parent]
                 PROVE  \/ k[2] = 0 /\ (Past(k[1])' => InJob \in work'[k[1]])
                        \/ k[2] = at'[k[1]] /\ pc'[k[1]] \in {"fork", "close"}
      BY DEF Fed
    <3>1. k \in writes[Parent] /\ k # <<t, at[t]>> /\ k = <<k[1], k[2]>> /\ k[1] \in Threads
      BY <2>1, <2>3
    <3>2. CASE k[1] # t
      BY <2>2, <3>1, <3>2 DEF Fed, Past
    <3>3. CASE k[1] = t
      <4>1. k[2] = 0
        BY <3>1, <3>3 DEF Fed
      <4>2. InJob \in Jobs(t)
        BY <2>3, <3>1, <3>3, <4>1, Named, PipeNames DEF Jobs, InJob, OutJob
      <4> QED
        BY <2>2, <3>3, <4>1, <4>2 DEF Past
    <3> QED
      BY <3>2, <3>3
  <2>6. Drained'
    <3> SUFFICES ASSUME NEW k \in reads'[Parent]
                 PROVE  k[2] >= at'[k[1]] - 1 /\ (Past(k[1])' => k[2] >= Last[k[1]])
      BY DEF Drained
    <3>1. k \in reads[Parent] /\ k # <<t, at[t] - 1>> /\ k = <<k[1], k[2]>> /\ k[1] \in Threads
          /\ k[2] \in Int
      BY <2>1, <2>3
    <3>2. CASE k[1] # t
      BY <2>2, <3>1, <3>2 DEF Drained, Past
    <3>3. CASE k[1] = t
      <4>1. k[2] >= at[t]
        BY <2>0, <3>1, <3>3 DEF Drained
      <4> QED
        BY <2>0, <2>2, <3>1, <3>3, <4>1 DEF Past
    <3> QED
      BY <3>2, <3>3
  <2>7. Born'
    <3> SUFFICES ASSUME NEW q \in Programs, prog'[q] = "none"
                 PROVE  /\ ~Past(q[1])' /\ q[2] >= at'[q[1]]
                        /\ pc'[q[1]] = "close" => q[2] # at'[q[1]]
      BY DEF Born
    <3>1. prog[q] = "none" /\ q[1] \in Threads /\ q[2] \in 1 .. Last[q[1]]
      BY <2>1, Named
    <3>2. CASE q[1] # t
      BY <2>2, <3>1, <3>2 DEF Born, Past
    <3>3. CASE q[1] = t
      <4>1. q[2] >= at[t] /\ q[2] # at[t] /\ q[2] <= Last[t] /\ q[2] \in Int
        BY <2>0, <2>1, <3>1, <3>3 DEF Born
      <4> QED
        BY <2>0, <2>2, <3>3, <4>1 DEF Past
    <3> QED
      BY <3>2, <3>3
  <2> QED
    BY <2>4, <2>5, <2>6, <2>7
<1>4. ASSUME NEW t \in Threads, Unlock(t) PROVE Owned'
  BY <1>4, OwnedQuiet DEF Unlock, programs, ends, managing, Clean
<1>5. ASSUME NEW t \in Threads, WriteIn(t) PROVE Owned'
  <2>1. /\ pc' = pc /\ at' = at /\ prog' = prog /\ reads' = reads
        /\ \A q \in Programs : writes'[q] = writes[q]
        /\ \A u \in Threads : u # t => work'[u] = work[u]
        /\ \/ work' = work /\ writes' = writes
           \/ writes'[Parent] = writes[Parent] \ {<<t, 0>>}
    BY <1>5, Named DEF WriteIn, Done, programs, TypeOK
  <2>2. \A k \in writes[Parent] : k[1] \in Threads /\ k = <<k[1], k[2]>>
    BY PipeNames, Named DEF TypeOK
  <2>3. Clean' /\ Drained' /\ Born'
    BY <2>1 DEF Clean, Drained, Born, Past
  <2>4. Fed'
    <3>1. CASE work' = work /\ writes' = writes
      BY <2>1, <3>1 DEF Fed, Past
    <3>2. CASE writes'[Parent] = writes[Parent] \ {<<t, 0>>}
      <4> SUFFICES ASSUME NEW k \in writes'[Parent]
                   PROVE  \/ k[2] = 0 /\ (Past(k[1])' => InJob \in work'[k[1]])
                          \/ k[2] = at'[k[1]] /\ pc'[k[1]] \in {"fork", "close"}
        BY DEF Fed
      <4>1. k \in writes[Parent] /\ k # <<t, 0>> /\ k = <<k[1], k[2]>> /\ k[1] \in Threads
        BY <2>2, <3>2
      <4>2. k[2] = 0 => k[1] # t
        BY <4>1
      <4> QED
        BY <2>1, <4>1, <4>2 DEF Fed, Past
    <3> QED
      BY <2>1, <3>1, <3>2
  <2> QED
    BY <2>3, <2>4
<1>6. ASSUME NEW t \in Threads, WriteFails(t) \/ Return(t) PROVE Owned'
  <2>1. /\ pc[t] = "manage" /\ pc'[t] \in {"raised", "returned"}
        /\ \A u \in Threads : u # t => pc'[u] = pc[u]
        /\ UNCHANGED <<at, work, reads, writes, prog>>
    BY <1>6 DEF WriteFails, Return, Has, launching, programs, ends, managing, TypeOK
  <2>2. \A k \in reads[Parent] \cup writes[Parent] : k[1] \in Threads
    BY PipeNames, Named DEF TypeOK
  <2>3. \A u \in Threads : (Past(u)' <=> Past(u))
    BY <2>1 DEF Past
  <2>4. Clean' /\ Drained' /\ Born'
    BY <2>1, <2>2, <2>3, Named DEF Clean, Drained, Born
  <2>5. Fed'
    BY <2>1, <2>2, <2>3 DEF Fed
  <2> QED
    BY <2>4, <2>5
<1>7. ASSUME NEW t \in Threads, ReadOut(t) PROVE Owned'
  <2>1. /\ pc' = pc /\ at' = at /\ prog' = prog /\ writes' = writes
        /\ reads'[Parent] \subseteq reads[Parent]
        /\ \A u \in Threads : InJob \in work[u] => InJob \in work'[u]
    <3>1. pc' = pc /\ at' = at /\ prog' = prog /\ writes' = writes
      BY <1>7 DEF ReadOut, programs
    <3>2. reads'[Parent] \subseteq reads[Parent]
      BY <1>7, Named DEF ReadOut, TypeOK
    <3>3. \A u \in Threads : InJob \in work[u] => InJob \in work'[u]
      BY <1>7 DEF ReadOut, Done, TypeOK, InJob, OutJob
    <3> QED
      BY <3>1, <3>2, <3>3
  <2>2. Clean' /\ Drained' /\ Born'
    BY <2>1 DEF Clean, Drained, Born, Past
  <2>3. \A k \in writes[Parent] : k[1] \in Threads
    BY PipeNames, Named DEF TypeOK
  <2>4. Fed'
    BY <2>1, <2>3 DEF Fed, Past
  <2> QED
    BY <2>2, <2>4
<1>8. ASSUME NEW t \in Threads, ForceClose(t) PROVE Owned'
  BY <1>8, OwnedQuiet DEF ForceClose, launching, programs, ends
<1>9. ASSUME NEW t \in Threads, KillForThread(t) PROVE Owned'
  BY <1>9, OwnedQuiet, Named DEF KillForThread, Managed, launching, managing, TypeOK
<1>10. ASSUME NEW t \in Threads, NEW i \in 1 .. Last[t], CheckProcess(<<t, i>>) PROVE Owned'
  <2>1. /\ UNCHANGED <<pc, at, reads, writes>>
        /\ prog[<<t, i>>] = "exited" /\ prog' = [prog EXCEPT ![<<t, i>>] = "reaped"]
        /\ work' = [work EXCEPT ![t] = @ \ {i}] /\ i # InJob
    BY <1>10, Named DEF CheckProcess, Done, launching, ends, InJob
  <2>2. \A u \in Threads : InJob \in work[u] => InJob \in work'[u]
    BY <2>1 DEF TypeOK
  <2> QED
    BY <2>1, <2>2, OwnedQuiet DEF TypeOK, Clean
<1>11. ASSUME NEW q \in Programs, Exec(q) PROVE Owned'
  BY <1>11, OwnedQuiet, Named DEF Exec, launching, managing, TypeOK
<1>12. ASSUME NEW q \in Programs, Exits(q) PROVE Owned'
  BY <1>12, OwnedQuiet, Named DEF Exits, launching, managing, TypeOK
<1>13. ASSUME NEW q \in Programs, Read(q) \/ Write(q) PROVE Owned'
  BY <1>13, OwnedQuiet DEF Read, Write, launching, managing, ends
<1>14. CASE UNCHANGED vars
  BY <1>14, OwnedQuiet DEF vars, launching, programs, ends, managing
<1> QED
  BY <1>1, <1>2, <1>3, <1>4, <1>5, <1>6, <1>7, <1>8, <1>9, <1>10, <1>11, <1>12,
     <1>13, <1>14
     DEF Next, Thread, Launch, Manage, Program, ExecFails, BrokenPipe, Finish, Quit

(* A step that reaps no program keeps Waited.                              *)
LEMMA WaitedQuiet ==
  ASSUME TypeOK, Waited,
         \A t \in Threads : Past(t) => Past(t)' /\ work'[t] \subseteq work[t],
         \A q \in Programs : prog'[q] = "reaped" => prog[q] = "reaped"
  PROVE  Waited'
  BY Named DEF Waited

(* Reaping a program takes it off the work of manage.                      *)
LEMMA WaitedStep == TypeOK /\ Waited /\ [Next]_vars => Waited'
<1> SUFFICES ASSUME TypeOK, Waited, [Next]_vars PROVE Waited'
  OBVIOUS
<1>1. ASSUME NEW t \in Threads, MakePipes(t) \/ Fork(t) \/ Unlock(t) PROVE Waited'
  BY <1>1, WaitedQuiet DEF MakePipes, Fork, Unlock, programs, managing, Past, TypeOK
<1>2. ASSUME NEW t \in Threads, CloseEnds(t) PROVE Waited'
  <2>1. ~Past(t) /\ prog' = prog
    BY <1>2 DEF CloseEnds, Past, programs
  <2>2. \A u \in Threads : u # t => pc'[u] = pc[u] /\ work'[u] = work[u]
    BY <1>2 DEF CloseEnds, TypeOK
  <2> QED
    BY <2>1, <2>2, WaitedQuiet DEF Past
<1>3. ASSUME NEW t \in Threads, WriteIn(t) \/ ReadOut(t) PROVE Waited'
  BY <1>3, WaitedQuiet DEF WriteIn, ReadOut, Done, programs, Past, TypeOK
<1>4. ASSUME NEW t \in Threads, WriteFails(t) \/ Return(t) \/ ForceClose(t) PROVE Waited'
  BY <1>4, WaitedQuiet DEF WriteFails, Return, ForceClose, programs, managing, Past, TypeOK
<1>5. ASSUME NEW t \in Threads, KillForThread(t) PROVE Waited'
  BY <1>5, WaitedQuiet DEF KillForThread, managing, Past
<1>6. ASSUME NEW t \in Threads, NEW i \in 1 .. Last[t], CheckProcess(<<t, i>>) PROVE Waited'
  <2>1. /\ pc' = pc /\ pc[t] = "manage"
        /\ work' = [work EXCEPT ![t] = @ \ {i}]
        /\ \A q \in Programs : q # <<t, i>> => prog'[q] = prog[q]
    BY <1>6 DEF CheckProcess, Has, Done, launching, TypeOK
  <2> SUFFICES ASSUME NEW q \in Programs, prog'[q] = "reaped"
               PROVE  Past(q[1])' /\ q[2] \notin work'[q[1]]
    BY DEF Waited
  <2>2. CASE q = <<t, i>>
    BY <2>1, <2>2 DEF Past, TypeOK
  <2>3. CASE q # <<t, i>>
    BY <2>1, <2>3, Named DEF Waited, Past, TypeOK
  <2> QED
    BY <2>2, <2>3
<1>7. ASSUME NEW q \in Programs, Exec(q) \/ Exits(q) PROVE Waited'
  BY <1>7, WaitedQuiet DEF Exec, Exits, managing, Past, TypeOK
<1>8. ASSUME NEW q \in Programs, Read(q) \/ Write(q) PROVE Waited'
  BY <1>8, WaitedQuiet DEF Read, Write, managing, Past
<1>9. CASE UNCHANGED vars
  BY <1>9, WaitedQuiet DEF vars, programs, managing, Past
<1> QED
  BY <1>1, <1>2, <1>3, <1>4, <1>5, <1>6, <1>7, <1>8, <1>9
     DEF Next, Thread, Launch, Manage, Program, ExecFails, BrokenPipe, Finish, Quit

(* Who has which end of which pipe, in every reachable state.              *)
LEMMA OwnedHolds == Spec => [](Owned /\ Waited)
<1>1. Init => Owned /\ Waited
  BY Named DEF Init, Owned, Clean, Fed, Drained, Born, Waited, Past
<1>2. QED
  <2>1. Later => Ended
    BY DEF Later
  <2> QED
    BY <1>1, <2>1, OwnedStep, WaitedStep, TypeCorrect, LaterHolds, PTL DEF Spec

-----------------------------------------------------------------------------
(* The order of the numbers, as a relation.                                *)
Below == {m \in Nat \X Nat : m[1] < m[2]}

(* A set of numbers has a least one.                                       *)
LEMMA LeastNumber ==
  ASSUME NEW S, S \subseteq Nat, S # {}
  PROVE  \E n \in S : \A m \in S : n <= m
<1>1. IsWellFoundedOn(Below, Nat)
  BY NatLessThanWellFounded DEF OpToRel, Below
<1>2. PICK n \in S : \A m \in S : ~ (<<m, n>> \in Below)
  BY <1>1, WFMin, Zenon
<1>3. ASSUME NEW m \in S PROVE n <= m
  <2>1. m \in Nat /\ n \in Nat
    OBVIOUS
  <2>2. m < n => <<m, n>> \in Below
    BY <2>1 DEF Below
  <2>3. ~(m < n)
    BY <1>2, <2>2
  <2> QED
    BY <2>1, <2>3
<1> QED
  BY <1>3

(* What a program that runs can do, and what manage can do next, when      *)
(* nobody else is about to give plock back.                                *)
Moves(q) ==
  /\ prog[q] = "runs"
  /\ \/ In(q) \in Pipes /\ amount[In(q)] > 0
     \/ HasMore(q) /\ (Wanted(Out(q)) => amount[Out(q)] < Cap)
     \/ ~HasMore(q) /\ AtEnd(q)

Goes(t) ==
  \/ work[t] = {}
  \/ InJob \in work[t] /\ (Wanted(<<t, 0>>) => amount[<<t, 0>>] < Cap \/ force[t])
  \/ OutJob \in work[t] /\ (amount[<<t, Last[t]>>] > 0 \/ force[t])
  \/ work[t] \subseteq {InJob, OutJob} /\ ~force[t]
  \/ \E i \in 1 .. Last[t] : i \in work[t] /\ prog[<<t, i>>] = "exited"

(* A pipeline of any number of programs does not deadlock: while manage    *)
(* watches it, no child is stuck and all that were forked have execed,     *)
(* text can move, a program can end, or manage can go on.                  *)
NeverStuck ==
  \A t \in Threads :
    pc[t] = "manage" /\ ~crossed /\ (\A q \in Programs : prog[q] # "forked") =>
      Goes(t) \/ \E i \in 1 .. Last[t] : Moves(<<t, i>>)

(* The argument takes the first program of the pipeline that still runs:   *)
(* whoever it waits for has ended, so it can move or the parent can.       *)
THEOREM NeverStuckHolds == Spec => []NeverStuck
<1>1. TypeOK /\ Later /\ Owned /\ Waited => NeverStuck
  <2> SUFFICES ASSUME TypeOK, Later, Owned, Waited, NEW t \in Threads, pc[t] = "manage", ~crossed,
                      \A q \in Programs : prog[q] # "forked", ~Goes(t),
                      \A i \in 1 .. Last[t] : ~Moves(<<t, i>>)
               PROVE  FALSE
    BY DEF NeverStuck
  <2>0. Past(t) /\ Last[t] \in Nat \ {0} /\ Cap \in Nat \ {0}
    BY Named, PipelineAssumption DEF Past
  <2>1. \A q \in Programs : prog[q] \in {"none", "runs", "exited", "reaped"}
    BY DEF TypeOK, Later, Ended
  <2>2. \A p \in Programs : prog[p] # "runs" => reads[p] = {} /\ writes[p] = {}
    BY <2>1 DEF Later, Ended, Owned, Clean
  <2>3. \A i \in 1 .. Last[t] : prog[<<t, i>>] \in {"runs", "reaped"}
    <3> SUFFICES ASSUME NEW i \in 1 .. Last[t] PROVE prog[<<t, i>>] \in {"runs", "reaped"}
      OBVIOUS
    <3>1. <<t, i>> \in Programs
      BY Named
    <3>2. prog[<<t, i>>] # "none"
      BY <2>0, <3>1 DEF Owned, Born
    <3>3. i \notin work[t] => prog[<<t, i>>] = "reaped"
      BY <2>0 DEF Later, Watched
    <3>4. prog[<<t, i>>] # "exited"
      BY <3>3 DEF Goes
    <3> QED
      BY <2>1, <3>1, <3>2, <3>4
  <2>4. CASE \A i \in 1 .. Last[t] : prog[<<t, i>>] = "reaped"
    <3>1. \A i \in 1 .. Last[t] : i \notin work[t]
      BY <2>4, Named DEF Waited
    <3>2. work[t] \subseteq {InJob, OutJob}
      <4> SUFFICES ASSUME NEW j \in work[t] PROVE j \in {InJob, OutJob}
        OBVIOUS
      <4>1. j \in -1 .. Last[t]
        BY DEF TypeOK, Jobs
      <4>2. j = -1 \/ j = 0 \/ j \in 1 .. Last[t]
        BY <2>0, <4>1
      <4> QED
        BY <3>1, <4>2 DEF InJob, OutJob
    <3> QED
      BY <3>2 DEF Goes
  <2>5. CASE \E i \in 1 .. Last[t] : prog[<<t, i>>] = "runs"
    <3>1. PICK i \in 1 .. Last[t] : /\ prog[<<t, i>>] = "runs"
                                    /\ \A j \in 1 .. Last[t] : prog[<<t, j>>] = "runs" => i <= j
      <4>1. {k \in 1 .. Last[t] : prog[<<t, k>>] = "runs"} # {}
        BY <2>5
      <4>2. PICK S : S = {k \in 1 .. Last[t] : prog[<<t, k>>] = "runs"}
        OBVIOUS
      <4>3. S \subseteq Nat /\ S # {}
        BY <2>0, <4>1, <4>2
      <4>4. PICK n \in S : \A m \in S : n <= m
        BY <4>3, LeastNumber, Zenon
      <4> QED
        BY <4>2, <4>4
    <3> DEFINE q == <<t, i>>
    <3>2. /\ q \in Programs /\ In(q) = <<t, i - 1>> /\ Out(q) = <<t, i>> /\ i \in Nat \ {0}
          /\ i <= Last[t]
      BY <2>0, Named DEF In, Out
    <3>3. i \in work[t]
      BY <2>0, <3>1 DEF Later, Watched
    <3>4. In(q) \in Pipes => amount[In(q)] = 0
      BY <3>1 DEF Moves, TypeOK
    <3>5. CASE HasMore(q)
      <4>1. Out(q) \in Pipes /\ Wanted(Out(q)) /\ amount[Out(q)] > 0
        BY <2>0, <3>1, <3>5 DEF Moves, HasMore, TypeOK
      <4>2. PICK p \in Processes : Out(q) \in reads[p]
        BY <4>1 DEF Wanted
      <4>3. CASE p = Parent
        <5>1. i = Last[t]
          BY <2>0, <3>2, <4>2, <4>3 DEF Owned, Drained
        <5>2. t \in Captured
          BY <3>2, <4>1, <5>1 DEF Pipes
        <5>3. OutJob \notin work[t]
          BY <3>2, <4>1, <5>1 DEF Goes
        <5>4. force[t]
          BY <2>0, <5>2, <5>3 DEF Later, Emptied
        <5>5. i \in {InJob, OutJob}
          BY <3>3, <5>4 DEF Later, Forced
        <5> QED
          BY <3>2, <5>5 DEF InJob, OutJob
      <4>4. CASE p \in Programs
        <5>1. prog[p] = "runs"
          BY <2>2, <4>2, <4>4
        <5>2. Out(q) = In(p)
          BY <4>2, <4>4, <5>1 DEF Later, Ended
        <5>3. /\ p[1] \in Threads /\ p[2] \in 1 .. Last[p[1]] /\ p = <<p[1], p[2]>>
              /\ p[1] = t
          BY <3>2, <4>4, <5>2, Named DEF In
        <5>4. Moves(<<t, p[2]>>)
          BY <4>1, <5>1, <5>2, <5>3 DEF Moves
        <5> QED
          BY <5>3, <5>4
      <4> QED
        BY <4>3, <4>4 DEF Processes
    <3>6. CASE ~HasMore(q)
      <4>1. In(q) \in Pipes /\ Open(In(q))
        BY <3>1, <3>4, <3>6 DEF Moves, AtEnd
      <4>2. PICK p \in Processes : In(q) \in writes[p]
        BY <4>1 DEF Open
      <4>3. CASE p = Parent
        <5>1. i = 1 /\ InJob \in work[t]
          <6>1. <<t, i - 1>>[1] = t /\ <<t, i - 1>>[2] = i - 1 /\ <<t, i - 1>> \in writes[Parent]
            BY <3>2, <4>2, <4>3
          <6>2. i - 1 = 0 /\ InJob \in work[t]
            BY <2>0, <6>1 DEF Owned, Fed
          <6> QED
            BY <3>2, <6>2
        <5>2. amount[<<t, 0>>] = 0
          BY <3>2, <3>4, <4>1, <5>1
        <5> QED
          BY <2>0, <5>1, <5>2 DEF Goes
      <4>4. CASE p \in Programs
        <5>1. prog[p] = "runs"
          BY <2>2, <4>2, <4>4
        <5>2. In(q) = Out(p)
          BY <4>2, <4>4, <5>1 DEF Owned, Clean
        <5>3. p = <<t, i - 1>> /\ i - 1 \in 1 .. Last[t]
          BY <3>2, <4>4, <5>2, Named DEF Out
        <5>4. i <= i - 1
          BY <3>1, <5>1, <5>3
        <5> QED
          BY <3>2, <5>4
      <4> QED
        BY <4>3, <4>4 DEF Processes
    <3> QED
      BY <3>5, <3>6
  <2> QED
    BY <2>3, <2>4, <2>5
<1>2. QED
  BY <1>1, TypeCorrect, LaterHolds, OwnedHolds, PTL

-----------------------------------------------------------------------------
(* The sum of a function's values, as the size of a set.                   *)
Below1(f) == UNION {{x} \X (1 .. f[x]) : x \in DOMAIN f}
Total(f)  == Cardinality(Below1(f))

(* How far a thread has come, with what it has written and read, and how   *)
(* far a program has.                                                      *)
Ticks(b) == IF b THEN 1 ELSE 0
Over(t, j) == Past(t) /\ j \in Jobs(t) \ work[t]
At(t) ==
  CASE pc[t] = "pipe"   -> 0
    [] pc[t] = "fork"   -> 1
    [] pc[t] = "close"  -> 2
    [] pc[t] = "manage" -> 3
    [] OTHER            -> 4
Come(t) ==
  4 * at[t] + At(t) + nin[t] + out[t]
    + Ticks(Over(t, InJob)) + Ticks(Over(t, OutJob)) + Ticks(force[t]) + Ticks(killed[t])

Life(q) ==
  CASE prog[q] = "none"              -> 0
    [] prog[q] \in {"forked", "stuck"} -> 1
    [] prog[q] = "runs"              -> 2
    [] prog[q] = "exited"            -> 3
    [] OTHER                         -> 4
Lived(q) == Life(q) + got[q] + put[q]

Progress ==
  2 * (Total([t \in Threads |-> Come(t)]) + Total([q \in Programs |-> Lived(q)]))
    + Ticks(plock = Nobody)

(* What a thread's programs can read or write, each.                       *)
Limit(t) == Input[t] + MaxOut
Most ==
  2 * (Total([t \in Threads |-> 4 * Last[t] + 8 + Input[t] + Limit(t)])
       + Total([q \in Programs |-> 4 + 2 * Limit(q[1])])) + 1

(* The programs that launch has not come to are not there yet.             *)
Unborn ==
  \A q \in Programs :
    ~Past(q[1]) /\ q[2] >= at[q[1]] /\ (pc[q[1]] = "close" => q[2] # at[q[1]])
      => prog[q] = "none"

(* What has gone into a pipe has come out or is in it.                     *)
Flow ==
  \A q \in Programs : In(q) \in Pipes =>
    got[q] + amount[In(q)] = IF q[2] = 1 THEN nin[q[1]] ELSE put[In(q)]

Limited ==
  /\ \A q \in Programs : got[q] <= Limit(q[1]) /\ put[q] <= Limit(q[1])
  /\ \A t \in Threads : out[t] <= Limit(t)

(* A function with finitely many values that are numbers has a sum; one    *)
(* that is nowhere less has one that is not less, and greater if it is     *)
(* greater somewhere.                                                      *)
LEMMA TotalIsFinite ==
  ASSUME NEW X, IsFiniteSet(X), NEW f \in [X -> Nat]
  PROVE  IsFiniteSet(Below1(f)) /\ Total(f) \in Nat
<1> DEFINE h == [x \in X |-> {x} \X (1 .. f[x])]
           T == {h[x] : x \in X}
<1>1. Below1(f) = UNION T
  BY DEF Below1
<1>2. h \in Surjection(X, T)
  BY DEF Surjection
<1> HIDE DEF T
<1>3. IsFiniteSet(T)
  BY <1>2, FS_Surjection
<1>4. ASSUME NEW x \in X PROVE IsFiniteSet({x} \X (1 .. f[x]))
  <2>1. PICK n \in Nat : n = f[x]
    OBVIOUS
  <2>2. IsFiniteSet(1 .. n)
    BY 1 \in Int, n \in Int, FS_Interval
  <2>3. IsFiniteSet({x})
    BY FS_Singleton
  <2> QED
    BY <2>1, <2>2, <2>3, FS_Product
<1>5. \A S \in T : IsFiniteSet(S)
  BY <1>4 DEF T
<1>6. IsFiniteSet(UNION T)
  BY <1>3, <1>5, FS_UNION
<1> QED
  BY <1>1, <1>6, FS_CardinalityType DEF Total

(* Sums of functions compare as the functions do.                          *)
LEMMA TotalGrows ==
  ASSUME NEW X, IsFiniteSet(X), NEW f \in [X -> Nat], NEW g \in [X -> Nat],
         \A x \in X : f[x] <= g[x]
  PROVE  /\ Total(f) \in Nat /\ Total(g) \in Nat /\ Total(f) <= Total(g)
         /\ (\E x \in X : f[x] < g[x]) => Total(f) < Total(g)
<1>1. /\ IsFiniteSet(Below1(f)) /\ Total(f) \in Nat
      /\ IsFiniteSet(Below1(g)) /\ Total(g) \in Nat
  BY TotalIsFinite
<1>2. \A x \in X : 1 .. f[x] \subseteq 1 .. g[x]
  <2> SUFFICES ASSUME NEW x \in X, NEW n \in 1 .. f[x] PROVE n \in 1 .. g[x]
    OBVIOUS
  <2>1. PICK a \in Nat, b \in Nat : a = f[x] /\ b = g[x] /\ a <= b
    OBVIOUS
  <2> QED
    BY <2>1
<1>3. Below1(f) \in SUBSET Below1(g)
  BY <1>2 DEF Below1
<1>4. /\ Total(f) <= Total(g)
      /\ Total(f) = Total(g) => Below1(f) = Below1(g)
  BY <1>1, <1>3, FS_Subset DEF Total
<1>5. ASSUME NEW x \in X, f[x] < g[x] PROVE Below1(f) # Below1(g)
  <2>1. PICK a \in Nat, b \in Nat : a = f[x] /\ b = g[x] /\ a < b
    BY <1>5
  <2>2. b \in 1 .. g[x] /\ b \notin 1 .. f[x]
    BY <2>1
  <2>3. <<x, b>> \in Below1(g)
    BY <2>2 DEF Below1
  <2>4. <<x, b>> \notin Below1(f)
    BY <2>2 DEF Below1
  <2> QED
    BY <2>3, <2>4
<1>6. Below1(f) # Below1(g) => Total(f) < Total(g)
  <2>1. PICK a \in Nat, b \in Nat : a = Total(f) /\ b = Total(g)
    BY <1>1
  <2> QED
    BY <1>4, <2>1
<1> QED
  BY <1>1, <1>4, <1>5, <1>6

(* There are finitely many programs.                                       *)
LEMMA ProgramsFinite ==
  ASSUME IsFiniteSet(Threads)
  PROVE  IsFiniteSet(Programs)
<1>1. Last \in [Threads -> Nat]
  BY PipelineAssumption
<1>2. Programs \in SUBSET Below1(Last)
  <2>1. DOMAIN Last = Threads
    BY <1>1
  <2>2. ASSUME NEW q \in Programs
        PROVE  q \in {q[1]} \X (1 .. Last[q[1]]) /\ q[1] \in DOMAIN Last
    <3>1. q[1] \in Threads /\ q[2] \in 1 .. Last[q[1]] /\ q = <<q[1], q[2]>>
      BY Named
    <3> QED
      BY <2>1, <3>1
  <2> QED
    BY <2>2 DEF Below1
<1>3. IsFiniteSet(Below1(Last))
  BY <1>1, TotalIsFinite
<1> QED
  BY <1>2, <1>3, FS_Subset

-----------------------------------------------------------------------------
(* The pipe that a program reads is the one that the program before it     *)
(* writes, and no other program reads it.                                  *)
LEMMA Neighbours ==
  /\ \A q \in Programs : Out(q) = q /\ In(q) = <<q[1], q[2] - 1>>
  /\ \A q \in Programs : q[2] # 1 => In(q) \in Programs /\ In(q)[2] # 0
  /\ \A p, q \in Programs : In(p) = In(q) => p = q
  /\ \A q \in Programs : \A t \in Threads : In(q) # <<t, Last[t]>>
  /\ \A q \in Programs : \A t \in Threads : In(q) = <<t, 0>> <=> (q[1] = t /\ q[2] = 1)
<1>1. \A q \in Programs : Out(q) = q /\ In(q) = <<q[1], q[2] - 1>>
  BY Named DEF Out, In
<1>2. ASSUME NEW q \in Programs, q[2] # 1
      PROVE  In(q) \in Programs /\ In(q)[2] # 0
  <2>1. q[1] \in Threads /\ q[2] - 1 \in 1 .. Last[q[1]]
    BY <1>2, Named
  <2>2. <<q[1], q[2] - 1>> \in Programs
    BY <2>1, Named
  <2> QED
    BY <1>1, <2>1, <2>2
<1>3. ASSUME NEW p \in Programs, NEW q \in Programs, In(p) = In(q)
      PROVE  p = q
  <2>1. p[1] = q[1] /\ p[2] - 1 = q[2] - 1
    BY <1>1, <1>3
  <2>2. p[2] = q[2]
    BY <2>1, Named
  <2> QED
    BY <2>1, <2>2, Named
<1>4. ASSUME NEW q \in Programs, NEW t \in Threads
      PROVE  /\ In(q) # <<t, Last[t]>>
             /\ In(q) = <<t, 0>> <=> (q[1] = t /\ q[2] = 1)
  <2>1. q[1] \in Threads /\ q[2] \in 1 .. Last[q[1]] /\ Last[q[1]] \in Nat
    BY Named
  <2> QED
    BY <1>1, <2>1
<1> QED
  BY <1>1, <1>2, <1>3, <1>4

(* A step keeps count of the text in the pipes, and of the limits.         *)
LEMMA FlowStep ==
  TypeOK /\ Kept /\ Flow /\ Limited /\ [Next]_vars => Flow' /\ Limited'
<1> SUFFICES ASSUME TypeOK, Kept, Flow, Limited, [Next]_vars
             PROVE  Flow' /\ Limited'
  OBVIOUS
<1> DEFINE Same == UNCHANGED <<got, put, amount, nin, out>>
<1>0. /\ \A q \in Programs : got[q] \in Nat /\ put[q] \in Nat
      /\ \A k \in Pipes : amount[k] \in Nat
      /\ \A t \in Threads : nin[t] \in Nat /\ out[t] \in Nat /\ Limit(t) \in Nat /\ nin[t] <= Limit(t)
      /\ MaxOut \in Nat /\ \A t \in Threads : MaxOut <= Limit(t)
  BY Named, PipelineAssumption DEF TypeOK, Limit
<1>1. ASSUME NEW t \in Threads,
             MakePipes(t) \/ Fork(t) \/ CloseEnds(t) \/ Unlock(t)
               \/ WriteFails(t) \/ ForceClose(t) \/ Return(t) \/ KillForThread(t)
      PROVE  Same
  BY <1>1 DEF MakePipes, Fork, CloseEnds, Unlock, WriteFails, ForceClose, Return,
     KillForThread, programs, managing
<1>2. ASSUME NEW q \in Programs, Exec(q) \/ Exits(q) \/ CheckProcess(q)
      PROVE  Same
  BY <1>2 DEF Exec, Exits, CheckProcess, managing
<1>3. CASE UNCHANGED vars
  <2>1. Same
    BY <1>3 DEF vars, programs, managing
  <2> QED
    BY <2>1 DEF Flow, Limited, Limit
<1>4. CASE Same
  BY <1>4 DEF Flow, Limited, Limit
<1>5. ASSUME NEW t \in Threads, WriteIn(t) PROVE Flow' /\ Limited'
  <2>1. /\ t \in Threads /\ <<t, 0>> \in Pipes
    <3>1. InJob \in Jobs(t)
      BY <1>5 DEF WriteIn, Has, TypeOK
    <3> QED
      BY <3>1, Named DEF Jobs, InJob, OutJob
  <2>2. PICK n : /\ amount' = [amount EXCEPT ![<<t, 0>>] = @ + n]
                 /\ nin' = [nin EXCEPT ![t] = @ + n]
                 /\ n = IF Input[t] - nin[t] < Cap - amount[<<t, 0>>]
                        THEN Input[t] - nin[t] ELSE Cap - amount[<<t, 0>>]
    BY <1>5 DEF WriteIn
  <2>3. n \in Int
    BY <2>1, <2>2, Named, PipelineAssumption DEF TypeOK
  <2>4. got' = got /\ put' = put /\ out' = out
    BY <1>5 DEF WriteIn, programs
  <2>5. Limited'
    BY <2>4 DEF Limited, Limit
  <2>6. ASSUME NEW q \in Programs, In(q) \in Pipes
        PROVE  got'[q] + amount'[In(q)] = IF q[2] = 1 THEN nin'[q[1]] ELSE put'[In(q)]
    <3>1. q[1] \in Threads
      BY Named
    <3>2. CASE In(q) = <<t, 0>>
      <4>1. amount'[In(q)] = amount[In(q)] + n /\ nin'[q[1]] = nin[q[1]] + n /\ q[2] = 1
        BY <2>1, <2>2, <3>1, <3>2, Neighbours DEF TypeOK
      <4>2. got[q] + amount[In(q)] = nin[q[1]]
        BY <2>6, <4>1 DEF Flow
      <4> QED
        BY <1>0, <2>3, <2>4, <2>6, <3>1, <4>1, <4>2
    <3>3. CASE In(q) # <<t, 0>>
      <4>1. amount'[In(q)] = amount[In(q)] /\ ~(q[1] = t /\ q[2] = 1)
        BY <2>1, <2>2, <2>6, <3>3, Neighbours DEF TypeOK
      <4>2. q[2] = 1 => nin'[q[1]] = nin[q[1]]
        BY <2>2, <3>1, <4>1 DEF TypeOK
      <4> QED
        BY <2>4, <2>6, <4>1, <4>2 DEF Flow
    <3> QED
      BY <3>2, <3>3
  <2> QED
    BY <2>5, <2>6, Neighbours DEF Flow, In
<1>6. ASSUME NEW t \in Threads, ReadOut(t) PROVE Flow' /\ Limited'
  <2>1. t \in Captured /\ <<t, Last[t]>> \in Pipes /\ <<t, Last[t]>> \in Programs
    <3>1. OutJob \in Jobs(t)
      BY <1>6 DEF ReadOut, Has, TypeOK
    <3>2. t \in Captured /\ Last[t] \in 1 .. Last[t]
      BY <3>1, Named DEF Jobs, InJob, OutJob
    <3> QED
      BY <3>2, Named
  <2>2. /\ amount' = [amount EXCEPT ![<<t, Last[t]>>] = 0]
        /\ out' = [out EXCEPT ![t] = @ + amount[<<t, Last[t]>>]]
        /\ got' = got /\ put' = put /\ nin' = nin
    BY <1>6 DEF ReadOut, programs
  <2>3. \A q \in Programs : amount'[In(q)] = amount[In(q)] \/ In(q) \notin Pipes
    BY <2>2, Neighbours DEF TypeOK
  <2>4. Flow'
    BY <2>2, <2>3, Neighbours DEF Flow, In
  <2>5. out'[t] = put[<<t, Last[t]>>]
    <3>1. out'[t] = out[t] + amount[<<t, Last[t]>>]
      BY <2>2 DEF TypeOK
    <3>2. amount[<<t, Last[t]>>] + out[t] = put[<<t, Last[t]>>]
      BY <2>1 DEF Kept
    <3> QED
      BY <1>0, <2>1, <3>1, <3>2
  <2>6. out'[t] <= Limit(t)
    BY <2>1, <2>5 DEF Limited
  <2>7. \A u \in Threads : u # t => out'[u] = out[u]
    BY <2>2 DEF TypeOK
  <2>8. Limited'
    BY <2>2, <2>6, <2>7 DEF Limited, Limit
  <2> QED
    BY <2>4, <2>8
<1>7. ASSUME NEW p \in Programs, Read(p) PROVE Flow' /\ Limited'
  <2>1. /\ In(p) \in Pipes /\ amount[In(p)] > 0
        /\ amount' = [amount EXCEPT ![In(p)] = @ - 1]
        /\ got' = [got EXCEPT ![p] = @ + 1]
        /\ put' = put /\ nin' = nin /\ out' = out
    BY <1>7 DEF Read, managing
  <2>2. ASSUME NEW q \in Programs
        PROVE  /\ q = p => got'[q] = got[q] + 1 /\ amount'[In(q)] = amount[In(q)] - 1
               /\ q # p => got'[q] = got[q]
               /\ q # p /\ In(q) \in Pipes => amount'[In(q)] = amount[In(q)]
    BY <2>1, Neighbours DEF TypeOK
  <2>3. ASSUME NEW q \in Programs, In(q) \in Pipes
        PROVE  got'[q] + amount'[In(q)] = IF q[2] = 1 THEN nin'[q[1]] ELSE put'[In(q)]
    <3>1. got'[q] + amount'[In(q)] = got[q] + amount[In(q)]
      BY <1>0, <2>2, <2>3
    <3> QED
      BY <2>1, <2>3, <3>1 DEF Flow
  <2>4. Flow'
    BY <2>3, Neighbours DEF Flow, In
  <2>5. got'[p] <= Limit(p[1])
    <3>1. got[p] + amount[In(p)] <= Limit(p[1])
      <4>1. got[p] + amount[In(p)] = IF p[2] = 1 THEN nin[p[1]] ELSE put[In(p)]
        BY <2>1 DEF Flow
      <4>2. CASE p[2] = 1
        BY <1>0, <4>1, <4>2, Named
      <4>3. CASE p[2] # 1
        <5>1. In(p) \in Programs /\ In(p)[1] = p[1]
          BY <4>3, Neighbours
        <5>2. put[In(p)] <= Limit(p[1])
          BY <5>1 DEF Limited
        <5> QED
          BY <4>1, <4>3, <5>2
      <4> QED
        BY <4>2, <4>3
    <3>2. p[1] \in Threads
      BY Named
    <3> QED
      BY <1>0, <2>1, <2>2, <3>1, <3>2
  <2>6. Limited'
    BY <2>1, <2>2, <2>5 DEF Limited, Limit
  <2> QED
    BY <2>4, <2>6
<1>8. ASSUME NEW p \in Programs, Write(p) PROVE Flow' /\ Limited'
  <2>1. /\ p \in Pipes /\ HasMore(p)
        /\ amount' = [amount EXCEPT ![p] = @ + 1]
        /\ put' = [put EXCEPT ![p] = @ + 1]
        /\ got' = got /\ nin' = nin /\ out' = out
    BY <1>8, Neighbours DEF Write, HasMore, managing
  <2>2. ASSUME NEW q \in Programs, In(q) \in Pipes
        PROVE  got'[q] + amount'[In(q)] = IF q[2] = 1 THEN nin'[q[1]] ELSE put'[In(q)]
    <3>1. CASE In(q) = p
      <4>1. q[2] # 1
        BY <3>1, Named, Neighbours
      <4>2. amount'[In(q)] = amount[In(q)] + 1 /\ put'[In(q)] = put[In(q)] + 1
        BY <2>1, <3>1 DEF TypeOK
      <4>3. got[q] + amount[In(q)] = put[In(q)]
        BY <2>2, <4>1 DEF Flow
      <4> QED
        BY <1>0, <2>1, <2>2, <3>1, <4>1, <4>2, <4>3
    <3>2. CASE In(q) # p
      <4>1. amount'[In(q)] = amount[In(q)]
        BY <2>1, <2>2, <3>2 DEF TypeOK
      <4>2. q[2] # 1 => put'[In(q)] = put[In(q)]
        BY <2>1, <3>2, Neighbours DEF TypeOK
      <4> QED
        BY <2>1, <2>2, <4>1, <4>2 DEF Flow
    <3> QED
      BY <3>1, <3>2
  <2>3. Flow'
    BY <2>2, Neighbours DEF Flow, In
  <2>4. put'[p] <= Limit(p[1])
    <3>1. put'[p] = put[p] + 1 /\ p[1] \in Threads
      BY <2>1, Named DEF TypeOK
    <3>2. put[p] < got[p] \/ put[p] < MaxOut
      BY <2>1 DEF HasMore
    <3>3. got[p] <= Limit(p[1]) /\ MaxOut <= Limit(p[1]) /\ Limit(p[1]) \in Nat
      BY <1>0, <3>1 DEF Limited
    <3> QED
      BY <1>0, <3>1, <3>2, <3>3
  <2>5. \A q \in Programs : q # p => put'[q] = put[q]
    BY <2>1 DEF TypeOK
  <2>6. Limited'
    BY <2>1, <2>4, <2>5 DEF Limited, Limit
  <2> QED
    BY <2>3, <2>6
<1>9. CASE Next
  <2>1. CASE \E t \in Threads : Launch(t) \/ KillForThread(t)
    BY <1>1, <1>4, <2>1 DEF Launch
  <2>2. ASSUME NEW t \in Threads, Manage(t) PROVE Flow' /\ Limited'
    <3>1. ASSUME NEW i \in 1 .. Last[t], CheckProcess(<<t, i>>) PROVE Flow' /\ Limited'
      BY <1>2, <1>4, <3>1, Named
    <3> QED
      BY <1>1, <1>4, <1>5, <1>6, <2>2, <3>1 DEF Manage
  <2>3. ASSUME NEW q \in Programs, Program(q) PROVE Flow' /\ Limited'
    BY <1>2, <1>4, <1>7, <1>8, <2>3 DEF Program, ExecFails, BrokenPipe, Finish, Quit
  <2> QED
    BY <1>9, <2>1, <2>2, <2>3 DEF Next, Thread
<1> QED
  BY <1>3, <1>9

(* Every pipe loses nothing: what has been written to it has been read or  *)
(* is in it, whatever programs end or are killed; and no program reads or  *)
(* writes more than the input and MaxOut together.                         *)
THEOREM FlowHolds == Spec => [](Flow /\ Limited)
<1>1. Init => Flow /\ Limited
  <2> SUFFICES ASSUME Init PROVE Flow /\ Limited
    OBVIOUS
  <2>1. \A t \in Threads : Limit(t) \in Nat
    <3> SUFFICES ASSUME NEW t \in Threads PROVE Limit(t) \in Nat
      OBVIOUS
    <3>1. PICK m \in Nat, n \in Nat : m = MaxOut /\ n = Input[t]
      BY PipelineAssumption
    <3>2. n + m \in Nat
      OBVIOUS
    <3> QED
      BY <3>1, <3>2 DEF Limit
  <2>2. \A q \in Programs : got[q] = 0 /\ put[q] = 0 /\ q[1] \in Threads
    BY Named DEF Init
  <2>3. \A q \in Programs : q[2] # 1 => put[In(q)] = 0
    BY <2>2, Neighbours
  <2>4. \A q \in Programs : In(q) \in Pipes => amount[In(q)] = 0 /\ nin[q[1]] = 0
    BY <2>2 DEF Init
  <2>5. Flow
    BY <2>2, <2>3, <2>4 DEF Flow
  <2>6. Limited
    BY <2>1, <2>2 DEF Init, Limited
  <2> QED
    BY <2>5, <2>6
<1> QED
  BY <1>1, FlowStep, TypeCorrect, LaterHolds, PTL DEF Spec, Later

-----------------------------------------------------------------------------
(* Launch forks the programs one after the other, and nobody else does.    *)
LEMMA UnbornStep == TypeOK /\ Unborn /\ [Next]_vars => Unborn'
<1> SUFFICES ASSUME TypeOK, Unborn, [Next]_vars PROVE Unborn'
  OBVIOUS
<1>1. ASSUME pc' = pc, at' = at, \A q \in Programs : prog[q] = "none" => prog'[q] = "none"
      PROVE  Unborn'
  BY <1>1 DEF Unborn, Past
<1>2. ASSUME NEW t \in Threads, MakePipes(t) \/ WriteFails(t) \/ Return(t) PROVE Unborn'
  <2>1. /\ prog' = prog /\ at' = at
        /\ \A u \in Threads : u # t => pc'[u] = pc[u]
        /\ \/ pc[t] = "pipe" /\ pc'[t] = "fork"
           \/ Past(t)'
    BY <1>2 DEF MakePipes, WriteFails, Return, Past, programs, launching, TypeOK
  <2> QED
    BY <2>1, Named DEF Unborn, Past
<1>3. ASSUME NEW t \in Threads, Fork(t) PROVE Unborn'
  <2>1. /\ pc[t] = "fork" /\ pc'[t] = "close" /\ at' = at
        /\ \A u \in Threads : u # t => pc'[u] = pc[u]
        /\ \A q \in Programs : q # <<t, at[t]>> => prog'[q] = prog[q]
    BY <1>3 DEF Fork, launching, TypeOK
  <2> SUFFICES ASSUME NEW q \in Programs, ~Past(q[1])', q[2] >= at[q[1]],
                      pc'[q[1]] = "close" => q[2] # at[q[1]]
               PROVE  prog'[q] = "none"
    BY <2>1 DEF Unborn
  <2>2. q # <<t, at[t]>>
    BY <2>1
  <2>3. CASE q[1] = t
    BY <2>1, <2>2, <2>3 DEF Unborn, Past
  <2>4. CASE q[1] # t
    BY <2>1, <2>2, <2>4, Named DEF Unborn, Past
  <2> QED
    BY <2>3, <2>4
<1>4. ASSUME NEW t \in Threads, CloseEnds(t) PROVE Unborn'
  <2>1. pc[t] = "close" /\ prog' = prog
    BY <1>4 DEF CloseEnds, programs
  <2>2. /\ \A u \in Threads : u # t => pc'[u] = pc[u] /\ at'[u] = at[u]
        /\ Past(t)' \/ (pc'[t] = "pipe" /\ at'[t] = at[t] + 1)
    BY <1>4 DEF CloseEnds, Past, TypeOK
  <2> SUFFICES ASSUME NEW q \in Programs, ~Past(q[1])', q[2] >= at'[q[1]],
                      pc'[q[1]] = "close" => q[2] # at'[q[1]]
               PROVE  prog[q] = "none"
    BY <2>1 DEF Unborn
  <2>3. CASE q[1] = t
    <3>1. q[2] >= at[t] + 1 /\ q[2] \in Int /\ at[t] \in Nat
      BY <2>2, <2>3, Named DEF TypeOK
    <3>2. q[2] >= at[t] /\ q[2] # at[t]
      BY <3>1
    <3> QED
      BY <2>1, <2>3, <3>2 DEF Unborn, Past
  <2>4. CASE q[1] # t
    BY <2>2, <2>4, Named DEF Unborn, Past
  <2> QED
    BY <2>3, <2>4
<1>5. ASSUME NEW t \in Threads, Unlock(t) \/ WriteIn(t) \/ ReadOut(t) \/ ForceClose(t)
      PROVE  Unborn'
  BY <1>1, <1>5 DEF Unlock, WriteIn, ReadOut, ForceClose, programs, launching
<1>6. ASSUME NEW t \in Threads, KillForThread(t) PROVE Unborn'
  <2>1. pc[t] = "manage" /\ pc' = pc /\ at' = at
    BY <1>6 DEF KillForThread, launching
  <2>2. \A q \in Programs : q[1] # t => prog'[q] = prog[q]
    BY <1>6 DEF KillForThread, Managed
  <2> QED
    BY <2>1, <2>2 DEF Unborn, Past
<1>7. ASSUME NEW q \in Programs, CheckProcess(q) \/ Exec(q) \/ Read(q) \/ Write(q)
      PROVE  Unborn'
  BY <1>1, <1>7 DEF CheckProcess, Exec, Read, Write, launching, TypeOK
<1>8. ASSUME NEW q \in Programs, prog[q] \in {"forked", "runs"}, Exits(q)
      PROVE  Unborn'
  BY <1>1, <1>8 DEF Exits, launching, TypeOK
<1>9. CASE UNCHANGED vars
  BY <1>1, <1>9 DEF vars, launching, programs
<1>10. ASSUME NEW t \in Threads, NEW i \in 1 .. Last[t], CheckProcess(<<t, i>>)
       PROVE  Unborn'
  BY <1>7, <1>10, Named
<1> QED
  BY <1>2, <1>3, <1>4, <1>5, <1>6, <1>7, <1>8, <1>9, <1>10
     DEF Next, Thread, Launch, Manage, Program, ExecFails, BrokenPipe, Finish, Quit

(* No program is there before launch has come to it.                       *)
LEMMA UnbornHolds == Spec => []Unborn
<1>1. Init => Unborn
  BY DEF Init, Unborn
<1> QED
  BY <1>1, UnbornStep, TypeCorrect, PTL DEF Spec

-----------------------------------------------------------------------------
(* How far a thread can come.                                              *)
LEMMA ComeType ==
  ASSUME TypeOK, Limited, NEW t \in Threads
  PROVE  /\ Come(t) \in Nat
         /\ 4 * Last[t] + 8 + Input[t] + Limit(t) \in Nat
         /\ Come(t) <= 4 * Last[t] + 8 + Input[t] + Limit(t)
<1>1. PICK l \in Nat, a \in Nat, n \in Nat, m \in Nat, o \in Nat, k \in Nat :
        /\ l = Last[t] /\ a = at[t] /\ a <= l
        /\ n = nin[t] /\ m = Input[t] /\ n <= m
        /\ o = out[t] /\ k = MaxOut
  BY PipelineAssumption DEF TypeOK
<1>2. o <= m + k
  BY <1>1 DEF Limited, Limit
<1>3. At(t) \in 0 .. 4
  BY DEF At
<1>4. /\ Ticks(Over(t, InJob)) \in 0 .. 1 /\ Ticks(Over(t, OutJob)) \in 0 .. 1
      /\ Ticks(force[t]) \in 0 .. 1 /\ Ticks(killed[t]) \in 0 .. 1
  BY DEF Ticks
<1> HIDE DEF At, Ticks
<1>5. /\ Come(t) = 4 * a + At(t) + n + o + Ticks(Over(t, InJob)) + Ticks(Over(t, OutJob))
                     + Ticks(force[t]) + Ticks(killed[t])
      /\ 4 * Last[t] + 8 + Input[t] + Limit(t) = 4 * l + 8 + m + (m + k)
  BY <1>1 DEF Come, Limit
<1> QED
  BY <1>1, <1>2, <1>3, <1>4, <1>5

(* How far a program can.                                                  *)
LEMMA LivedType ==
  ASSUME TypeOK, Limited, NEW q \in Programs
  PROVE  /\ Lived(q) \in Nat /\ 4 + 2 * Limit(q[1]) \in Nat
         /\ Lived(q) <= 4 + 2 * Limit(q[1])
<1>1. q[1] \in Threads
  BY Named
<1>2. PICK m \in Nat, k \in Nat : m = Input[q[1]] /\ k = MaxOut
  BY <1>1, PipelineAssumption
<1>3. PICK g \in Nat, p \in Nat : g = got[q] /\ p = put[q]
  BY DEF TypeOK
<1>4. g <= m + k /\ p <= m + k
  BY <1>2, <1>3 DEF Limited, Limit
<1>5. Life(q) \in 0 .. 4
  BY DEF Life
<1>6. Lived(q) = Life(q) + g + p /\ Limit(q[1]) = m + k
  BY <1>2, <1>3 DEF Lived, Limit
<1> QED
  BY <1>2, <1>3, <1>4, <1>5, <1>6

(* What a step may do to threads and programs, and what takes them further.*)
Place(t) == 4 * at[t] + At(t)
Onward(t) ==
  /\ Place(t)' >= Place(t) /\ nin'[t] >= nin[t] /\ out'[t] >= out[t]
  /\ Past(t) => Past(t)' /\ work'[t] \subseteq work[t]
  /\ force[t] => force'[t]
  /\ killed[t] => killed'[t]
Further(t) ==
  \/ Place(t)' > Place(t) \/ nin'[t] > nin[t] \/ out'[t] > out[t]
  \/ Over(t, InJob)' /\ ~Over(t, InJob)
  \/ Over(t, OutJob)' /\ ~Over(t, OutJob)
  \/ force'[t] /\ ~force[t]
  \/ killed'[t] /\ ~killed[t]
Older(q) == Life(q)' >= Life(q) /\ got'[q] >= got[q] /\ put'[q] >= put[q]
Aged(q)  == Life(q)' > Life(q) \/ got'[q] > got[q] \/ put'[q] > put[q]

(* A thread has come no less far then, and further.                        *)
LEMMA ComeGrows ==
  ASSUME TypeOK, TypeOK', NEW t \in Threads, Onward(t)
  PROVE  Come(t)' >= Come(t) /\ (Further(t) => Come(t)' > Come(t))
<1>1. PICK a \in Int, b \in Int, n \in Int, m \in Int, o \in Int, p \in Int :
        /\ a = Place(t) /\ b = Place(t)' /\ a <= b
        /\ n = nin[t] /\ m = nin'[t] /\ n <= m
        /\ o = out[t] /\ p = out'[t] /\ o <= p
  <2>1. Place(t) \in Int /\ Place(t)' \in Int
    <3>1. At(t) \in Int /\ At(t)' \in Int
      BY DEF At
    <3>2. at[t] \in Int /\ at'[t] \in Int
      BY DEF TypeOK
    <3> HIDE DEF At
    <3> QED
      BY <3>1, <3>2 DEF Place
  <2>2. nin[t] \in Int /\ nin'[t] \in Int /\ out[t] \in Int /\ out'[t] \in Int
    BY DEF TypeOK
  <2> QED
    BY <2>1, <2>2 DEF Onward
<1>2. /\ Over(t, InJob) => Over(t, InJob)'
      /\ Over(t, OutJob) => Over(t, OutJob)'
  BY DEF Onward, Over, Jobs
<1> DEFINE I == Ticks(Over(t, InJob))
           J == Ticks(Over(t, OutJob))
           F == Ticks(force[t])
           K == Ticks(killed[t])
<1>3. /\ I \in {0, 1} /\ I' \in {0, 1} /\ I <= I'
      /\ Over(t, InJob)' /\ ~Over(t, InJob) => I < I'
  BY <1>2 DEF Ticks
<1>4. /\ J \in {0, 1} /\ J' \in {0, 1} /\ J <= J'
      /\ Over(t, OutJob)' /\ ~Over(t, OutJob) => J < J'
  BY <1>2 DEF Ticks
<1>5. /\ F \in {0, 1} /\ F' \in {0, 1} /\ F <= F'
      /\ force'[t] /\ ~force[t] => F < F'
  BY DEF Onward, Ticks
<1>6. /\ K \in {0, 1} /\ K' \in {0, 1} /\ K <= K'
      /\ killed'[t] /\ ~killed[t] => K < K'
  BY DEF Onward, Ticks
<1>7. Come(t) = a + n + o + I + J + F + K /\ Come(t)' = b + m + p + I' + J' + F' + K'
  BY <1>1 DEF Come, Place
<1> HIDE DEF I, J, F, K
<1>8. Come(t)' >= Come(t)
  BY <1>1, <1>3, <1>4, <1>5, <1>6, <1>7
<1>9. CASE Place(t)' > Place(t) \/ nin'[t] > nin[t] \/ out'[t] > out[t]
  <2>1. a < b \/ n < m \/ o < p
    BY <1>1, <1>9
  <2>2. Come(t)' > Come(t)
    BY <1>1, <1>3, <1>4, <1>5, <1>6, <1>7, <2>1
  <2> QED
    BY <1>8, <2>2
<1>10. CASE I < I' \/ J < J' \/ F < F' \/ K < K'
  <2>1. Come(t)' > Come(t)
    BY <1>1, <1>3, <1>4, <1>5, <1>6, <1>7, <1>10
  <2> QED
    BY <1>8, <2>1
<1> QED
  BY <1>3, <1>4, <1>5, <1>6, <1>8, <1>9, <1>10 DEF Further

(* The same for a program.                                                 *)
LEMMA LivedGrows ==
  ASSUME TypeOK, TypeOK', NEW q \in Programs, Older(q)
  PROVE  Lived(q)' >= Lived(q) /\ (Aged(q) => Lived(q)' > Lived(q))
<1>1. PICK a \in Int, b \in Int, n \in Int, m \in Int, o \in Int, p \in Int :
        /\ a = Life(q) /\ b = Life(q)' /\ a <= b
        /\ n = got[q] /\ m = got'[q] /\ n <= m
        /\ o = put[q] /\ p = put'[q] /\ o <= p
  <2>1. Life(q) \in Int /\ Life(q)' \in Int
    BY DEF Life
  <2>2. got[q] \in Int /\ got'[q] \in Int /\ put[q] \in Int /\ put'[q] \in Int
    BY DEF TypeOK
  <2> QED
    BY <2>1, <2>2 DEF Older
<1>2. Lived(q) = a + n + o /\ Lived(q)' = b + m + p
  BY <1>1 DEF Lived
<1> QED
  BY <1>1, <1>2 DEF Aged

-----------------------------------------------------------------------------
(* What every step does to them.                                           *)
Forward ==
  /\ \A t \in Threads : Onward(t)
  /\ \A q \in Programs : Older(q)
  /\ \/ \E t \in Threads : Further(t)
     \/ \E q \in Programs : Aged(q)
     \/ plock # Nobody /\ plock' = Nobody

(* Threads and programs that a step leaves alone.                          *)
LEMMA LeftAlone ==
  ASSUME TypeOK
  PROVE  /\ \A t \in Threads :
              /\ pc'[t] = pc[t] /\ at'[t] = at[t]
              /\ nin'[t] = nin[t] /\ out'[t] = out[t]
              /\ work'[t] \subseteq work[t]
              /\ force'[t] = force[t] /\ killed'[t] = killed[t]
              => Onward(t)
         /\ \A q \in Programs :
              prog'[q] = prog[q] /\ got'[q] = got[q] /\ put'[q] = put[q] => Older(q)
<1>1. ASSUME NEW t \in Threads, pc'[t] = pc[t], at'[t] = at[t],
             nin'[t] = nin[t], out'[t] = out[t], work'[t] \subseteq work[t],
             force'[t] = force[t], killed'[t] = killed[t]
      PROVE  Onward(t)
  <2>1. At(t) \in Int /\ at[t] \in Int /\ nin[t] \in Int /\ out[t] \in Int
    BY DEF At, TypeOK
  <2>2. At(t)' = At(t) /\ Past(t)' = Past(t)
    BY <1>1 DEF At, Past
  <2> HIDE DEF At, Past
  <2>3. Place(t)' = Place(t) /\ Place(t) \in Int
    BY <1>1, <2>1, <2>2 DEF Place
  <2> QED
    BY <1>1, <2>1, <2>2, <2>3 DEF Onward
<1>2. ASSUME NEW q \in Programs, prog'[q] = prog[q], got'[q] = got[q], put'[q] = put[q]
      PROVE  Older(q)
  <2>1. Life(q)' = Life(q) /\ Life(q) \in Int /\ got[q] \in Int /\ put[q] \in Int
    BY <1>2 DEF Life, TypeOK
  <2> QED
    BY <1>2, <2>1 DEF Older
<1> QED
  BY <1>1, <1>2

(* A thread whose program counter, or whose place in the pipeline, moves.  *)
LEMMA ComesOn ==
  ASSUME TypeOK, TypeOK', NEW t \in Threads,
         \/ at'[t] = at[t] /\ At(t)' > At(t)
         \/ at'[t] = at[t] + 1 /\ At(t) = 2 /\ At(t)' = 0,
         nin'[t] = nin[t], out'[t] = out[t], force'[t] = force[t], killed'[t] = killed[t],
         Past(t) => Past(t)' /\ work'[t] \subseteq work[t]
  PROVE  Onward(t) /\ Further(t)
<1>1. at[t] \in Int /\ at'[t] \in Int /\ nin[t] \in Int /\ out[t] \in Int
  BY DEF TypeOK
<1>2. At(t) \in Int /\ At(t)' \in Int
  BY DEF At
<1> HIDE DEF At
<1>3. Place(t)' > Place(t) /\ Place(t)' >= Place(t)
  BY <1>1, <1>2 DEF Place
<1> QED
  BY <1>1, <1>3 DEF Onward, Further

(* Every step of the threads and programs is forward.                      *)
LEMMA StepsForward ==
  ASSUME TypeOK, TypeOK', Unborn, Next, vars' # vars
  PROVE  Forward
<1> DEFINE QuietThreads ==
             /\ pc' = pc /\ at' = at /\ nin' = nin /\ out' = out /\ work' = work
             /\ force' = force /\ killed' = killed
           QuietPrograms == prog' = prog /\ got' = got /\ put' = put
<1>1. QuietThreads => \A t \in Threads : Onward(t)
  BY LeftAlone
<1>2. QuietPrograms => \A q \in Programs : Older(q)
  BY LeftAlone
<1>3. ASSUME NEW t \in Threads, QuietPrograms, at' = at,
             \A u \in Threads : u # t => pc'[u] = pc[u], At(t)' > At(t),
             nin' = nin, out' = out, work' = work, force' = force, killed' = killed,
             Past(t) => Past(t)'
      PROVE  Forward
  <2>1. Onward(t) /\ Further(t)
    BY <1>3, ComesOn
  <2>2. \A u \in Threads : u # t => Onward(u)
    BY <1>3, LeftAlone
  <2> QED
    BY <1>2, <1>3, <2>1, <2>2 DEF Forward
<1>4. ASSUME NEW t \in Threads, MakePipes(t) PROVE Forward
  <2>1. /\ QuietPrograms /\ at' = at /\ pc[t] = "pipe" /\ pc'[t] = "fork"
        /\ \A u \in Threads : u # t => pc'[u] = pc[u]
        /\ nin' = nin /\ out' = out /\ work' = work /\ force' = force /\ killed' = killed
    BY <1>4 DEF MakePipes, programs, managing, history, TypeOK
  <2>2. At(t) = 0 /\ At(t)' = 1 /\ ~Past(t)
    BY <2>1 DEF At, Past
  <2> QED
    BY <1>3, <2>1, <2>2
<1>5. ASSUME NEW t \in Threads, WriteFails(t) \/ Return(t) PROVE Forward
  <2>1. /\ QuietPrograms /\ at' = at /\ pc[t] = "manage" /\ pc'[t] \in {"raised", "returned"}
        /\ \A u \in Threads : u # t => pc'[u] = pc[u]
        /\ nin' = nin /\ out' = out /\ work' = work /\ force' = force /\ killed' = killed
    BY <1>5 DEF WriteFails, Return, Has, launching, programs, managing, history, TypeOK
  <2>2. At(t) = 3 /\ At(t)' = 4 /\ Past(t)'
    BY <2>1 DEF At, Past
  <2> QED
    BY <1>3, <2>1, <2>2
<1>6. ASSUME NEW t \in Threads, Fork(t) PROVE Forward
  <2>0. <<t, at[t]>> \in Programs
    <3>1. at[t] \in 1 .. Last[t]
      BY Named DEF TypeOK
    <3> QED
      BY <3>1, Named
  <2>1. PICK q \in Programs : q = <<t, at[t]>> /\ q[1] = t /\ q[2] = at[t]
    BY <2>0
  <2>2. /\ at' = at /\ pc[t] = "fork" /\ pc'[t] = "close"
        /\ \A u \in Threads : u # t => pc'[u] = pc[u]
        /\ nin' = nin /\ out' = out /\ work' = work /\ force' = force /\ killed' = killed
        /\ got' = got /\ put' = put
    BY <1>6 DEF Fork, launching, managing, TypeOK
  <2>3. /\ prog'[q] \in {"forked", "stuck"}
        /\ \A p \in Programs : p # q => prog'[p] = prog[p]
    BY <1>6, <2>1 DEF Fork, TypeOK
  <2>4. prog[q] = "none"
    <3>1. at[t] \in Int
      BY DEF TypeOK
    <3> QED
      BY <2>1, <2>2, <3>1 DEF Unborn, Past
  <2>5. Life(q) = 0 /\ Life(q)' = 1 /\ got[q] \in Int /\ put[q] \in Int
    BY <2>1, <2>3, <2>4 DEF Life, TypeOK
  <2>6. Older(q) /\ Aged(q)
    BY <2>2, <2>5 DEF Older, Aged
  <2>7. \A p \in Programs : p # q => Older(p)
    BY <2>2, <2>3, LeftAlone
  <2>8. At(t) = 1 /\ At(t)' = 2 /\ ~Past(t)
    BY <2>2 DEF At, Past
  <2>9. Onward(t)
    BY <2>2, <2>8, ComesOn
  <2>10. \A u \in Threads : u # t => Onward(u)
    BY <2>2, LeftAlone
  <2> QED
    BY <2>1, <2>6, <2>7, <2>9, <2>10 DEF Forward
<1>7. ASSUME NEW t \in Threads, CloseEnds(t) PROVE Forward
  <2>1. /\ QuietPrograms /\ pc[t] = "close"
        /\ \A u \in Threads : u # t => pc'[u] = pc[u] /\ at'[u] = at[u] /\ work'[u] = work[u]
        /\ nin' = nin /\ out' = out /\ force' = force /\ killed' = killed
        /\ \/ pc'[t] = "pipe" /\ at'[t] = at[t] + 1
           \/ pc'[t] = "manage" /\ at'[t] = at[t]
    BY <1>7 DEF CloseEnds, programs, history, TypeOK
  <2>2. ~Past(t) /\ At(t) = 2
        /\ (pc'[t] = "pipe" => At(t)' = 0) /\ (pc'[t] = "manage" => At(t)' = 3)
    BY <2>1 DEF At, Past
  <2>3. Onward(t) /\ Further(t)
    BY <2>1, <2>2, ComesOn
  <2>4. \A u \in Threads : u # t => Onward(u)
    BY <2>1, LeftAlone
  <2> QED
    BY <1>2, <2>1, <2>3, <2>4 DEF Forward
<1>8. ASSUME NEW t \in Threads, Unlock(t) PROVE Forward
  <2>1. QuietThreads /\ QuietPrograms /\ plock # Nobody /\ plock' = Nobody
    BY <1>8, PipelineAssumption DEF Unlock, programs, managing, history
  <2> QED
    BY <1>1, <1>2, <2>1 DEF Forward
<1>9. ASSUME NEW t \in Threads, QuietPrograms, at' = at, pc' = pc,
             \A u \in Threads : u # t =>
               nin'[u] = nin[u] /\ out'[u] = out[u] /\ work'[u] = work[u],
             force' = force, killed' = killed,
             nin'[t] >= nin[t], out'[t] >= out[t], work'[t] \subseteq work[t], Further(t)
      PROVE  Forward
  <2>1. \A u \in Threads : u # t => Onward(u)
    BY <1>9, LeftAlone
  <2>2. Place(t)' = Place(t) /\ Place(t) \in Int /\ Past(t)' = Past(t)
    <3>1. At(t)' = At(t) /\ At(t) \in Int /\ at[t] \in Int /\ Past(t)' = Past(t)
      BY <1>9 DEF At, TypeOK, Past
    <3> HIDE DEF At, Past
    <3> QED
      BY <1>9, <3>1 DEF Place
  <2>3. Onward(t)
    BY <1>9, <2>2 DEF Onward
  <2> QED
    BY <1>2, <1>9, <2>1, <2>3 DEF Forward
<1>10. ASSUME NEW t \in Threads, WriteIn(t) PROVE Forward
  <2> DEFINE k == <<t, 0>>
             left == Input[t] - nin[t]
             n == IF left < Cap - amount[k] THEN left ELSE Cap - amount[k]
  <2>1. InJob \in work[t] /\ InJob \in Jobs(t) /\ pc[t] = "manage"
    BY <1>10 DEF WriteIn, Has, TypeOK
  <2>2. k \in Pipes
    BY <2>1, Named DEF Jobs
  <2>3. /\ QuietPrograms /\ at' = at /\ pc' = pc /\ out' = out /\ force' = force
        /\ killed' = killed /\ reads' = reads /\ crossed' = crossed
        /\ amount' = [amount EXCEPT ![k] = @ + n] /\ nin' = [nin EXCEPT ![t] = @ + n]
        /\ \/ work' = [work EXCEPT ![t] = @ \ {InJob}]
           \/ n # left /\ work' = work /\ plock' = plock /\ writes' = writes
    BY <1>10 DEF WriteIn, Done, programs, history
  <2>4. PICK i \in Int, m \in Int, c \in Int, a \in Int :
          /\ i = Input[t] /\ m = nin[t] /\ m <= i
          /\ c = Cap /\ a = amount[k] /\ a <= c
    BY <2>2, PipelineAssumption DEF TypeOK
  <2>5. n \in Int /\ n >= 0 /\ (n = 0 => left = 0 \/ amount' = amount)
    <3>1. n \in Int /\ n >= 0
      BY <2>4
    <3>2. n = 0 => amount' = amount
      <4> HIDE DEF n
      <4>1. n = 0 => \A p \in Pipes : amount'[p] = amount[p]
        BY <2>2, <2>3, <2>4 DEF TypeOK
      <4> QED
        BY <4>1 DEF TypeOK
    <3> QED
      BY <3>1, <3>2
  <2>6. left \in Int
    BY <2>4
  <2> HIDE DEF n, left
  <2>7. nin'[t] = m + n /\ \A u \in Threads : u # t => nin'[u] = nin[u]
    BY <2>3, <2>4 DEF TypeOK
  <2>8. nin'[t] >= nin[t] /\ out'[t] >= out[t]
    <3>1. out[t] \in Int
      BY DEF TypeOK
    <3> QED
      BY <2>3, <2>4, <2>5, <2>7, <3>1
  <2>9. work'[t] \subseteq work[t] /\ \A u \in Threads : u # t => work'[u] = work[u]
    BY <2>3 DEF TypeOK
  <2>10. Further(t)
    <3>1. CASE work' = [work EXCEPT ![t] = @ \ {InJob}]
      <4>1. InJob \notin work'[t]
        BY <3>1 DEF TypeOK
      <4>2. Over(t, InJob)' /\ ~Over(t, InJob)
        BY <2>1, <2>3, <4>1 DEF Over, Past, Jobs
      <4> QED
        BY <4>2 DEF Further
    <3>2. CASE n # left /\ work' = work /\ plock' = plock /\ writes' = writes
      <4>1. CASE n = 0
        <5>1. nin' = nin
          <6>1. \A u \in Threads : nin'[u] = nin[u]
            BY <2>4, <2>7, <4>1
          <6> QED
            BY <6>1 DEF TypeOK
        <5>2. amount' = amount
          BY <2>5, <3>2, <4>1
        <5>3. vars' = vars
          BY <2>3, <3>2, <5>1, <5>2
             DEF vars, launching, programs, ends, managing, history
        <5> QED
          BY <5>3
      <4>2. CASE n # 0
        <5>1. nin'[t] > nin[t]
          BY <2>4, <2>5, <2>7, <4>2
        <5> QED
          BY <5>1 DEF Further
      <4> QED
        BY <4>1, <4>2
    <3> QED
      BY <2>3, <3>1, <3>2
  <2> QED
    BY <1>9, <2>3, <2>7, <2>8, <2>9, <2>10
<1>11. ASSUME NEW t \in Threads, ReadOut(t) PROVE Forward
  <2> DEFINE k == <<t, Last[t]>>
  <2>1. OutJob \in work[t] /\ OutJob \in Jobs(t) /\ pc[t] = "manage"
    BY <1>11 DEF ReadOut, Has, TypeOK
  <2>2. k \in Pipes
    BY <2>1, Named DEF Jobs, InJob, OutJob
  <2>3. /\ QuietPrograms /\ at' = at /\ pc' = pc /\ nin' = nin /\ force' = force
        /\ killed' = killed /\ writes' = writes /\ crossed' = crossed
        /\ amount' = [amount EXCEPT ![k] = 0] /\ out' = [out EXCEPT ![t] = @ + amount[k]]
        /\ \/ work' = [work EXCEPT ![t] = @ \ {OutJob}]
           \/ work' = work /\ plock' = plock /\ reads' = reads
    BY <1>11 DEF ReadOut, Done, programs, history
  <2>4. PICK o \in Int, a \in Int : o = out[t] /\ a = amount[k] /\ a >= 0
    BY <2>2, PipelineAssumption DEF TypeOK
  <2>5. out'[t] = o + a /\ \A u \in Threads : u # t => out'[u] = out[u]
    BY <2>3, <2>4 DEF TypeOK
  <2>6. nin'[t] >= nin[t] /\ out'[t] >= out[t]
    <3>1. nin[t] \in Int
      BY DEF TypeOK
    <3> QED
      BY <2>3, <2>4, <2>5, <3>1
  <2>7. work'[t] \subseteq work[t] /\ \A u \in Threads : u # t => work'[u] = work[u]
    BY <2>3 DEF TypeOK
  <2>8. Further(t)
    <3>1. CASE work' = [work EXCEPT ![t] = @ \ {OutJob}]
      <4>1. OutJob \notin work'[t]
        BY <3>1 DEF TypeOK
      <4>2. Over(t, OutJob)' /\ ~Over(t, OutJob)
        BY <2>1, <2>3, <4>1 DEF Over, Past, Jobs
      <4> QED
        BY <4>2 DEF Further
    <3>2. CASE work' = work /\ plock' = plock /\ reads' = reads
      <4>1. CASE a = 0
        <5>1. out' = out
          <6>1. \A u \in Threads : out'[u] = out[u]
            BY <2>4, <2>5, <4>1
          <6> QED
            BY <6>1 DEF TypeOK
        <5>2. amount' = amount
          <6>1. \A p \in Pipes : amount'[p] = amount[p]
            BY <2>2, <2>3, <2>4, <4>1 DEF TypeOK
          <6> QED
            BY <6>1 DEF TypeOK
        <5>3. vars' = vars
          BY <2>3, <3>2, <5>1, <5>2
             DEF vars, launching, programs, ends, managing, history
        <5> QED
          BY <5>3
      <4>2. CASE a # 0
        <5>1. out'[t] > out[t]
          BY <2>4, <2>5, <4>2
        <5> QED
          BY <5>1 DEF Further
      <4> QED
        BY <4>1, <4>2
    <3> QED
      BY <2>3, <3>1, <3>2
  <2> QED
    BY <1>9, <2>3, <2>5, <2>6, <2>7, <2>8
<1>12. ASSUME NEW t \in Threads, ForceClose(t) PROVE Forward
  <2>1. /\ QuietPrograms /\ at' = at /\ pc' = pc /\ nin' = nin /\ out' = out /\ work' = work
        /\ killed' = killed /\ ~force[t] /\ force'[t]
        /\ \A u \in Threads : u # t => force'[u] = force[u]
    BY <1>12 DEF ForceClose, launching, programs, history, TypeOK
  <2>2. \A u \in Threads : u # t => Onward(u)
    BY <2>1, LeftAlone
  <2>3. Onward(t)
    <3>1. At(t)' = At(t) /\ At(t) \in Int /\ at[t] \in Int /\ Past(t)' = Past(t)
      BY <2>1 DEF At, TypeOK, Past
    <3>2. nin[t] \in Int /\ out[t] \in Int
      BY DEF TypeOK
    <3> HIDE DEF At, Past
    <3>3. Place(t)' = Place(t) /\ Place(t) \in Int
      BY <2>1, <3>1 DEF Place
    <3> QED
      BY <2>1, <3>1, <3>2, <3>3 DEF Onward
  <2>4. Further(t)
    BY <2>1 DEF Further
  <2> QED
    BY <1>2, <2>1, <2>2, <2>3, <2>4 DEF Forward
<1>13. ASSUME NEW t \in Threads, KillForThread(t) PROVE Forward
  <2>1. /\ at' = at /\ pc' = pc /\ nin' = nin /\ out' = out /\ work' = work
        /\ force' = force /\ ~killed[t] /\ killed'[t] /\ got' = got /\ put' = put
        /\ \A u \in Threads : u # t => killed'[u] = killed[u]
    BY <1>13 DEF KillForThread, launching, managing, TypeOK
  <2>2. ASSUME NEW q \in Programs
        PROVE  prog'[q] = prog[q] \/ (prog'[q] = "exited" /\ prog[q] # "reaped")
    <3>1. prog'[q] = IF q \in {p \in Managed(t) : prog[p] # "exited"} THEN "exited" ELSE prog[q]
      BY <1>13 DEF KillForThread
    <3> QED
      BY <3>1 DEF Managed
  <2>3. ASSUME NEW q \in Programs PROVE Older(q)
    <3>1. Life(q)' >= Life(q) /\ got[q] \in Int /\ put[q] \in Int
      BY <2>2 DEF Life, TypeOK
    <3> QED
      BY <2>1, <3>1 DEF Older
  <2>4. \A u \in Threads : u # t => Onward(u)
    BY <2>1, LeftAlone
  <2>5. Onward(t)
    <3>1. At(t)' = At(t) /\ At(t) \in Int /\ at[t] \in Int /\ Past(t)' = Past(t)
      BY <2>1 DEF At, TypeOK, Past
    <3>2. nin[t] \in Int /\ out[t] \in Int
      BY DEF TypeOK
    <3> HIDE DEF At, Past
    <3>3. Place(t)' = Place(t) /\ Place(t) \in Int
      BY <2>1, <3>1 DEF Place
    <3> QED
      BY <2>1, <3>1, <3>2, <3>3 DEF Onward
  <2>6. Further(t)
    BY <2>1 DEF Further
  <2> QED
    BY <2>3, <2>4, <2>5, <2>6 DEF Forward
<1>14. ASSUME NEW q \in Programs, \A t \in Threads : Onward(t), got' = got, put' = put,
              \A p \in Programs : p # q => prog'[p] = prog[p], Life(q)' > Life(q)
       PROVE  Forward
  <2>1. Life(q)' \in Int /\ Life(q) \in Int /\ got[q] \in Int /\ put[q] \in Int
    BY DEF Life, TypeOK
  <2>2. Older(q) /\ Aged(q)
    BY <1>14, <2>1 DEF Older, Aged
  <2>3. \A p \in Programs : p # q => Older(p)
    BY <1>14, LeftAlone
  <2> QED
    BY <1>14, <2>2, <2>3 DEF Forward
<1>15. ASSUME NEW t \in Threads, NEW i \in 1 .. Last[t], CheckProcess(<<t, i>>)
       PROVE  Forward
  <2> DEFINE q == <<t, i>>
  <2>1. q \in Programs /\ q[1] = t /\ q[2] = i
    BY Named
  <2>2. /\ at' = at /\ pc' = pc /\ nin' = nin /\ out' = out /\ force' = force
        /\ killed' = killed /\ got' = got /\ put' = put
        /\ \A u \in Threads : work'[u] \subseteq work[u]
        /\ prog[q] = "exited" /\ prog'[q] = "reaped"
        /\ \A p \in Programs : p # q => prog'[p] = prog[p]
    BY <1>15, <2>1 DEF CheckProcess, Done, launching, history, TypeOK
  <2>3. \A u \in Threads : Onward(u)
    BY <2>2, LeftAlone
  <2>4. Life(q)' > Life(q)
    BY <2>2 DEF Life
  <2> HIDE DEF q
  <2> QED
    BY <1>14, <2>1, <2>2, <2>3, <2>4
<1>16. ASSUME NEW q \in Programs, Exec(q) PROVE Forward
  <2>1. /\ QuietThreads /\ got' = got /\ put' = put /\ prog[q] = "forked" /\ prog'[q] = "runs"
        /\ \A p \in Programs : p # q => prog'[p] = prog[p]
    BY <1>16 DEF Exec, launching, managing, history, TypeOK
  <2>2. Life(q)' > Life(q)
    BY <2>1 DEF Life
  <2> QED
    BY <1>1, <1>14, <2>1, <2>2
<1>17. ASSUME NEW q \in Programs, prog[q] \in {"forked", "runs"}, Exits(q) PROVE Forward
  <2>1. /\ QuietThreads /\ got' = got /\ put' = put /\ prog'[q] = "exited"
        /\ \A p \in Programs : p # q => prog'[p] = prog[p]
    BY <1>17 DEF Exits, launching, managing, history, TypeOK
  <2>2. Life(q)' > Life(q)
    BY <1>17, <2>1 DEF Life
  <2> QED
    BY <1>1, <1>14, <2>1, <2>2
<1>18. ASSUME NEW q \in Programs, Read(q) \/ Write(q) PROVE Forward
  <2>1. /\ QuietThreads /\ prog' = prog
        /\ \A p \in Programs : p # q => got'[p] = got[p] /\ put'[p] = put[p]
        /\ \/ got'[q] = got[q] + 1 /\ put'[q] = put[q]
           \/ got'[q] = got[q] /\ put'[q] = put[q] + 1
    BY <1>18 DEF Read, Write, launching, managing, history, TypeOK
  <2>2. Life(q)' = Life(q) /\ Life(q) \in Int /\ got[q] \in Int /\ put[q] \in Int
    BY <2>1 DEF Life, TypeOK
  <2>3. Older(q) /\ Aged(q)
    BY <2>1, <2>2 DEF Older, Aged
  <2>4. \A p \in Programs : p # q => Older(p)
    BY <2>1, LeftAlone
  <2> QED
    BY <1>1, <2>1, <2>3, <2>4 DEF Forward
<1> HIDE DEF QuietThreads, QuietPrograms
<1> QED
  BY <1>4, <1>5, <1>6, <1>7, <1>8, <1>10, <1>11, <1>12, <1>13, <1>15, <1>16, <1>17, <1>18
     DEF Next, Thread, Launch, Manage, Program, ExecFails, BrokenPipe, Finish, Quit

-----------------------------------------------------------------------------
(* How far everything has come is a number, and can be no more than Most   *)
(* counts.                                                                 *)
Counted ==
  /\ \A t \in Threads : Come(t) \in Nat
       /\ 4 * Last[t] + 8 + Input[t] + Limit(t) \in Nat
       /\ Come(t) <= 4 * Last[t] + 8 + Input[t] + Limit(t)
  /\ \A q \in Programs : Lived(q) \in Nat
       /\ 4 + 2 * Limit(q[1]) \in Nat /\ Lived(q) <= 4 + 2 * Limit(q[1])

(* It is so in every state.                                                *)
LEMMA CountedHolds == Spec => []Counted
<1>1. TypeOK /\ Limited => Counted
  BY ComeType, LivedType DEF Counted
<1> QED
  BY <1>1, TypeCorrect, FlowHolds, PTL

(* A step that is forward makes Progress greater.                          *)
LEMMA ForwardCounts ==
  ASSUME IsFiniteSet(Threads), TypeOK, TypeOK', Counted, Counted', Forward
  PROVE  Progress' > Progress
<1> DEFINE f == [t \in Threads |-> Come(t)]
           h == [q \in Programs |-> Lived(q)]
<1>1. PICK g \in [Threads -> Nat] : g = f' /\ \A t \in Threads : g[t] = Come(t)'
  <2>1. f' = [t \in Threads |-> Come(t)']
    OBVIOUS
  <2> HIDE DEF f
  <2>2. \A t \in Threads : Come(t)' \in Nat
    BY DEF Counted
  <2> QED
    BY <2>1, <2>2
<1>2. PICK k \in [Programs -> Nat] : k = h' /\ \A q \in Programs : k[q] = Lived(q)'
  <2>1. h' = [q \in Programs |-> Lived(q)']
    OBVIOUS
  <2> HIDE DEF h
  <2>2. \A q \in Programs : Lived(q)' \in Nat
    BY DEF Counted
  <2> QED
    BY <2>1, <2>2
<1>3. f \in [Threads -> Nat] /\ h \in [Programs -> Nat]
  BY DEF Counted
<1>4. \A t \in Threads : f[t] = Come(t)
  OBVIOUS
<1>5. \A q \in Programs : h[q] = Lived(q)
  OBVIOUS
<1>6. ASSUME NEW t \in Threads
      PROVE  Come(t)' >= Come(t) /\ (Further(t) => Come(t)' > Come(t))
  <2>1. Onward(t)
    BY DEF Forward
  <2> QED
    BY <2>1, ComeGrows
<1>7. ASSUME NEW q \in Programs
      PROVE  Lived(q)' >= Lived(q) /\ (Aged(q) => Lived(q)' > Lived(q))
  <2>1. Older(q)
    BY DEF Forward
  <2> QED
    BY <2>1, LivedGrows
<1>8. Progress = 2 * (Total(f) + Total(h)) + Ticks(plock = Nobody)
      /\ Progress' = 2 * (Total(g) + Total(k)) + Ticks(plock' = Nobody)
  <2>1. Progress' = 2 * (Total(f)' + Total(h)') + Ticks(plock' = Nobody)
    BY DEF Progress, Ticks
  <2>2. Total(f)' = Total(g) /\ Total(h)' = Total(k)
    BY <1>1, <1>2 DEF Total, Below1
  <2> QED
    BY <2>1, <2>2 DEF Progress
<1> HIDE DEF f, h
<1>9. \A t \in Threads : f[t] <= g[t]
  <2> SUFFICES ASSUME NEW t \in Threads PROVE f[t] <= g[t]
    OBVIOUS
  <2>1. Come(t) \in Nat /\ Come(t)' \in Nat
    BY DEF Counted
  <2> QED
    BY <1>1, <1>4, <1>6, <2>1
<1>10. \A q \in Programs : h[q] <= k[q]
  <2> SUFFICES ASSUME NEW q \in Programs PROVE h[q] <= k[q]
    OBVIOUS
  <2>1. Lived(q) \in Nat /\ Lived(q)' \in Nat
    BY DEF Counted
  <2> QED
    BY <1>2, <1>5, <1>7, <2>1
<1>11. IsFiniteSet(Programs)
  BY ProgramsFinite
<1>12. /\ Total(f) \in Nat /\ Total(g) \in Nat /\ Total(f) <= Total(g)
       /\ (\E t \in Threads : f[t] < g[t]) => Total(f) < Total(g)
  BY <1>1, <1>3, <1>9, TotalGrows
<1>13. /\ Total(h) \in Nat /\ Total(k) \in Nat /\ Total(h) <= Total(k)
       /\ (\E q \in Programs : h[q] < k[q]) => Total(h) < Total(k)
  BY <1>2, <1>3, <1>10, <1>11, TotalGrows
<1>14. PICK a \in Nat, b \in Nat, c \in Nat, d \in Nat :
         a = Total(f) /\ b = Total(g) /\ c = Total(h) /\ d = Total(k)
  BY <1>12, <1>13
<1>15. /\ Ticks(plock = Nobody) \in {0, 1} /\ Ticks(plock' = Nobody) \in {0, 1}
       /\ plock # Nobody /\ plock' = Nobody =>
            Ticks(plock = Nobody) = 0 /\ Ticks(plock' = Nobody) = 1
  BY DEF Ticks
<1>16. a < b \/ c < d \/ (plock # Nobody /\ plock' = Nobody)
  <2>1. ASSUME NEW t \in Threads, Further(t) PROVE f[t] < g[t]
    <3>1. Come(t) \in Nat /\ Come(t)' \in Nat
      BY DEF Counted
    <3> QED
      BY <1>1, <1>4, <1>6, <2>1, <3>1
  <2>2. ASSUME NEW q \in Programs, Aged(q) PROVE h[q] < k[q]
    <3>1. Lived(q) \in Nat /\ Lived(q)' \in Nat
      BY DEF Counted
    <3> QED
      BY <1>2, <1>5, <1>7, <2>2, <3>1
  <2> QED
    BY <1>12, <1>13, <1>14, <2>1, <2>2 DEF Forward
<1> HIDE DEF Ticks
<1>17. a <= b /\ c <= d
  BY <1>12, <1>13, <1>14
<1>18. Progress = 2 * (a + c) + Ticks(plock = Nobody)
       /\ Progress' = 2 * (b + d) + Ticks(plock' = Nobody)
  BY <1>8, <1>14
<1> QED
  BY <1>15, <1>16, <1>17, <1>18

(* Every step of the threads and of the programs that they run, whatever   *)
(* the programs do, when somebody kills them or the clock closes a stream, *)
(* is one that is not taken back: nothing that manage's loop, the pipes or *)
(* plock make them do is done for ever.                                    *)
THEOREM EveryStepCounts ==
  ASSUME IsFiniteSet(Threads)
  PROVE  Spec => [][Progress' > Progress]_vars
<1>1. ASSUME TypeOK, TypeOK', Counted, Counted', Unborn, [Next]_vars
      PROVE  [Progress' > Progress]_vars
  <2>1. CASE vars' = vars
    BY <2>1
  <2>2. CASE vars' # vars
    <3>1. Next
      BY <1>1, <2>2
    <3>2. Forward
      BY <1>1, <2>2, <3>1, StepsForward
    <3> QED
      BY <1>1, <3>2, ForwardCounts
  <2> QED
    BY <2>1, <2>2
<1> QED
  BY <1>1, TypeCorrect, CountedHolds, UnbornHolds, PTL DEF Spec

(* So there are at most as many steps as Most says, for any finite number  *)
(* of threads: with NeverStuckHolds, the pipelines come to their end if    *)
(* only those go on that can.                                              *)
THEOREM StepsBounded ==
  ASSUME IsFiniteSet(Threads)
  PROVE  Spec => [](Progress \in 0 .. Most)
<1>1. Counted => Progress \in 0 .. Most
  <2> SUFFICES ASSUME Counted PROVE Progress \in 0 .. Most
    OBVIOUS
  <2> DEFINE f == [t \in Threads |-> Come(t)]
             g == [t \in Threads |-> 4 * Last[t] + 8 + Input[t] + Limit(t)]
             h == [q \in Programs |-> Lived(q)]
             k == [q \in Programs |-> 4 + 2 * Limit(q[1])]
  <2>1. f \in [Threads -> Nat] /\ g \in [Threads -> Nat]
        /\ \A t \in Threads : f[t] <= g[t]
    BY DEF Counted
  <2>2. h \in [Programs -> Nat] /\ k \in [Programs -> Nat]
        /\ \A q \in Programs : h[q] <= k[q]
    BY DEF Counted
  <2>3. Progress = 2 * (Total(f) + Total(h)) + Ticks(plock = Nobody)
        /\ Most = 2 * (Total(g) + Total(k)) + 1
    BY DEF Progress, Most
  <2> HIDE DEF f, g, h, k
  <2>4. Total(f) \in Nat /\ Total(g) \in Nat /\ Total(f) <= Total(g)
    BY <2>1, TotalGrows
  <2>5. Total(h) \in Nat /\ Total(k) \in Nat /\ Total(h) <= Total(k)
    BY <2>2, ProgramsFinite, TotalGrows
  <2>6. PICK a \in Nat, b \in Nat, c \in Nat, d \in Nat :
          /\ a = Total(f) /\ b = Total(g) /\ c = Total(h) /\ d = Total(k)
          /\ a <= b /\ c <= d
    BY <2>4, <2>5
  <2>7. Ticks(plock = Nobody) \in {0, 1}
    BY DEF Ticks
  <2> HIDE DEF Ticks
  <2>8. Progress = 2 * (a + c) + Ticks(plock = Nobody) /\ Most = 2 * (b + d) + 1
    BY <2>3, <2>6
  <2> QED
    BY <2>6, <2>7, <2>8
<1> QED
  BY <1>1, CountedHolds, PTL

=============================================================================
