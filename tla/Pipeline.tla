-------------------------------- MODULE Pipeline --------------------------------
(***************************************************************************)
(* The programs that the Python jobs run: produtil.pipeline's launch,      *)
(* manage, Pipeline and kill_for_thread, as several threads of a process   *)
(* call them (the workers of a WorkPool), each with one pipeline of        *)
(* programs, an input string or none, and its output captured or not.      *)
(*                                                                         *)
(* Text is counted in units, of which a pipe holds Cap.  Pipe i joins      *)
(* program i to the next; pipe 0 brings the input string to the first and  *)
(* the last one brings the output back.  The descriptors in pipes_to_close *)
(* are those that a child closes before exec, and exec closes them again   *)
(* (they are not inheritable): the two are one step here.                  *)
(***************************************************************************)
EXTENDS Integers

CONSTANTS
  Threads,     \* the threads that run programs
  Last,        \* for each, the number of programs of its pipeline
  Input,       \* the length of its input string; 0 if it has none
  Captured,    \* the threads whose pipeline's output is captured
  Cap,         \* the capacity of a pipe
  MaxOut,      \* bound on what a program without input writes
  Nobody

ASSUME PipelineAssumption ==
  /\ Last \in [Threads -> Nat \ {0}] /\ Input \in [Threads -> Nat]
  /\ Captured \subseteq Threads
  /\ Cap \in Nat \ {0} /\ MaxOut \in Nat
  /\ Nobody \notin Threads

Programs == {q \in Threads \X UNION {1 .. Last[t] : t \in Threads} : q[2] <= Last[q[1]]}
Pipes == {k \in Threads \X UNION {0 .. Last[t] : t \in Threads} :
            /\ k[2] <= Last[k[1]]
            /\ k[2] = 0 => Input[k[1]] > 0
            /\ k[2] = Last[k[1]] => k[1] \in Captured}

In(q)  == <<q[1], q[2] - 1>>      \* the pipe that a program reads
Out(q) == <<q[1], q[2]>>          \* the pipe that it writes

Parent == <<Nobody, 0>>
Processes == Programs \cup {Parent}

VARIABLES
  plock,       \* the thread that is inside `with plock', or Nobody
  pc,          \* the threads
  at,          \* the program that launch is at
  prog,        \* the programs
  reads,       \* for each process, the pipes whose end for reading it has open
  writes,      \* and those whose end for writing
  amount,      \* what is in a pipe
  got, put,    \* how much a program has read, and written
  work,        \* manage: the jobs left
  force,       \* forceclose
  nin, out,    \* how much of the input is written; of the output, read
  killed,      \* history: kill_for_thread has found the thread's programs
  crossed      \* history: a child was forked while another thread had plock

launching == <<plock, at>>
programs  == <<prog, got, put>>
ends      == <<reads, writes>>
managing  == <<work, force, nin, out>>
history   == <<killed, crossed>>
vars      == <<launching, pc, programs, ends, amount, managing, history>>

Init ==
  /\ plock = Nobody
  /\ pc = [t \in Threads |-> "pipe"] /\ at = [t \in Threads |-> 1]
  /\ prog = [q \in Programs |-> "none"]
  /\ reads = [q \in Processes |-> {}] /\ writes = [q \in Processes |-> {}]
  /\ amount = [k \in Pipes |-> 0]
  /\ got = [q \in Programs |-> 0] /\ put = [q \in Programs |-> 0]
  /\ work = [t \in Threads |-> {}] /\ force = [t \in Threads |-> FALSE]
  /\ nin = [t \in Threads |-> 0] /\ out = [t \in Threads |-> 0]
  /\ killed = [t \in Threads |-> FALSE] /\ crossed = FALSE

Open(k)   == \E q \in Processes : k \in writes[q]    \* not yet at end of file
Wanted(k) == \E q \in Processes : k \in reads[q]     \* not yet broken

(* with plock: around a step that opens or closes the descriptors of ks.   *)
Locks(t, ks) == IF ks = {} THEN plock' = plock
                           ELSE plock = Nobody /\ plock' = t
Runs(t) == plock # t

-----------------------------------------------------------------------------
(* launch: pipe() for stdin and stdout ...                                 *)
NewPipes(q) == Pipes \cap (IF q[2] = 1 THEN {In(q), Out(q)} ELSE {Out(q)})

MakePipes(t) ==
  LET ks == NewPipes(<<t, at[t]>>)
  IN  /\ pc[t] = "pipe" /\ Runs(t)
      /\ Locks(t, ks)
      /\ reads'  = [reads EXCEPT ![Parent] = @ \cup ks]
      /\ writes' = [writes EXCEPT ![Parent] = @ \cup ks]
      /\ pc' = [pc EXCEPT ![t] = "fork"]
      /\ UNCHANGED <<at, programs, amount, managing, history>>

(* ... fork: the child has a copy of every descriptor and of plock, which  *)
(* nobody will give back in the child if a thread has it in the parent ... *)
Fork(t) ==
  LET q == <<t, at[t]>>
  IN  /\ pc[t] = "fork" /\ Runs(t)
      /\ prog' = [prog EXCEPT ![q] = IF plock = Nobody THEN "forked" ELSE "stuck"]
      /\ reads'  = [reads EXCEPT ![q] = reads[Parent]]
      /\ writes' = [writes EXCEPT ![q] = writes[Parent]]
      /\ pc' = [pc EXCEPT ![t] = "close"]
      /\ crossed' = (crossed \/ plock # Nobody)
      /\ UNCHANGED <<launching, got, put, amount, managing, killed>>

(* ... and the parent closes what is the child's, which for stdin may be   *)
(* the output of the program before.  After the last program, manage.      *)
InJob  == -1
OutJob == 0
Jobs(t) == {j \in -1 .. Last[t] : /\ j = InJob => Input[t] > 0
                                  /\ j = OutJob => t \in Captured}

(* Mutant: the parent keeps the end that the program writes.               *)
CloseReads(t) ==
  LET q == <<t, at[t]>>  ks == Pipes \cap {In(q), Out(q)}
  IN  /\ pc[t] = "close" /\ Runs(t)
      /\ Locks(t, ks)
      /\ reads' = [reads EXCEPT ![Parent] = @ \ {In(q)}]
      /\ IF at[t] < Last[t]
         THEN /\ at' = [at EXCEPT ![t] = @ + 1]
              /\ pc' = [pc EXCEPT ![t] = "pipe"]
              /\ UNCHANGED work
         ELSE /\ pc' = [pc EXCEPT ![t] = "manage"]
              /\ work' = [work EXCEPT ![t] = Jobs(t)]
              /\ UNCHANGED at
      /\ UNCHANGED <<writes, programs, amount, force, nin, out, history>>

CloseEnds(t) ==
  LET q == <<t, at[t]>>  ks == Pipes \cap {In(q), Out(q)}
  IN  /\ pc[t] = "close" /\ Runs(t)
      /\ Locks(t, ks)
      /\ reads'  = [reads EXCEPT ![Parent] = @ \ {In(q)}]
      /\ writes' = [writes EXCEPT ![Parent] = @ \ {Out(q)}]
      /\ IF at[t] < Last[t]
         THEN /\ at' = [at EXCEPT ![t] = @ + 1]
              /\ pc' = [pc EXCEPT ![t] = "pipe"]
              /\ UNCHANGED work
         ELSE /\ pc' = [pc EXCEPT ![t] = "manage"]
              /\ work' = [work EXCEPT ![t] = Jobs(t)]
              /\ UNCHANGED at
      /\ UNCHANGED <<programs, amount, force, nin, out, history>>

Unlock(t) ==
  /\ plock = t /\ plock' = Nobody
  /\ UNCHANGED <<pc, at, programs, ends, amount, managing, history>>

-----------------------------------------------------------------------------
(* A child that got plock closes the other descriptors and execs, or finds *)
(* that it cannot and exits.                                               *)
Exec(q) ==
  /\ prog[q] = "forked"
  /\ prog' = [prog EXCEPT ![q] = "runs"]
  /\ reads'  = [reads EXCEPT ![q] = @ \cap {In(q)}]
  /\ writes' = [writes EXCEPT ![q] = @ \cap {Out(q)}]
  /\ UNCHANGED <<launching, pc, got, put, amount, managing, history>>

(* The end of a program.                                                   *)
Exits(q) ==
  /\ prog' = [prog EXCEPT ![q] = "exited"]
  /\ reads' = [reads EXCEPT ![q] = {}] /\ writes' = [writes EXCEPT ![q] = {}]
  /\ UNCHANGED <<launching, pc, got, put, amount, managing, history>>

ExecFails(q) == prog[q] = "forked" /\ Exits(q)

Read(q) ==
  /\ prog[q] = "runs" /\ In(q) \in Pipes
  /\ amount[In(q)] > 0
  /\ amount' = [amount EXCEPT ![In(q)] = @ - 1]
  /\ got' = [got EXCEPT ![q] = @ + 1]
  /\ UNCHANGED <<launching, pc, prog, put, ends, managing, history>>

(* A program writes what it reads, or up to MaxOut.                        *)
HasMore(q) == /\ Out(q) \in Pipes
              /\ put[q] < IF In(q) \in Pipes THEN got[q] ELSE MaxOut

Write(q) ==
  /\ prog[q] = "runs" /\ HasMore(q)
  /\ Wanted(Out(q)) /\ amount[Out(q)] < Cap
  /\ amount' = [amount EXCEPT ![Out(q)] = @ + 1]
  /\ put' = [put EXCEPT ![q] = @ + 1]
  /\ UNCHANGED <<launching, pc, prog, got, ends, managing, history>>

BrokenPipe(q) ==
  /\ prog[q] = "runs" /\ HasMore(q)
  /\ ~Wanted(Out(q))
  /\ Exits(q)

(* At the end of its input it ends; it may also do so before, or fail.     *)
AtEnd(q) == In(q) \in Pipes => amount[In(q)] = 0 /\ ~Open(In(q))
Finish(q) == prog[q] = "runs" /\ ~HasMore(q) /\ AtEnd(q) /\ Exits(q)
Quit(q)   == prog[q] = "runs" /\ Exits(q)

-----------------------------------------------------------------------------
(* manage goes round its jobs until none is left.  os.write, which does    *)
(* not block: as much as the pipe takes.  At the end of the string, or     *)
(* when the streams are to be closed, pclose.                              *)
Has(t, j) == pc[t] = "manage" /\ Runs(t) /\ j \in work[t]
Done(t, j) == work' = [work EXCEPT ![t] = @ \ {j}]

WriteIn(t) ==
  LET k == <<t, 0>>
      left == Input[t] - nin[t]
      n == IF left < Cap - amount[k] THEN left ELSE Cap - amount[k]
  IN  /\ Has(t, InJob) /\ Wanted(k)
      /\ amount' = [amount EXCEPT ![k] = @ + n]
      /\ nin' = [nin EXCEPT ![t] = @ + n]
      /\ IF n = left \/ force[t]
         THEN Done(t, InJob) /\ Locks(t, {k}) /\ writes' = [writes EXCEPT ![Parent] = @ \ {k}]
         ELSE UNCHANGED <<work, plock, writes>>
      /\ UNCHANGED <<at, pc, programs, reads, force, out, history>>

(* Nobody can read it: EPIPE, which leaves manage, communicate and run.    *)
WriteFails(t) ==
  /\ Has(t, InJob) /\ ~Wanted(<<t, 0>>)
  /\ pc' = [pc EXCEPT ![t] = "raised"]
  /\ UNCHANGED <<launching, programs, ends, amount, managing, history>>

(* os.read: everything in the pipe.  Its end is not noticed (the empty     *)
(* bytes are compared with an empty string): only forceclose closes it.    *)
ReadOut(t) ==
  LET k == <<t, Last[t]>>
  IN  /\ Has(t, OutJob)
      /\ out' = [out EXCEPT ![t] = @ + amount[k]]
      /\ amount' = [amount EXCEPT ![k] = 0]
      /\ IF force[t]
         THEN Done(t, OutJob) /\ Locks(t, {k}) /\ reads' = [reads EXCEPT ![Parent] = @ \ {k}]
         ELSE UNCHANGED <<work, plock, reads>>
      /\ UNCHANGED <<at, pc, programs, writes, force, nin, history>>

(* os.wait4 with WNOHANG.                                                  *)
CheckProcess(q) ==
  /\ Has(q[1], q[2]) /\ prog[q] = "exited"
  /\ prog' = [prog EXCEPT ![q] = "reaped"] /\ Done(q[1], q[2])
  /\ UNCHANGED <<launching, pc, got, put, ends, amount, force, nin, out, history>>

(* Mutant: two seconds without data are enough, also while programs run.   *)
ForceCloseEarly(t) ==
  /\ pc[t] = "manage" /\ Runs(t) /\ ~force[t] /\ work[t] # {}
  /\ force' = [force EXCEPT ![t] = TRUE]
  /\ UNCHANGED <<launching, pc, programs, ends, amount, work, nin, out, history>>

(* Two seconds after the last process was checked the streams are to be    *)
(* closed.  A child takes less than that from fork to exec.                *)
ForceClose(t) ==
  /\ pc[t] = "manage" /\ Runs(t) /\ ~force[t]
  /\ work[t] # {} /\ work[t] \subseteq {InJob, OutJob}
  /\ \A q \in Programs : prog[q] # "forked"
  /\ force' = [force EXCEPT ![t] = TRUE]
  /\ UNCHANGED <<launching, pc, programs, ends, amount, work, nin, out, history>>

Return(t) ==
  /\ pc[t] = "manage" /\ Runs(t) /\ work[t] = {}
  /\ pc' = [pc EXCEPT ![t] = "returned"]
  /\ UNCHANGED <<launching, programs, ends, amount, managing, history>>

-----------------------------------------------------------------------------
(* Mutant: only the last program of the pipeline is registered.            *)
ManagedLast(t) == {<<t, Last[t]>>}

(* kill_for_thread, by the thread that ends the WorkPool: SIGTERM to the   *)
(* processes that manage was given and has not reaped.  It finds none      *)
(* while launch is still forking them.                                     *)
Managed(t) == {q \in Programs : q[1] = t /\ prog[q] # "reaped"}

KillForThread(t) ==
  LET qs == {q \in Managed(t) : prog[q] # "exited"}
  IN  /\ pc[t] = "manage" /\ ~killed[t]
      /\ killed' = [killed EXCEPT ![t] = TRUE]
      /\ prog' = [q \in Programs |-> IF q \in qs THEN "exited" ELSE prog[q]]
      /\ reads'  = [q \in Processes |-> IF q \in qs THEN {} ELSE reads[q]]
      /\ writes' = [q \in Processes |-> IF q \in qs THEN {} ELSE writes[q]]
      /\ UNCHANGED <<launching, pc, got, put, amount, managing, crossed>>

-----------------------------------------------------------------------------
Launch(t) == MakePipes(t) \/ Fork(t) \/ CloseEnds(t) \/ Unlock(t)
Manage(t) == \/ WriteIn(t) \/ WriteFails(t) \/ ReadOut(t) \/ ForceClose(t) \/ Return(t)
             \/ \E i \in 1 .. Last[t] : CheckProcess(<<t, i>>)

Thread(t) == Launch(t) \/ Manage(t)

Program(q) == \/ Exec(q) \/ ExecFails(q) \/ Read(q) \/ Write(q)
              \/ BrokenPipe(q) \/ Finish(q) \/ Quit(q)

Next == \/ \E t \in Threads : Thread(t) \/ KillForThread(t)
        \/ \E q \in Programs : Program(q)

Spec == Init /\ [][Next]_vars

(* The threads go on, and what has been forked execs.  The programs need   *)
(* not do anything.                                                        *)
FairSpec ==
  /\ Spec
  /\ \A t \in Threads : WF_vars(Thread(t))
  /\ \A q \in Programs : WF_vars(Exec(q))

-----------------------------------------------------------------------------
TypeOK ==
  /\ plock \in Threads \cup {Nobody}
  /\ pc \in [Threads -> {"pipe", "fork", "close", "manage", "returned", "raised"}]
  /\ at \in [Threads -> Nat \ {0}] /\ \A t \in Threads : at[t] <= Last[t]
  /\ prog \in [Programs -> {"none", "forked", "stuck", "runs", "exited", "reaped"}]
  /\ reads \in [Processes -> SUBSET Pipes] /\ writes \in [Processes -> SUBSET Pipes]
  /\ amount \in [Pipes -> 0 .. Cap]
  /\ got \in [Programs -> Nat] /\ put \in [Programs -> Nat]
  /\ work \in [Threads -> SUBSET Int] /\ \A t \in Threads : work[t] \subseteq Jobs(t)
  /\ force \in [Threads -> BOOLEAN]
  /\ nin \in [Threads -> Nat] /\ \A t \in Threads : nin[t] <= Input[t]
  /\ out \in [Threads -> Nat]
  /\ killed \in [Threads -> BOOLEAN] /\ crossed \in BOOLEAN

(* When communicate returns, every program of the pipeline has been waited *)
(* for, the output is all that the last one wrote, and the input has gone  *)
(* into the pipe, though the end of file is never seen and the streams are *)
(* closed by the clock.  (A child that is stuck on plock has copies of all *)
(* ends of the pipes, and keeps the input's open.)                         *)
ReturnedWhole ==
  \A t \in Threads : pc[t] = "returned" =>
    /\ \A i \in 1 .. Last[t] : prog[<<t, i>>] = "reaped"
    /\ t \in Captured => out[t] = put[<<t, Last[t]>>]
    /\ nin[t] = Input[t] \/ crossed

(* Pipelines of programs that read, write, and end at the end of their     *)
(* input come to their end: no descriptor that some process keeps open     *)
(* makes one wait for ever, but for a child that is stuck.                 *)
ProgramsGoOn ==
  \A q \in Programs :
    WF_vars(Read(q)) /\ WF_vars(Write(q)) /\ WF_vars(BrokenPipe(q) \/ Finish(q))

PipelineEnds ==
  ProgramsGoOn =>
    \A t \in Threads : <>(pc[t] \in {"returned", "raised"} \/ crossed)

(* kill_for_thread ends any pipeline that manage watches.                  *)
KillEndsPipeline ==
  \A t \in Threads : killed[t] ~> pc[t] \in {"returned", "raised"}
=============================================================================
