# HAFS: a TLA+ model of the workflow and its concurrent core

HAFS, the Hurricane Analysis and Forecast System, is a numerical forecast model
inside a workflow. The numerics are Fortran and lie outside of what TLA+ can
say anything about. The workflow is different: many batch jobs in cycles that
depend on each other, several threads in some of them, one sqlite3 database, lock
files, directories and done files by which one job knows of another, child
programs at the ends of pipes, and a list of storms whose numbers change as it
grows. Each part is short, and each depends on the order in which others act. This
project models that part. The source paths below are relative to `src/`.

## 1. Inventory

### The parts that are modelled

| Component | Source | State | Operations |
|---|---|---|---|
| File locks | `ush/produtil/locking.py`, `retry.py` | `locks`, `locks_okay` of a process, `_fd` of a LockFile, the kernel's record lock | acquire, release, `disable_locking` |
| Datastore | `ush/produtil/datastore.py:141-420` | the database, `_db_lock`, `_file_lock`, `_transtack`, the connections | `with ds.transaction()`, query, mutate, commit |
| Datum cache | `ush/produtil/datastore.py:425-820` | `_meta`, `_cachetime`, `_lock`, the row | constructor, get, set, `set_loc_avail`, `call_callbacks` |
| Products and tasks | `ush/produtil/datastore.py:822-1346`, `fileop.py`, `ush/hafs/hycom.py` | the files, the rows of products and task, the caches of a waiting process | `run`, `deliver`, `undeliver`, `check`, `wait_for_products` |
| Thread pool | `ush/produtil/workpool.py` | deque, semaphore, barrier set and condition, `_threads` | start, add_work, barrier, kill_threads, worker loop |
| Pipelines | `ush/produtil/pipeline.py` | `plock`, the descriptors of each process, the pipes, manage's jobs | launch, manage, communicate, `kill_for_thread` |
| Forecast and post flow | `jobs/JHAFS_FORECAST`, `scripts/exhafs_forecast.sh`, `exhafs_atm_post.sh`, `exhafs_ocn_post.sh`, `exhafs_gempak.sh` | history, log and restart files, products, done files | restart, clean-up, model run, skip test, wait, deliver, mark |
| Cycling | `scripts/exhafs_atm_post.sh`, `exhafs_product.sh`, and the dependencies of `rocoto/hafs_workflow.xml.in` | the RESTART files in COM, their age, done files | deliver hour by hour and domain by domain, start of the next cycle's jobs |
| Workflow definitions | `rocoto/hafs_workflow.xml.in`, the scripts' choices of their directories | states of the jobs, `RESTART_*` directories, work and COM directories | start, hand over, end, fail, done file, scrub |
| Storm information | `ush/tcutil/revital.py`, `storminfo.py` | a list of vitals with old numbers | sort, clean, renumber, unrenumber, swap, mirror, select |
| Launcher | `ush/hafs/launcher.py`, `rocoto/run_hafs.py` | the cycles of the workflow, what each launch found, `domain.center` | submit, launch |

How they interact:

* `Datastore._lock` takes a `threading.Lock` and then the `LockFile`; the
  database is committed between the two and their release.
* `Datum` takes its own `RLock` and, when its copy is old or is set, opens a
  transaction. A client that is already in a transaction takes the two locks in
  the opposite order.
* `FileProduct.deliver` puts a file in its place and then stores in a Datum that it
  is available; another process sees the row through its own cache and opens
  the file.
* The signal handlers of `produtil.sigsafety` call `locking.disable_locking`,
  which releases every LockFile of the process, whoever uses it, and then raise
  in the main thread. Workers see the signal when they call `checksig`.
* `WorkPool` workers call `checksig` before every item; the master does not. They
  run programs through `produtil.pipeline`, several at a time, so that a child
  inherits the descriptors and the locks of its siblings' threads; the master kills
  their programs with `kill_for_thread`.
* The forecast and post jobs have no common memory. `log.atm.fHHH` says that
  the model has written hour HHH, `postfHHH` that atm_post has delivered it,
  `ocnpostfHHH` and `*.done` the same of ocn_post and gempak. A job that is run
  again skips the hours whose done file is newer than the log.
* The jobs of a cycle find the directory to read by switches and by what is there;
  the dependencies that the workflow manager knows name jobs, not directories.
  The jobs of the next cycle wait for one or two files of COM and read many.
* `run_hafs.py` makes a workflow of the cycles that it finds in the tcvitals; each
  cycle's launch job renumbers them again, in a file that has grown.

What is hard about them: threads of several processes and a signal between any
two of their steps (locks, datastore, pool, pipelines); exceptions between two lock
operations; a cache that is read and written while other processes write the
row; deaths, timeouts and reruns of jobs in the middle of a series of
deliveries; files whose presence stands for that of others; data that is looked at
twice and has changed in between.

What makes each one correct:

* File locks: exclusion between processes, no lock that nobody will release,
  no lock after locking was disabled, and an acquire that ends.
* Datastore: a transaction reads and writes as if it were alone; a thread
  outside has no lock; a thread that asks is let in or told LockHeld.
* Datum cache: no read older than the cache may be, no set lost.
* Products: what the database shows available is there and whole; a completed
  task has delivered everything; a wait ends, and misses nothing that was there in
  time for another look.
* Thread pool: no worker finds the deque empty, a barrier opens only when the
  work before it is done, `__exit__` returns when all workers are gone.
* Pipelines: communicate returns all output of programs that have all ended,
  and it returns.
* Flow: when all is complete, every product is of the forecast that is there, and no
  job waits for a file that nobody will write.
* Cycling: what is marked done has been delivered; whatever starts finds what its
  dependencies promise.
* Workflow: whatever starts finds the directories that it reads, complete; the
  forecast starts from the best fields there are; nothing is deleted that is still
  needed; every cycle completes.
* Vitals and launch: a storm's vitals are gathered, and no other's, also from when
  it was an invest; what is listed can be launched; a launch finds the run before.

### The parts that are not modelled

`PROJECT.json` lists them with the reason. In short:

* `hafs.input` (the staging of input from archives): the job that calls it,
  `exhafs_input.py`, is not in the repository, so its inputs are not known.
  `hycom.py` and `ww3.py` use its DataCatalog only to make names of files.
* Sequential code that examples test well: configuration, namelists, `atparse`,
  date arithmetic, parsers of the vitals' formats, logging, the interactive set-up;
  `prog.py`, `mpiprog.py` and `mpi_impl`, which build immutable descriptions of
  commands. Here a specification would repeat the code.
* What the preparation, analysis, ocean, wave, product and graphics jobs do between
  reading a directory and leaving one: straight sequences of external programs.
* The downloads and the ocean boundary tools.
* The Fortran under `sorc/`, and the forecast model, GSI, UPP and the tracker,
  which are submodules and not in the repository; parameters and documents.

This is why the map covers a small part of the Python in the repository: most of it
is parsing, configuration, formatting and the construction of command lines and
file names, on which no property of this project depends.

## 2. Modules

| Module | What it is |
|---|---|
| `Mutex` | what a lock between processes promises |
| `FileLock` | LockFile, retry_io, disable_locking; implements `Mutex` |
| `AtomicStore` | what a transactional store promises |
| `Datastore` | Datastore and Transaction; implements `AtomicStore` |
| `DatumCache` | Datum over transactions |
| `Delivery` | the products of a task and a process that waits for them, over Datums |
| `WorkPool` | the thread pool |
| `Pipeline` | the child programs of the threads of a process |
| `PostFlow` | the forecast and the jobs that follow it, in one cycle |
| `Cycling` | what the post jobs hand over to the next cycle |
| `Workflow` | all jobs of several cycles, and their directories |
| `Vitals` | the operations of a Revital on its list |
| `Launch` | run_hafs and the launch jobs, over `Vitals` |
| `MC*` | the small instances: constants only |
| `*Proofs` | theorems and proofs of the module they are named after; `DeliveryProofs` also of `Cycling` |

The components stack by their abstractions. `Datastore` has one variable
`fileLock` for the lock file: `_db_lock` lets one thread of a process use it at
a time, and for such a use `FileLock` is proved to implement `Mutex`.
`DatumCache` has one variable `store` for the whole of the datastore's locks:
`Datastore` is proved to implement `AtomicStore`, in which a commit is one step.
`Delivery` has rows that change in one step and caches of bounded age, which is what
`DatumCache` promises. Only what a client can see of the lower component is
repeated in the upper one.

### FileLock

A thread and its LockFile object are one element of `Threads`. `pc` is the place
in `acquire_impl` or `release_impl`; `owner` is the kernel's lock, which belongs to
a process: it is granted again to a process that has it, and any `close` of the
file drops it (`Drop`). `CheckOkay`, `Open`, `Lockf` are the three steps of
`acquire_impl`, `OpenFails` and `LockfFails` their errors, `Retry` what `retry_io`
does with them. `Signal`, `ReleaseOne`, `Disabled` and `Broken` are
`disable_locking` in the main thread; `Broken` is the RuntimeError of an iteration
over `locks` while a worker adds to it. Processes that use the file from one thread
and such that do not are in one instance; the properties that need the former say
so (`OneUserPerProcess`).

### Datastore

`pc` is the place in `__enter__`, the with-block or `__exit__`; `stack` is the
length of `_transtack[thread]`, `level` the number of blocks the thread is really
in. The two differ after a refused lock, because `__enter__` pushes before it
locks and `__exit__` is not called for it. `Faults` chooses what may go
wrong: LockHeld, an exception in the block, a failing commit, a crash, a signal.
`writes` are the uncommitted values of a thread's connection and outlive the
block; `reads` is a history variable.

### DatumCache

Two fields stand for `location` and `available`. `draft` is the row as the open
transaction sees it and `row` the committed one; `gone[f][v]` is how long ago
value v of field f was replaced, which is all that "not older than `_cacheage`"
needs. `Tick` lets time pass. `Refresh` is refresh_meta, `Store` covers set_meta
and update_datum, `InitDatum` the constructor's insert. `Bare` is the access of
call_callbacks, without the Datum's lock.

### Delivery

A task's process goes through `run()`: `StartRun`, then for each product `Copy`
(to a temporary file), `Rename`, `Store` (set_loc_avail) and `CallCallbacks`, and
`EndRun`; `Raise` is an exception in any of these, after which the state is FAILED,
and `Crash` a kill. `StartUnrun`, `RemoveFile` and `Retract` are `unrun()` and
undeliver. The waiting process constructs its Datums, and `Find` and `Check` are the
look at one product, in the cache or on disk; `EndRound` and `StartRound` are the
sleeps, whose last one ends a second early. Time passes between the looks of a round
as well: each of them waits for the database, and performs the action that was asked
for. `file` is the run whose content a location has, `lost` how long ago a product
stopped being available, `early` what was there while the wait still had time and
had a look at it to come.

Assumed: the other workflow
touches its file at least once in `minage` while it writes it, and does not take it
away; a kill's left-over temporary file disturbs nobody; products are
delivered in any order. Delivery with `keep=False`, and of a file onto itself, is
the same rename.

### WorkPool

The master's state is `mpc`; `left` counts the BARRIER or TERMINATE items still
to be queued, and `owed` is an item in the deque whose semaphore release is still
to come. The worker's loop is `Check`, `Acquire`, `Pop`, `Work`, and `Arrive` for
a barrier. `Iterate` and `Valid` are `_valid_thread`'s loop over `_threads`, which
other threads may change. The `die` flag is left out, because kill_threads
assigns False to it.

### Pipeline

Each thread runs one pipeline. `MakePipes`, `Fork` and `CloseEnds` are launch for
one program, in the order of the code; each step that opens or closes takes
`plock`, and a fork does not, so that a child may be born with a `plock` that
nobody will release (`stuck`, and `crossed` as history). `reads` and `writes` say
which process has which end of which pipe open. `WriteIn`, `ReadOut`,
`CheckProcess` and `ForceClose` are the branches of manage's loop; the end of
output is never noticed, because `os.read` returns bytes and is compared with `''`,
so that `ForceClose`, two seconds after the last process, ends a captured
pipeline. `Read`, `Write`, `Finish`, `BrokenPipe`, `Quit` are the programs, which
are external.

Text is counted in units. `pipes_to_close` and exec both close what is not the
child's, in one step here. Assumed: from fork to exec a child takes less than two
seconds; a killed program exits; no grandchild keeps a pipe open.

### PostFlow

A file is represented by the number of the forecast run that its content comes
from. `hist` and `log` are the model's files, `grb`, `idx`, `trk` the products of
atm_post, `onc` and `gout` those of ocn_post and gempak, `done`, `odone` and
`gdone` the done files: absent, older or newer than the file that they are
compared with. Each job has its own counter of hours; `Posted`, `OceanPosted` and
`Decoded` are the three skip tests as they are written: atm_post's and gempak's
are also true when the file they compare with is missing.

The hours below `res` have a coupler.res. `StartForecast` begins at hour 0 or goes on
after any of them (`Restartable`): JHAFS_FORECAST takes the newest, or an earlier
hour that it is told, and looks at no log. A run from hour 0 first removes the
restart files and then all output and logs (`Wipe`, `exhafs_forecast.sh:798-802`);
`CleanLog` and `CleanPost` are the two removals inside the loop over the hours that
are run again. The external model writes an hour's output in one step before the
log, and its restart files before the next hour's output (`ModelRestarts`). All this
may happen while the jobs that follow are at any place, since they start as soon as
the forecast is active and are not stopped when it is run again. `Earliest` is the
first hour of a restart: 0 in the run, which allows more restarts than the code's
12 hours do; the theorems leave it open.

A job that fails goes back to `queued`; the process's own variables are reset
with it. History variables say what becomes of an hour of which the forecast takes
the files away: `over`, `oover` and `gover`, one for each of atm_post, ocn_post and
gempak, are "late" when the job was past the hour or at work on it, "again" when it
has taken it up since, and "no" when it has made it up or will still come to it. An
hour that was in ocn_post's `cmdfile` when it was cut off is late too (`OceanStops`).
`missed` are the hours that a restart went on after although they have no log.

### Cycling

`PostFlow` is about what the products are of; `Cycling` about which files have come.
`logs` and `res` count the hours of which the model has written output and restart
files. `RunPost` begins an hour of a domain: the tracker's input comes first. Then the
grids that are `due` are taken one after the other: `StartGrid` and `EndGrid` copy one
if what is in COM is older, `PassGrid` goes past it if it is there or another job is
at it, and `GridFails` is a copy that fails, of which nobody looks at the result.
`StartCopy` and `CopyRestart` are the cmdfile with the restart files, whose commands
run side by side. `MarkPost` writes the done file. `PostFails` cuts all this off at any
point: what was being copied (`left`) may then be in COM in part, newer than its
source, so that no later run of the job copies it again. Such files and those of a failed
copy are `spoilt`. Only fv_core is written aside, by ncks, and renamed. `torn` are the
hours whose delivery was cut off and not yet taken up again.

`Track` is the tracker. `CanStart` is the dependency
of a job of the next cycle: the files that `hafs_workflow.xml.in` names, each two
minutes old. Of time only this is kept: `young[f]` are the deliveries that were going
on when f came and have neither ended nor taken longer than that; `Outlast` says of a
delivery that it does (`slow`). `Promised` is what the dependencies of a reader stand
for: all that it reads if it is an atm_vi that waits for the track of a later hour,
and of the parent domain the rest of the hour it waits for, and the static files, for
atm_merge and analysis.

Assumed: the test whether a grid is newer and the start of its copy are one step. A
job that begins to deliver after the track has come, and is the first to copy the static
file of the nest, may be caught at it by a reader (`Late`).

### Workflow

`After` and `Along` are the dependency table of `hafs_workflow.xml.in`, `Switched`
the jobs that a switch of the configuration adds. `Source`, `Guess` and `Merged` are
the choices that `exhafs_forecast.sh`, `exhafs_analysis.sh` and `exhafs_merge.sh`
make between the directories; `dir` says what a job's directory is: absent, in part,
whole, or empty after an analysis that had no first guess. A failed job leaves its
directory in part; a done file job that fails may have left its file. `Start` of a
scrub job deletes; of the done file it knows only that it is old enough, not that the
job has ended. `Consistent` says which switches
go together: a step is on with the one whose directory it reads, and an analysis
that reads a step's directory has a dependency on that step. Section 5 tells of
configurations without this.

### Vitals and Launch

`Vitals` has the operations of `Revital` as operators on sequences, in the order in
which the code visits them: `RenumberAll` goes from the last vital to the first and
keeps `lastvit`, an insertion-ordered dict, as a sequence; the four searches and
their displacements are `Searches`. Places are on a line, which keeps the distance
and the extrapolation by the motion. `Launch` composes them as the program does:
`Submit` is run_hafs's selection of the cycles, `LaunchCycle` the launch job with
gen_vitals (`Unrenumbered`, `Renumbered`, `AllIds`) and the look for a
`domain.center` of the cycle before. `Issue` adds a cycle's lines to the file
between any two of them. `Track` is the reference that the lists are checked against:
which vitals are of a storm, said by a closure over sets.

Assumed: the file grows by whole cycles, messages repeat its lines, and no two of
the basins present share a public name.

## 3. Runs

`tlc -config X.cfg M` in this directory. Sizes are distinct states; no run takes
more than about three minutes with two workers. All of them pass.

| Run | Instance | Shows |
|---|---|---|
| `lock` | a process with 2 threads, one with 1, 2 tries, a signal; 64,000 | no orphan lock, no lock after disabling, every acquire ends, `Mutex` is implemented |
| `datastore` | 2 processes, 3 threads, nesting 2, 1 key, 2 values; 167,000 | `AtomicStore` is implemented, through LockHeld, exceptions, failed commits and crashes |
| `datastore_faults` | the same without data, with signals; 8,900 | no lock outside, entries end, the lock file is released |
| `workpool` | 2 workers, 2 tasks, repeated barriers; 177,000 | deque and semaphore agree, barriers are complete, end, and `kill_threads` stops the work and ends |
| `datum_cache` | 2 processes, 3 threads, 3 values, age 1; 720,000 | reads are fresh, sets are stored |
| `datum_ends` | the same with nested with-blocks; 20,000 | calls end |
| `postflow` | 3 hours, 2 groups, gempak stride 2, 2 forecast runs; 2,968,000 | the products of a completed flow are of the present forecast, but for hours it took away behind a job; no wait is for a file that was removed and will not be written |
| `cycling` | 4 configurations, a window of 3 hours, one failure or slow delivery; 756,000 | a done file means delivered, but for spoilt copies; a reader that starts finds what is promised to it; every reader starts |
| `workflow` | 6 configurations, 1 to 3 cycles, a failing job; 83,400 | directories are complete when read, the forecast starts from the best, nothing is deleted too early, cycles complete |
| `delivery` | 2 products, 2 runs of the task, 1 upstream file; 1,223,000 | available means there and whole, COMPLETED means delivered, the action finds its file, the wait ends and has missed only what came too late for another look |
| `pipeline` | 2 threads, a captured pipe of 2 programs, a program with input; 51,000 | communicate returns everything and returns, kill_for_thread ends it |
| `launch` | 9,156 files of up to 4 cycles; 101,000 | the storm's vitals and no others, numbers are restored, what is listed is launched, and warm where it can be |

Types and the invariants that TLAPS proves are mostly not run again: `TypeOK` of all
modules but `Cycling` (there `CycleTypeOK`), `ProcessExclusion`, `Exclusion`, `Isolation`,
`AllExited`. Those that a run and a theorem share are there because the run
shows that they can fail: each property of a run has a mutant of the code that
violates it.

Why these bounds are enough to be interesting:

* Two processes and three threads give both kinds of rival, of the same and of
  another process. Two tries are the smallest number that has a retry.
* Nesting 2 distinguishes an outermost from an inner block. One key with two
  values shows a lost update; keys are independent in every action.
* The cache's age bound 1 has a young, an aged and an expired copy. Three values
  separate old, new and default.
* Two workers are the least with a race at the barrier set, two tasks the
  least where one waits for the other; barriers can be repeated.
* Three hours with two groups give one group two hours and the other one, and two
  runs of the forecast give a first and a repeated one, restarted after any hour that
  has restart files or from hour 0. ocn_post shares with atm_post and gempak only the
  files of the forecast, and the groups share nothing with each other but hours, so
  three flows are checked in behaviours of their own (`Apart`): both atm_post jobs,
  the first of them with gempak, and ocn_post. A third run starts from what a second
  may leave; for it, and for all three together, there are the theorems.
* The hours of `cycling` are output intervals, of which the window has three, and the
  hours 1 and 2 have restart files. Two groups on two domains are the least in which a
  dependency's file comes from another job, or another domain, than what is read.
  There is a nested cycle with atm_vi and one with atm_merge, one domain with analysis
  whose forecast goes to the end of the window, and a member of the ensemble with one job
  and a shorter forecast. One failure, failed copy or slow delivery can come at
  any point of any delivery.
* The configurations of `workflow` are the shipped ones that differ in the
  directories they choose, each with the fewest cycles in which its jobs can meet.
  `cyclethrottle` is at least 2: the scrub of a cycle waits for the forecast of the
  next, so that with 1 nothing would ever complete.
* A wait of 2 seconds with a sleep of 1 has a full sleep, the shortened last one and
  the round after it, and rounds in which the time runs out; cache age and minimum age
  of 1 have a young and an old copy.
  Two runs give a product of a former run.
* A pipe of capacity 1 with an input of 2 and outputs of 2 makes writers wait. Two
  programs have a pipe between them; two threads are enough for a fork inside the
  other's `plock`.
* `Launch` has three families of files: two invests beside two storms (four cycles),
  one that moves, and lines of both centres, test storms and corrections. A
  place may be near, far or between; a wind below or above the threshold of
  run_hafs. Two cycles as an invest are the least where a storm must be followed
  through its own renumbered vital.

Deadlock is checked in `datastore`, the two `datum` runs and `launch`. It is not in
the others, because the system may stop there: all processes of `FileLock`
may exit, the pool, the programs, the jobs or the cycles may all be over, and in
`datastore_faults` a signal may leave `_db_lock` taken in a process that ends.

### Fairness

Safety runs need none. The liveness runs use `FairSpec`:

* `FileLock`: a thread inside acquire or release goes on (retry_io sleeps and counts
  its tries), and a handler that has begun goes on. No fairness for
  asking for a lock or releasing it.
* `Datastore`: `__enter__` and `__exit__` go on; with-blocks are finite, hence weak
  fairness of `Exit` and strong fairness of the outermost one, which inner blocks
  would otherwise put off for ever. Strong fairness of `LockDb`: a
  `threading.Lock` is not first come first served, but jobs run finitely
  many transactions, so nobody is passed over for ever.
* `DatumCache`: the same argument for the two locks of a call.
* `WorkPool`: weak fairness of the master's loops and each worker's step. No
  fairness of the with-block, of signals or exceptions.
* `Delivery`: the waiting process goes on, and so does the clock. The other
  workflow ends a file it has begun; nothing is asked of the task.
* `Pipeline`: the threads go on and a child that got `plock` execs. `PipelineEnds` has
  the programs' own progress as its premise (`ProgramsGoOn`), and says nothing once
  a child was `crossed`; `KillEndsPipeline` needs neither.
* `Cycling`, `Workflow`: the model and the jobs go on, the workflow manager starts
  what it can, and failures are bounded by MAX_TRIES.
* `PostFlow` and `Launch` state safety only.

## 4. What is proved

TLAPS proves the following for all values of the constants, under the named
assumption of each module (threads belong to processes, null values are no
values, bounds are natural numbers, switches are consistent). Every proof module
has `TypeCorrect`. The theorems that are named `NeverStuck...`, `NoDeadlock...` and
`...GoesOn...` say that in every reachable state somebody can take the next
step. ENABLED cannot be used in these proofs, so the theorems write out the guards of
the steps. `EveryStepCounts` with `StepsBounded`, `CallsBounded` and `AttemptsEnd` are
their complement: every step brings a measure strictly forward, and the measure is
bounded by what the constants and the configuration say, or (`WorkPool`) it is a
natural number that falls. Nobody polls, retries or hands over for ever. Together the two say that
whatever order the steps come in, there are only so many of them, and that they cannot
stop early. They are the safety content of the liveness properties that the runs
check. What they leave to the runs is the last step, that under fairness who can go
on does.

* `FileLockProofs`: `ProcessExclusionHolds`, `NoOrphanLockHolds`,
  `NoLockAfterDisableHolds`, `ImplementsMutex`. Exclusion is not inductive as it
  stands: `InsideOwns` adds that a thread between `Lockf` and `Close` belongs to the
  process that owns the kernel's lock. No orphan lock needs `Registered`: whoever is
  acquiring or has the file open is in `locks`, and a handler still has to come to
  it. Exclusion and the refinement hold while each process uses the file from one
  thread (`OneUserPerProcess`), which is how the datastore uses LockFile; with two
  threads the refinement is false (section 5). `NoLockAfterDisable` needs
  `PastCheck`: the main thread
  of a process whose handler has run is not between the test of `locks_okay` and its
  lock. `CallsBounded`: what a thread in acquire or release still has to do
  (`StepsLeft`: its place, three steps for each try that is left, and two for coming
  back to find its lock released by a handler) is at most 3 * `MaxTries` + 2, gets
  less with each step of its own, and nobody else can make it more; a handler's
  list of locks gets shorter by each that it releases.
* `DatastoreProofs`: when no signal comes, `ExclusionHolds`, `IsolationHolds` and
  `ImplementsStore`; `OutsideUnlockedHolds` assumes also that commits succeed.
  `Shape` relates `stack` and `level` at every place, because a refused thread keeps
  a longer stack than it has blocks; `LocksHeld` ties every place with an open
  transaction to `dbLock` and `fileLock`, and `ReadsCurrent` says that what a
  transaction has read is still in the database. The refinement maps a step to the
  same step of `AtomicStore` and lock steps to stutters. `NeverStuckHolds` needs the
  converse of `LocksHeld`: who has `dbLock` will come to give it back
  (`HolderInside`), and a process has the lock file only through the thread that has
  its `dbLock` (`FileHeld`). Then the locks are taken in one order, and
  who waits finds a holder that can go on. It assumes that no signal comes and that
  commits succeed: after a failed commit `__exit__` leaves without `_unlock`, and the
  theorem is false (section 5).
* `WorkPoolProofs`: `PopFindsItemHolds`, `BarrierCompleteHolds` and
  `AllExitedHolds`. The heart is a count, `Permits`: the semaphore plus the workers
  between `Acquire` and `Pop` plus `owed` never exceed the length of the deque.
  (They may be fewer: a signal between `append` and `release` leaves an item
  without a permit.) `BarrierOrder` says that the tasks are in front of the
  BARRIER items, and `NothingLost` that a task not finished is in the deque or in
  a worker's hands, so that nothing can be left when all workers have arrived.
  `KillStopsWorkHolds`: `Enough` counts the TERMINATE items at the head of the
  deque and those still to come, which are no fewer than the workers that are left;
  it needs `Staffed`, that tasks are added only to a complete pool. `NeverStuckHolds`:
  before a signal the count is exact (`Exact`), so that a worker that waits at the
  semaphore means an empty deque, and `Manned` adds that every worker was started and
  none is at a barrier when the master kills. `BegunOnceHolds`: a task is in one
  place of the deque or was taken by one worker (`Distinct`). `EveryStepCounts`, for
  the master's places from barrier on and with every fault: `Todo` weighs an item to
  be queued with 7, one in the deque with 5 and a permit to be given with 1, and
  adds what each worker has in hand (`Total(Ranks)`, a cardinality, so that no fold
  is needed); a worker that takes an item takes up less than it is worth.
* `DatumCacheProofs`: `ReadFreshHolds` and `SetStoredHolds`, with all faults, nested with-blocks and call_callbacks; a
  process whose `_meta` was left wrong (`spoilt`: by a refused set_loc_avail or by
  call_callbacks) is excepted by `ReadFresh` and `SetStored` themselves. `Control`
  says who holds which of the two locks and that a constructor is alone in its
  process; `Data` that rows are complete wherever they are copied. `Freshness` is
  the difficult part: a cached value is in the row, or in the draft of a transaction
  of the same process, or was replaced no longer ago than the cache's age, or belongs
  to a set that is between its transaction and its change of the cache (`Pending`).
  The last case cannot be met by a reader, since the setter holds the Datum's lock.
  `OnItsWay` is the invariant that carries a set's values to the row.
  `NoDeadlockHolds`: whoever has the Datum's lock or the database is at a place
  from which it gives it back (`Holders`), and who has the database waits for
  a Datum's lock only if its own with-block is open: the case `Crossed`, which is the
  exception. `NeverCrossed` shows that without nested with-blocks there is none.
* `DeliveryProofs`: `AvailableWholeHolds`, `CompletedDeliveredHolds`,
  `ActionFindsFileHolds`. `Placed` says, for each place of `run()`, what the steps
  before it have done to the product in hand and to those given; `Slow` that an
  upstream file in part is young, so that an old one is whole; `Cached` that
  what the waiting process believes is in the row, or was there no longer ago than
  its copy is old.
  For `Cycling`: `CycleTypeCorrect`, `DoneDeliveredHolds`, `HandoverCompleteHolds` and
  `HandoverGoesOnHolds`. `Begun` says which files a job can be at in each place of an
  hour, `Ordered` that a nest's hour comes after its parent's and that the tracker
  takes the hours one by one. `Accounted` is what a delivery has brought at each place
  (in COM, on its way or spoilt), and that a slot of which the tracker has its input is
  done, at work or `torn`. From this `DoneDelivered` follows, whose exceptions are the
  `spoilt` files and a static file that another job is still copying.
  `Aged` is what makes the dependencies' ages enough: whoever was delivering when a
  file came (`Guarded`) is in its `young`, or `slow`, or takes up a torn delivery;
  `Tracked` that the slots up to the track's hour had begun when the track came.
  `HandoverComplete` asks for what is `Promised` and has these exceptions: what is
  `spoilt`, and what is `Late`: of a torn or slow delivery, or a static file that is
  copied after the track. It has no hypothesis on the configurations.
  `HandoverGoesOn` holds also after failures. `Passed` says that
  a job has marked all hours of its group below its own, and `Followed` what the
  tracker has brought; with the lemmas on division every hour belongs to one
  group, so that when no job can go on everything is delivered and nothing young. Its
  hypothesis `WaitsWithin` is that readers wait for hours of the forecast; a reader
  that waits for a static file of which a copy failed is its exception.
  `EveryStepCounts` and `StepsBounded` need no hypothesis: what has come since the last
  failure (the model's output, the places behind each job, the tracker's hour, the
  readers that started) is less than a `Width`, and a failure, or a delivery that
  becomes slow, counts for a whole one.
  A job that begins again and skips what is done also gets further.
* `PipelineProofs`: `ReturnedWholeHolds`. `Watched` and `Forced`: a job that manage
  has no more is done, and the clock closes streams only when all programs have been
  waited for. Then `Ended` leaves nobody who could write, so that by `Kept` (what
  is in the pipe and what was read is what was written) and `Emptied` the last read
  has all. For the input, `Closed` says that the parent has no end for reading left,
  so that whoever can still read is a child that is stuck (`Written`). `NeverStuckHolds`:
  `Owned` says which ends the parent has, and that only the program before writes to
  a pipe; `Waited` that who was waited for is no job any more. Take the first program
  of a pipeline that still runs: it waits neither for the one before, which has
  ended, nor for the one behind, which could read. It is stated for when all forked
  children have execed and none was `crossed`. `FlowHolds` (`Flow`, `Limited`): a pipe
  loses nothing, so that what a program reads is limited by the input and by `MaxOut`
  however many programs are in front. `EveryStepCounts` and `StepsBounded` are for any
  finite set of threads, `crossed` and killed programs included: the measure adds
  up over all threads and programs what was read, written, forked, waited for and
  closed, twice, and one for `plock` being free, so that giving it back gets further
  and taking it does too, since who takes it opens, closes or forks something. The sums are cardinalities.
* `PostFlowProofs`: `MarkedDeliveredHolds`, `FinalProductsHold`, `NoVainWaitHolds`,
  `OceanFinalHolds` and `FollowersGoOnHolds`, without a hypothesis on when the jobs
  start or where the forecast restarts. What can go wrong is in the
  properties, as the hours that are overtaken or missed. The proof goes up in
  five stages. The raster lemmas say that the hours i, i + Groups, ... are those with
  rest i, so that every hour has exactly one atm_post job. `Logged` says which logs are
  there at each place of the forecast: none at an hour that it still has to write
  (`Ahead`), and all of the hours below it, but for `missed`; `Emptied` that a run from
  hour 0 begins without output. `Flowing` is about atm_post: an hour that is `Ahead`, or
  has no output, is late, or it has no done file and its job is still before it
  (`Unposted`, `Fresh`); a done file stands beside three products of one run, the one
  whose output is there unless that is being wiped (`Marked`); each place of a job has
  delivered what the places before it deliver (`AtHour`); and the hours behind a job
  are done (`Behind`). It is inductive without any order between the forecast and the
  jobs, because the clean-up of an hour says at that moment who is past it.
  `Decoding` repeats the last three for gempak with atm_post's done files in place of
  the logs (`Seen`); `Floating` does for ocn_post, where a done file stands for an hour
  that is delivered or still in `cmdfile` (`Sent`).
  `FollowersGoOnHolds`: once the forecast is complete every job has a step to take
  that is neither a timeout nor a failure, unless it waits for or copies a missed hour
  (`PostMisses`, `OceanMisses`) or, for gempak, atm_post has not begun or not ended or
  the hour was overtaken (`GempakMisses`). `AttemptsEnd`: each step
  of a job gets its attempt further (`PostStage`, `OceanStage`, `GempakStage`, built
  from the hour and the place) or queues it again, nobody else sets a job back, and
  a run of the forecast goes on likewise (`ModelStage`), its removals and restart files
  included.
* `WorkflowProofs`: `InputsWholeHolds`, `WarmestStartHolds`, `NotScrubbedHolds`, for
  every consistent configuration and any number of cycles. `Closed` says that a job
  which has started has all its ancestors done, `Made` what the state of a job
  makes of its directory, `Kept` what had ended before a deletion. From them the
  choice of a directory is followed case by case to a job that the reader's
  dependencies include. `NeverStuckHolds`: as long as a cycle is not completed some
  job can start, hand over or end, unless the completed run was not marked
  (`Unmarked`). A running job always can (`RunningWorks`), and who is done has handed
  over what others wait for (`Handed`). If none runs, take the
  first cycle that is not completed and in it the least waiting job in the order
  `Depth`, along which the dependencies go down (`DepthFalls`). A cycle waits only for
  the one before it; its last jobs wait for the next one to begin, so `Throttle`
  must be 2 at least. `EveryStepCounts` and `StepsBounded` count what has started, ended
  and been handed over, and a failure, which sends one job back, twice.

Only model-checked:

* All liveness (`AcquireEnds`, `EnterEnds`, `FileLockReleased`, `BarrierEnds`,
  `KillEnds`, `CallEnds`, `HandoverEnds`, `CycleCompletes`, `WaitEnds`,
  `PipelineEnds`, `KillEndsPipeline`). What can be proved of it is above: no state is
  stuck, and every step is one of a bounded number. That fairness then brings the end is
  out of the prover's reach. No measure is given for `EnterEnds`, `CallEnds` and
  `WaitEnds`, whose waiting for the database, for a Datum's lock or for the clock
  depends on how often others come first: they rest on strong fairness, and TLC.
* `Launch`. What renumbering and cleaning compute goes over a list while it changes, so
  that its properties are inductions over data. The prover has no induction rule for
  them; an argument by a least counterexample (`LeastNumber`) serves where a set of
  numbers has to have a least element, but not for what a fold returns.

## 5. Where the code and its documentation disagree

No run ends in a counterexample. What follows was met while modelling. The models
contain it as a step that the code allows, and the property beside it names the
exception, unless it is said to be outside of them.

Locks, datastore and products:

* `Transaction.__enter__` pushes itself on the thread's stack before it locks
  (`ush/produtil/datastore.py:309`) and leaves it there when the lock is refused. The
  thread's stack is never empty again: its later with-blocks take no lock and do not
  commit, although a with-block ends with "transaction is now complete, database is
  updated" (`:294-296`).
* `__exit__` commits also when an exception leaves the block (`:321`), against
  `:283-285`; a commit that raises leaves both locks held (`:322`); a signal drops the
  lock file under another thread's transaction (`:221`).
* `set_loc_avail` changes the cache before the transaction (`:624`), and
  `call_callbacks` refreshes it without the Datum's lock (`:814`), between another
  thread's change of it and the `update_datum` that stores what it finds there. The
  set is lost, although `_getcache` must be called within `with self` (`:634`).
* A LockFile does not exclude threads of one process (`locking.py:128`): a record
  lock is granted again to its process, and the first `close` drops it. A worker that
  has passed `CheckOkay` takes its lock after `disable_locking` has released them
  all (`:119`), against "disables locking" (`:50-51`). A released LockFile stays in
  `locks` (`:159`), which is documented as the locks that are held (`:37-38`).
* After a fatal signal the handler has disabled locking, so that a task's
  `except: ... self.state=FAILED` (`hycom.py`) cannot be stored; `ww3.py`'s WW3Post
  catches only `Exception`.
* In `fileop.py`, outside of the model: `deliver_file` tests S_ISLNK on the result of
  stat; with `force=False` it only logs "Aborting delivery"; `check_file` with
  `min_size=None` raises TypeError.

Threads and programs:

* A worker in a barrier sleeps on the condition without a timeout
  (`workpool.py:386`). A signal that takes the master out of `barrier` leads to
  `kill_threads`, which joins the sleeper for ever; `:142-143` promises to kill threads
  "as quickly as possible".
* `_valid_thread` iterates over `_threads` without the lock (`workpool.py:246`);
  a signal just after `thread.start()` leaves a running thread out of the pool
  (`:315`); `kill_threads` sets the `die` flag to False (`:329`); `raise_at_exit`
  iterates over a method (`:149`, outside).
* A child that is forked while another thread has `plock` (`pipeline.py:202`) waits for
  it for ever, with copies of the ends of all pipes. This is `crossed`.
* `kill_all` (`pipeline.py:333-336`) assigns to a local variable and sends nothing.
  `os.read`'s bytes are compared with `''`, which is never true, so that every
  captured program takes two seconds more. A chunk that ends inside a
  UTF-8 character makes `str(s,encoding='UTF8')` fail, and `nin` counts bytes
  but slices characters (both outside). A `chdir` or exec that fails in the child
  leaves by `sys.exit(2)`, through the with-blocks and finally clauses of the parent's
  callers.
* `run.py:447` says that the highest exit status is returned; `Pipeline.poll`
  returns the last program's. `simple_run` has a typo, `outstder`.

Jobs of a cycle:

* `exhafs_ocn_post.sh:122` marks an hour before its delivery, which comes at the end
  for all hours. When ocn_post is cut off in between, COM keeps what it had of these
  hours, or nothing, and the next run skips them; `OceanFinal` leaves them out as late.
  The file whose presence ends a wait (`:100`) may be the
  next hour's of an earlier run. A listed hour whose output is gone makes the copies
  of cmdfile fail.
* The post jobs are triggered as soon as the forecast is active
  (`ecf/defs/hafs.def:186`, RUNNING in `rocoto/hafs_workflow.xml.in:885`), while it may
  still be cleaning up after its last run, and they go on when it fails and is run
  again. They never go back, so that an hour that is taken away behind them keeps the
  earlier forecast's product, although the done files are
  removed for them to make it anew (`exhafs_forecast.sh:1864-1877`). The clean-up may
  also remove the tracker's file between a job's delivery of it and its done file. gempak
  waits in vain for an hour that atm_post has left behind without a done file, and
  keeps its product of an hour that atm_post delivers again after gempak was past it.
  In the properties these are the hours with `over`, `oover` or `gover`.
* `jobs/JHAFS_FORECAST:63-84` restarts after the newest coupler.res, and looks neither at
  the logs nor at which run left it. The model may be killed between an hour's restart
  files and its log; or a run that was told an earlier FORECAST_RESTART_HR dies in
  its clean-up, and the next one restarts after the newest file. The hours in between
  have no log and are not computed again, and the posts wait for it in vain (`missed`).
  A rerun from hour 0 does remove the restart files, before the logs.
* `rocoto/hafs_workflow.xml.in:910` says that ocn_post starts while the forecast is
  running; its dependency has the completed state only.
* The `mv` of `exhafs_atm_post.sh:539` is unchecked (outside).

Between jobs and cycles:

* `atm_merge` of a nested cycle waits for the parent domain's file of hour 6 only
  (`rocoto/hafs_workflow.xml.in:413`). The nest's `grid_mspec` of that hour comes
  with hour 9 (`exhafs_atm_post.sh:625-636`), which another post job may do, and so do the
  nest's own restart files, which come after the parent's. They can be
  missing when the merge starts: "FATAL ERROR: Missing in/out_grid or in/out_file"
  (`exhafs_merge.sh:193`). `MCCases` has this cycle, and `Promised` leaves out the nest's
  files there.
  atm_vi has the same readers' set and more dependencies; if the file were missing
  there, `hafsvi_preproc` would take `grid_spec` without a word
  (`sub_hafsvi_proc.f90:246-247`).
* A restart file or a grid is copied to COM only if the source is newer
  (`exhafs_atm_post.sh:578-650`, `ush/hafs_runcmd.sh.inc:94-103`). What a killed job
  leaves of a copy is newer, is skipped by the job's next run, and the hour is marked
  done (`:733`) with a part of the file. The copies of the grids are not checked, so a
  failed one has the same end. Both are `spoilt` in `Cycling`, and `DoneDelivered` and
  `HandoverComplete` except them; only fv_core is safe, which ncks writes aside.
* A delivery that takes longer than the two minutes of the dependencies' age lets the
  next cycle start before it is there (`Outlast`); nothing in the code bounds it.
* Configurations that are not `Consistent`: with VI_FGAT and MERGE_FGAT off, analysis
  has no dependency on atm_vi, atm_merge or atm_init whose directories it reads; fgat
  jobs without gsi have no dependents.
* `rocoto/examples/cronjob_hafsv0p3a_vida.sh:50-56` (no vi, analysis on the
  nest, analysis_merge): for a storm above 33 m/s `exhafs_merge.sh:261-268` reads
  RESTART_vi, which nobody writes.
* `jobs/JHAFS_ANALYSIS:101` falls back to `${COMOLD}/RESTART`;
  `exhafs_analysis.sh` reads `${COMOLD}/${old_out_prefix}.RESTART`.
* With RUN_DATM=YES atm_post and product never run, and archive, done file, scrub and
  completion are never ready. forecast_ens has no dependency on atm_merge_ens and
  atm_vi_ens; the archives do not wait for atm_post_ens. (Outside: ensemble, DATM.)
* `hafs_donefile.py` logs the error of its open and ends like any other, so that the
  cycle is never completed (`EndUnmarked`).

Storms:

* An invest that is near to two later storms is renumbered twice, and
  `renumber_storm` overwrites the old number; taken back, it has the other storm's,
  against "the original storm numbers are restored" (`revital.py:408-409`). `Apart`
  excludes this.
* `swap_numbers` and `old` do not swap the basin. An invest of another basin gets
  an id that does not fit its basin, the run of the cycle before is not found, and
  the storm starts cold. `OneBasin` excludes this.
* A line of a listed cycle that comes later can give that cycle's vital another
  number, and the launch job, tried 99 times, raises NoSuchVitals each time. The
  file grows by whole cycles here.
* `name_number_okay` is documented to discard 50-89 and keeps 50 and 80-89;
  `vitcmp`'s fifth tie-break is not in the code. Outside: `hrd_multistorm_sorter` is no
  strict weak order across basins; `sort_by_storm` calls `sorted(cmp=)`, which
  Python 3 has not; `Revital.append` does not reset `is_cleaned`;
  `expect_cold_start` is set and never read.

In code that is not modelled: `input.py` delivers only the first of two items that
come from one member of an archive and marks both done (`:807`, `:859`), `open_ftp`
assigns to an undefined name, `get_one` calls `list_for`, which does not exist;
`hafs_era5_download.py:152` removes a lock file that is held; `run.py`'s
`runbg` and `waitprocs` are documented as not implemented.

## 6. What the models leave out

Left out of the modelled components:

* Datastore: `locking=False`, the `init_db` of an empty file, `dump`; metadata other
  than the two fields of a Datum; the retries inside sqlite3.
* File locks: an inode that is removed and made again while it is locked, `giveup`
  callbacks, and the random part of the sleeping times.
* Products: the minimum size of an upstream file and its callbacks, a delivery to
  another location than before, links, groups and permissions, FileWaiter.
* WorkPool: `nthreads=0`, in which the master does the work itself.
* Pipeline: standard error, files as streams, return codes.
* PostFlow: `gtype=nest`, several domains, `POST_CLEANUP` and unpost, `SENDCOM=NO`,
  RESTART files as products (which are `Cycling`'s), the content of the files; the
  model's output of an hour is one step, although UPP may meet a file that is being
  written, for which the log file is the only guard.
* Cycling: the restart file of ww3, the ensemble's EnKF, what the readers compute, and
  reruns of the forecast while the post jobs run (which are `PostFlow`'s).
* Workflow: the ensemble, RUN_DATM and RUN_DOCN, `gtype=nest`, times, and files of
  other systems.
* Vitals and Launch: the parsers, the names that are made from numbers, basins with a
  common public name, runs of several storms, fake storms.

What could come next: the ensemble branch of the workflow, in which section 5 has
three missing dependencies; `gtype=nest` in `PostFlow`; a bound on how often a
transaction or a set can be passed over.
