# TLA+ models of Baltazar

Baltazar is a header-only C++ library that runs a directed acyclic graph of tasks, in sequence or on
a thread pool. This directory holds TLA+ modules that model its core, TLC configurations that check
them on small instances, and theorems about them checked by TLAPS. Paths below are relative to the
repository root.

## The system

| part | source | state | operations |
|---|---|---|---|
| `TaskQueue<MAX_TASKS>` | `src/thread_pool/thread_task_queue.hpp` | ring of `ThreadJob`s, head, tail, size; no lock | `push`, `pop`, `empty`, `full`, `size` |
| `ThreadJob`, `IThreadTask` | `src/thread_pool/thread_task.hpp` | a task, an id, "collect when done" | `run` |
| `ThreadPool<THREAD_NUM, MAX_QUEUE_SIZE>` | `src/thread_pool/thread_pool.hpp` | two queues, two counters, `m_stop`, a mutex, three condition variables, threads | worker loop, `tryScheduleTask`, `scheduleTask`, `tryGetNextDoneTask`, `getNextDoneTask`, `waitForAllTasks`, `shutdown`, destructor |
| `Node` | `src/dag/dag.hpp` | dependencies, `m_ready`, `m_done`, depth, priority, output, marks of the depth-first search | `isReady`, `reset`, `setDone`, `run`, setters |
| `NodeList` | `src/dag/dag.hpp` | array of nodes | `addNode`, `getNodeAt`, `sortNodes` (depth-first search and five orders) |
| `ParallelCoreRunner` | `src/core/core_parallel.hpp` | per wave: done and scheduled flags, counter | run a list once, n times, in a loop, on a pool |
| `SerialCoreRunner` | `src/core/core_serial.hpp` | wave number | run a list in list order |
| profilers | `src/core/profiling.hpp`, `src/core/multithreaded_profiling.hpp` | output stream; the multithreaded one has a queue, a thread and a lock | log jobs, waves, runs |
| `Optional`, `FunctionTraits` | `src/utils/` | one value; compile time | |
| scripts, examples, benchmarks | `scripts/`, `examples/`, `src/*/benchmark` | | build automation, log processing, callers |

How they interact. A runner calls `scheduleTask()` for every node that is ready and not scheduled,
then collects done jobs with `tryGetNextDoneTask()` until there is none, marks them done, and scans
again. Workers call `Node::run()`, which asserts `isReady()` and reads the outputs of the
dependencies. Runner and workers share the pool's monitor (one mutex) and, without a lock, the flags
and outputs of the nodes. `stopFlag` is an atomic that any other thread may raise. The profiler is
called by the runner and hands jobs to a thread of its own through a second `TaskQueue`.

What is hard. Notifications are sent after the lock is released; three condition variables serve
four kinds of waiters; `m_stop` is written by `shutdown()` and by the wait predicate of
`waitForAllTasks()`; a running job is in neither queue, so capacity depends on two counters;
the runner is producer and only consumer at once; `m_ready` is a cache written by several threads
and reset per wave while `m_done` is not. `PROJECT.json` lists these hazards at their lines.

What makes the parts correct:

- queue: first in, first out, bounded, no stale slot handed out;
- pool: counters agree with the jobs, asserted pushes succeed, each job is in one place and is
  delivered once, a sleeping thread is never forgotten, `waitForAllTasks()` means what it says, the
  destructor returns;
- runner: dependencies first, each node once per wave, complete waves, termination;
- sort: a permutation in dependency order; profiler: every logged job is written once, in order.

## Modules

| module | role |
|---|---|
| `BoundedFifo` | abstract: what `TaskQueue` promises |
| `TaskQueue` | the ring buffer slot by slot; `RingIsFifo` is the refinement of `BoundedFifo` |
| `JobPool` | abstract: what `ThreadPool` promises about jobs |
| `ThreadPool` | the monitor, workers and callers; `PoolIsJobPool` is the refinement of `JobPool` |
| `ThreadPool_proofs` | counters, capacity, asserted pushes and wakeups, proved |
| `ThreadPoolJobs_proofs` | conservation of jobs, `waitForAllTasks()` and the refinement of `JobPool`, proved |
| `ParallelRunner` | runner and node flags composed with `ThreadPool`; `UsesPool` says every step is one of the pool |
| `NodeList` | `addNode()` and `sortNodes()`, with the depth-first search call by call |
| `NodeList_proofs` | its theorems |
| `SerialRunner` | `SerialCoreRunner` composed with `NodeList` |
| `SerialRunner_proofs` | its theorems, on top of those about lists |
| `Profiler` | `MultiThreadedCoreProfiler`: callers, queue, logging thread |
| `Profiler_proofs` | order of the log and wakeups, proved |
| `SequenceLemmas` | lemmas about the elements of a sequence, used by the proofs |
| `RunnerSessions` | several runs on one pool, stopped and restarted, and other users of the pool; extends `ParallelRunner` |
| `ProfiledRunner` | `ParallelRunner` composed with `Profiler` (PROFILELOG) |
| `ParallelRunner_proofs` | the runner on its pool, in one run, in sessions and with its profiler, proved on top of the pool's conservation of jobs |
| `LogLines` | the text of the log, piece by piece |
| `OptionalValue` | `Optional<T>` for a `T` that owns a resource |
| `Containers_proofs` | the theorems of `TaskQueue` and `OptionalValue` |
| `MC...` | instances for TLC |

### Correspondence

`TaskQueue`. `tasks`, `head`, `tail`, `size` are the members; `result` is what the last call
returned. `pop` leaves the job in its slot, as the code does. The queue has no lock, and each of its
users calls it under a mutex, so a call is one step.

`ThreadPool`. Every shared field is accessed under `m_mtx`, so one action is one critical section;
`task->run()` and every notification are outside the lock and are steps of their own. A thread inside
`wait()` is a member of `addTaskCv`, `finishTaskCv` or `popedTaskCv`; a notification or
`SpuriousWakeup` removes it and its next step evaluates the predicate again. `workerPc` and
`clientPc` say where a thread is. The queues are sequences (justified by `RingImplementsFifo`).
`stop` is `m_stop`; `waitForAllTasks()` overwrites it on each evaluation of its predicate, and
`RaiseStopFlag` is another thread that raises the atomic while the caller waits. `accepted`,
`retired` and `everStopped` are history variables. A job is submitted once: submitting the same task
again is a new job. The destructor starts only when no call is in progress and nothing is called
after it, which C++ demands of every object.

`ParallelRunner`. The runner's code between two calls of the pool is one step per node scanned or job
collected; `scheduleTask()` and `tryGetNextDoneTask()` are the pool's own actions, so the runner
blocks where the pool blocks it. `deps` is any acyclic graph, chosen in the initial state; the list
order is the order of the numbers, so sorted and unsorted lists are both covered. The wave in a job
is a history: the code identifies a job by its node. Two reads of `stopFlag` with nothing between
them are one read, since the flag only rises during a run.

`NodeList`. `deps` is any graph, with cycles, double edges and nodes outside the list; it may be
changed once more between two sorts. The recursion of `dfs()` is `stack`, the loop variables of its
calls are `depIndex`. `SearchStep` enters, leaves or returns from a call; `SortReturns` is the rest of
`sortNodes()`. Results of `std::sort`, which is not stable, are any arrangement that its comparison
allows; `customCompare` belongs to the caller and allows any. `phase` also says how a sort went
wrong: an assertion (`cycle`, `sizeMismatch`) or undefined behaviour, after which nothing is modelled
(`overrun`: more nodes are reachable than the array holds; `nullCompared`: the list has free places,
`std::sort` runs over them, and a null pointer is followed). On a list with free places a
`customCompare` may follow null pointers or bear them, as the default one does; if it bears them,
they end up behind the nodes and the sort returns, or in front of one and line 269 follows them. A
node is added to a list once, and every dependency is set.

`SerialRunner`. The same thread builds, sorts and runs the list, in any order; another one raises
`stopFlag`. `runnerPc` is where the two nested loops are, `wavesLeft` counts the outer one down. The
assertion of `Node::run()` is the outcome `notReady`. A list that is unsorted, or sorted by priority,
may reach it; `SortedListRunsInOrder` says that the other orders never do.

`Profiler`. The grain is that of `ThreadPool`. The first read of `m_stop` may come before the
constructor has initialised it (`TestStopEarly`): the thread then leaves at once, hangs on the
unconstructed mutex, or gets through and goes on when the members exist. What the queue's constructor
would do to a thread that is already inside is not modelled. `logWave()`, `logRun()` and
`logCustomDiff()` only write text: see `LogLines`.

`RunnerSessions`. `CallRun` starts `runNodeListParallelNTimes()` or `runNodeListParallelLoop()`,
`SessionNextWave` and `SessionRunReturns` are what follows a wave, `ParallelRunner`'s `WaveStep` is the
wave itself. `wave` counts over all runs, as `m_waveNumber` does; `leftovers` remembers how many jobs
the pool held when the run began. The caller uses the pool between runs (`CallerUsesPool`), another
thread stops it or waits for its tasks at any time (`OtherUsesPool`). Nobody but the runner's thread
collects done jobs: a second collector would take jobs the runner waits for.

`ProfiledRunner`. The variables of both modules, one runner's thread: after `SetDone` it is inside
`Profiler`'s `logJob()` and takes no step of its own until it is back. Every wait of the pool and of
the profiler may return spuriously. The pool is destroyed before
the runner that owns the profiler, as in `examples/profiling.cpp`.

`LogLines`. A line is two insertions; an insertion reads the stream's put position, then stores its
piece there and sets the position behind it, because `std::ofstream` has no lock. That is one of the
outcomes the data race may have; a lost or an overwritten piece follows from it. The queue is a number.

`OptionalValue`. An object of type `T` is a number, `storage` holds the number of the object last
constructed or copied there, `live` the objects in their lifetime. `Copy` is the implicit copy of the
members, `AssignOwn` is `o = o.value()`. `shared` marks the objects that met one of the two.

## Runs

| run | instance | shows |
|---|---|---|
| `Containers` | queue: 3 slots, 3 jobs; 3 Optionals, 4 objects | refinement of `BoundedFifo`; one owner per object, destroyed once |
| `ThreadPoolSafety` | 2 workers, 3 callers, 2 + 2 jobs, capacity 2 | counters, pushes, conservation of jobs, wakeups, `waitForAllTasks()`, refinement of `JobPool` |
| `ThreadPoolLiveness` | 2 workers, 2 callers, 1 + 1 jobs, capacity 1 | progress of jobs, callers and destructor; whom a shutdown reaches |
| `ParallelRunner` | 3 nodes (all 25 graphs), 2 waves, 2 workers, buffer 2 | order in the first wave, `UsesPool`; if the buffer holds what is ready at once, the runner never waits for a place in the first wave, and that wave ends |
| `RunnerWaveOrder` | 2 nodes, 2 waves | violation: order is not kept from wave 2 on |
| `RunnerSmallBuffer` | 2 nodes, buffer 1 | violation: the runner blocks for ever |
| `RunnerSessions` | 2 nodes (all 3 graphs), 2 waves in all, 1 worker, another client, buffer 3 | a wave that ends on its count lacks no more nodes than the run found jobs in the pool, which others may stop; the stop flag ends a run |
| `ProfiledRunner` | 2 nodes, 2 waves, 2 workers, buffer 2, log queue of 1 | every collected job is logged; a node is run by one worker at a time; the program ends |
| `NodeList` | 4 nodes, list of 3, 2 dependencies per node, 3 in all, 2 priorities, 1 change | what a sort returns, depths, cycles, marks; a list that lacks no dependency always sorts |
| `SerialRunner` | 3 nodes, 2 dependencies in all, 1 change, 2 waves | order of every wave, the stop flag, the end of runs |
| `Profiler` | 3 callers, 4 jobs, queue of 2 | order of the log, wakeups, progress, whom a shutdown reaches, destructor |
| `LogLinesWhole` | 1 caller, 2 lines | violation: `logRun()` tears a line |

`Containers` checks two modules that do not touch each other; its initial state says which one is used.

Bounds. In the queue, the pool, the runner on the pool and the profiler the only bounds are the
constants; no action has an extra guard. In `RunnerSessions`, `NumWaves` bounds the waves of all runs
together (fairness asks for no further wave at the bound); `MaxLines` bounds `LogLines`, `MaxObjects`
bounds `OptionalValue`. Two waves are one run of two or a second run after a stopped one; one worker
with another client is enough for a pool that is stopped, left without workers, or restarted, with one
node accepted and the other refused; a buffer of three holds the list and one job of a stopped run, or
is too small for the list and two. A log queue of one makes the runner wait for the logging thread at
the second job. Four objects let an Optional be assigned twice beside a copy. In `NodeList`, `MaxDeps`
and `MaxEdges` bound the graphs and `MaxRewires` the later changes; in `SerialRunner`, `MaxWaves`
bounds the argument n. Four nodes and a list of three give a dependency outside the list and an
overrun; three edges give the chain of four, the fork, the join, and cycles of one, two and three. One
change after a sort makes depths stale. With one priority in `SerialRunner`, sorting by priority leaves
any order. Four jobs, a queue of two and three callers let two callers sleep on a full queue. Three
slots let the ring wrap with every size. A capacity of 2 with four jobs fills the pool with queued,
running and done jobs in every mix, and three callers let two compete for a place while a third frees
one or stops the pool. The liveness run has capacity 1, where each place must be handed over. Three
nodes give chains, forks, joins and independent nodes, and a buffer of two makes the runner wait for a
place. The two waves of `ProfiledRunner` and `RunnerSessions` show what the reset does and does not do.

`CHECK_DEADLOCK FALSE` is set for the pool, the runner and the profiler because they stop: after the
destructor nothing happens any more; and for lists, because a failed assertion ends the program. That
they stop only where they should is what the liveness properties say.

Symmetry is used only in runs without liveness properties.

### Fairness

`Fairness` in `ThreadPool` is weak fairness of each worker and of each call in progress: the
operating system schedules every thread, the mutex does not starve a thread that keeps asking, and
tasks terminate. No fairness is assumed for starting a call, for spurious wakeups, or for raising a
stop flag: a client may simply never collect its results. The runner's fairness is the same, its own
code being one more thread. In `SerialRunner` only the steps inside a call are fair: nodes terminate,
but nobody has to call a run or to raise the flag. In `Profiler` the constructor, the logging thread
and calls in progress are. `RunnerSessions` assumes fairness of the runner's thread inside a call and
of the workers, none of the caller, of other clients and of the stop flag. `ProfiledRunner` puts
the steps of the runner's thread, of each worker and of the logging thread under weak fairness.

### What the code does not promise

The liveness properties exclude pools that were ever stopped where a caller waits. `shutdown()`
notifies `m_addTaskCv` only, so callers asleep in `scheduleTask()`, `getNextDoneTask()` or
`waitForAllTasks()` stay asleep; `waitForAllTasks()` with an unset flag cancels a shutdown; after a
stop, queued jobs are left behind (`Conservation` shows they are neither lost nor doubled),
`getNextDoneTask()` withholds results that are there, and `tryScheduleTask()` still takes jobs. No
property says otherwise, and no document does.

`shutdown()` of the profiler does not notify `m_popedTaskCv`, on which `logJob()` waits for `m_stop`
too. A caller asleep there is woken if the logging thread is past its test of `m_stop`
(multithreaded_profiling.hpp:79), because it then notifies once more: `LoggingGoesOn`. But other
callers may fill the queue again after its last notification, and a caller that goes to sleep on it
sleeps for ever when `shutdown()` comes before the thread is back at that line: the thread leaves.
`NoLostLogWakeup` is about places in the queue and says nothing of such a caller.

The runner ignores what `scheduleTask()` returns: on a pool that somebody stopped it loops until the
stop flag rises, which `StopFlagEndsRun` shows to be enough. After a stopped run the pool holds jobs
(`leftovers`); a run that starts then may run a node twice at once, so `NodesExclusive` is stated for
a single call, and counts the jobs of the old run as its own, so a wave may end without having run
every node. `WavesEndAllRan` bounds that: it lacks at most as many as there were jobs in the pool,
and later waves of the run, which inherit the jobs of nodes that a wave did not wait for, lack no
more. The jobs also take places in the buffer, which `StopFlagEndsRun` counts.
`OptionalValue` excludes implicit copies and self-assignment, after which an object is destroyed
twice, leaked or read when dead; `ThreadJob`, the only type the library puts in an `Optional`, owns
nothing, so no harm is done there.

### Three disagreements

`RunnerWaveOrder`: README.md:6-7 says that the order of execution is determined by the topological
sort. `Node::reset()` clears `m_ready` but not `m_done`, so from the second wave on every node is ready
at once. `RunnerSmallBuffer`: README.md:5-6 says a graph can be executed by the thread pool; when more
nodes are ready at once than `TASK_BUFFER_SIZE`, the runner, the only consumer of done jobs, waits in
`scheduleTask()` for a place that only it could free. `FirstWaveFits` and `BufferFits` in
`ParallelRunner` state which graphs are safe, and `NeverWaitsForPlace` that they are. `LogLinesWhole`:
scripts/process_profiling_logs.py:178 reads the log line by line as records; `logRun()` writes without
the lock that all other writers hold, and the logging thread may still be writing the jobs of the run.

### Mutants

Definitions named for a defect (`NotifyNone`, `KeepCount`, ...) are wrong versions of the definition
that follows them. Each property of a passing run is violated when its mutant replaces the original.

## Proofs

Every safety invariant, action property and refinement of the passing runs is proved. The inductive
invariants of the two runners were first checked by TLC on the instances of their runs.

`Containers_proofs` proves, for every capacity and every set of jobs, type correctness, that the
tail follows head and size, that live slots hold jobs, and `RingImplementsFifo`. (The run checks the
last, which a null job or an index outside the ring would violate too.) The inductive invariant
`RingInv` is the conjunction of the three invariants: `LiveSlotsHoldJobs` needs the position of the
tail to know that `push` writes the slot after the last live one. The refinement maps the live
slots, read from the head, to a sequence; each of the four cases of `push` and `pop` is one step of
`BoundedFifo`, shown by comparing sequences element by element. Of `OptionalValue` it proves
`OwnedOnce`, which is inductive with the numbering of the objects (`OwnedInv`): an action constructs
the next number, which nobody holds, and gives up at most one, which had one holder.

`ThreadPool_proofs` proves, for any number of workers, callers, jobs and places, that the pool's
variables keep their types, that the counters agree with the jobs, and that the asserted push of a
finished job succeeds. The inductive invariant `CountInv` is the conjunction of `TypeOK`, of
`JobsInHand` (a running worker and a blocked `scheduleTask()` hold a job), of `Accounting` and of
the bound on `numberOfTasks`. `JobsInHand` gives the queues their types; without `Accounting` the
decrements could go below zero, and without the bound `doneJobs` could be full. `WakeInv` adds the
three wakeup properties and that a raised `m_stop` is noted as a stop (`StopIsNoted`). Each property
compares what is there to be seen (jobs, free places) with the threads that are awake or owe a
notification. A step that adds to the first adds a notifier, a notifier that leaves wakes a thread
or finds none asleep, and a thread goes to sleep only when there is nothing to see; the lemmas count
these sets before and after each step.

`ThreadPoolJobs_proofs` adds `Conservation` and `ArgsFresh` (the job of a call in progress was never
accepted) and proves `JobInv` inductive. Each job moves along queued, running, done, retired, and
the five actions that move one are lemmas; the others leave the four sets alone.
`WaitForAllMeansAllRan` follows: counters of zero make the sets of queued and running jobs empty.

The same module proves that the pool implements `JobPool`: the same five actions are its steps, all
others stutter. `RunningJobsBounded` carries the capacity over, from the counters to the set of
running jobs.

`NodeList_proofs` proves all properties of the run `NodeList`, for every graph, list and capacity.
`SearchInv` says where the search stands: visited nodes are the active and the placed ones
(`Marks`), the nodes the outer loop has passed are visited (`NodesSeen`), a placed node stands after
its dependencies and is deeper (`PlacedInOrder`), and so will be an active one, as far as its loop
has come (`PassedInOrder`). When a sort returns, equal sizes and no repetition make placed nodes and
list nodes the same set (`SortedNodes`). A list sorted by depth is in dependency order because
depths strictly grow along dependencies, stale or not. `CycleInv` adds that each active node is a
dependency of its caller: an active node that is called for closes a cycle; the shallowest node of a
cycle of placed nodes would depend on a shallower one. `ChainInv` adds that every depth is the
length of some chain of dependencies, and that of a placed node of none longer: a longer chain would
go through a dependency that is placed and shallower. Depths outlive sorts, so the first half holds
of all nodes at all times; it is stated for lists whose dependencies were not changed after a sort,
because depths are never reset. `SoundInv` adds that in a list that lacks no dependency the search
visits nodes of the list only: then it cannot place more nodes than the array holds, and it ends
with as many as the list. `FrontInv` adds that on a list in dependency order the placed nodes are
its front.

`ParallelRunner_proofs` proves the safety properties of the runner, alone, in sessions and with its
profiler. `CoreInv` holds for every user of a wave: where the runner is tells which call of the pool it
is in (`RunnerCalls`); a node without a scheduled flag has no job of this wave (`JobsFlagged`), so each
submission is new and every step is one of the pool, which makes `JobInv` available; in the first wave
`m_done` and a cached `m_ready` mean that dependencies were collected (`FirstWaveFlags`), so whatever
was submitted had its dependencies done before (`FirstWaveSubmitted`). `LiveInv` holds when the run
found the pool empty: all jobs in the pool are of the current wave (`PoolHoldsThisWave`), which gives
`NodesExclusive`, and the done flags and their count stand for the collected jobs (`DoneMarks`), so
that a wave that nobody stopped leaves the pool empty. For `NeverWaitsForPlace`, the counters of the
pool are the number of jobs that are in it, each of another node; with the node being submitted they
are ready together, so the buffer has a place for each. TLC sees the first wave of that property in the
run `ParallelRunner`; for later waves there is the proof, and what follows from it,
`ProfiledRunReturns`. A session keeps `CoreInv`, and instead of `LiveInv`, which leftovers break,
`WaveCounts`: during a wave the jobs in the pool and the jobs counted are together at most those
submitted in the wave and those the run found (`JobsCounted`). Submitting adds one to both sides,
collecting moves one on the left. When the count is reached, the nodes not submitted and those
submitted but still in the pool are then at most the jobs found, which is `WavesEndAllRan`; and the
pool holds at most as many, so the next wave begins with the same inequality. A profiled run implements
`RunnerSpec` and uses `Profiler` as its specification says; `JobsGivenToLog` relates its two halves.

`SerialRunner_proofs` proves its two invariants, and that a run leaves list and search alone
(`SerialUsesList`). `StopInv` says where a run stands after a node has started with the flag up;
`RunInv`, with `SearchInv`, that the nodes run in a wave are the front of the list (`RanIsFront`),
and that a list sorted by dependencies is still in their order; so the assertion of `Node::run()`
finds all dependencies done.

`Profiler_proofs` proves `LoggedInOrder` and `NoLostLogWakeup`: the logging thread sleeps only while
there is nothing to do or somebody is about to wake it, a caller only while the queue is full or a
notification is due, and the thread is there as long as `m_stop` is down. `LogInv` adds that the
arguments of calls in progress are not in the log and differ from one another; `WakeInv` is `LogInv`
with the wakeup property, which is inductive because a notifier leaves its place only by waking the
thread.

Assumptions are those named in the modules: `MAX_TASKS`, `QUEUE_SIZE` and `NUM_OF_NODES` are
positive, the placeholder for no job is not a job, sets of threads are finite.

Left to TLC: every liveness property (fairness and ENABLED are outside the prover), and the three
violations, among them all of `LogLines`.

## Not modelled

Task exceptions (they terminate the process), debug output, the times that are logged, the order of
flushes of the log and `SingleThreadedCoreProfiler` (one thread, one counter), a dependency that was
never set (a null pointer), an overflow of the wave counter of `runNodeListParallelNTimes()` (an int
compared with a size_t), compile-time checks, scripts, benchmarks, the graphs and functors of the
examples and the values in `m_output` (their order of writes and reads is what `FirstWaveInOrder`
states). `PROJECT.json` gives the reason for each part.

## Plan

1. Done: queue, pool, runners, lists and their sort, profiler and its text, sessions of runs,
   `Optional`; proofs of every safety property and refinement that the runs check.
2. `ParallelRunner` on a list that `NodeList` sorted: the composition, and `SortIsTopological` used
   in it; an invariant for later waves, that a node is submitted once the wave before is complete.
3. An abstract runner (a node runs after its dependencies, once per wave) that the parallel
   runner in its first wave and the serial runner both implement.
