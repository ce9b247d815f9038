------------------------------- MODULE ThreadPool ------------------------------
(***************************************************************************)
(* ThreadPool<THREAD_NUM, MAX_QUEUE_SIZE> of src/thread_pool/              *)
(* thread_pool.hpp: a monitor (one mutex, three condition variables)       *)
(* shared by worker threads and by the threads that call the public        *)
(* methods, here the clients.                                              *)
(*                                                                         *)
(* Grain.  All shared fields are read and written under m_mtx, so a        *)
(* critical section is one step.  What happens outside the lock is a step  *)
(* of its own: task->run(), and every notify, because the code notifies    *)
(* after lock.unlock().  A thread inside wait() is a member of the wait    *)
(* set of its condition variable; a notification, or a spurious wakeup,    *)
(* takes it out, and its next step evaluates the predicate again under     *)
(* the lock.                                                               *)
(*                                                                         *)
(* The two TaskQueues are sequences: Containers_proofs shows that the ring *)
(* buffer implements the bounded FIFO used here.  A ThreadJob is a value   *)
(* of Job; its _shouldSyncWhenDone is membership in SyncJob.               *)
(***************************************************************************)
EXTENDS Integers, Sequences, FiniteSets, Functions

CONSTANTS
  Worker,          (* the THREAD_NUM threads of m_threads                  *)
  Client,          (* threads that call the pool                           *)
  SyncJob,         (* jobs with _shouldSyncWhenDone = true                 *)
  PlainJob,        (* jobs with _shouldSyncWhenDone = false                *)
  NoJob,           (* "no ThreadJob"                                       *)
  MAX_QUEUE_SIZE   (* the template parameter                               *)

Job == SyncJob \cup PlainJob

ASSUME PoolAssumption ==
  /\ IsFiniteSet(Worker)
  /\ IsFiniteSet(Client)
  /\ Worker \cap Client = {}
  /\ NoJob \notin Job
  /\ MAX_QUEUE_SIZE \in Nat

VARIABLES
  scheduledJobs,          (* m_scheduledJobs                               *)
  doneJobs,               (* m_doneJobs                                    *)
  numberOfTasks,          (* m_numberOfTasks                               *)
  numberOfRunningTasks,   (* m_numberOfRunningTasks                        *)
  stop,                   (* m_stop                                        *)
  addTaskCv,              (* threads asleep on m_addTaskCv                 *)
  finishTaskCv,           (* threads asleep on m_finishTaskCv              *)
  popedTaskCv,            (* threads asleep on m_popedTaskCv               *)
  workerPc,               (* where each worker is in its loop              *)
  workerJob,              (* the local variable job of each worker         *)
  clientPc,               (* the call each client is in                    *)
  clientJob,              (* the argument of a scheduleTask() in progress  *)
  stopFlag,               (* the atomic passed to waitForAllTasks()        *)
  accepted,               (* history: jobs that entered m_scheduledJobs    *)
  retired,                (* history: jobs handed back or discarded        *)
  everStopped             (* history: m_stop has been true at some time    *)

queueVars   == <<scheduledJobs, doneJobs, numberOfTasks, numberOfRunningTasks>>
stopVars    == <<stop, everStopped>>
cvVars      == <<addTaskCv, finishTaskCv, popedTaskCv>>
workerVars  == <<workerPc, workerJob>>
clientVars  == <<clientPc, clientJob, stopFlag>>
historyVars == <<accepted, retired>>

vars == <<queueVars, stopVars, cvVars, workerVars, clientVars, historyVars>>

Init ==
  /\ scheduledJobs = <<>>
  /\ doneJobs = <<>>
  /\ numberOfTasks = 0
  /\ numberOfRunningTasks = 0
  /\ stop = FALSE
  /\ addTaskCv = {}
  /\ finishTaskCv = {}
  /\ popedTaskCv = {}
  /\ workerPc = [w \in Worker |-> "wait"]
  /\ workerJob = [w \in Worker |-> NoJob]
  /\ clientPc = [c \in Client |-> "idle"]
  /\ clientJob = [c \in Client |-> NoJob]
  /\ stopFlag = [c \in Client |-> FALSE]
  /\ accepted = {}
  /\ retired = {}
  /\ everStopped = FALSE

(* Definitions named for a defect (NotifyNone, PushDropsLast, ...) are     *)
(* mutants: plausible wrong versions of the definition that follows them,  *)
(* used to show that a property notices.                                   *)

NotifyNone(cv) == {cv}

(* The wait sets that notify_one() may leave: it wakes some sleeping       *)
(* thread, if there is one.  notify_all() wakes every one.                 *)
NotifyOne(cv) == IF cv = {} THEN {{}} ELSE {cv \ {t} : t \in cv}

NotifyAll(cv) == {{}}

PushDropsLast(queue, job) ==
  IF Len(queue) < MAX_QUEUE_SIZE - 1 THEN Append(queue, job) ELSE queue

PushInFront(queue, job) == <<job>> \o queue

(* TaskQueue::push(), which refuses a job when the queue is full.          *)
Push(queue, job) == IF Len(queue) < MAX_QUEUE_SIZE THEN Append(queue, job) ELSE queue

SetStop(value) ==
  /\ stop' = value
  /\ everStopped' = (everStopped \/ value)

--------------------------------------------------------------------------------
(* The loop of a worker thread (lines 37-98).                              *)

Running == {w \in Worker : workerPc[w] = "run"}

AtAddTaskWait(w) == workerPc[w] = "wait" /\ w \notin addTaskCv

(* The predicate of m_addTaskCv.wait() is false: sleep. *)
WorkerSleep(w) ==
  /\ AtAddTaskWait(w)
  /\ scheduledJobs = <<>> /\ ~stop
  /\ addTaskCv' = addTaskCv \cup {w}
  /\ UNCHANGED <<queueVars, stopVars, finishTaskCv, popedTaskCv, workerVars,
                 clientVars, historyVars>>

(* m_stop: leave the loop, whatever is still queued. *)
WorkerExit(w) ==
  /\ AtAddTaskWait(w)
  /\ stop
  /\ workerPc' = [workerPc EXCEPT ![w] = "exited"]
  /\ UNCHANGED <<queueVars, stopVars, cvVars, workerJob, clientVars, historyVars>>

(* Take the oldest job and run it after releasing the lock. *)
WorkerTake(w) ==
  /\ AtAddTaskWait(w)
  /\ scheduledJobs # <<>> /\ ~stop
  /\ workerJob' = [workerJob EXCEPT ![w] = Head(scheduledJobs)]
  /\ scheduledJobs' = Tail(scheduledJobs)
  /\ numberOfRunningTasks' = numberOfRunningTasks + 1
  /\ workerPc' = [workerPc EXCEPT ![w] = "run"]
  /\ UNCHANGED <<doneJobs, numberOfTasks, stopVars, cvVars, clientVars, historyVars>>

(* task->run() has returned and the job is to be collected by a client. *)
FinishSync(w) ==
  /\ workerPc[w] = "run" /\ workerJob[w] \in SyncJob
  /\ numberOfRunningTasks' = numberOfRunningTasks - 1
  /\ doneJobs' = Push(doneJobs, workerJob[w])
  /\ workerPc' = [workerPc EXCEPT ![w] = "notifyFinish"]
  /\ UNCHANGED <<scheduledJobs, numberOfTasks, stopVars, cvVars, workerJob,
                 clientVars, historyVars>>

(* task->run() has returned and nobody will ask for the job. *)
FinishPlain(w) ==
  /\ workerPc[w] = "run" /\ workerJob[w] \notin SyncJob
  /\ numberOfRunningTasks' = numberOfRunningTasks - 1
  /\ numberOfTasks' = numberOfTasks - 1
  /\ retired' = retired \cup {workerJob[w]}
  /\ workerPc' = [workerPc EXCEPT ![w] = "notifyFinish"]
  /\ UNCHANGED <<scheduledJobs, doneJobs, stopVars, cvVars, workerJob, clientVars,
                 accepted>>

NotifyFinishOnly(w) ==
  /\ workerPc[w] = "notifyFinish"
  /\ finishTaskCv' \in NotifyAll(finishTaskCv)
  /\ workerPc' = [workerPc EXCEPT ![w] = "wait"]
  /\ workerJob' = [workerJob EXCEPT ![w] = NoJob]
  /\ UNCHANGED <<queueVars, stopVars, addTaskCv, popedTaskCv, clientVars, historyVars>>

(* m_finishTaskCv.notify_all(), on both branches. *)
WorkerNotifyFinish(w) ==
  /\ workerPc[w] = "notifyFinish"
  /\ finishTaskCv' \in NotifyAll(finishTaskCv)
  /\ workerPc' = [workerPc EXCEPT
       ![w] = IF workerJob[w] \in SyncJob THEN "wait" ELSE "notifyPoped"]
  /\ workerJob' = [workerJob EXCEPT ![w] = NoJob]
  /\ UNCHANGED <<queueVars, stopVars, addTaskCv, popedTaskCv, clientVars, historyVars>>

(* m_popedTaskCv.notify_one(), after a job that is not collected. *)
WorkerNotifyPoped(w) ==
  /\ workerPc[w] = "notifyPoped"
  /\ popedTaskCv' \in NotifyOne(popedTaskCv)
  /\ workerPc' = [workerPc EXCEPT ![w] = "wait"]
  /\ UNCHANGED <<queueVars, stopVars, addTaskCv, finishTaskCv, workerJob, clientVars,
                 historyVars>>

WorkerStep(w) ==
  \/ WorkerSleep(w)
  \/ WorkerExit(w)
  \/ WorkerTake(w)
  \/ FinishSync(w)
  \/ FinishPlain(w)
  \/ WorkerNotifyFinish(w)
  \/ WorkerNotifyPoped(w)

--------------------------------------------------------------------------------
(* The public methods.  A client inside a call is at the clientPc of that  *)
(* name; a method whose predicate never waits starts from "idle".          *)

(* The destructor may only run while no other call is in progress, and no  *)
(* call may start once it has begun: the lifetime rule of C++.             *)
Alive == \A c \in Client : clientPc[c] \notin {"destroy", "joining", "destroyed"}

Idle(c) == clientPc[c] = "idle" /\ Alive

Goto(c, label) == clientPc' = [clientPc EXCEPT ![c] = label]

(* Jobs that are not in the pool and not the argument of a call.           *)
FreshJob == Job \ (accepted \cup {clientJob[c] : c \in Client})

EnqueueUncounted(job) ==
  /\ scheduledJobs' = Push(scheduledJobs, job)
  /\ accepted' = accepted \cup {job}
  /\ UNCHANGED numberOfTasks

Enqueue(job) ==
  /\ numberOfTasks' = numberOfTasks + 1
  /\ scheduledJobs' = Push(scheduledJobs, job)
  /\ accepted' = accepted \cup {job}

(* tryScheduleTask(job), lines 113-138: never waits, and does not look at  *)
(* m_stop.                                                                 *)
TryScheduleTask(c, job) ==
  /\ Idle(c)
  /\ numberOfTasks < MAX_QUEUE_SIZE /\ Len(scheduledJobs) < MAX_QUEUE_SIZE
  /\ Enqueue(job)
  /\ Goto(c, "notifyAdd")
  /\ UNCHANGED <<doneJobs, numberOfRunningTasks, stopVars, cvVars, workerVars,
                 clientJob, stopFlag, retired>>

TryScheduleRefused(c) ==
  /\ Idle(c)
  /\ numberOfTasks >= MAX_QUEUE_SIZE \/ Len(scheduledJobs) >= MAX_QUEUE_SIZE
  /\ UNCHANGED vars

(* scheduleTask(job), lines 140-168: waits for a free place on             *)
(* m_popedTaskCv, gives up when the pool is stopped.                       *)
CallScheduleTask(c, job) ==
  /\ Idle(c)
  /\ Goto(c, "schedule")
  /\ clientJob' = [clientJob EXCEPT ![c] = job]
  /\ UNCHANGED <<queueVars, stopVars, cvVars, workerVars, stopFlag, historyVars>>

HasPlaceOffByOne ==
  numberOfTasks <= MAX_QUEUE_SIZE /\ Len(scheduledJobs) # MAX_QUEUE_SIZE

HasPlace == numberOfTasks < MAX_QUEUE_SIZE /\ Len(scheduledJobs) # MAX_QUEUE_SIZE

AtSchedule(c) == clientPc[c] = "schedule" /\ c \notin popedTaskCv

ScheduleSleep(c) ==
  /\ AtSchedule(c)
  /\ ~HasPlace /\ ~stop
  /\ popedTaskCv' = popedTaskCv \cup {c}
  /\ UNCHANGED <<queueVars, stopVars, addTaskCv, finishTaskCv, workerVars, clientVars,
                 historyVars>>

ScheduleStopped(c) ==
  /\ AtSchedule(c)
  /\ stop
  /\ Goto(c, "idle")
  /\ clientJob' = [clientJob EXCEPT ![c] = NoJob]
  /\ UNCHANGED <<queueVars, stopVars, cvVars, workerVars, stopFlag, historyVars>>

ScheduleAccept(c) ==
  /\ AtSchedule(c)
  /\ HasPlace /\ ~stop
  /\ Enqueue(clientJob[c])
  /\ Goto(c, "notifyAdd")
  /\ clientJob' = [clientJob EXCEPT ![c] = NoJob]
  /\ UNCHANGED <<doneJobs, numberOfRunningTasks, stopVars, cvVars, workerVars,
                 stopFlag, retired>>

(* m_addTaskCv.notify_one() at the end of both scheduling methods.         *)
NotifyAdd(c) ==
  /\ clientPc[c] = "notifyAdd"
  /\ addTaskCv' \in NotifyOne(addTaskCv)
  /\ Goto(c, "idle")
  /\ UNCHANGED <<queueVars, stopVars, finishTaskCv, popedTaskCv, workerVars, clientJob,
                 stopFlag, historyVars>>

TakeDoneUncounted(c) ==
  /\ doneJobs' = Tail(doneJobs)
  /\ retired' = retired \cup {Head(doneJobs)}
  /\ Goto(c, "notifyPoped")
  /\ UNCHANGED <<scheduledJobs, numberOfTasks, numberOfRunningTasks, stopVars, cvVars,
                 workerVars, clientJob, stopFlag, accepted>>

(* The part that tryGetNextDoneTask() and getNextDoneTask() share.         *)
TakeDone(c) ==
  /\ numberOfTasks' = numberOfTasks - 1
  /\ doneJobs' = Tail(doneJobs)
  /\ retired' = retired \cup {Head(doneJobs)}
  /\ Goto(c, "notifyPoped")
  /\ UNCHANGED <<scheduledJobs, numberOfRunningTasks, stopVars, cvVars, workerVars,
                 clientJob, stopFlag, accepted>>

(* tryGetNextDoneTask(), lines 170-190: never waits, ignores m_stop.       *)
TryGetNextDoneTask(c) ==
  /\ Idle(c)
  /\ doneJobs # <<>>
  /\ TakeDone(c)

TryGetNothing(c) ==
  /\ Idle(c)
  /\ doneJobs = <<>>
  /\ UNCHANGED vars

(* getNextDoneTask(), lines 192-214: waits on m_finishTaskCv; once stopped *)
(* it returns nothing even if a job is done.                               *)
CallGetNextDoneTask(c) ==
  /\ Idle(c)
  /\ Goto(c, "getDone")
  /\ UNCHANGED <<queueVars, stopVars, cvVars, workerVars, clientJob, stopFlag,
                 historyVars>>

AtGetDone(c) == clientPc[c] = "getDone" /\ c \notin finishTaskCv

GetDoneSleep(c) ==
  /\ AtGetDone(c)
  /\ doneJobs = <<>> /\ ~stop
  /\ finishTaskCv' = finishTaskCv \cup {c}
  /\ UNCHANGED <<queueVars, stopVars, addTaskCv, popedTaskCv, workerVars, clientVars,
                 historyVars>>

GetDoneStopped(c) ==
  /\ AtGetDone(c)
  /\ stop
  /\ Goto(c, "idle")
  /\ UNCHANGED <<queueVars, stopVars, cvVars, workerVars, clientJob, stopFlag,
                 historyVars>>

GetDoneTake(c) ==
  /\ AtGetDone(c)
  /\ doneJobs # <<>> /\ ~stop
  /\ TakeDone(c)

(* m_popedTaskCv.notify_one() after a done job was taken.                  *)
NotifyPoped(c) ==
  /\ clientPc[c] = "notifyPoped"
  /\ popedTaskCv' \in NotifyOne(popedTaskCv)
  /\ Goto(c, "idle")
  /\ UNCHANGED <<queueVars, stopVars, addTaskCv, finishTaskCv, workerVars, clientJob,
                 stopFlag, historyVars>>

(* waitForAllTasks(stopFlag), lines 216-222.  Each evaluation of its       *)
(* predicate overwrites m_stop with the caller's flag, so it can raise     *)
(* m_stop without waking anybody and can also clear it.                    *)
CallWaitForAllTasks(c, flag) ==
  /\ Idle(c)
  /\ Goto(c, "waitAll")
  /\ stopFlag' = [stopFlag EXCEPT ![c] = flag]
  /\ UNCHANGED <<queueVars, stopVars, cvVars, workerVars, clientJob, historyVars>>

AtWaitAll(c) == clientPc[c] = "waitAll" /\ c \notin finishTaskCv

NoTaskRuns == numberOfRunningTasks = 0

AllTasksRan == numberOfRunningTasks = 0 /\ scheduledJobs = <<>>

WaitAllSleep(c) ==
  /\ AtWaitAll(c)
  /\ ~AllTasksRan /\ ~stopFlag[c]
  /\ SetStop(stopFlag[c])
  /\ finishTaskCv' = finishTaskCv \cup {c}
  /\ UNCHANGED <<queueVars, addTaskCv, popedTaskCv, workerVars, clientVars, historyVars>>

WaitAllReturn(c) ==
  /\ AtWaitAll(c)
  /\ AllTasksRan \/ stopFlag[c]
  /\ SetStop(stopFlag[c])
  /\ Goto(c, "idle")
  /\ stopFlag' = [stopFlag EXCEPT ![c] = FALSE]
  /\ UNCHANGED <<queueVars, cvVars, workerVars, clientJob, historyVars>>

(* Another thread stores true in the atomic, without any notification.     *)
RaiseStopFlag(c) ==
  /\ clientPc[c] = "waitAll" /\ ~stopFlag[c]
  /\ stopFlag' = [stopFlag EXCEPT ![c] = TRUE]
  /\ UNCHANGED <<queueVars, stopVars, cvVars, workerVars, clientPc, clientJob,
                 historyVars>>

(* shutdown(), lines 224-236, called directly or by the destructor.        *)
Shutdown(c) ==
  /\ Idle(c)
  /\ SetStop(TRUE)
  /\ Goto(c, "shutdown")
  /\ UNCHANGED <<queueVars, cvVars, workerVars, clientJob, stopFlag, historyVars>>

(* ~ThreadPool(), lines 103-111: shutdown(), then join every thread.       *)
Destroy(c) ==
  /\ \A d \in Client : clientPc[d] = "idle"
  /\ SetStop(TRUE)
  /\ Goto(c, "destroy")
  /\ UNCHANGED <<queueVars, cvVars, workerVars, clientJob, stopFlag, historyVars>>

(* m_addTaskCv.notify_all(): the only condition variable that is notified. *)
NotifyShutdown(c) ==
  /\ clientPc[c] \in {"shutdown", "destroy"}
  /\ addTaskCv' \in NotifyAll(addTaskCv)
  /\ Goto(c, IF clientPc[c] = "shutdown" THEN "idle" ELSE "joining")
  /\ UNCHANGED <<queueVars, stopVars, finishTaskCv, popedTaskCv, workerVars, clientJob,
                 stopFlag, historyVars>>

Joined(c) ==
  /\ clientPc[c] = "joining"
  /\ \A w \in Worker : workerPc[w] = "exited"
  /\ Goto(c, "destroyed")
  /\ UNCHANGED <<queueVars, stopVars, cvVars, workerVars, clientJob, stopFlag,
                 historyVars>>

(* The steps of calls in progress. *)
ClientStep(c) ==
  \/ ScheduleSleep(c) \/ ScheduleStopped(c) \/ ScheduleAccept(c) \/ NotifyAdd(c)
  \/ GetDoneSleep(c) \/ GetDoneStopped(c) \/ GetDoneTake(c) \/ NotifyPoped(c)
  \/ WaitAllSleep(c) \/ WaitAllReturn(c)
  \/ NotifyShutdown(c) \/ Joined(c)

(* The calls a client may start. *)
ClientCall(c) ==
  \/ \E job \in FreshJob : TryScheduleTask(c, job) \/ CallScheduleTask(c, job)
  \/ TryScheduleRefused(c)
  \/ TryGetNextDoneTask(c) \/ TryGetNothing(c) \/ CallGetNextDoneTask(c)
  \/ \E flag \in BOOLEAN : CallWaitForAllTasks(c, flag)
  \/ Shutdown(c)
  \/ Destroy(c)

(* A condition variable may wake a thread that nobody notified. *)
SpuriousWakeup(t) ==
  /\ t \in addTaskCv \cup finishTaskCv \cup popedTaskCv
  /\ addTaskCv' = addTaskCv \ {t}
  /\ finishTaskCv' = finishTaskCv \ {t}
  /\ popedTaskCv' = popedTaskCv \ {t}
  /\ UNCHANGED <<queueVars, stopVars, workerVars, clientVars, historyVars>>

Next ==
  \/ \E w \in Worker : WorkerStep(w)
  \/ \E c \in Client : ClientStep(c) \/ ClientCall(c) \/ RaiseStopFlag(c)
  \/ \E t \in Worker \cup Client : SpuriousWakeup(t)

Spec == Init /\ [][Next]_vars

(* Tasks terminate, the mutex is granted to every thread that keeps asking *)
(* for it, and calls in progress go on.  No client is obliged to call.     *)
Fairness ==
  /\ \A w \in Worker : WF_vars(WorkerStep(w))
  /\ \A c \in Client : WF_vars(ClientStep(c))

FairSpec == Spec /\ Fairness


--------------------------------------------------------------------------------
(* Safety                                                                  *)

Thread == Worker \cup Client

TypeOK ==
  /\ scheduledJobs \in Seq(Job) /\ doneJobs \in Seq(SyncJob)
  /\ numberOfTasks \in Nat /\ numberOfRunningTasks \in Nat
  /\ stop \in BOOLEAN /\ everStopped \in BOOLEAN
  /\ addTaskCv \subseteq {w \in Worker : workerPc[w] = "wait"}
  /\ popedTaskCv \subseteq {c \in Client : clientPc[c] = "schedule"}
  /\ finishTaskCv \subseteq {c \in Client : clientPc[c] \in {"getDone", "waitAll"}}
  /\ workerPc \in [Worker -> {"wait", "run", "notifyFinish", "notifyPoped", "exited"}]
  /\ workerJob \in [Worker -> Job \cup {NoJob}]
  /\ clientPc \in [Client -> {"idle", "schedule", "notifyAdd", "getDone", "notifyPoped",
                              "waitAll", "shutdown", "destroy", "joining", "destroyed"}]
  /\ clientJob \in [Client -> Job \cup {NoJob}]
  /\ stopFlag \in [Client -> BOOLEAN]
  /\ accepted \subseteq Job /\ retired \subseteq Job

(* The two counters, updated in seven critical sections of four methods    *)
(* and of the worker loop, agree with the jobs that really are in the      *)
(* pool; so neither size_t counter ever wraps below zero.                  *)
Accounting ==
  /\ numberOfRunningTasks = Cardinality(Running)
  /\ numberOfTasks = Len(scheduledJobs) + numberOfRunningTasks + Len(doneJobs)

(* The pool holds at most MAX_QUEUE_SIZE jobs.  It is why both asserted    *)
(* pushes succeed (thread_pool.hpp:75 and 158, "Fatal error: mutex is      *)
(* locked twice."): a job that runs has a place in m_doneJobs when it      *)
(* finishes, and a scheduler that passed its wait has one in               *)
(* m_scheduledJobs.                                                        *)
PushesSucceed ==
  /\ numberOfTasks <= MAX_QUEUE_SIZE
  /\ Running # {} => Len(doneJobs) < MAX_QUEUE_SIZE
  /\ numberOfTasks < MAX_QUEUE_SIZE => Len(scheduledJobs) < MAX_QUEUE_SIZE

RunningJobs == {workerJob[w] : w \in Running}

(* Every accepted job is in exactly one place: queued, run by one worker,  *)
(* waiting to be collected, or handed back.  None is lost or doubled, also *)
(* when the pool is stopped and workers leave jobs behind.                 *)
Conservation ==
  LET queued == Range(scheduledJobs)
      done   == Range(doneJobs)
  IN  /\ accepted = queued \cup RunningJobs \cup done \cup retired
      /\ queued \cap (RunningJobs \cup done \cup retired) = {}
      /\ RunningJobs \cap (done \cup retired) = {}
      /\ done \cap retired = {}
      /\ IsInjective(scheduledJobs) /\ IsInjective(doneJobs)
      /\ \A v, w \in Running : workerJob[v] = workerJob[w] => v = w

(* notify_one() is called after the lock is released (lines 134-135,       *)
(* 164-165), so other threads act between a push and its notification.     *)
(* Still, while a worker sleeps, each queued job has a thread that will    *)
(* deal with it: an awake worker about to look at the queue or a client    *)
(* that has yet to notify.  (Before the pool is stopped.)                  *)
NoLostAddWakeup ==
  ~everStopped /\ addTaskCv # {} =>
    Len(scheduledJobs) <= Cardinality({w \in Worker : AtAddTaskWait(w)})
                          + Cardinality({c \in Client : clientPc[c] = "notifyAdd"})

(* The threads that freed a place and have not notified m_popedTaskCv yet. *)
OwesPopNotify ==
  {c \in Client : clientPc[c] = "notifyPoped"}
    \cup {w \in Worker : \/ workerPc[w] = "notifyPoped"
                         \/ workerPc[w] = "notifyFinish" /\ workerJob[w] \notin SyncJob}

(* The same for callers asleep in scheduleTask() and free places, which    *)
(* three critical sections create (lines 86-90, 177-187, 201-211).         *)
NoLostPopWakeup ==
  ~everStopped /\ popedTaskCv # {} =>
    MAX_QUEUE_SIZE - numberOfTasks <= Cardinality({c \in Client : AtSchedule(c)})
                                      + Cardinality(OwesPopNotify)

(* A thread asleep on m_finishTaskCv has nothing to see (no done job for   *)
(* getNextDoneTask(), unfinished work for waitForAllTasks()), unless a     *)
(* worker is about to notify.  The two kinds of waiters share the variable *)
(* and need notify_all().                                                  *)
NoLostFinishWakeup ==
  \/ \E w \in Worker : workerPc[w] = "notifyFinish"
  \/ \A c \in finishTaskCv :
       IF clientPc[c] = "getDone" THEN doneJobs = <<>> ELSE ~AllTasksRan

(* waitForAllTasks() that returns without its stop flag returns only when  *)
(* every job accepted so far has run: what is left is waiting to be        *)
(* collected.                                                              *)
WaitForAllMeansAllRan ==
  [][\A c \in Client :
       WaitAllReturn(c) /\ ~stopFlag[c] => accepted = Range(doneJobs) \cup retired]_vars

(* The pool implements the job pool: capacity, start order, one run and    *)
(* one delivery per job, for any interleaving and any use of stop.         *)
Pool == INSTANCE JobPool WITH
  Capacity <- MAX_QUEUE_SIZE,
  queued <- scheduledJobs, running <- RunningJobs, done <- doneJobs, gone <- retired

PoolIsJobPool == Pool!Spec

--------------------------------------------------------------------------------
(* Liveness, under FairSpec                                                *)

(* ~ThreadPool() returns: every worker leaves its loop, wherever it was.   *)
DestructorReturns ==
  \A c \in Client : clientPc[c] = "destroy" ~> clientPc[c] = "destroyed"

(* A queued job is taken by some worker, unless the pool is stopped.       *)
QueuedJobsStart ==
  \A job \in Job :
    job \in Range(scheduledJobs) ~> job \notin Range(scheduledJobs) \/ everStopped

(* scheduleTask() can block for ever only in a pool that was stopped, or   *)
(* that is full of results nobody collects.                                *)
SchedulersReturn ==
  \A c \in Client :
    []<>(clientPc[c] # "schedule" \/ everStopped \/ Len(doneJobs) = MAX_QUEUE_SIZE)

(* getNextDoneTask() can block for ever only while no result is there.     *)
GettersReturn ==
  \A c \in Client : []<>(clientPc[c] # "getDone" \/ doneJobs = <<>>)

(* waitForAllTasks() returns when the work is done, unless the pool is     *)
(* stopped.                                                                *)
WaitForAllReturns ==
  \A c \in Client : clientPc[c] = "waitAll" ~> clientPc[c] # "waitAll" \/ everStopped

(* shutdown() notifies m_addTaskCv only (line 235), so a caller asleep on  *)
(* m_finishTaskCv learns that the pool was stopped from a worker, if one   *)
(* still has a job to finish; then it does return.                         *)
StopReachesGetters ==
  \A c \in Client :
    /\ clientPc[c] = "getDone" /\ stop
    /\ \E w \in Worker : workerPc[w] \in {"run", "notifyFinish"}
    ~> clientPc[c] # "getDone" \/ ~stop

(* Every worker leaves its loop after a shutdown(), busy or asleep, and    *)
(* however many jobs are queued, unless a waitForAllTasks() clears m_stop  *)
(* before they looked.                                                     *)
ShutdownReachesWorkers ==
  (\E c \in Client : clientPc[c] = "shutdown")
    ~> (\A w \in Worker : workerPc[w] = "exited") \/ ~stop

(* Whom a shutdown() reaches: the workers, and through them the getters.   *)
ShutdownIsHeard == StopReachesGetters /\ ShutdownReachesWorkers

================================================================================
