--------------------------- MODULE ThreadPool_proofs ---------------------------
(***************************************************************************)
(* The thread pool of ThreadPool.tla, for any number of workers, callers   *)
(* and jobs and any capacity: CountInv for the counters and the capacity,  *)
(* WakeInv for the wakeups of the three condition variables.               *)
(***************************************************************************)
EXTENDS ThreadPool, FiniteSetTheorems, SequenceTheorems, TLAPS

--------------------------------------------------------------------------------
(* Facts about the helpers.                                                *)

LEMMA RunningFinite ==
  /\ IsFiniteSet(Running)
  /\ Cardinality(Running) \in Nat
BY PoolAssumption, FS_Subset, FS_CardinalityType DEF Running

WorkerPcIsFunction == workerPc = [w \in Worker |-> workerPc[w]]

(* A worker starts a task: one more runs. *)
LEMMA RunningEnter ==
  ASSUME NEW w \in Worker, workerPc[w] # "run",
         WorkerPcIsFunction,
         workerPc' = [workerPc EXCEPT ![w] = "run"]
  PROVE  /\ Running' = Running \cup {w}
         /\ w \notin Running
         /\ Cardinality(Running') = Cardinality(Running) + 1
<1>1. Running' = Running \cup {w} /\ w \notin Running
  BY DEF Running, WorkerPcIsFunction
<1>2. QED BY <1>1, RunningFinite, FS_AddElement

(* A worker's task returns: one less runs. *)
LEMMA RunningLeave ==
  ASSUME NEW w \in Worker, workerPc[w] = "run",
         WorkerPcIsFunction,
         NEW l, l # "run",
         workerPc' = [workerPc EXCEPT ![w] = l]
  PROVE  /\ Running' = Running \ {w}
         /\ w \in Running
         /\ Cardinality(Running') = Cardinality(Running) - 1
         /\ Cardinality(Running) >= 1
<1>1. Running' = Running \ {w} /\ w \in Running
  BY DEF Running, WorkerPcIsFunction
<1>2. Cardinality(Running) # 0
  BY <1>1, RunningFinite, FS_EmptySet
<1>3. Cardinality(Running \ {w}) = Cardinality(Running) - 1
  BY <1>1, RunningFinite, FS_RemoveElement
<1>4. Cardinality(Running) >= 1
  BY <1>2, RunningFinite
<1>5. QED BY <1>1, <1>3, <1>4

(* Any other move of a worker. *)
LEMMA RunningSame ==
  ASSUME NEW w \in Worker, workerPc[w] # "run",
         WorkerPcIsFunction,
         NEW l, l # "run",
         workerPc' = [workerPc EXCEPT ![w] = l]
  PROVE  Running' = Running
BY DEF Running, WorkerPcIsFunction

(* What taking from and adding to a queue does to its length. *)
LEMMA QueueOps ==
  ASSUME NEW S, NEW q \in Seq(S)
  PROVE  /\ Len(q) \in Nat
         /\ q # <<>> => /\ Head(q) \in S
                        /\ Tail(q) \in Seq(S)
                        /\ Len(q) >= 1
                        /\ Len(Tail(q)) = Len(q) - 1
         /\ \A e \in S : Append(q, e) \in Seq(S) /\ Len(Append(q, e)) = Len(q) + 1
<1>1. Len(q) \in Nat
  BY LenProperties
<1>2. q # <<>> => Len(q) \in Nat \ {0}
  BY EmptySeq
<1>3. q # <<>> => Head(q) \in S /\ Tail(q) \in Seq(S) /\ Len(Tail(q)) = Len(q) - 1
  BY HeadTailProperties
<1>4. \A e \in S : Append(q, e) \in Seq(S) /\ Len(Append(q, e)) = Len(q) + 1
  BY AppendProperties
<1>5. QED BY <1>1, <1>2, <1>3, <1>4

--------------------------------------------------------------------------------
(* The first inductive invariant: types, the counters, and the capacity.   *)

(* The job of a running worker and the argument of a waiting scheduleTask() *)
(* are jobs, not NoJob.                                                     *)
JobsInHand ==
  /\ \A w \in Running : workerJob[w] \in Job
  /\ \A c \in Client : clientPc[c] = "schedule" => clientJob[c] \in Job

Bounded == numberOfTasks <= MAX_QUEUE_SIZE

CountInv == TypeOK /\ JobsInHand /\ Accounting /\ Bounded

(* The asserted pushes have room: what the capacity and the counters give. *)
LEMMA CountInvGivesRoom ==
  ASSUME CountInv
  PROVE  /\ PushesSucceed
         /\ numberOfTasks \in Nat
         /\ Len(scheduledJobs) \in Nat /\ Len(doneJobs) \in Nat
<1>1. Len(scheduledJobs) \in Nat /\ Len(doneJobs) \in Nat
  BY LenProperties DEF CountInv, TypeOK
<1>2. Running # {} => Cardinality(Running) >= 1
  BY RunningFinite, FS_EmptySet
<1>3. MAX_QUEUE_SIZE \in Nat /\ numberOfTasks \in Nat /\ Cardinality(Running) \in Nat
  BY PoolAssumption, RunningFinite DEF CountInv, TypeOK
<1>4. QED BY <1>1, <1>2, <1>3 DEF CountInv, Bounded, Accounting, PushesSucceed

LEMMA CountInvInit == Init => CountInv
<1> SUFFICES ASSUME Init PROVE CountInv
  OBVIOUS
<1>1. TypeOK
  BY EmptySeq DEF Init, TypeOK
<1>2. Running = {}
  BY DEF Init, Running
<1>3. JobsInHand
  BY <1>2 DEF Init, JobsInHand
<1>4. Cardinality(Running) = 0 /\ Len(<<>>) = 0
  BY <1>2, FS_EmptySet
<1>5. Accounting /\ Bounded
  BY <1>4, PoolAssumption DEF Init, Accounting, Bounded
<1>6. QED BY <1>1, <1>3, <1>5 DEF CountInv

(* Steps that change neither a queue, a counter, a job in hand nor the set  *)
(* of running workers keep everything but the types.                       *)
LEMMA CountKept ==
  ASSUME CountInv, UNCHANGED queueVars, Running' = Running,
         \A w \in Running : workerJob'[w] = workerJob[w],
         \A c \in Client : clientPc'[c] = "schedule" => clientJob'[c] \in Job
  PROVE  JobsInHand' /\ Accounting' /\ Bounded'
BY DEF CountInv, JobsInHand, Accounting, Bounded, queueVars

LEMMA CountInvWorker ==
  ASSUME CountInv, NEW w \in Worker, WorkerStep(w)
  PROVE  CountInv'
<1> USE DEF CountInv, queueVars, stopVars, cvVars, workerVars, clientVars, historyVars
<1>pc. WorkerPcIsFunction
  BY DEF TypeOK, WorkerPcIsFunction
<1>1. CASE WorkerSleep(w)
  <2>1. TypeOK'
    BY <1>1 DEF WorkerSleep, AtAddTaskWait, TypeOK
  <2>2. JobsInHand' /\ Accounting' /\ Bounded'
    BY <1>1, CountKept DEF WorkerSleep, Running, JobsInHand
  <2>3. QED BY <2>1, <2>2
<1>2. CASE WorkerExit(w)
  <2>1. TypeOK'
    BY <1>2 DEF WorkerExit, AtAddTaskWait, TypeOK
  <2>2. Running' = Running
    BY <1>2, <1>pc, RunningSame DEF WorkerExit, AtAddTaskWait
  <2>3. JobsInHand' /\ Accounting' /\ Bounded'
    BY <1>2, <2>2, CountKept DEF WorkerExit, JobsInHand
  <2>4. QED BY <2>1, <2>3
<1>3. CASE WorkerTake(w)
  <2>1. /\ Head(scheduledJobs) \in Job
        /\ Tail(scheduledJobs) \in Seq(Job)
        /\ Len(Tail(scheduledJobs)) = Len(scheduledJobs) - 1
    BY <1>3, QueueOps DEF WorkerTake, TypeOK
  <2>2. /\ Running' = Running \cup {w}
        /\ Cardinality(Running') = Cardinality(Running) + 1
    BY <1>3, <1>pc, RunningEnter DEF WorkerTake, AtAddTaskWait
  <2>3. TypeOK'
    BY <1>3, <2>1 DEF WorkerTake, AtAddTaskWait, TypeOK
  <2>4. JobsInHand'
    BY <1>3, <2>1, <2>2 DEF WorkerTake, TypeOK, JobsInHand
  <2>5. Accounting' /\ Bounded'
    BY <1>3, <2>1, <2>2, RunningFinite, CountInvGivesRoom
    DEF WorkerTake, TypeOK, Accounting, Bounded
  <2>6. QED BY <2>3, <2>4, <2>5
<1>4. CASE FinishSync(w)
  <2>1. /\ Running' = Running \ {w}
        /\ w \in Running
        /\ Cardinality(Running') = Cardinality(Running) - 1
    BY <1>4, <1>pc, RunningLeave DEF FinishSync
  <2>2. Len(doneJobs) < MAX_QUEUE_SIZE
    BY <2>1, CountInvGivesRoom DEF PushesSucceed
  <2>3. /\ doneJobs' = Append(doneJobs, workerJob[w])
        /\ doneJobs' \in Seq(SyncJob)
        /\ Len(doneJobs') = Len(doneJobs) + 1
    BY <1>4, <2>2, QueueOps DEF FinishSync, Push, TypeOK
  <2>4. numberOfRunningTasks' \in Nat
    BY <1>4, <2>1, FS_EmptySet, RunningFinite, RunningLeave, <1>pc DEF FinishSync, Accounting
  <2>5. TypeOK'
    BY <1>4, <2>3, <2>4 DEF FinishSync, TypeOK
  <2>6. JobsInHand'
    BY <1>4, <2>1 DEF FinishSync, JobsInHand
  <2>7. Accounting' /\ Bounded'
    BY <1>4, <2>1, <2>3, RunningFinite, CountInvGivesRoom
    DEF FinishSync, TypeOK, Accounting, Bounded
  <2>8. QED BY <2>5, <2>6, <2>7
<1>5. CASE FinishPlain(w)
  <2>1. /\ Running' = Running \ {w}
        /\ w \in Running
        /\ Cardinality(Running') = Cardinality(Running) - 1
        /\ Cardinality(Running) >= 1
    BY <1>5, <1>pc, RunningLeave DEF FinishPlain
  <2>2. numberOfRunningTasks' \in Nat /\ numberOfTasks' \in Nat
    BY <1>5, <2>1, RunningFinite, CountInvGivesRoom DEF FinishPlain, Accounting
  <2>3. workerJob[w] \in Job
    BY <2>1 DEF JobsInHand
  <2>4. TypeOK'
    BY <1>5, <2>2, <2>3 DEF FinishPlain, TypeOK
  <2>5. JobsInHand'
    BY <1>5, <2>1 DEF FinishPlain, JobsInHand
  <2>6. Accounting' /\ Bounded'
    BY <1>5, <2>1, RunningFinite, CountInvGivesRoom, PoolAssumption
    DEF FinishPlain, TypeOK, Accounting, Bounded
  <2>7. QED BY <2>4, <2>5, <2>6
<1>6. CASE WorkerNotifyFinish(w)
  <2>1. TypeOK'
    BY <1>6 DEF WorkerNotifyFinish, NotifyAll, TypeOK
  <2>2. Running' = Running /\ w \notin Running
    BY <1>6, <1>pc DEF WorkerNotifyFinish, Running
  <2>3. JobsInHand' /\ Accounting' /\ Bounded'
    BY <1>6, <2>2, CountKept DEF WorkerNotifyFinish, JobsInHand, TypeOK, Running
  <2>4. QED BY <2>1, <2>3
<1>7. CASE WorkerNotifyPoped(w)
  <2>1. popedTaskCv' \subseteq popedTaskCv
    BY <1>7 DEF WorkerNotifyPoped, NotifyOne
  <2>2. TypeOK'
    BY <1>7, <2>1 DEF WorkerNotifyPoped, TypeOK
  <2>3. Running' = Running
    BY <1>7, <1>pc, RunningSame DEF WorkerNotifyPoped
  <2>4. JobsInHand' /\ Accounting' /\ Bounded'
    BY <1>7, <2>3, CountKept DEF WorkerNotifyPoped, JobsInHand
  <2>5. QED BY <2>2, <2>4
<1>8. QED
  BY <1>1, <1>2, <1>3, <1>4, <1>5, <1>6, <1>7 DEF WorkerStep

(* A job enters the pool: what Enqueue does to the queue and the counters. *)
LEMMA EnqueueCounts ==
  ASSUME CountInv, NEW job \in Job, Enqueue(job),
         numberOfTasks < MAX_QUEUE_SIZE,
         UNCHANGED <<doneJobs, numberOfRunningTasks, workerVars>>
  PROVE  /\ scheduledJobs' = Append(scheduledJobs, job)
         /\ scheduledJobs' \in Seq(Job)
         /\ numberOfTasks' \in Nat
         /\ accepted' \subseteq Job
         /\ Running' = Running
         /\ Accounting' /\ Bounded'
<1> USE DEF CountInv
<1>1. Len(scheduledJobs) < MAX_QUEUE_SIZE
  BY CountInvGivesRoom DEF PushesSucceed
<1>2. /\ scheduledJobs' = Append(scheduledJobs, job)
      /\ scheduledJobs' \in Seq(Job)
      /\ Len(scheduledJobs') = Len(scheduledJobs) + 1
  BY <1>1, QueueOps DEF Enqueue, Push, TypeOK
<1>3. Running' = Running
  BY DEF Running, workerVars
<1>4. /\ numberOfTasks' = numberOfTasks + 1
      /\ accepted' = accepted \cup {job}
      /\ Len(doneJobs') = Len(doneJobs)
      /\ numberOfRunningTasks' = numberOfRunningTasks
  BY DEF Enqueue
<1>5. accepted' \subseteq Job /\ numberOfTasks' \in Nat
  BY <1>4 DEF TypeOK
<1>6. Accounting' /\ Bounded'
  BY <1>2, <1>3, <1>4, CountInvGivesRoom, PoolAssumption DEF Accounting, Bounded, TypeOK
<1>7. QED BY <1>2, <1>3, <1>5, <1>6

(* A done job leaves the pool. *)
LEMMA TakeDoneCounts ==
  ASSUME CountInv, NEW c \in Client, TakeDone(c), doneJobs # <<>>
  PROVE  /\ doneJobs' \in Seq(SyncJob)
         /\ numberOfTasks' \in Nat
         /\ retired' \subseteq Job
         /\ Running' = Running
         /\ Accounting' /\ Bounded'
<1> USE DEF CountInv
<1>1. /\ Head(doneJobs) \in SyncJob
      /\ doneJobs' \in Seq(SyncJob)
      /\ Len(doneJobs) >= 1
      /\ Len(doneJobs') = Len(doneJobs) - 1
  BY QueueOps DEF TakeDone, TypeOK
<1>2. /\ Running' = Running
      /\ numberOfTasks' = numberOfTasks - 1
      /\ Len(scheduledJobs') = Len(scheduledJobs)
      /\ numberOfRunningTasks' = numberOfRunningTasks
      /\ retired' = retired \cup {Head(doneJobs)}
  BY DEF TakeDone, Running, workerVars
<1>3. numberOfTasks >= 1
  BY <1>1, RunningFinite, CountInvGivesRoom DEF Accounting
<1>4. numberOfTasks' \in Nat /\ retired' \subseteq Job
  BY <1>1, <1>2, <1>3 DEF TypeOK, Job
<1>5. Accounting'
  BY <1>1, <1>2, CountInvGivesRoom, RunningFinite DEF Accounting
<1>6. Bounded'
  BY <1>2, CountInvGivesRoom, PoolAssumption DEF Bounded
<1>7. QED BY <1>1, <1>2, <1>4, <1>5, <1>6

(* A step of a call in progress. *)
LEMMA CountInvClient ==
  ASSUME CountInv, NEW c \in Client, ClientStep(c)
  PROVE  CountInv'
<1> USE DEF CountInv, queueVars, stopVars, cvVars, workerVars, clientVars, historyVars
<1>1. CASE ScheduleSleep(c)
  <2>1. TypeOK'
    BY <1>1 DEF ScheduleSleep, AtSchedule, TypeOK
  <2>2. JobsInHand' /\ Accounting' /\ Bounded'
    BY <1>1, CountKept DEF ScheduleSleep, AtSchedule, Running, JobsInHand, TypeOK
  <2>3. QED BY <2>1, <2>2
<1>2. CASE ScheduleStopped(c)
  <2>1. TypeOK'
    BY <1>2 DEF ScheduleStopped, AtSchedule, Goto, TypeOK
  <2>2. JobsInHand' /\ Accounting' /\ Bounded'
    BY <1>2, CountKept DEF ScheduleStopped, AtSchedule, Goto, Running, JobsInHand, TypeOK
  <2>3. QED BY <2>1, <2>2
<1>3. CASE ScheduleAccept(c)
  <2>1. clientJob[c] \in Job /\ Enqueue(clientJob[c]) /\ numberOfTasks < MAX_QUEUE_SIZE
    BY <1>3 DEF ScheduleAccept, AtSchedule, HasPlace, JobsInHand
  <2>2. UNCHANGED <<doneJobs, numberOfRunningTasks, workerVars>>
    BY <1>3 DEF ScheduleAccept
  <2>3. /\ scheduledJobs' \in Seq(Job) /\ numberOfTasks' \in Nat
        /\ accepted' \subseteq Job
        /\ Running' = Running /\ Accounting' /\ Bounded'
    BY <2>1, <2>2, EnqueueCounts
  <2>4. TypeOK'
    BY <1>3, <2>3 DEF ScheduleAccept, AtSchedule, Goto, TypeOK
  <2>5. JobsInHand'
    BY <1>3, <2>3 DEF ScheduleAccept, Goto, JobsInHand, TypeOK
  <2>6. QED BY <2>3, <2>4, <2>5
<1>4. CASE NotifyAdd(c)
  <2>1. addTaskCv' \subseteq addTaskCv
    BY <1>4 DEF NotifyAdd, NotifyOne, NotifyAll
  <2>2. TypeOK'
    BY <1>4, <2>1 DEF NotifyAdd, Goto, TypeOK
  <2>3. JobsInHand' /\ Accounting' /\ Bounded'
    BY <1>4, CountKept DEF NotifyAdd, Goto, Running, JobsInHand, TypeOK
  <2>4. QED BY <2>2, <2>3
<1>5. CASE GetDoneSleep(c)
  <2>1. TypeOK'
    BY <1>5 DEF GetDoneSleep, AtGetDone, TypeOK
  <2>2. JobsInHand' /\ Accounting' /\ Bounded'
    BY <1>5, CountKept DEF GetDoneSleep, AtGetDone, Running, JobsInHand, TypeOK
  <2>3. QED BY <2>1, <2>2
<1>6. CASE GetDoneStopped(c)
  <2>1. TypeOK'
    BY <1>6 DEF GetDoneStopped, AtGetDone, Goto, TypeOK
  <2>2. JobsInHand' /\ Accounting' /\ Bounded'
    BY <1>6, CountKept DEF GetDoneStopped, AtGetDone, Goto, Running, JobsInHand, TypeOK
  <2>3. QED BY <2>1, <2>2
<1>7. CASE GetDoneTake(c)
  <2>1. TakeDone(c) /\ doneJobs # <<>>
    BY <1>7 DEF GetDoneTake
  <2>2. TypeOK'
    BY <2>1, TakeDoneCounts, <1>7 DEF GetDoneTake, TakeDone, TypeOK, Goto, Idle, AtGetDone
  <2>3. JobsInHand'
    BY <2>1, TakeDoneCounts DEF TakeDone, JobsInHand, TypeOK, Goto
  <2>4. QED BY <2>1, <2>2, <2>3, TakeDoneCounts
<1>8. CASE NotifyPoped(c)
  <2>1. popedTaskCv' \subseteq popedTaskCv
    BY <1>8 DEF NotifyPoped, NotifyOne, NotifyAll
  <2>2. TypeOK'
    BY <1>8, <2>1 DEF NotifyPoped, Goto, TypeOK
  <2>3. JobsInHand' /\ Accounting' /\ Bounded'
    BY <1>8, CountKept DEF NotifyPoped, Goto, Running, JobsInHand, TypeOK
  <2>4. QED BY <2>2, <2>3
<1>9. CASE WaitAllSleep(c)
  <2>1. TypeOK'
    BY <1>9 DEF WaitAllSleep, AtWaitAll, SetStop, TypeOK
  <2>2. JobsInHand' /\ Accounting' /\ Bounded'
    BY <1>9, CountKept DEF WaitAllSleep, AtWaitAll, SetStop, Running, JobsInHand, TypeOK
  <2>3. QED BY <2>1, <2>2
<1>10. CASE WaitAllReturn(c)
  <2>1. TypeOK'
    BY <1>10 DEF WaitAllReturn, AtWaitAll, SetStop, Goto, TypeOK
  <2>2. JobsInHand' /\ Accounting' /\ Bounded'
    BY <1>10, CountKept DEF WaitAllReturn, AtWaitAll, SetStop, Goto, Running, JobsInHand, TypeOK
  <2>3. QED BY <2>1, <2>2
<1>11. CASE NotifyShutdown(c)
  <2>1. addTaskCv' \subseteq addTaskCv
    BY <1>11 DEF NotifyShutdown, NotifyOne, NotifyAll
  <2>2. TypeOK'
    BY <1>11, <2>1 DEF NotifyShutdown, Goto, TypeOK
  <2>3. JobsInHand' /\ Accounting' /\ Bounded'
    BY <1>11, CountKept DEF NotifyShutdown, Goto, Running, JobsInHand, TypeOK
  <2>4. QED BY <2>2, <2>3
<1>12. CASE Joined(c)
  <2>1. TypeOK'
    BY <1>12 DEF Joined, Goto, TypeOK
  <2>2. JobsInHand' /\ Accounting' /\ Bounded'
    BY <1>12, CountKept DEF Joined, Goto, Running, JobsInHand, TypeOK
  <2>3. QED BY <2>1, <2>2
<1>13. QED
  BY <1>1, <1>2, <1>3, <1>4, <1>5, <1>6, <1>7, <1>8, <1>9, <1>10, <1>11, <1>12 DEF ClientStep

LEMMA CountInvStutter ==
  ASSUME CountInv, UNCHANGED vars
  PROVE  CountInv'
<1> USE DEF CountInv, vars, queueVars, stopVars, cvVars, workerVars, clientVars, historyVars
<1>1. TypeOK'
  BY DEF TypeOK
<1>2. JobsInHand' /\ Accounting' /\ Bounded'
  BY CountKept DEF Running, JobsInHand
<1>3. QED BY <1>1, <1>2

(* A scheduling call starts. *)
LEMMA CountInvScheduleCall ==
  ASSUME CountInv, NEW c \in Client, NEW job \in FreshJob,
         TryScheduleTask(c, job) \/ CallScheduleTask(c, job)
  PROVE  CountInv'
<1> USE DEF CountInv, queueVars, stopVars, cvVars, workerVars, clientVars, historyVars
<1>1. CASE TryScheduleTask(c, job)
  <2>1. Enqueue(job) /\ numberOfTasks < MAX_QUEUE_SIZE /\ job \in Job
    BY <1>1 DEF TryScheduleTask, FreshJob
  <2>2. UNCHANGED <<doneJobs, numberOfRunningTasks, workerVars>>
    BY <1>1 DEF TryScheduleTask
  <2>3. /\ scheduledJobs' \in Seq(Job) /\ numberOfTasks' \in Nat
        /\ accepted' \subseteq Job
        /\ Running' = Running /\ Accounting' /\ Bounded'
    BY <2>1, <2>2, EnqueueCounts
  <2>4. TypeOK'
    BY <1>1, <2>3 DEF TryScheduleTask, Idle, Goto, TypeOK
  <2>5. JobsInHand'
    BY <1>1, <2>3 DEF TryScheduleTask, Goto, JobsInHand, TypeOK
  <2>6. QED BY <2>3, <2>4, <2>5
<1>2. CASE CallScheduleTask(c, job)
  <2>1. job \in Job
    BY DEF FreshJob
  <2>2. TypeOK'
    BY <1>2, <2>1 DEF CallScheduleTask, Idle, Goto, TypeOK
  <2>3. JobsInHand' /\ Accounting' /\ Bounded'
    BY <1>2, <2>1, CountKept DEF CallScheduleTask, Goto, Running, JobsInHand, TypeOK
  <2>4. QED BY <2>2, <2>3
<1>3. QED
  BY <1>1, <1>2

(* A call starts, and a call that never waits takes its step. *)
LEMMA CountInvCall ==
  ASSUME CountInv, NEW c \in Client, ClientCall(c)
  PROVE  CountInv'
<1> USE DEF CountInv, queueVars, stopVars, cvVars, workerVars, clientVars, historyVars
<1>1. CASE \E job \in FreshJob : TryScheduleTask(c, job) \/ CallScheduleTask(c, job)
  BY <1>1, CountInvScheduleCall
<1>2. CASE TryScheduleRefused(c)
  BY <1>2, CountInvStutter DEF TryScheduleRefused, vars
<1>3. CASE TryGetNextDoneTask(c)
  <2>1. TakeDone(c) /\ doneJobs # <<>>
    BY <1>3 DEF TryGetNextDoneTask
  <2>2. TypeOK'
    BY <2>1, TakeDoneCounts, <1>3 DEF TryGetNextDoneTask, TakeDone, TypeOK, Goto, Idle, AtGetDone
  <2>3. JobsInHand'
    BY <2>1, TakeDoneCounts DEF TakeDone, JobsInHand, TypeOK, Goto
  <2>4. QED BY <2>1, <2>2, <2>3, TakeDoneCounts
<1>4. CASE TryGetNothing(c)
  BY <1>4, CountInvStutter DEF TryGetNothing, vars
<1>5. CASE CallGetNextDoneTask(c)
  <2>1. TypeOK'
    BY <1>5 DEF CallGetNextDoneTask, Goto, Idle, TypeOK
  <2>2. JobsInHand' /\ Accounting' /\ Bounded'
    BY <1>5, CountKept DEF CallGetNextDoneTask, Goto, Idle, Running, JobsInHand, TypeOK
  <2>3. QED BY <2>1, <2>2
<1>6. CASE \E flag \in BOOLEAN : CallWaitForAllTasks(c, flag)
  <2> PICK flag \in BOOLEAN : CallWaitForAllTasks(c, flag)
    BY <1>6
  <2>1. TypeOK'
    BY DEF CallWaitForAllTasks, Goto, Idle, TypeOK
  <2>2. JobsInHand' /\ Accounting' /\ Bounded'
    BY CountKept DEF CallWaitForAllTasks, Goto, Idle, Running, JobsInHand, TypeOK
  <2>3. QED BY <2>1, <2>2
<1>7. CASE Shutdown(c)
  <2>1. TypeOK'
    BY <1>7 DEF Shutdown, Goto, Idle, SetStop, TypeOK
  <2>2. JobsInHand' /\ Accounting' /\ Bounded'
    BY <1>7, CountKept DEF Shutdown, Goto, Idle, SetStop, Running, JobsInHand, TypeOK
  <2>3. QED BY <2>1, <2>2
<1>8. CASE Destroy(c)
  <2>1. TypeOK'
    BY <1>8 DEF Destroy, Goto, SetStop, TypeOK
  <2>2. JobsInHand' /\ Accounting' /\ Bounded'
    BY <1>8, CountKept DEF Destroy, Goto, SetStop, Running, JobsInHand, TypeOK
  <2>3. QED BY <2>1, <2>2
<1>9. QED
  BY <1>1, <1>2, <1>3, <1>4, <1>5, <1>6, <1>7, <1>8 DEF ClientCall

LEMMA CountInvOther ==
  ASSUME CountInv,
         \/ \E c \in Client : RaiseStopFlag(c)
         \/ \E t \in Worker \cup Client : SpuriousWakeup(t)
  PROVE  CountInv'
<1> USE DEF CountInv, queueVars, stopVars, cvVars, workerVars, clientVars, historyVars
<1>1. TypeOK'
  BY DEF RaiseStopFlag, SpuriousWakeup, TypeOK
<1>2. JobsInHand' /\ Accounting' /\ Bounded'
  BY CountKept DEF RaiseStopFlag, SpuriousWakeup, Running, JobsInHand
<1>3. QED BY <1>1, <1>2

LEMMA CountInvNext ==
  ASSUME CountInv, [Next]_vars
  PROVE  CountInv'
BY CountInvWorker, CountInvClient, CountInvCall, CountInvOther, CountInvStutter DEF Next

LEMMA CountInvariant == Spec => []CountInv
BY CountInvInit, CountInvNext, PTL DEF Spec

(* Every field has its type in every reachable state; in particular the    *)
(* two size_t counters never go below zero.                                *)
THEOREM PoolTypeCorrect == Spec => []TypeOK
<1>1. CountInv => TypeOK
  BY DEF CountInv
<1>2. QED BY <1>1, CountInvariant, PTL

(* m_numberOfTasks and m_numberOfRunningTasks count the jobs that are in   *)
(* the pool and the workers that run one.                                  *)
THEOREM PoolAccounting == Spec => []Accounting
<1>1. CountInv => Accounting
  BY DEF CountInv
<1>2. QED BY <1>1, CountInvariant, PTL

(* The two asserted pushes of the pool never fail, so no job is dropped in *)
(* a build without assertions.                                             *)
THEOREM PoolPushesSucceed == Spec => []PushesSucceed
<1>1. CountInv => PushesSucceed
  BY CountInvGivesRoom
<1>2. QED BY <1>1, CountInvariant, PTL

--------------------------------------------------------------------------------
(* No wakeup is lost.  Each notification comes after the lock is released, *)
(* so between a change and its notification other threads take, add, sleep *)
(* and wake; the properties count those who have yet to notify.            *)

(* m_stop is raised through SetStop() only.                                *)
StopIsNoted == stop => everStopped

(* The sets that the properties count: who will look at a queue, and who   *)
(* is going to notify.                                                     *)
AwakeWorkers == {w \in Worker : AtAddTaskWait(w)}

AddNotifiers == {c \in Client : clientPc[c] = "notifyAdd"}

AwakeSchedulers == {c \in Client : AtSchedule(c)}

(* Each property is inductive given the counters, which tell how many      *)
(* places and jobs there are to be noticed, and given that a stopped pool  *)
(* has been noted as such.                                                 *)
WakeInv ==
  CountInv /\ StopIsNoted /\ NoLostAddWakeup /\ NoLostPopWakeup /\ NoLostFinishWakeup

LEMMA WaitingSetsFinite ==
  /\ IsFiniteSet(AwakeWorkers) /\ IsFiniteSet(AddNotifiers)
  /\ IsFiniteSet(AwakeSchedulers) /\ IsFiniteSet(OwesPopNotify)
<1>1. IsFiniteSet(AwakeWorkers) /\ IsFiniteSet(AddNotifiers) /\ IsFiniteSet(AwakeSchedulers)
  BY PoolAssumption, FS_Subset DEF AwakeWorkers, AddNotifiers, AwakeSchedulers
<1>2. IsFiniteSet(Worker \cup Client) /\ OwesPopNotify \subseteq Worker \cup Client
  BY PoolAssumption, FS_Union DEF OwesPopNotify
<1>3. QED BY <1>1, <1>2, FS_Subset

(* What one element more or less does to the size of a finite set. *)
LEMMA SizeOf ==
  ASSUME NEW S, IsFiniteSet(S)
  PROVE  /\ Cardinality(S) \in Nat
         /\ \A T : S \subseteq T /\ IsFiniteSet(T) => Cardinality(S) <= Cardinality(T)
         /\ \A x : x \notin S => Cardinality(S \cup {x}) = Cardinality(S) + 1
         /\ \A x : x \in S => Cardinality(S \ {x}) = Cardinality(S) - 1
BY FS_CardinalityType, FS_Subset, FS_AddElement, FS_RemoveElement

LEMMA ClientSetsStop ==
  ASSUME NEW c \in Client, ClientStep(c) \/ ClientCall(c) \/ RaiseStopFlag(c), TypeOK
  PROVE  \/ UNCHANGED stopVars
         \/ \E value \in BOOLEAN : SetStop(value)
<1>1. CASE WaitAllSleep(c) \/ WaitAllReturn(c)
  <2>1. SetStop(stopFlag[c]) /\ stopFlag[c] \in BOOLEAN
    BY <1>1 DEF WaitAllSleep, WaitAllReturn, TypeOK
  <2>2. QED BY <2>1
<1>2. CASE Shutdown(c) \/ Destroy(c)
  BY <1>2 DEF Shutdown, Destroy
<1>3. CASE \/ ScheduleSleep(c) \/ ScheduleStopped(c) \/ ScheduleAccept(c) \/ NotifyAdd(c)
           \/ GetDoneSleep(c) \/ GetDoneStopped(c) \/ GetDoneTake(c) \/ NotifyPoped(c)
           \/ NotifyShutdown(c) \/ Joined(c)
  BY <1>3 DEF ScheduleSleep, ScheduleStopped, ScheduleAccept, NotifyAdd, GetDoneSleep,
     GetDoneStopped, GetDoneTake, TakeDone, NotifyPoped, NotifyShutdown, Joined
<1>4. CASE \/ \E job \in FreshJob : TryScheduleTask(c, job) \/ CallScheduleTask(c, job)
           \/ TryScheduleRefused(c) \/ TryGetNextDoneTask(c) \/ TryGetNothing(c)
           \/ CallGetNextDoneTask(c) \/ \E flag \in BOOLEAN : CallWaitForAllTasks(c, flag)
           \/ RaiseStopFlag(c)
  BY <1>4 DEF TryScheduleTask, CallScheduleTask, TryScheduleRefused, TryGetNextDoneTask,
     TakeDone, TryGetNothing, CallGetNextDoneTask, CallWaitForAllTasks, RaiseStopFlag, vars
<1>5. QED BY <1>1, <1>2, <1>3, <1>4 DEF ClientStep, ClientCall

LEMMA EverStoppedStays ==
  ASSUME NEW c \in Client, ClientStep(c) \/ ClientCall(c) \/ RaiseStopFlag(c), TypeOK
  PROVE  /\ everStopped => everStopped'
         /\ StopIsNoted => StopIsNoted'
<1>1. stop \in BOOLEAN /\ everStopped \in BOOLEAN
  BY DEF TypeOK
<1>2. QED BY <1>1, ClientSetsStop, Zenon DEF StopIsNoted, SetStop, stopVars

(* m_addTaskCv.                                                            *)

LEMMA AddWakeupSays ==
  /\ NoLostAddWakeup <=>
       (~everStopped /\ addTaskCv # {} =>
          Len(scheduledJobs) <= Cardinality(AwakeWorkers) + Cardinality(AddNotifiers))
  /\ NoLostAddWakeup' <=>
       (~everStopped' /\ addTaskCv' # {} =>
          Len(scheduledJobs') <= Cardinality(AwakeWorkers') + Cardinality(AddNotifiers'))
BY DEF NoLostAddWakeup, AwakeWorkers, AddNotifiers

LEMMA AddWakeupKept ==
  ASSUME CountInv, NoLostAddWakeup, Len(scheduledJobs') <= Len(scheduledJobs),
         Len(scheduledJobs') \in Nat,
         AwakeWorkers \subseteq AwakeWorkers', AddNotifiers \subseteq AddNotifiers',
         addTaskCv' # {} /\ ~everStopped' => addTaskCv # {} /\ ~everStopped
  PROVE  NoLostAddWakeup'
<1>1. /\ IsFiniteSet(AwakeWorkers) /\ IsFiniteSet(AwakeWorkers')
      /\ IsFiniteSet(AddNotifiers) /\ IsFiniteSet(AddNotifiers')
  BY PoolAssumption, FS_Subset DEF AwakeWorkers, AddNotifiers
<1>2. /\ Cardinality(AwakeWorkers) <= Cardinality(AwakeWorkers')
      /\ Cardinality(AddNotifiers) <= Cardinality(AddNotifiers')
      /\ Cardinality(AwakeWorkers) \in Nat /\ Cardinality(AwakeWorkers') \in Nat
      /\ Cardinality(AddNotifiers) \in Nat /\ Cardinality(AddNotifiers') \in Nat
  BY <1>1, SizeOf
<1>3. Len(scheduledJobs) \in Nat
  BY CountInvGivesRoom
<1>4. QED
  BY <1>2, <1>3, AddWakeupSays

LEMMA AddWakeupWorker ==
  ASSUME WakeInv, NEW w \in Worker, WorkerStep(w)
  PROVE  NoLostAddWakeup'
<1> USE DEF queueVars, stopVars, cvVars, workerVars, clientVars, historyVars
<1>ty. CountInv /\ TypeOK /\ NoLostAddWakeup /\ Len(scheduledJobs) \in Nat
  BY CountInvGivesRoom DEF WakeInv, CountInv
<1>1. CASE WorkerSleep(w)
  <2>1. /\ Len(scheduledJobs') = 0
        /\ Cardinality(AwakeWorkers') \in Nat /\ Cardinality(AddNotifiers') \in Nat
    BY <1>1, PoolAssumption, FS_Subset, FS_CardinalityType
    DEF WorkerSleep, AwakeWorkers, AddNotifiers
  <2>2. QED BY <2>1, AddWakeupSays
<1>2. CASE WorkerExit(w)
  BY <1>2 DEF WorkerExit, WakeInv, StopIsNoted, NoLostAddWakeup
<1>3. CASE WorkerTake(w)
  <2>1. /\ AwakeWorkers' = AwakeWorkers \ {w} /\ w \in AwakeWorkers
        /\ AddNotifiers' = AddNotifiers
    BY <1>3, <1>ty DEF WorkerTake, TypeOK, AwakeWorkers, AddNotifiers, AtAddTaskWait
  <2>2. /\ Cardinality(AwakeWorkers') = Cardinality(AwakeWorkers) - 1
        /\ Cardinality(AwakeWorkers) \in Nat /\ Cardinality(AddNotifiers) \in Nat
    BY <2>1, WaitingSetsFinite, SizeOf
  <2>3. Len(scheduledJobs') = Len(scheduledJobs) - 1
    BY <1>3, <1>ty, QueueOps DEF WorkerTake, TypeOK
  <2>4. addTaskCv' = addTaskCv /\ everStopped' = everStopped
    BY <1>3 DEF WorkerTake
  <2>5. QED BY <1>ty, <2>1, <2>2, <2>3, <2>4, AddWakeupSays
<1>4. CASE FinishSync(w) \/ FinishPlain(w) \/ WorkerNotifyFinish(w) \/ WorkerNotifyPoped(w)
  <2>1. /\ scheduledJobs' = scheduledJobs /\ addTaskCv' = addTaskCv
        /\ everStopped' = everStopped /\ AddNotifiers' = AddNotifiers
    BY <1>4 DEF FinishSync, FinishPlain, WorkerNotifyFinish, WorkerNotifyPoped, AddNotifiers
  <2>2. AwakeWorkers \subseteq AwakeWorkers'
    BY <1>4, <1>ty DEF FinishSync, FinishPlain, WorkerNotifyFinish, WorkerNotifyPoped,
       AwakeWorkers, AtAddTaskWait, TypeOK
  <2>3. QED BY <1>ty, <2>1, <2>2, AddWakeupKept
<1>5. QED
  BY <1>1, <1>2, <1>3, <1>4 DEF WorkerStep

(* A job is pushed by a client, which has yet to notify. *)
LEMMA AddWakeupEnqueue ==
  ASSUME WakeInv, NEW c \in Client, clientPc[c] # "notifyAdd", Goto(c, "notifyAdd"),
         NEW job \in Job, Enqueue(job), UNCHANGED <<addTaskCv, everStopped, workerPc>>
  PROVE  NoLostAddWakeup'
<1>1. TypeOK /\ Len(scheduledJobs) \in Nat
  BY CountInvGivesRoom DEF WakeInv, CountInv
<1>2. /\ AddNotifiers' = AddNotifiers \cup {c} /\ c \notin AddNotifiers
      /\ AwakeWorkers' = AwakeWorkers
  BY <1>1 DEF Goto, TypeOK, AddNotifiers, AwakeWorkers, AtAddTaskWait
<1>3. /\ Cardinality(AddNotifiers') = Cardinality(AddNotifiers) + 1
      /\ Cardinality(AwakeWorkers) \in Nat /\ Cardinality(AddNotifiers) \in Nat
  BY <1>2, WaitingSetsFinite, SizeOf
<1>4. Len(scheduledJobs') \in Nat /\ Len(scheduledJobs') <= Len(scheduledJobs) + 1
  BY <1>1, QueueOps DEF Enqueue, Push, TypeOK
<1>5. QED
  BY <1>1, <1>2, <1>3, <1>4, AddWakeupSays DEF WakeInv

LEMMA AddWakeupClient ==
  ASSUME WakeInv, NEW c \in Client, ClientStep(c) \/ ClientCall(c) \/ RaiseStopFlag(c)
  PROVE  NoLostAddWakeup'
<1> USE DEF queueVars, stopVars, cvVars, workerVars, clientVars, historyVars
<1>ty. CountInv /\ TypeOK /\ NoLostAddWakeup /\ Len(scheduledJobs) \in Nat
  BY CountInvGivesRoom DEF WakeInv, CountInv
<1>1. CASE ScheduleAccept(c)
  <2>1. clientJob[c] \in Job
    BY <1>1, <1>ty DEF ScheduleAccept, AtSchedule, CountInv, JobsInHand
  <2>2. QED BY <1>1, <2>1, AddWakeupEnqueue DEF ScheduleAccept, AtSchedule
<1>2. CASE \E job \in FreshJob : TryScheduleTask(c, job)
  BY <1>2, AddWakeupEnqueue DEF TryScheduleTask, Idle, FreshJob
<1>3. CASE NotifyAdd(c)
  <2>1. CASE addTaskCv' = {}
    BY <2>1 DEF NoLostAddWakeup
  <2>2. CASE addTaskCv' # {}
    <3>1. PICK t \in addTaskCv : addTaskCv' = addTaskCv \ {t}
      BY <1>3, <2>2 DEF NotifyAdd, NotifyOne
    <3>2. /\ AwakeWorkers' = AwakeWorkers \cup {t} /\ t \notin AwakeWorkers
          /\ AddNotifiers' = AddNotifiers \ {c} /\ c \in AddNotifiers
      BY <1>3, <1>ty, <3>1 DEF NotifyAdd, Goto, TypeOK, AwakeWorkers, AddNotifiers, AtAddTaskWait
    <3>3. /\ Cardinality(AwakeWorkers') = Cardinality(AwakeWorkers) + 1
          /\ Cardinality(AddNotifiers') = Cardinality(AddNotifiers) - 1
          /\ Cardinality(AwakeWorkers) \in Nat /\ Cardinality(AddNotifiers) \in Nat
      BY <3>2, WaitingSetsFinite, SizeOf
    <3>4. scheduledJobs' = scheduledJobs /\ everStopped' = everStopped
      BY <1>3 DEF NotifyAdd
    <3>5. QED
      BY <1>ty, <3>1, <3>3, <3>4, AddWakeupSays
  <2>3. QED BY <2>1, <2>2
<1>4. CASE NotifyShutdown(c)
  BY <1>4 DEF NotifyShutdown, NotifyAll, NoLostAddWakeup
<1>5. CASE \/ ScheduleSleep(c) \/ ScheduleStopped(c) \/ GetDoneSleep(c) \/ GetDoneStopped(c)
           \/ GetDoneTake(c) \/ NotifyPoped(c) \/ WaitAllSleep(c) \/ WaitAllReturn(c)
           \/ Joined(c)
  <2>1. scheduledJobs' = scheduledJobs /\ addTaskCv' = addTaskCv /\ workerPc' = workerPc
    BY <1>5 DEF ScheduleSleep, ScheduleStopped, GetDoneSleep, GetDoneStopped, GetDoneTake,
       TakeDone, NotifyPoped, WaitAllSleep, WaitAllReturn, Joined
  <2>2. clientPc[c] # "notifyAdd" /\ (clientPc' = clientPc \/ \E l : Goto(c, l))
    BY <1>5 DEF ScheduleSleep, ScheduleStopped, GetDoneSleep, GetDoneStopped, GetDoneTake,
       TakeDone, NotifyPoped, WaitAllSleep, WaitAllReturn, Joined, AtSchedule, AtGetDone,
       AtWaitAll
  <2>3. AddNotifiers \subseteq AddNotifiers'
    BY <2>2, <1>ty DEF Goto, TypeOK, AddNotifiers
  <2>4. AwakeWorkers' = AwakeWorkers
    BY <2>1 DEF AwakeWorkers, AtAddTaskWait
  <2>5. QED BY <1>ty, <2>1, <2>3, <2>4, EverStoppedStays, AddWakeupKept
<1>6. CASE \/ \E job \in FreshJob : CallScheduleTask(c, job)
           \/ TryGetNextDoneTask(c) \/ CallGetNextDoneTask(c)
           \/ \E flag \in BOOLEAN : CallWaitForAllTasks(c, flag)
           \/ Shutdown(c) \/ Destroy(c) \/ RaiseStopFlag(c)
  <2>1. scheduledJobs' = scheduledJobs /\ addTaskCv' = addTaskCv /\ workerPc' = workerPc
    BY <1>6 DEF CallScheduleTask, TryGetNextDoneTask, TakeDone, CallGetNextDoneTask,
       CallWaitForAllTasks, Shutdown, Destroy, RaiseStopFlag
  <2>2. clientPc[c] # "notifyAdd" /\ (clientPc' = clientPc \/ \E l : Goto(c, l))
    BY <1>6 DEF CallScheduleTask, TryGetNextDoneTask, TakeDone, CallGetNextDoneTask,
       CallWaitForAllTasks, Shutdown, Destroy, RaiseStopFlag, Idle
  <2>3. AddNotifiers \subseteq AddNotifiers'
    BY <2>2, <1>ty DEF Goto, TypeOK, AddNotifiers
  <2>4. AwakeWorkers' = AwakeWorkers
    BY <2>1 DEF AwakeWorkers, AtAddTaskWait
  <2>5. QED BY <1>ty, <2>1, <2>3, <2>4, EverStoppedStays, AddWakeupKept
<1>7. CASE TryScheduleRefused(c) \/ TryGetNothing(c)
  BY <1>7, <1>ty DEF TryScheduleRefused, TryGetNothing, vars, NoLostAddWakeup, AtAddTaskWait
<1>8. QED
  BY <1>1, <1>2, <1>3, <1>4, <1>5, <1>6, <1>7 DEF ClientStep, ClientCall

LEMMA AddWakeupSpurious ==
  ASSUME WakeInv, NEW t \in Worker \cup Client, SpuriousWakeup(t)
  PROVE  NoLostAddWakeup'
<1>1. /\ scheduledJobs' = scheduledJobs /\ addTaskCv' \subseteq addTaskCv
      /\ everStopped' = everStopped
      /\ AwakeWorkers \subseteq AwakeWorkers' /\ AddNotifiers' = AddNotifiers
  BY DEF SpuriousWakeup, queueVars, stopVars, workerVars, clientVars, AwakeWorkers,
     AddNotifiers, AtAddTaskWait
<1>2. Len(scheduledJobs) \in Nat
  BY CountInvGivesRoom DEF WakeInv
<1>3. QED BY <1>1, <1>2, AddWakeupKept DEF WakeInv

(* m_popedTaskCv.                                                          *)

LEMMA PopWakeupSays ==
  /\ NoLostPopWakeup <=>
       (~everStopped /\ popedTaskCv # {} =>
          MAX_QUEUE_SIZE - numberOfTasks
            <= Cardinality(AwakeSchedulers) + Cardinality(OwesPopNotify))
  /\ NoLostPopWakeup' <=>
       (~everStopped' /\ popedTaskCv' # {} =>
          MAX_QUEUE_SIZE - numberOfTasks'
            <= Cardinality(AwakeSchedulers') + Cardinality(OwesPopNotify'))
BY DEF NoLostPopWakeup, AwakeSchedulers

LEMMA PopWakeupKept ==
  ASSUME CountInv, NoLostPopWakeup,
         numberOfTasks' \in Nat, numberOfTasks <= numberOfTasks',
         AwakeSchedulers \subseteq AwakeSchedulers', OwesPopNotify \subseteq OwesPopNotify',
         popedTaskCv' # {} /\ ~everStopped' => popedTaskCv # {} /\ ~everStopped
  PROVE  NoLostPopWakeup'
<1>1. /\ IsFiniteSet(AwakeSchedulers) /\ IsFiniteSet(AwakeSchedulers')
      /\ IsFiniteSet(OwesPopNotify) /\ IsFiniteSet(OwesPopNotify')
  <2>1. OwesPopNotify' \subseteq Worker \cup Client
    BY DEF OwesPopNotify
  <2>2. AwakeSchedulers' \subseteq Client
    BY DEF AwakeSchedulers
  <2>3. IsFiniteSet(Worker \cup Client)
    BY PoolAssumption, FS_Union
  <2>4. QED BY <2>1, <2>2, <2>3, WaitingSetsFinite, PoolAssumption, FS_Subset
<1>2. /\ Cardinality(AwakeSchedulers) <= Cardinality(AwakeSchedulers')
      /\ Cardinality(OwesPopNotify) <= Cardinality(OwesPopNotify')
      /\ Cardinality(AwakeSchedulers) \in Nat /\ Cardinality(AwakeSchedulers') \in Nat
      /\ Cardinality(OwesPopNotify) \in Nat /\ Cardinality(OwesPopNotify') \in Nat
  BY <1>1, SizeOf
<1>3. numberOfTasks \in Nat /\ MAX_QUEUE_SIZE \in Nat
  BY CountInvGivesRoom, PoolAssumption
<1>4. QED
  BY <1>2, <1>3, PopWakeupSays

(* A client outside scheduleTask() goes somewhere else. *)
LEMMA PopWakeupPcKept ==
  ASSUME CountInv, NoLostPopWakeup, everStopped => everStopped',
         UNCHANGED <<numberOfTasks, popedTaskCv, workerPc, workerJob>>,
         NEW c \in Client, clientPc[c] \notin {"schedule", "notifyPoped"},
         clientPc' = clientPc \/ \E l : Goto(c, l)
  PROVE  NoLostPopWakeup'
<1>1. TypeOK /\ numberOfTasks \in Nat
  BY CountInvGivesRoom DEF CountInv
<1>2. /\ AwakeSchedulers \subseteq AwakeSchedulers'
      /\ OwesPopNotify \subseteq OwesPopNotify'
  BY <1>1 DEF Goto, TypeOK, AwakeSchedulers, AtSchedule, OwesPopNotify
<1>3. QED BY <1>1, <1>2, PopWakeupKept

(* A place is freed by a thread that has yet to notify. *)
LEMMA PopWakeupFree ==
  ASSUME WakeInv, NEW t, t \notin OwesPopNotify, OwesPopNotify' = OwesPopNotify \cup {t},
         AwakeSchedulers' = AwakeSchedulers, numberOfTasks' = numberOfTasks - 1,
         UNCHANGED <<popedTaskCv, everStopped>>
  PROVE  NoLostPopWakeup'
<1>1. /\ Cardinality(OwesPopNotify') = Cardinality(OwesPopNotify) + 1
      /\ Cardinality(AwakeSchedulers) \in Nat /\ Cardinality(OwesPopNotify) \in Nat
  BY WaitingSetsFinite, SizeOf
<1>2. numberOfTasks \in Nat /\ MAX_QUEUE_SIZE \in Nat
  BY CountInvGivesRoom, PoolAssumption DEF WakeInv
<1>3. QED
  BY <1>1, <1>2, PopWakeupSays DEF WakeInv

(* The notification: one thread owes less, one is awake more. *)
LEMMA PopWakeupNotify ==
  ASSUME WakeInv, NEW t \in OwesPopNotify, OwesPopNotify' = OwesPopNotify \ {t},
         popedTaskCv' \in NotifyOne(popedTaskCv),
         \A c \in popedTaskCv : clientPc'[c] = "schedule",
         \A c \in AwakeSchedulers : clientPc'[c] = "schedule",
         UNCHANGED <<numberOfTasks, everStopped>>
  PROVE  NoLostPopWakeup'
<1>1. CASE popedTaskCv' = {}
  BY <1>1 DEF NoLostPopWakeup
<1>2. CASE popedTaskCv' # {}
  <2>1. PICK c \in popedTaskCv : popedTaskCv' = popedTaskCv \ {c}
    BY <1>2 DEF NotifyOne
  <2>2. /\ c \notin AwakeSchedulers /\ c \in Client
        /\ AwakeSchedulers \cup {c} \subseteq AwakeSchedulers'
    BY <2>1 DEF AwakeSchedulers, AtSchedule, WakeInv, CountInv, TypeOK
  <2>3. /\ Cardinality(OwesPopNotify') = Cardinality(OwesPopNotify) - 1
        /\ Cardinality(AwakeSchedulers) + 1 <= Cardinality(AwakeSchedulers')
        /\ Cardinality(AwakeSchedulers) \in Nat /\ Cardinality(OwesPopNotify) \in Nat
        /\ Cardinality(AwakeSchedulers') \in Nat
    <3>1. IsFiniteSet(AwakeSchedulers \cup {c})
      BY WaitingSetsFinite, FS_AddElement
    <3>2. IsFiniteSet(AwakeSchedulers')
      BY PoolAssumption, FS_Subset DEF AwakeSchedulers
    <3>3. Cardinality(AwakeSchedulers \cup {c}) = Cardinality(AwakeSchedulers) + 1
      BY <2>2, WaitingSetsFinite, SizeOf
    <3>4. Cardinality(AwakeSchedulers \cup {c}) <= Cardinality(AwakeSchedulers')
      BY <2>2, <3>1, <3>2, SizeOf
    <3>5. QED BY <3>2, <3>3, <3>4, WaitingSetsFinite, SizeOf
  <2>4. numberOfTasks \in Nat /\ MAX_QUEUE_SIZE \in Nat
    BY CountInvGivesRoom, PoolAssumption DEF WakeInv
  <2>5. QED
    BY <2>1, <2>3, <2>4, PopWakeupSays DEF WakeInv
<1>3. QED BY <1>1, <1>2

LEMMA PopWakeupWorker ==
  ASSUME WakeInv, NEW w \in Worker, WorkerStep(w)
  PROVE  NoLostPopWakeup'
<1> USE DEF queueVars, stopVars, cvVars, workerVars, clientVars, historyVars
<1>ty. CountInv /\ TypeOK /\ NoLostPopWakeup /\ numberOfTasks \in Nat
  BY CountInvGivesRoom DEF WakeInv, CountInv
<1>1. CASE WorkerSleep(w) \/ WorkerExit(w) \/ WorkerTake(w) \/ FinishSync(w)
           \/ WorkerNotifyFinish(w)
  <2>1. /\ UNCHANGED <<numberOfTasks, popedTaskCv, everStopped, clientPc>>
    BY <1>1 DEF WorkerSleep, WorkerExit, WorkerTake, FinishSync, WorkerNotifyFinish
  <2>2. OwesPopNotify \subseteq OwesPopNotify'
    BY <1>1, <1>ty DEF WorkerSleep, WorkerExit, WorkerTake, FinishSync, WorkerNotifyFinish,
       AtAddTaskWait, OwesPopNotify, TypeOK
  <2>3. AwakeSchedulers' = AwakeSchedulers
    BY <2>1 DEF AwakeSchedulers, AtSchedule
  <2>4. QED BY <1>ty, <2>1, <2>2, <2>3, PopWakeupKept
<1>2. CASE FinishPlain(w)
  <2>1. w \notin OwesPopNotify /\ OwesPopNotify' = OwesPopNotify \cup {w}
    BY <1>2, <1>ty, PoolAssumption DEF FinishPlain, OwesPopNotify, TypeOK
  <2>2. AwakeSchedulers' = AwakeSchedulers
    BY <1>2 DEF FinishPlain, AwakeSchedulers, AtSchedule
  <2>3. QED BY <1>2, <2>1, <2>2, PopWakeupFree DEF FinishPlain
<1>3. CASE WorkerNotifyPoped(w)
  <2>1. w \in OwesPopNotify /\ OwesPopNotify' = OwesPopNotify \ {w}
    BY <1>3, <1>ty, PoolAssumption DEF WorkerNotifyPoped, OwesPopNotify, TypeOK
  <2>2. /\ \A c \in popedTaskCv : clientPc'[c] = "schedule"
        /\ \A c \in AwakeSchedulers : clientPc'[c] = "schedule"
    BY <1>3, <1>ty DEF WorkerNotifyPoped, TypeOK, AwakeSchedulers, AtSchedule
  <2>3. QED BY <1>3, <2>1, <2>2, PopWakeupNotify DEF WorkerNotifyPoped
<1>4. QED
  BY <1>1, <1>2, <1>3 DEF WorkerStep

LEMMA PopWakeupTakeDone ==
  ASSUME WakeInv, NEW c \in Client, TakeDone(c), clientPc[c] \in {"idle", "getDone"}
  PROVE  NoLostPopWakeup'
<1> USE DEF cvVars, stopVars, workerVars
<1>1. TypeOK
  BY DEF WakeInv, CountInv
<1>2. c \notin OwesPopNotify /\ OwesPopNotify' = OwesPopNotify \cup {c}
  BY <1>1, PoolAssumption DEF TakeDone, Goto, OwesPopNotify, TypeOK
<1>3. AwakeSchedulers' = AwakeSchedulers
  BY <1>1 DEF TakeDone, Goto, TypeOK, AwakeSchedulers, AtSchedule
<1>4. QED BY <1>2, <1>3, PopWakeupFree DEF TakeDone

LEMMA PopWakeupClient ==
  ASSUME WakeInv, NEW c \in Client, ClientStep(c) \/ ClientCall(c) \/ RaiseStopFlag(c)
  PROVE  NoLostPopWakeup'
<1> USE DEF queueVars, stopVars, cvVars, workerVars, clientVars, historyVars
<1>ty. CountInv /\ TypeOK /\ NoLostPopWakeup /\ numberOfTasks \in Nat /\ MAX_QUEUE_SIZE \in Nat
  BY CountInvGivesRoom, PoolAssumption DEF WakeInv, CountInv
<1>1. CASE ScheduleSleep(c)
  <2>1. numberOfTasks >= MAX_QUEUE_SIZE
    BY <1>1, <1>ty, CountInvGivesRoom, RunningFinite DEF ScheduleSleep, HasPlace, CountInv, Accounting
  <2>2. /\ Cardinality(AwakeSchedulers') \in Nat /\ Cardinality(OwesPopNotify') \in Nat
    <3>1. OwesPopNotify' = OwesPopNotify
      BY <1>1 DEF ScheduleSleep, OwesPopNotify
    <3>2. AwakeSchedulers' \subseteq Client
      BY DEF AwakeSchedulers
    <3>3. QED BY <3>1, <3>2, WaitingSetsFinite, PoolAssumption, FS_Subset, FS_CardinalityType
  <2>3. numberOfTasks' = numberOfTasks
    BY <1>1 DEF ScheduleSleep
  <2>4. QED BY <1>ty, <2>1, <2>2, <2>3, PopWakeupSays
<1>2. CASE ScheduleStopped(c)
  BY <1>2 DEF ScheduleStopped, WakeInv, StopIsNoted, NoLostPopWakeup
<1>3. CASE ScheduleAccept(c)
  <2>1. /\ c \in AwakeSchedulers /\ AwakeSchedulers' = AwakeSchedulers \ {c}
        /\ OwesPopNotify' = OwesPopNotify
    BY <1>3, <1>ty DEF ScheduleAccept, Goto, TypeOK, AwakeSchedulers, AtSchedule, OwesPopNotify
  <2>2. /\ Cardinality(AwakeSchedulers') = Cardinality(AwakeSchedulers) - 1
        /\ Cardinality(AwakeSchedulers) \in Nat /\ Cardinality(OwesPopNotify) \in Nat
    BY <2>1, WaitingSetsFinite, SizeOf
  <2>3. numberOfTasks' = numberOfTasks + 1 /\ UNCHANGED <<popedTaskCv, everStopped>>
    BY <1>3 DEF ScheduleAccept, Enqueue
  <2>4. QED BY <1>ty, <2>1, <2>2, <2>3, PopWakeupSays
<1>4. CASE \E job \in FreshJob : TryScheduleTask(c, job)
  <2>1. /\ numberOfTasks' = numberOfTasks + 1 /\ UNCHANGED <<popedTaskCv, everStopped>>
        /\ OwesPopNotify' = OwesPopNotify
    BY <1>4, <1>ty DEF TryScheduleTask, Enqueue, Idle, Goto, TypeOK, OwesPopNotify
  <2>2. AwakeSchedulers' = AwakeSchedulers
    BY <1>4, <1>ty DEF TryScheduleTask, Idle, Goto, TypeOK, AwakeSchedulers, AtSchedule
  <2>3. QED BY <1>ty, <2>1, <2>2, PopWakeupKept
<1>5. CASE GetDoneTake(c) \/ TryGetNextDoneTask(c)
  BY <1>5, PopWakeupTakeDone DEF GetDoneTake, AtGetDone, TryGetNextDoneTask, Idle
<1>6. CASE NotifyPoped(c)
  <2>1. c \in OwesPopNotify /\ OwesPopNotify' = OwesPopNotify \ {c}
    BY <1>6, <1>ty, PoolAssumption DEF NotifyPoped, Goto, OwesPopNotify, TypeOK
  <2>2. /\ \A d \in popedTaskCv : clientPc'[d] = "schedule"
        /\ \A d \in AwakeSchedulers : clientPc'[d] = "schedule"
    BY <1>6, <1>ty DEF NotifyPoped, Goto, TypeOK, AwakeSchedulers, AtSchedule
  <2>3. QED BY <1>6, <2>1, <2>2, PopWakeupNotify DEF NotifyPoped
<1>7. CASE \/ NotifyAdd(c) \/ GetDoneSleep(c) \/ GetDoneStopped(c) \/ WaitAllSleep(c)
           \/ WaitAllReturn(c) \/ NotifyShutdown(c) \/ Joined(c)
  <2>1. UNCHANGED <<numberOfTasks, popedTaskCv, workerPc, workerJob>>
    BY <1>7 DEF NotifyAdd, GetDoneSleep, GetDoneStopped, WaitAllSleep, WaitAllReturn,
       NotifyShutdown, Joined
  <2>2. /\ clientPc[c] \notin {"schedule", "notifyPoped"}
        /\ clientPc' = clientPc \/ \E l : Goto(c, l)
    BY <1>7 DEF NotifyAdd, GetDoneSleep, GetDoneStopped, WaitAllSleep, WaitAllReturn,
       NotifyShutdown, Joined, AtGetDone, AtWaitAll
  <2>3. QED BY <1>ty, <2>1, <2>2, PopWakeupPcKept, EverStoppedStays
<1>8. CASE \/ \E job \in FreshJob : CallScheduleTask(c, job)
           \/ CallGetNextDoneTask(c) \/ \E flag \in BOOLEAN : CallWaitForAllTasks(c, flag)
           \/ Shutdown(c) \/ Destroy(c) \/ RaiseStopFlag(c)
  <2>1. UNCHANGED <<numberOfTasks, popedTaskCv, workerPc, workerJob>>
    BY <1>8 DEF CallScheduleTask, CallGetNextDoneTask, CallWaitForAllTasks, Shutdown, Destroy,
       RaiseStopFlag
  <2>2. /\ clientPc[c] \notin {"schedule", "notifyPoped"}
        /\ clientPc' = clientPc \/ \E l : Goto(c, l)
    BY <1>8 DEF CallScheduleTask, CallGetNextDoneTask, CallWaitForAllTasks, Shutdown, Destroy,
       RaiseStopFlag, Idle
  <2>3. QED BY <1>ty, <2>1, <2>2, PopWakeupPcKept, EverStoppedStays
<1>9. CASE TryScheduleRefused(c) \/ TryGetNothing(c)
  BY <1>9, <1>ty DEF TryScheduleRefused, TryGetNothing, vars, NoLostPopWakeup, AtSchedule,
     OwesPopNotify
<1>10. QED
  BY <1>1, <1>2, <1>3, <1>4, <1>5, <1>6, <1>7, <1>8, <1>9 DEF ClientStep, ClientCall

LEMMA PopWakeupSpurious ==
  ASSUME WakeInv, NEW t \in Worker \cup Client, SpuriousWakeup(t)
  PROVE  NoLostPopWakeup'
<1>1. /\ numberOfTasks' = numberOfTasks /\ popedTaskCv' \subseteq popedTaskCv
      /\ everStopped' = everStopped
      /\ AwakeSchedulers \subseteq AwakeSchedulers' /\ OwesPopNotify' = OwesPopNotify
  BY DEF SpuriousWakeup, queueVars, stopVars, workerVars, clientVars, AwakeSchedulers,
     OwesPopNotify, AtSchedule
<1>2. numberOfTasks \in Nat
  BY CountInvGivesRoom DEF WakeInv
<1>3. QED BY <1>1, <1>2, PopWakeupKept DEF WakeInv

(* m_finishTaskCv.                                                         *)

(* What a thread asleep on m_finishTaskCv waits for has not happened. *)
NothingToSee(c) == IF clientPc[c] = "getDone" THEN doneJobs = <<>> ELSE ~AllTasksRan

LEMMA FinishWakeupSays ==
  /\ NoLostFinishWakeup <=>
       \/ \E w \in Worker : workerPc[w] = "notifyFinish"
       \/ \A c \in finishTaskCv : NothingToSee(c)
  /\ NoLostFinishWakeup' <=>
       \/ \E w \in Worker : workerPc'[w] = "notifyFinish"
       \/ \A c \in finishTaskCv' : NothingToSee(c)'
BY DEF NoLostFinishWakeup, NothingToSee

(* No worker leaves the place where it notifies, and a thread that goes on *)
(* sleeping goes on having nothing to see.                                 *)
LEMMA FinishWakeupKept ==
  ASSUME NoLostFinishWakeup,
         \A w \in Worker : workerPc[w] = "notifyFinish" => workerPc'[w] = "notifyFinish",
         \A c \in finishTaskCv' :
           \/ NothingToSee(c)'
           \/ c \in finishTaskCv /\ (NothingToSee(c) => NothingToSee(c)')
  PROVE  NoLostFinishWakeup'
BY FinishWakeupSays

LEMMA FinishWakeupWorker ==
  ASSUME WakeInv, NEW w \in Worker, WorkerStep(w)
  PROVE  NoLostFinishWakeup'
<1> USE DEF queueVars, stopVars, cvVars, workerVars, clientVars, historyVars
<1>ty. TypeOK /\ NoLostFinishWakeup
  BY DEF WakeInv, CountInv
<1>1. CASE WorkerSleep(w) \/ WorkerExit(w) \/ WorkerNotifyPoped(w)
  <2>1. UNCHANGED <<finishTaskCv, doneJobs, clientPc, numberOfRunningTasks, scheduledJobs>>
    BY <1>1 DEF WorkerSleep, WorkerExit, WorkerNotifyPoped
  <2>2. \A v \in Worker : workerPc[v] = "notifyFinish" => workerPc'[v] = "notifyFinish"
    BY <1>1, <1>ty DEF WorkerSleep, WorkerExit, WorkerNotifyPoped, AtAddTaskWait, TypeOK
  <2>3. \A c \in finishTaskCv' : NothingToSee(c)' = NothingToSee(c)
    BY <2>1 DEF NothingToSee, AllTasksRan
  <2>4. QED BY <1>ty, <2>1, <2>2, <2>3, FinishWakeupKept
<1>2. CASE WorkerTake(w)
  <2>1. /\ UNCHANGED <<finishTaskCv, doneJobs, clientPc>>
        /\ numberOfRunningTasks' = numberOfRunningTasks + 1 /\ numberOfRunningTasks \in Nat
    BY <1>2, <1>ty DEF WorkerTake, TypeOK
  <2>2. \A v \in Worker : workerPc[v] = "notifyFinish" => workerPc'[v] = "notifyFinish"
    BY <1>2, <1>ty DEF WorkerTake, AtAddTaskWait, TypeOK
  <2>3. \A c \in finishTaskCv' : NothingToSee(c) => NothingToSee(c)'
    BY <2>1 DEF NothingToSee, AllTasksRan
  <2>4. QED BY <1>ty, <2>1, <2>2, <2>3, FinishWakeupKept
<1>3. CASE FinishSync(w) \/ FinishPlain(w)
  <2>1. workerPc'[w] = "notifyFinish"
    BY <1>3, <1>ty DEF FinishSync, FinishPlain, TypeOK
  <2>2. QED BY <2>1, FinishWakeupSays
<1>4. CASE WorkerNotifyFinish(w)
  BY <1>4, FinishWakeupSays DEF WorkerNotifyFinish, NotifyAll
<1>5. QED
  BY <1>1, <1>2, <1>3, <1>4 DEF WorkerStep

(* A job enters the pool, so that not all tasks ran. *)
LEMMA FinishWakeupEnqueue ==
  ASSUME WakeInv, NEW c \in Client, clientPc[c] # "getDone", Goto(c, "notifyAdd"),
         c \notin finishTaskCv, NEW job \in Job, Enqueue(job), numberOfTasks < MAX_QUEUE_SIZE,
         UNCHANGED <<finishTaskCv, doneJobs, numberOfRunningTasks, workerPc, workerJob>>
  PROVE  NoLostFinishWakeup'
<1>1. CountInv /\ TypeOK /\ NoLostFinishWakeup
  BY DEF WakeInv, CountInv
<1>2. scheduledJobs' = Append(scheduledJobs, job)
  BY <1>1, EnqueueCounts DEF workerVars
<1>3. scheduledJobs' # <<>>
  BY <1>1, <1>2, QueueOps DEF TypeOK
<1>4. \A d \in finishTaskCv' : clientPc'[d] = clientPc[d]
  BY <1>1 DEF Goto, TypeOK
<1>5. \A d \in finishTaskCv' : NothingToSee(d) => NothingToSee(d)'
  BY <1>3, <1>4 DEF NothingToSee, AllTasksRan
<1>6. QED BY <1>1, <1>5, FinishWakeupKept

LEMMA FinishWakeupTakeDone ==
  ASSUME WakeInv, NEW c \in Client, TakeDone(c), doneJobs # <<>>,
         clientPc[c] \in {"idle", "getDone"}, c \notin finishTaskCv
  PROVE  NoLostFinishWakeup'
<1>1. TypeOK /\ NoLostFinishWakeup
  BY DEF WakeInv, CountInv
<1>2. UNCHANGED <<finishTaskCv, scheduledJobs, numberOfRunningTasks, workerPc>>
  BY DEF TakeDone, cvVars, workerVars
<1>3. \A d \in finishTaskCv' : clientPc'[d] = clientPc[d]
  BY <1>1, <1>2 DEF TakeDone, Goto, TypeOK
<1>4. \A d \in finishTaskCv' : NothingToSee(d) => NothingToSee(d)'
  BY <1>2, <1>3 DEF NothingToSee, AllTasksRan
<1>5. QED BY <1>1, <1>2, <1>4, FinishWakeupKept

(* A client moves that is not asleep on m_finishTaskCv. *)
LEMMA FinishWakeupPcKept ==
  ASSUME TypeOK, NoLostFinishWakeup, NEW c \in Client, c \notin finishTaskCv,
         UNCHANGED <<finishTaskCv, scheduledJobs, doneJobs, numberOfRunningTasks, workerPc>>,
         clientPc' = clientPc \/ \E l : Goto(c, l)
  PROVE  NoLostFinishWakeup'
<1>1. \A d \in finishTaskCv' : clientPc'[d] = clientPc[d]
  BY DEF Goto, TypeOK
<1>2. \A d \in finishTaskCv' : NothingToSee(d) => NothingToSee(d)'
  BY <1>1 DEF NothingToSee, AllTasksRan
<1>3. QED BY <1>2, FinishWakeupKept

LEMMA FinishWakeupClient ==
  ASSUME WakeInv, NEW c \in Client, ClientStep(c) \/ ClientCall(c) \/ RaiseStopFlag(c)
  PROVE  NoLostFinishWakeup'
<1> USE DEF queueVars, stopVars, cvVars, workerVars, clientVars, historyVars
<1>ty. CountInv /\ TypeOK /\ NoLostFinishWakeup
  BY DEF WakeInv, CountInv
<1>1. CASE ScheduleAccept(c)
  <2>1. clientJob[c] \in Job /\ clientPc[c] = "schedule" /\ c \notin finishTaskCv
    BY <1>1, <1>ty DEF ScheduleAccept, AtSchedule, CountInv, JobsInHand, TypeOK
  <2>2. QED BY <1>1, <2>1, FinishWakeupEnqueue DEF ScheduleAccept, HasPlace
<1>2. CASE \E job \in FreshJob : TryScheduleTask(c, job)
  <2>1. clientPc[c] = "idle" /\ c \notin finishTaskCv
    BY <1>2, <1>ty DEF TryScheduleTask, Idle, TypeOK
  <2>2. QED BY <1>2, <2>1, FinishWakeupEnqueue DEF TryScheduleTask, FreshJob
<1>3. CASE GetDoneTake(c) \/ TryGetNextDoneTask(c)
  <2>1. /\ TakeDone(c) /\ doneJobs # <<>> /\ clientPc[c] \in {"idle", "getDone"}
        /\ c \notin finishTaskCv
    BY <1>3, <1>ty DEF GetDoneTake, AtGetDone, TryGetNextDoneTask, Idle, TypeOK
  <2>2. QED BY <2>1, FinishWakeupTakeDone
<1>4. CASE GetDoneSleep(c) \/ WaitAllSleep(c)
  <2>1. /\ finishTaskCv' = finishTaskCv \cup {c} /\ NothingToSee(c)'
        /\ UNCHANGED <<scheduledJobs, doneJobs, numberOfRunningTasks, workerPc, clientPc>>
    BY <1>4 DEF GetDoneSleep, AtGetDone, WaitAllSleep, AtWaitAll, NothingToSee, AllTasksRan
  <2>2. \A d \in finishTaskCv : NothingToSee(d) => NothingToSee(d)'
    BY <2>1 DEF NothingToSee, AllTasksRan
  <2>3. QED BY <1>ty, <2>1, <2>2, FinishWakeupKept
<1>5. CASE \/ ScheduleSleep(c) \/ ScheduleStopped(c) \/ NotifyAdd(c) \/ GetDoneStopped(c)
           \/ NotifyPoped(c) \/ WaitAllReturn(c) \/ NotifyShutdown(c) \/ Joined(c)
  <2>1. UNCHANGED <<finishTaskCv, scheduledJobs, doneJobs, numberOfRunningTasks, workerPc>>
    BY <1>5 DEF ScheduleSleep, ScheduleStopped, NotifyAdd, GetDoneStopped, NotifyPoped,
       WaitAllReturn, NotifyShutdown, Joined
  <2>2. c \notin finishTaskCv
    BY <1>5, <1>ty DEF ScheduleSleep, ScheduleStopped, NotifyAdd, GetDoneStopped, NotifyPoped,
       WaitAllReturn, NotifyShutdown, Joined, AtSchedule, AtGetDone, AtWaitAll, TypeOK
  <2>3. clientPc' = clientPc \/ \E l : Goto(c, l)
    BY <1>5 DEF ScheduleSleep, ScheduleStopped, NotifyAdd, GetDoneStopped, NotifyPoped,
       WaitAllReturn, NotifyShutdown, Joined
  <2>4. QED BY <1>ty, <2>1, <2>2, <2>3, FinishWakeupPcKept
<1>6. CASE \/ \E job \in FreshJob : CallScheduleTask(c, job)
           \/ CallGetNextDoneTask(c) \/ \E flag \in BOOLEAN : CallWaitForAllTasks(c, flag)
           \/ Shutdown(c) \/ Destroy(c)
  <2>1. UNCHANGED <<finishTaskCv, scheduledJobs, doneJobs, numberOfRunningTasks, workerPc>>
    BY <1>6 DEF CallScheduleTask, CallGetNextDoneTask, CallWaitForAllTasks, Shutdown, Destroy
  <2>2. c \notin finishTaskCv
    BY <1>6, <1>ty DEF CallScheduleTask, CallGetNextDoneTask, CallWaitForAllTasks, Shutdown,
       Destroy, Idle, TypeOK
  <2>3. \E l : Goto(c, l)
    BY <1>6 DEF CallScheduleTask, CallGetNextDoneTask, CallWaitForAllTasks, Shutdown, Destroy
  <2>4. QED BY <1>ty, <2>1, <2>2, <2>3, FinishWakeupPcKept
<1>7. CASE TryScheduleRefused(c) \/ TryGetNothing(c) \/ RaiseStopFlag(c)
  <2>1. UNCHANGED <<finishTaskCv, scheduledJobs, doneJobs, numberOfRunningTasks, workerPc, clientPc>>
    BY <1>7 DEF TryScheduleRefused, TryGetNothing, RaiseStopFlag, vars
  <2>2. \A d \in finishTaskCv' : NothingToSee(d) => NothingToSee(d)'
    BY <2>1 DEF NothingToSee, AllTasksRan
  <2>3. QED BY <1>ty, <2>1, <2>2, FinishWakeupKept
<1>8. QED
  BY <1>1, <1>2, <1>3, <1>4, <1>5, <1>6, <1>7 DEF ClientStep, ClientCall

LEMMA FinishWakeupSpurious ==
  ASSUME WakeInv, NEW t \in Worker \cup Client, SpuriousWakeup(t)
  PROVE  NoLostFinishWakeup'
<1>1. /\ finishTaskCv' \subseteq finishTaskCv
      /\ UNCHANGED <<scheduledJobs, doneJobs, numberOfRunningTasks, workerPc, clientPc>>
  BY DEF SpuriousWakeup, queueVars, workerVars, clientVars
<1>2. \A d \in finishTaskCv' : NothingToSee(d) => NothingToSee(d)'
  BY <1>1 DEF NothingToSee, AllTasksRan
<1>3. QED BY <1>1, <1>2, FinishWakeupKept DEF WakeInv

--------------------------------------------------------------------------------

LEMMA WakeInvInit == Init => WakeInv
BY CountInvInit DEF Init, WakeInv, StopIsNoted, NoLostAddWakeup, NoLostPopWakeup,
   NoLostFinishWakeup

LEMMA WakeInvStutter ==
  ASSUME WakeInv, UNCHANGED vars
  PROVE  WakeInv'
<1>1. CountInv'
  BY CountInvStutter DEF WakeInv
<1>2. /\ UNCHANGED <<scheduledJobs, doneJobs, numberOfTasks, numberOfRunningTasks>>
      /\ UNCHANGED <<stop, everStopped, addTaskCv, finishTaskCv, popedTaskCv>>
      /\ UNCHANGED <<workerPc, workerJob, clientPc>>
  BY DEF vars, queueVars, stopVars, cvVars, workerVars, clientVars
<1>3. AwakeWorkers' = AwakeWorkers /\ AddNotifiers' = AddNotifiers
  BY <1>2 DEF AwakeWorkers, AddNotifiers, AtAddTaskWait
<1>4. AwakeSchedulers' = AwakeSchedulers /\ OwesPopNotify' = OwesPopNotify
  BY <1>2 DEF AwakeSchedulers, OwesPopNotify, AtSchedule
<1>5. \A d \in finishTaskCv' : NothingToSee(d) => NothingToSee(d)'
  BY <1>2 DEF NothingToSee, AllTasksRan
<1>6. NoLostAddWakeup' /\ NoLostPopWakeup' /\ NoLostFinishWakeup'
  BY <1>2, <1>3, <1>4, <1>5, AddWakeupSays, PopWakeupSays, FinishWakeupKept DEF WakeInv
<1>7. QED BY <1>1, <1>2, <1>6 DEF WakeInv, StopIsNoted

LEMMA WakeInvNext ==
  ASSUME WakeInv, [Next]_vars
  PROVE  WakeInv'
<1>1. CountInv' /\ TypeOK
  BY CountInvNext DEF WakeInv, CountInv
<1>2. CASE \E w \in Worker : WorkerStep(w)
  <2>1. PICK w \in Worker : WorkerStep(w)
    BY <1>2
  <2>2. UNCHANGED stopVars
    BY <2>1 DEF WorkerStep, WorkerSleep, WorkerExit, WorkerTake, FinishSync, FinishPlain,
       WorkerNotifyFinish, WorkerNotifyPoped
  <2>3. StopIsNoted'
    BY <2>2 DEF stopVars, WakeInv, StopIsNoted
  <2>4. QED
    BY <1>1, <2>1, <2>3, AddWakeupWorker, PopWakeupWorker, FinishWakeupWorker DEF WakeInv
<1>3. CASE \E c \in Client : ClientStep(c) \/ ClientCall(c) \/ RaiseStopFlag(c)
  <2>1. StopIsNoted'
    BY <1>1, <1>3, EverStoppedStays DEF WakeInv
  <2>2. QED
    BY <1>1, <1>3, <2>1, AddWakeupClient, PopWakeupClient, FinishWakeupClient DEF WakeInv
<1>4. CASE \E t \in Worker \cup Client : SpuriousWakeup(t)
  <2>1. StopIsNoted'
    BY <1>4 DEF SpuriousWakeup, stopVars, WakeInv, StopIsNoted
  <2>2. QED
    BY <1>1, <1>4, <2>1, AddWakeupSpurious, PopWakeupSpurious, FinishWakeupSpurious DEF WakeInv
<1>5. CASE UNCHANGED vars
  BY <1>5, WakeInvStutter
<1>6. QED BY <1>2, <1>3, <1>4, <1>5 DEF Next

LEMMA WakeInvariant == Spec => []WakeInv
BY WakeInvInit, WakeInvNext, PTL DEF Spec

(* No wakeup of a worker is lost: while one sleeps, each queued job has an *)
(* awake worker or a client that is about to notify m_addTaskCv, although  *)
(* all notifications come after the lock is released.                      *)
THEOREM PoolAddWakeups == Spec => []NoLostAddWakeup
<1>1. WakeInv => NoLostAddWakeup
  BY DEF WakeInv
<1>2. QED BY <1>1, WakeInvariant, PTL

(* No wakeup of a caller blocked in scheduleTask() is lost: each free place *)
(* has an awake caller or a thread that is about to notify m_popedTaskCv,   *)
(* whichever of the three critical sections freed it.                       *)
THEOREM PoolPopWakeups == Spec => []NoLostPopWakeup
<1>1. WakeInv => NoLostPopWakeup
  BY DEF WakeInv
<1>2. QED BY <1>1, WakeInvariant, PTL

(* No wakeup of getNextDoneTask() or waitForAllTasks() is lost: a thread    *)
(* asleep on m_finishTaskCv has nothing to see, or a worker is about to     *)
(* notify all.                                                              *)
THEOREM PoolFinishWakeups == Spec => []NoLostFinishWakeup
<1>1. WakeInv => NoLostFinishWakeup
  BY DEF WakeInv
<1>2. QED BY <1>1, WakeInvariant, PTL

================================================================================
