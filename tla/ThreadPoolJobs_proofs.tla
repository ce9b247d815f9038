------------------------- MODULE ThreadPoolJobs_proofs -------------------------
(***************************************************************************)
(* Where the jobs of the pool are: each accepted job is in one place       *)
(* (Conservation), waitForAllTasks() means that all of them ran, and the   *)
(* pool implements JobPool.                                                *)
(***************************************************************************)
EXTENDS ThreadPool_proofs, SequenceLemmas

--------------------------------------------------------------------------------
(* The second inductive invariant: where jobs are.                         *)

(* The argument of a scheduleTask() that has not entered the pool is in no *)
(* place of the pool, nor the argument of another call.                    *)
ArgsFresh ==
  \A c \in Client : clientPc[c] = "schedule" =>
    /\ clientJob[c] \notin accepted
    /\ \A d \in Client : clientPc[d] = "schedule" /\ clientJob[d] = clientJob[c] => c = d

JobInv == CountInv /\ Conservation /\ ArgsFresh

LEMMA JobInvInit == Init => JobInv
<1> SUFFICES ASSUME Init PROVE JobInv
  OBVIOUS
<1>1. RunningJobs = {} /\ Running = {}
  BY DEF Init, Running, RunningJobs
<1>2. Conservation
  BY <1>1, RangeOfEmpty DEF Init, Conservation
<1>3. ArgsFresh
  BY DEF Init, ArgsFresh
<1>4. QED BY <1>2, <1>3, CountInvInit DEF JobInv

(* Steps that move no job.                                                 *)
LEMMA PlacesKept ==
  ASSUME JobInv, UNCHANGED <<scheduledJobs, doneJobs, accepted, retired>>,
         Running' = Running, \A w \in Running : workerJob'[w] = workerJob[w]
  PROVE  Conservation'
<1>1. RunningJobs' = RunningJobs
  BY DEF RunningJobs
<1>2. \A v, w \in Running' : workerJob'[v] = workerJob'[w] => v = w
  BY DEF JobInv, Conservation
<1>3. QED BY <1>1, <1>2 DEF JobInv, Conservation

LEMMA ArgsKept ==
  ASSUME JobInv, accepted' = accepted,
         \A c \in Client : clientPc'[c] = "schedule" =>
           clientPc[c] = "schedule" /\ clientJob'[c] = clientJob[c]
  PROVE  ArgsFresh'
BY DEF JobInv, ArgsFresh

(* The three steps of a worker that move a job.                            *)
LEMMA TakeMoves ==
  ASSUME JobInv, NEW w \in Worker, WorkerTake(w)
  PROVE  /\ scheduledJobs # <<>> /\ scheduledJobs' = Tail(scheduledJobs)
         /\ RunningJobs' = RunningJobs \cup {Head(scheduledJobs)}
         /\ UNCHANGED <<doneJobs, accepted, retired>>
         /\ Conservation'
<1> USE DEF queueVars, historyVars
<1> DEFINE j == Head(scheduledJobs)
<1>ty. TypeOK /\ WorkerPcIsFunction
  BY DEF JobInv, CountInv, TypeOK, WorkerPcIsFunction
<1>1. /\ j \in Range(scheduledJobs)
      /\ Range(scheduledJobs') = Range(scheduledJobs) \ {j}
      /\ IsInjective(scheduledJobs')
  BY <1>ty, RangeOfTail DEF WorkerTake, TypeOK, JobInv, Conservation
<1>2. Running' = Running \cup {w} /\ w \notin Running
  BY <1>ty, RunningEnter DEF WorkerTake, AtAddTaskWait
<1>3. workerJob'[w] = j /\ \A v \in Running : workerJob'[v] = workerJob[v]
  BY <1>ty, <1>2 DEF WorkerTake, TypeOK, Running
<1>4. RunningJobs' = RunningJobs \cup {j}
  BY <1>2, <1>3 DEF RunningJobs
<1>5. /\ UNCHANGED <<doneJobs, accepted, retired>>
      /\ scheduledJobs # <<>> /\ scheduledJobs' = Tail(scheduledJobs)
  BY DEF WorkerTake
<1> HIDE DEF j
<1>6. \A u, v \in Running' : workerJob'[u] = workerJob'[v] => u = v
  <2>1. \A v \in Running : workerJob[v] # j
    BY <1>1 DEF JobInv, Conservation, RunningJobs
  <2>2. QED BY <1>2, <1>3, <2>1 DEF JobInv, Conservation
<1>7. Conservation'
  BY <1>1, <1>4, <1>5, <1>6 DEF JobInv, Conservation
<1>8. QED BY <1>4, <1>5, <1>7 DEF j

LEMMA FinishSyncMoves ==
  ASSUME JobInv, NEW w \in Worker, FinishSync(w)
  PROVE  /\ workerJob[w] \in RunningJobs \cap SyncJob
         /\ RunningJobs' = RunningJobs \ {workerJob[w]}
         /\ doneJobs' = Append(doneJobs, workerJob[w])
         /\ UNCHANGED <<scheduledJobs, accepted, retired>>
         /\ Conservation'
<1> USE DEF queueVars, historyVars
<1> DEFINE j == workerJob[w]
<1>ty. TypeOK /\ WorkerPcIsFunction /\ CountInv
  BY DEF JobInv, CountInv, TypeOK, WorkerPcIsFunction
<1>1. Running' = Running \ {w} /\ w \in Running
  BY <1>ty, RunningLeave DEF FinishSync
<1>2. RunningJobs' = RunningJobs \ {j} /\ j \in RunningJobs
  BY <1>1 DEF FinishSync, RunningJobs, JobInv, Conservation
<1>3. doneJobs' = Append(doneJobs, j) /\ j \in SyncJob
  BY <1>ty, <1>1, CountInvGivesRoom DEF FinishSync, Push, PushesSucceed
<1>4. /\ Range(doneJobs') = Range(doneJobs) \cup {j}
      /\ IsInjective(doneJobs')
  BY <1>2, <1>3, <1>ty, RangeOfAppend DEF TypeOK, JobInv, Conservation
<1>5. UNCHANGED <<scheduledJobs, accepted, retired, workerJob>>
  BY DEF FinishSync
<1> HIDE DEF j
<1>6. \A u, v \in Running' : workerJob'[u] = workerJob'[v] => u = v
  BY <1>1, <1>5 DEF JobInv, Conservation
<1>7. Conservation'
  BY <1>2, <1>4, <1>5, <1>6 DEF JobInv, Conservation
<1>8. QED BY <1>2, <1>3, <1>5, <1>7 DEF j

LEMMA FinishPlainMoves ==
  ASSUME JobInv, NEW w \in Worker, FinishPlain(w)
  PROVE  /\ workerJob[w] \in RunningJobs \cap PlainJob
         /\ RunningJobs' = RunningJobs \ {workerJob[w]}
         /\ retired' = retired \cup {workerJob[w]}
         /\ UNCHANGED <<scheduledJobs, doneJobs, accepted>>
         /\ Conservation'
<1> USE DEF queueVars, historyVars
<1> DEFINE j == workerJob[w]
<1>ty. TypeOK /\ WorkerPcIsFunction /\ JobsInHand
  BY DEF JobInv, CountInv, TypeOK, WorkerPcIsFunction
<1>1. Running' = Running \ {w} /\ w \in Running
  BY <1>ty, RunningLeave DEF FinishPlain
<1>2. RunningJobs' = RunningJobs \ {j} /\ j \in RunningJobs
  BY <1>1 DEF FinishPlain, RunningJobs, JobInv, Conservation
<1>3. /\ retired' = retired \cup {j}
      /\ UNCHANGED <<scheduledJobs, doneJobs, accepted, workerJob>>
  BY DEF FinishPlain
<1>4. j \in PlainJob
  BY <1>ty, <1>1 DEF FinishPlain, JobsInHand, Job
<1> HIDE DEF j
<1>5. \A u, v \in Running' : workerJob'[u] = workerJob'[v] => u = v
  BY <1>1, <1>3 DEF JobInv, Conservation
<1>6. Conservation'
  BY <1>2, <1>3, <1>5 DEF JobInv, Conservation
<1>7. QED BY <1>2, <1>3, <1>4, <1>6 DEF j

LEMMA JobInvWorker ==
  ASSUME JobInv, NEW w \in Worker, WorkerStep(w)
  PROVE  Conservation' /\ ArgsFresh'
<1> USE DEF queueVars, cvVars, workerVars, clientVars, historyVars
<1>pc. TypeOK /\ WorkerPcIsFunction
  BY DEF JobInv, CountInv, TypeOK, WorkerPcIsFunction
<1>args. ArgsFresh'
  <2>1. UNCHANGED <<accepted, clientPc, clientJob>>
    BY DEF WorkerStep, WorkerSleep, WorkerExit, WorkerTake, FinishSync, FinishPlain,
       WorkerNotifyFinish, WorkerNotifyPoped
  <2>2. QED BY <2>1, ArgsKept
<1>1. CASE WorkerSleep(w)
  <2>1. Running' = Running
    BY <1>1 DEF WorkerSleep, Running
  <2>2. QED BY <1>1, <1>args, <2>1, PlacesKept DEF WorkerSleep
<1>2. CASE WorkerExit(w)
  <2>1. Running' = Running
    BY <1>2, <1>pc, RunningSame DEF WorkerExit, AtAddTaskWait
  <2>2. QED BY <1>2, <1>args, <2>1, PlacesKept DEF WorkerExit
<1>3. CASE WorkerTake(w)
  BY <1>3, <1>args, TakeMoves
<1>4. CASE FinishSync(w)
  BY <1>4, <1>args, FinishSyncMoves
<1>5. CASE FinishPlain(w)
  BY <1>5, <1>args, FinishPlainMoves
<1>6. CASE WorkerNotifyFinish(w)
  <2>1. Running' = Running /\ w \notin Running
    BY <1>6, <1>pc DEF WorkerNotifyFinish, Running, WorkerPcIsFunction
  <2>2. \A v \in Running : workerJob'[v] = workerJob[v]
    BY <1>6, <1>pc, <2>1 DEF WorkerNotifyFinish, TypeOK, Running
  <2>3. QED BY <1>6, <2>1, <2>2, <1>args, PlacesKept DEF WorkerNotifyFinish
<1>7. CASE WorkerNotifyPoped(w)
  <2>1. Running' = Running
    BY <1>7, <1>pc, RunningSame DEF WorkerNotifyPoped
  <2>2. QED BY <1>7, <2>1, <1>args, PlacesKept DEF WorkerNotifyPoped
<1>8. QED
  BY <1>1, <1>2, <1>3, <1>4, <1>5, <1>6, <1>7 DEF WorkerStep

(* A fresh job enters the queue.                                           *)
LEMMA EnqueuePlaces ==
  ASSUME JobInv, NEW job \in Job, Enqueue(job), job \notin accepted,
         numberOfTasks < MAX_QUEUE_SIZE,
         UNCHANGED <<doneJobs, numberOfRunningTasks, workerPc, workerJob, retired>>
  PROVE  /\ Conservation' /\ accepted' = accepted \cup {job}
         /\ job \notin Range(scheduledJobs) \cup RunningJobs \cup Range(doneJobs) \cup retired
         /\ scheduledJobs' = Append(scheduledJobs, job)
         /\ RunningJobs' = RunningJobs
<1>1. CountInv /\ TypeOK
  BY DEF JobInv, CountInv
<1>2. scheduledJobs' = Append(scheduledJobs, job) /\ Running' = Running
  BY <1>1, EnqueueCounts DEF workerVars
<1>3. job \notin Range(scheduledJobs) \cup RunningJobs \cup Range(doneJobs) \cup retired
  BY DEF JobInv, Conservation
<1>4. /\ Range(scheduledJobs') = Range(scheduledJobs) \cup {job}
      /\ IsInjective(scheduledJobs')
  BY <1>1, <1>2, <1>3, RangeOfAppend DEF TypeOK, JobInv, Conservation
<1>5. RunningJobs' = RunningJobs
  BY <1>2 DEF RunningJobs
<1>6. accepted' = accepted \cup {job}
  BY DEF Enqueue
<1>7. \A u, v \in Running' : workerJob'[u] = workerJob'[v] => u = v
  BY <1>2 DEF JobInv, Conservation
<1>8. Conservation'
  BY <1>3, <1>4, <1>5, <1>6, <1>7 DEF JobInv, Conservation
<1>9. QED BY <1>2, <1>3, <1>5, <1>6, <1>8

(* A done job is handed back.                                              *)
LEMMA TakeDonePlaces ==
  ASSUME JobInv, NEW c \in Client, TakeDone(c), doneJobs # <<>>
  PROVE  Conservation' /\ ArgsFresh' /\ RunningJobs' = RunningJobs
<1> DEFINE j == Head(doneJobs)
<1>1. CountInv /\ TypeOK
  BY DEF JobInv, CountInv
<1>2. /\ j \in Range(doneJobs)
      /\ Range(doneJobs') = Range(doneJobs) \ {j}
      /\ IsInjective(doneJobs')
  BY <1>1, RangeOfTail DEF TakeDone, TypeOK, JobInv, Conservation
<1>3. /\ retired' = retired \cup {j}
      /\ UNCHANGED <<scheduledJobs, accepted, workerPc, workerJob, clientJob>>
  BY DEF TakeDone, workerVars
<1> HIDE DEF j
<1>4. RunningJobs' = RunningJobs /\ Running' = Running
  BY <1>3 DEF RunningJobs, Running
<1>5. \A u, v \in Running' : workerJob'[u] = workerJob'[v] => u = v
  BY <1>3, <1>4 DEF JobInv, Conservation
<1>6. Conservation'
  BY <1>2, <1>3, <1>4, <1>5 DEF JobInv, Conservation
<1>7. \A d \in Client : clientPc'[d] = "schedule" => clientPc[d] = "schedule"
  BY <1>1 DEF TakeDone, Goto, TypeOK
<1>8. ArgsFresh'
  BY <1>3, <1>7, ArgsKept
<1>9. QED BY <1>4, <1>6, <1>8

LEMMA JobInvClient ==
  ASSUME JobInv, NEW c \in Client, ClientStep(c)
  PROVE  Conservation' /\ ArgsFresh'
<1> USE DEF queueVars, cvVars, workerVars, clientVars, historyVars
<1>ty. TypeOK /\ JobsInHand /\ CountInv
  BY DEF JobInv, CountInv
<1>1. CASE ScheduleSleep(c)
  <2>1. Conservation'
    BY <1>1, PlacesKept DEF ScheduleSleep, Running
  <2>2. ArgsFresh'
    BY <1>1, <1>ty, ArgsKept DEF ScheduleSleep, TypeOK
  <2>3. QED BY <2>1, <2>2
<1>2. CASE ScheduleStopped(c)
  <2>1. Conservation'
    BY <1>2, PlacesKept DEF ScheduleStopped, Running
  <2>2. ArgsFresh'
    BY <1>2, <1>ty, ArgsKept DEF ScheduleStopped, Goto, TypeOK
  <2>3. QED BY <2>1, <2>2
<1>3. CASE NotifyAdd(c)
  <2>1. Conservation'
    BY <1>3, PlacesKept DEF NotifyAdd, Running
  <2>2. ArgsFresh'
    BY <1>3, <1>ty, ArgsKept DEF NotifyAdd, Goto, TypeOK
  <2>3. QED BY <2>1, <2>2
<1>4. CASE GetDoneSleep(c)
  <2>1. Conservation'
    BY <1>4, PlacesKept DEF GetDoneSleep, Running
  <2>2. ArgsFresh'
    BY <1>4, <1>ty, ArgsKept DEF GetDoneSleep, TypeOK
  <2>3. QED BY <2>1, <2>2
<1>5. CASE GetDoneStopped(c)
  <2>1. Conservation'
    BY <1>5, PlacesKept DEF GetDoneStopped, Running
  <2>2. ArgsFresh'
    BY <1>5, <1>ty, ArgsKept DEF GetDoneStopped, Goto, TypeOK
  <2>3. QED BY <2>1, <2>2
<1>6. CASE NotifyPoped(c)
  <2>1. Conservation'
    BY <1>6, PlacesKept DEF NotifyPoped, Running
  <2>2. ArgsFresh'
    BY <1>6, <1>ty, ArgsKept DEF NotifyPoped, Goto, TypeOK
  <2>3. QED BY <2>1, <2>2
<1>7. CASE WaitAllSleep(c)
  <2>1. Conservation'
    BY <1>7, PlacesKept DEF WaitAllSleep, Running
  <2>2. ArgsFresh'
    BY <1>7, <1>ty, ArgsKept DEF WaitAllSleep, TypeOK
  <2>3. QED BY <2>1, <2>2
<1>8. CASE WaitAllReturn(c)
  <2>1. Conservation'
    BY <1>8, PlacesKept DEF WaitAllReturn, Running
  <2>2. ArgsFresh'
    BY <1>8, <1>ty, ArgsKept DEF WaitAllReturn, Goto, TypeOK
  <2>3. QED BY <2>1, <2>2
<1>9. CASE NotifyShutdown(c)
  <2>1. Conservation'
    BY <1>9, PlacesKept DEF NotifyShutdown, Running
  <2>2. ArgsFresh'
    BY <1>9, <1>ty, ArgsKept DEF NotifyShutdown, Goto, TypeOK
  <2>3. QED BY <2>1, <2>2
<1>10. CASE Joined(c)
  <2>1. Conservation'
    BY <1>10, PlacesKept DEF Joined, Running
  <2>2. ArgsFresh'
    BY <1>10, <1>ty, ArgsKept DEF Joined, Goto, TypeOK
  <2>3. QED BY <2>1, <2>2
<1>11. CASE GetDoneTake(c)
  BY <1>11, TakeDonePlaces DEF GetDoneTake
<1>12. CASE ScheduleAccept(c)
  <2> DEFINE j == clientJob[c]
  <2>1. j \in Job /\ j \notin accepted
    BY <1>12, <1>ty DEF ScheduleAccept, AtSchedule, JobsInHand, JobInv, ArgsFresh
  <2>2. Conservation' /\ accepted' = accepted \cup {j}
    BY <1>12, <2>1, EnqueuePlaces DEF ScheduleAccept, HasPlace
  <2>3. \A d \in Client : clientPc'[d] = "schedule" =>
          d # c /\ clientPc[d] = "schedule" /\ clientJob'[d] = clientJob[d]
    BY <1>12, <1>ty DEF ScheduleAccept, Goto, TypeOK
  <2>4. clientPc[c] = "schedule"
    BY <1>12 DEF ScheduleAccept, AtSchedule
  <2>5. ArgsFresh'
    BY <2>2, <2>3, <2>4 DEF JobInv, ArgsFresh
  <2>6. QED BY <2>2, <2>5
<1>13. QED
  BY <1>1, <1>2, <1>3, <1>4, <1>5, <1>6, <1>7, <1>8, <1>9, <1>10, <1>11, <1>12 DEF ClientStep

LEMMA JobInvScheduleCall ==
  ASSUME JobInv, NEW c \in Client, NEW job \in FreshJob,
         TryScheduleTask(c, job) \/ CallScheduleTask(c, job)
  PROVE  Conservation' /\ ArgsFresh'
<1> USE DEF queueVars, cvVars, workerVars, clientVars, historyVars
<1>ty. TypeOK /\ CountInv
  BY DEF JobInv, CountInv
<1>fresh. /\ job \in Job /\ job \notin accepted
          /\ \A d \in Client : clientJob[d] # job
  BY DEF FreshJob
<1>1. CASE TryScheduleTask(c, job)
  <2>1. Conservation' /\ accepted' = accepted \cup {job}
    BY <1>1, <1>fresh, EnqueuePlaces DEF TryScheduleTask
  <2>2. \A d \in Client : clientPc'[d] = "schedule" => clientPc[d] = "schedule"
    BY <1>1, <1>ty DEF TryScheduleTask, Goto, TypeOK
  <2>3. clientJob' = clientJob
    BY <1>1 DEF TryScheduleTask
  <2>4. ArgsFresh'
    BY <1>fresh, <2>1, <2>2, <2>3 DEF JobInv, ArgsFresh
  <2>5. QED BY <2>1, <2>4
<1>2. CASE CallScheduleTask(c, job)
  <2>1. Conservation'
    BY <1>2, PlacesKept DEF CallScheduleTask, Running
  <2>2. /\ clientJob'[c] = job /\ accepted' = accepted
        /\ \A d \in Client \ {c} :
             clientPc'[d] = clientPc[d] /\ clientJob'[d] = clientJob[d]
    BY <1>2, <1>ty DEF CallScheduleTask, Goto, TypeOK
  <2>3. ArgsFresh'
    BY <1>fresh, <2>2 DEF JobInv, ArgsFresh
  <2>4. QED BY <2>1, <2>3
<1>3. QED BY <1>1, <1>2

LEMMA JobInvStutter ==
  ASSUME JobInv, UNCHANGED vars
  PROVE  Conservation' /\ ArgsFresh'
<1>1. UNCHANGED <<scheduledJobs, doneJobs, accepted, retired, workerPc, workerJob,
                  clientPc, clientJob>>
  BY DEF vars, queueVars, historyVars, workerVars, clientVars
<1>2. QED BY <1>1, PlacesKept, ArgsKept DEF Running

LEMMA JobInvCall ==
  ASSUME JobInv, NEW c \in Client, ClientCall(c)
  PROVE  Conservation' /\ ArgsFresh'
<1> USE DEF queueVars, cvVars, workerVars, clientVars, historyVars
<1>ty. TypeOK
  BY DEF JobInv, CountInv
<1>1. CASE \E job \in FreshJob : TryScheduleTask(c, job) \/ CallScheduleTask(c, job)
  BY <1>1, JobInvScheduleCall
<1>2. CASE TryScheduleRefused(c) \/ TryGetNothing(c)
  BY <1>2, JobInvStutter DEF TryScheduleRefused, TryGetNothing
<1>3. CASE TryGetNextDoneTask(c)
  BY <1>3, TakeDonePlaces DEF TryGetNextDoneTask
<1>4. CASE \/ CallGetNextDoneTask(c) \/ Shutdown(c) \/ Destroy(c)
           \/ \E flag \in BOOLEAN : CallWaitForAllTasks(c, flag)
  <2>1. /\ UNCHANGED <<scheduledJobs, doneJobs, accepted, retired, workerPc, workerJob,
                       clientJob>>
        /\ \A d \in Client : clientPc'[d] = "schedule" => clientPc[d] = "schedule"
    BY <1>4, <1>ty
    DEF CallGetNextDoneTask, CallWaitForAllTasks, Shutdown, Destroy, Goto, TypeOK
  <2>2. QED BY <2>1, PlacesKept, ArgsKept DEF Running
<1>5. QED BY <1>1, <1>2, <1>3, <1>4 DEF ClientCall

LEMMA JobInvNext ==
  ASSUME JobInv, [Next]_vars
  PROVE  JobInv'
<1>1. CountInv'
  BY CountInvNext DEF JobInv
<1>2. CASE \E c \in Client : RaiseStopFlag(c)
  BY <1>1, <1>2, PlacesKept, ArgsKept
  DEF RaiseStopFlag, queueVars, historyVars, workerVars, Running, JobInv
<1>3. CASE \E t \in Worker \cup Client : SpuriousWakeup(t)
  BY <1>1, <1>3, PlacesKept, ArgsKept
  DEF SpuriousWakeup, queueVars, historyVars, workerVars, clientVars, Running, JobInv
<1>4. CASE \E w \in Worker : WorkerStep(w)
  BY <1>1, <1>4, JobInvWorker DEF JobInv
<1>5. CASE \E c \in Client : ClientStep(c) \/ ClientCall(c)
  BY <1>1, <1>5, JobInvClient, JobInvCall DEF JobInv
<1>6. CASE UNCHANGED vars
  BY <1>1, <1>6, JobInvStutter DEF JobInv
<1>7. QED BY <1>2, <1>3, <1>4, <1>5, <1>6 DEF Next

LEMMA JobInvariant == Spec => []JobInv
BY JobInvInit, JobInvNext, PTL DEF Spec

(* Every accepted job is in exactly one place, in every reachable state.   *)
THEOREM PoolConservation == Spec => []Conservation
<1>1. JobInv => Conservation
  BY DEF JobInv
<1>2. QED BY <1>1, JobInvariant, PTL

(* When waitForAllTasks() returns although its stop flag is down, every    *)
(* accepted job has run.                                                   *)
THEOREM PoolWaitForAll == Spec => WaitForAllMeansAllRan
<1> DEFINE A == \A c \in Client :
                  WaitAllReturn(c) /\ ~stopFlag[c] => accepted = Range(doneJobs) \cup retired
<1>1. JobInv => A
  <2> SUFFICES ASSUME JobInv, NEW c \in Client, WaitAllReturn(c), ~stopFlag[c]
               PROVE  accepted = Range(doneJobs) \cup retired
    OBVIOUS
  <2>1. numberOfRunningTasks = 0 /\ scheduledJobs = <<>>
    BY DEF WaitAllReturn, AllTasksRan
  <2>2. Running = {}
    BY <2>1, RunningFinite, FS_EmptySet DEF JobInv, CountInv, Accounting
  <2>3. RunningJobs = {} /\ Range(scheduledJobs) = {}
    BY <2>1, <2>2, RangeOfEmpty DEF RunningJobs
  <2>4. QED BY <2>3 DEF JobInv, Conservation
<1>2. Spec => [][A]_vars
  BY <1>1, JobInvariant, PTL
<1>3. QED BY <1>2 DEF WaitForAllMeansAllRan

--------------------------------------------------------------------------------
(* ThreadPool implements JobPool.  Five of its actions move a job and each *)
(* is the action of JobPool of the same meaning; every other action,       *)
(* notifications, sleeps and stops included, is a stutter.                 *)

poolVars == <<scheduledJobs, RunningJobs, doneJobs, retired>>

(* Distinct workers run distinct jobs, so counting jobs or workers is the  *)
(* same; only one direction is needed.                                     *)
LEMMA RunningJobsBounded ==
  IsFiniteSet(RunningJobs) /\ Cardinality(RunningJobs) <= Cardinality(Running)
<1> DEFINE f == [w \in Running |-> workerJob[w]]
<1>1. f \in Surjection(Running, RunningJobs)
  BY DEF Surjection, RunningJobs
<1>2. QED BY <1>1, RunningFinite, FS_Surjection

(* A job that the pool accepts is a Submit of JobPool.                     *)
LEMMA EnqueueSubmits ==
  ASSUME JobInv, NEW job \in Job, Enqueue(job), job \notin accepted,
         numberOfTasks < MAX_QUEUE_SIZE,
         UNCHANGED <<doneJobs, numberOfRunningTasks, workerPc, workerJob, retired>>
  PROVE  Pool!Submit(job)
<1>1. /\ job \notin Range(scheduledJobs) \cup RunningJobs \cup Range(doneJobs) \cup retired
      /\ scheduledJobs' = Append(scheduledJobs, job)
      /\ RunningJobs' = RunningJobs
  BY EnqueuePlaces
<1>2. /\ Len(scheduledJobs) \in Nat /\ Len(doneJobs) \in Nat
      /\ numberOfTasks = Len(scheduledJobs) + Cardinality(Running) + Len(doneJobs)
  BY LenProperties DEF JobInv, CountInv, TypeOK, Accounting
<1>3. Cardinality(RunningJobs) \in Nat /\ Cardinality(RunningJobs) <= Cardinality(Running)
  BY RunningJobsBounded, FS_CardinalityType
<1>4. Len(scheduledJobs) + Cardinality(RunningJobs) + Len(doneJobs) < MAX_QUEUE_SIZE
  BY <1>2, <1>3, RunningFinite, PoolAssumption
<1>5. Pool!Cardinality(RunningJobs) = Cardinality(RunningJobs)
  BY DEF Pool!Cardinality, Cardinality
<1>6. QED BY <1>1, <1>4, <1>5 DEF Pool!Submit, Pool!Held, Pool!Range, Range

LEMMA WorkerRefines ==
  ASSUME JobInv, NEW w \in Worker, WorkerStep(w)
  PROVE  Pool!Next \/ UNCHANGED poolVars
<1> USE DEF queueVars, cvVars, workerVars, historyVars, poolVars
<1>ty. TypeOK /\ WorkerPcIsFunction
  BY DEF JobInv, CountInv, TypeOK, WorkerPcIsFunction
<1>1. CASE WorkerTake(w)
  <2>1. Pool!Start
    BY <1>1, TakeMoves DEF Pool!Start
  <2>2. QED BY <2>1 DEF Pool!Next
<1>2. CASE FinishSync(w)
  <2>1. Pool!Complete(workerJob[w]) /\ workerJob[w] \in SyncJob
    BY <1>2, FinishSyncMoves DEF Pool!Complete
  <2>2. QED BY <2>1 DEF Pool!Next
<1>3. CASE FinishPlain(w)
  <2>1. Pool!Discard(workerJob[w]) /\ workerJob[w] \in PlainJob
    BY <1>3, FinishPlainMoves DEF Pool!Discard
  <2>2. QED BY <2>1 DEF Pool!Next
<1>4. CASE WorkerSleep(w)
  BY <1>4 DEF WorkerSleep, RunningJobs, Running
<1>5. CASE WorkerExit(w)
  <2>1. Running' = Running
    BY <1>5, <1>ty, RunningSame DEF WorkerExit, AtAddTaskWait
  <2>2. QED BY <1>5, <2>1 DEF WorkerExit, RunningJobs
<1>6. CASE WorkerNotifyFinish(w)
  <2>1. Running' = Running /\ w \notin Running
    BY <1>6, <1>ty DEF WorkerNotifyFinish, Running, WorkerPcIsFunction
  <2>2. \A v \in Running : workerJob'[v] = workerJob[v]
    BY <1>6, <1>ty, <2>1 DEF WorkerNotifyFinish, TypeOK, Running
  <2>3. RunningJobs' = RunningJobs
    BY <2>1, <2>2 DEF RunningJobs
  <2>4. QED BY <1>6, <2>3 DEF WorkerNotifyFinish
<1>7. CASE WorkerNotifyPoped(w)
  <2>1. Running' = Running
    BY <1>7, <1>ty, RunningSame DEF WorkerNotifyPoped
  <2>2. QED BY <1>7, <2>1 DEF WorkerNotifyPoped, RunningJobs
<1>8. QED
  BY <1>1, <1>2, <1>3, <1>4, <1>5, <1>6, <1>7 DEF WorkerStep

LEMMA TakeDoneCollects ==
  ASSUME JobInv, NEW c \in Client, TakeDone(c), doneJobs # <<>>
  PROVE  Pool!Next
<1>1. RunningJobs' = RunningJobs
  BY TakeDonePlaces
<1>2. Pool!Collect
  BY <1>1 DEF TakeDone, Pool!Collect
<1>3. QED BY <1>2 DEF Pool!Next

LEMMA ClientRefines ==
  ASSUME JobInv, NEW c \in Client, ClientStep(c) \/ ClientCall(c) \/ RaiseStopFlag(c)
  PROVE  Pool!Next \/ UNCHANGED poolVars
<1> USE DEF queueVars, workerVars, clientVars, historyVars
<1>1. CASE ScheduleAccept(c)
  <2>1. clientJob[c] \in Job /\ clientJob[c] \notin accepted
    BY <1>1 DEF ScheduleAccept, AtSchedule, JobInv, CountInv, JobsInHand, ArgsFresh
  <2>2. Pool!Submit(clientJob[c])
    BY <1>1, <2>1, EnqueueSubmits DEF ScheduleAccept, HasPlace
  <2>3. QED BY <2>1, <2>2 DEF Pool!Next, Job
<1>2. CASE \E job \in FreshJob : TryScheduleTask(c, job)
  <2>1. PICK job \in FreshJob : TryScheduleTask(c, job)
    BY <1>2
  <2>2. job \in Job /\ job \notin accepted
    BY DEF FreshJob
  <2>3. Pool!Submit(job)
    BY <2>1, <2>2, EnqueueSubmits DEF TryScheduleTask
  <2>4. QED BY <2>2, <2>3 DEF Pool!Next, Job
<1>3. CASE GetDoneTake(c) \/ TryGetNextDoneTask(c)
  BY <1>3, TakeDoneCollects DEF GetDoneTake, TryGetNextDoneTask
<1>4. CASE \/ TryScheduleRefused(c) \/ TryGetNothing(c)
  <2>1. UNCHANGED <<queueVars, workerVars, historyVars>>
    BY <1>4 DEF TryScheduleRefused, TryGetNothing, vars
  <2>2. QED BY <2>1 DEF poolVars, RunningJobs, Running
<1>5. CASE \/ ScheduleSleep(c) \/ ScheduleStopped(c) \/ NotifyAdd(c) \/ GetDoneSleep(c)
           \/ GetDoneStopped(c) \/ NotifyPoped(c) \/ WaitAllSleep(c) \/ WaitAllReturn(c)
           \/ NotifyShutdown(c) \/ Joined(c)
  <2>1. UNCHANGED <<queueVars, workerVars, historyVars>>
    BY <1>5 DEF ScheduleSleep, ScheduleStopped, NotifyAdd, GetDoneSleep, GetDoneStopped,
       NotifyPoped, WaitAllSleep, WaitAllReturn, NotifyShutdown, Joined
  <2>2. QED BY <2>1 DEF poolVars, RunningJobs, Running
<1>6. CASE \/ \E job \in FreshJob : CallScheduleTask(c, job)
           \/ CallGetNextDoneTask(c) \/ \E flag \in BOOLEAN : CallWaitForAllTasks(c, flag)
           \/ Shutdown(c) \/ Destroy(c) \/ RaiseStopFlag(c)
  <2>1. UNCHANGED <<queueVars, workerVars, historyVars>>
    BY <1>6 DEF CallScheduleTask, CallGetNextDoneTask, CallWaitForAllTasks, Shutdown,
       Destroy, RaiseStopFlag
  <2>2. QED BY <2>1 DEF poolVars, RunningJobs, Running
<1>7. QED
  BY <1>1, <1>2, <1>3, <1>4, <1>5, <1>6 DEF ClientStep, ClientCall

(* The pool implements JobPool: capacity, start order, one run and one     *)
(* delivery per job, whatever the threads do.                              *)
THEOREM PoolImplementsJobPool == Spec => PoolIsJobPool
<1>1. Init => Pool!Init
  BY DEF Init, Pool!Init, RunningJobs, Running
<1>2. JobInv /\ [Next]_vars => [Pool!Next]_poolVars
  <2> SUFFICES ASSUME JobInv, [Next]_vars PROVE Pool!Next \/ UNCHANGED poolVars
    OBVIOUS
  <2>1. CASE \E w \in Worker : WorkerStep(w)
    BY <2>1, WorkerRefines
  <2>2. CASE \E c \in Client : ClientStep(c) \/ ClientCall(c) \/ RaiseStopFlag(c)
    BY <2>2, ClientRefines
  <2>3. CASE \/ \E t \in Worker \cup Client : SpuriousWakeup(t)
             \/ UNCHANGED vars
    <3>1. UNCHANGED <<queueVars, workerVars, historyVars>>
      BY <2>3 DEF SpuriousWakeup, vars
    <3>2. QED
      BY <3>1 DEF poolVars, queueVars, workerVars, historyVars, RunningJobs, Running
  <2>4. QED BY <2>1, <2>2, <2>3 DEF Next
<1>3. QED
  BY <1>1, <1>2, JobInvariant, PTL DEF Spec, PoolIsJobPool, Pool!Spec, Pool!vars, poolVars

================================================================================
