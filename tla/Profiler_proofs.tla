---------------------------- MODULE Profiler_proofs ----------------------------
(***************************************************************************)
(* The log is complete and in order, and no wakeup of the logging thread   *)
(* or of its callers is lost, for any number of callers and jobs and any   *)
(* capacity of the queue.                                                  *)
(***************************************************************************)
EXTENDS Profiler, SequenceLemmas

CallPc == {"idle", "logJob", "notifyAdd", "shutdown", "destroy", "joining", "destroyed"}

LogTypeOK ==
  /\ tasksToLog \in Seq(Job) /\ written \in Seq(Job) /\ logged \in Seq(Job)
  /\ stop \in BOOLEAN /\ built \in BOOLEAN /\ addTaskCv \in BOOLEAN
  /\ startedEarly \in BOOLEAN
  /\ loggerPc \in {"test", "wait", "notify", "exited", "hung"}
  /\ popedTaskCv \subseteq Client
  /\ clientPc \in [Client -> CallPc]
  /\ clientJob \in [Client -> Job \cup {NoJob}]

(* The job of a logJob() in progress is not in the log yet, nor the        *)
(* argument of another call.                                               *)
LogArgsFresh ==
  \A c \in Client :
    /\ clientPc[c] = "logJob" => clientJob[c] \in Job
    /\ clientJob[c] # NoJob => /\ clientJob[c] \notin Range(logged)
                               /\ \A d \in Client : clientJob[d] = clientJob[c] => c = d

LogInv == LogTypeOK /\ LogArgsFresh /\ LoggedInOrder

LEMMA LogInvInit == Init => LogInv
<1> SUFFICES ASSUME Init PROVE LogInv
  OBVIOUS
<1>1. LogTypeOK
  <2>1. clientPc \in [Client -> CallPc] /\ clientJob \in [Client -> Job \cup {NoJob}]
    BY DEF Init, CallPc
  <2>2. tasksToLog \in Seq(Job) /\ written \in Seq(Job) /\ logged \in Seq(Job)
    BY EmptySeq DEF Init
  <2>3. QED BY <2>1, <2>2 DEF Init, LogTypeOK
<1>2. LogArgsFresh
  BY DEF Init, LogArgsFresh
<1>3. LoggedInOrder
  <2>1. <<>> \o <<>> = <<>> /\ Len(<<>>) = 0
    OBVIOUS
  <2>2. QED BY <2>1, RangeOfEmpty, ProfilerAssumption
              DEF Init, LoggedInOrder, ProfilerAssumption
<1>4. QED BY <1>1, <1>2, <1>3 DEF LogInv

(* logJob() puts its job at the end of the log.                            *)
LEMMA LogInvPush ==
  ASSUME LogInv, NEW c \in Client, LogPush(c)
  PROVE  LogInv'
<1> DEFINE j == clientJob[c]
<1>1. /\ tasksToLog \in Seq(Job) /\ written \in Seq(Job) /\ logged \in Seq(Job)
      /\ j \in Job /\ j \notin Range(logged) /\ j # NoJob /\ IsInjective(logged)
      /\ logged = written \o tasksToLog
      /\ Len(tasksToLog) \in Nat /\ Len(tasksToLog) < QUEUE_SIZE
  <2>1. j \in Job /\ j \notin Range(logged) /\ j # NoJob
    BY ProfilerAssumption
    DEF LogInv, LogArgsFresh, LogPush, AtLogJob, ProfilerAssumption
  <2>2. tasksToLog \in Seq(Job) /\ Len(tasksToLog) <= QUEUE_SIZE /\ Len(tasksToLog) # QUEUE_SIZE
    BY DEF LogInv, LogTypeOK, LoggedInOrder, LogPush
  <2>3. Len(tasksToLog) \in Nat /\ Len(tasksToLog) < QUEUE_SIZE
    BY <2>2, LenProperties, ProfilerAssumption DEF ProfilerAssumption
  <2>4. QED BY <2>1, <2>3 DEF LogInv, LogTypeOK, LoggedInOrder
<1>2. /\ tasksToLog' = Append(tasksToLog, j) /\ logged' = Append(logged, j)
      /\ clientPc' = [clientPc EXCEPT ![c] = "notifyAdd"]
      /\ clientJob' = [clientJob EXCEPT ![c] = NoJob]
      /\ UNCHANGED <<stop, loggerPc, addTaskCv, startedEarly, popedTaskCv, built, written>>
  BY DEF LogPush, Goto, loggerVars
<1> HIDE DEF j
<1>3. /\ tasksToLog' \in Seq(Job) /\ logged' \in Seq(Job)
      /\ Len(tasksToLog') = Len(tasksToLog) + 1
      /\ Range(logged') = Range(logged) \cup {j} /\ IsInjective(logged')
  BY <1>1, <1>2, AppendProperties, RangeOfAppend
<1>4. clientPc \in [Client -> CallPc] /\ clientJob \in [Client -> Job \cup {NoJob}]
  BY DEF LogInv, LogTypeOK
<1>5. LogTypeOK'
  <2>1. clientPc' \in [Client -> CallPc] /\ clientJob' \in [Client -> Job \cup {NoJob}]
    BY <1>2, <1>4 DEF CallPc
  <2>2. QED BY <1>2, <1>3, <2>1 DEF LogInv, LogTypeOK
<1>6. LogArgsFresh'
  <2>1. SUFFICES ASSUME NEW d \in Client
                 PROVE  /\ clientPc'[d] = "logJob" => clientJob'[d] \in Job
                        /\ clientJob'[d] # NoJob =>
                             /\ clientJob'[d] \notin Range(logged')
                             /\ \A e \in Client : clientJob'[e] = clientJob'[d] => d = e
    BY DEF LogArgsFresh
  <2>2. CASE d = c
    BY <1>2, <1>4, <2>2
  <2>3. CASE d # c
    <3>1. clientPc'[d] = clientPc[d] /\ clientJob'[d] = clientJob[d]
      BY <1>2, <1>4, <2>3
    <3>2. clientJob[d] # NoJob => clientJob[d] \notin Range(logged) /\ clientJob[d] # j
      BY <1>1, <2>3 DEF LogInv, LogArgsFresh, j
    <3>3. \A e \in Client : e # c => clientJob'[e] = clientJob[e]
      BY <1>2, <1>4
    <3>4. clientJob'[c] = NoJob
      BY <1>2, <1>4
    <3>5. QED BY <1>3, <3>1, <3>2, <3>3, <3>4 DEF LogInv, LogArgsFresh
  <2>4. QED BY <2>2, <2>3
<1>7. LoggedInOrder'
  <2>1. logged' = written \o tasksToLog'
    <3>1. <<j>> \in Seq(Job)
      BY <1>1
    <3>2. Append(tasksToLog, j) = tasksToLog \o <<j>> /\ Append(logged, j) = logged \o <<j>>
      BY <1>1, AppendIsConcat
    <3>3. QED BY <1>1, <1>2, <3>1, <3>2, ConcatAssociative
  <2>2. Len(tasksToLog') <= QUEUE_SIZE
    BY <1>1, <1>3, ProfilerAssumption DEF ProfilerAssumption
  <2>3. QED BY <1>2, <1>3, <2>1, <2>2 DEF LoggedInOrder
<1>8. QED BY <1>5, <1>6, <1>7 DEF LogInv

(* The logging thread writes the whole queue.                              *)
LEMMA LogInvDrain ==
  ASSUME LogInv, LoggerDrain
  PROVE  LogInv'
<1>1. /\ written' = written \o tasksToLog /\ tasksToLog' = <<>> /\ loggerPc' = "notify"
      /\ UNCHANGED <<stop, addTaskCv, popedTaskCv, clientPc, clientJob, built, logged,
                     startedEarly>>
  BY DEF LoggerDrain, Drain, clientVars
<1>2. /\ written \in Seq(Job) /\ tasksToLog \in Seq(Job) /\ logged \in Seq(Job)
      /\ logged = written \o tasksToLog
  BY DEF LogInv, LogTypeOK, LoggedInOrder
<1>3. written' \in Seq(Job) /\ written' = logged /\ tasksToLog' \in Seq(Job)
  BY <1>1, <1>2
<1>4. written' \o tasksToLog' = logged
  BY <1>1, <1>2, <1>3, ConcatEmptySeq
<1>5. Len(tasksToLog') <= QUEUE_SIZE
  BY <1>1, ProfilerAssumption DEF ProfilerAssumption
<1>6. LogTypeOK' /\ LogArgsFresh'
  BY <1>1, <1>3 DEF LogInv, LogTypeOK, LogArgsFresh
<1>7. LoggedInOrder'
  BY <1>1, <1>4, <1>5 DEF LogInv, LoggedInOrder
<1>8. QED BY <1>6, <1>7 DEF LogInv

(* A step that leaves the queue and the log alone.                         *)
LEMMA LogInvQueueKept ==
  ASSUME LogInv, UNCHANGED <<tasksToLog, logged, written>>, LogTypeOK',
         \/ UNCHANGED <<clientPc, clientJob>>
         \/ \E c \in Client, pc \in CallPc \ {"logJob"} :
              clientPc' = [clientPc EXCEPT ![c] = pc]
              /\ (clientJob' = clientJob \/ clientJob' = [clientJob EXCEPT ![c] = NoJob])
  PROVE  LogInv'
<1>1. LoggedInOrder'
  BY DEF LogInv, LoggedInOrder
<1>2. clientPc \in [Client -> CallPc] /\ clientJob \in [Client -> Job \cup {NoJob}]
  BY DEF LogInv, LogTypeOK
<1>3. LogArgsFresh'
  <2>1. CASE UNCHANGED <<clientPc, clientJob>>
    BY <2>1 DEF LogInv, LogArgsFresh
  <2>2. ASSUME NEW c \in Client, NEW pc \in CallPc \ {"logJob"},
               clientPc' = [clientPc EXCEPT ![c] = pc],
               clientJob' = clientJob \/ clientJob' = [clientJob EXCEPT ![c] = NoJob]
        PROVE  LogArgsFresh'
    <3>1. \A d \in Client : clientJob'[d] = clientJob[d] \/ (d = c /\ clientJob'[d] = NoJob)
      BY <1>2, <2>2
    <3>2. \A d \in Client : clientPc'[d] = "logJob" => d # c /\ clientPc[d] = "logJob"
      BY <1>2, <2>2
    <3>3. QED BY <2>2, <3>1, <3>2 DEF LogInv, LogArgsFresh
  <2>3. QED BY <2>1, <2>2
<1>4. QED BY <1>1, <1>3 DEF LogInv

LEMMA LogInvCall ==
  ASSUME LogInv, NEW c \in Client, NEW job \in Job, CallLogJob(c, job)
  PROVE  LogInv'
<1>1. /\ job \notin Range(logged) /\ job \notin Range(clientJob)
      /\ clientPc' = [clientPc EXCEPT ![c] = "logJob"]
      /\ clientJob' = [clientJob EXCEPT ![c] = job]
      /\ UNCHANGED <<tasksToLog, stop, loggerPc, addTaskCv, startedEarly, popedTaskCv, built,
                     logged, written>>
  BY DEF CallLogJob, Goto, loggerVars
<1>2. clientPc \in [Client -> CallPc] /\ clientJob \in [Client -> Job \cup {NoJob}]
  BY DEF LogInv, LogTypeOK
<1>3. clientPc' \in [Client -> CallPc] /\ clientJob' \in [Client -> Job \cup {NoJob}]
  BY <1>1, <1>2 DEF CallPc
<1>4. LogTypeOK' /\ LoggedInOrder'
  BY <1>1, <1>3 DEF LogInv, LogTypeOK, LoggedInOrder
<1>5. \A d \in Client : clientJob[d] # job
  BY <1>1, <1>2 DEF Range
<1>6. /\ clientPc'[c] = "logJob" /\ clientJob'[c] = job
      /\ \A d \in Client : d # c => clientPc'[d] = clientPc[d] /\ clientJob'[d] = clientJob[d]
  BY <1>1, <1>2
<1>7. LogArgsFresh'
  BY <1>1, <1>5, <1>6 DEF LogInv, LogArgsFresh
<1>8. QED BY <1>4, <1>7 DEF LogInv

LEMMA LogInvNext ==
  ASSUME LogInv, [Next]_vars
  PROVE  LogInv'
<1> USE DEF loggerVars, clientVars
<1>1. LogTypeOK
  BY DEF LogInv
<1>2. CASE Construct
  BY <1>1, <1>2, LogInvQueueKept DEF Construct, LogTypeOK
<1>3. CASE TestStop \/ TestStopEarly
  BY <1>1, <1>3, LogInvQueueKept DEF TestStop, TestStopEarly, LogTypeOK
<1>4. CASE LoggerSleep
  BY <1>1, <1>4, LogInvQueueKept DEF LoggerSleep, LogTypeOK
<1>5. CASE LoggerDrain
  BY <1>5, LogInvDrain
<1>6. CASE LoggerNotify
  <2>1. popedTaskCv' = {}
    BY <1>6 DEF LoggerNotify, WakeAll
  <2>2. QED BY <1>1, <1>6, <2>1, LogInvQueueKept DEF LoggerNotify, LogTypeOK
<1>7. CASE SpuriousWakeup
  BY <1>1, <1>7, LogInvQueueKept DEF SpuriousWakeup, LogTypeOK
<1>8. ASSUME NEW c \in Client, LogPush(c) PROVE LogInv'
  BY <1>8, LogInvPush
<1>9. ASSUME NEW c \in Client, NEW job \in Job, CallLogJob(c, job) PROVE LogInv'
  BY <1>9, LogInvCall
<1>10. ASSUME NEW c \in Client, LogSleep(c) PROVE LogInv'
  BY <1>1, <1>10, LogInvQueueKept DEF LogSleep, LogTypeOK
<1>11. ASSUME NEW c \in Client, LogStopped(c) PROVE LogInv'
  <2>1. /\ clientPc' = [clientPc EXCEPT ![c] = "idle"] /\ "idle" \in CallPc \ {"logJob"}
        /\ clientJob' = [clientJob EXCEPT ![c] = NoJob]
        /\ UNCHANGED <<tasksToLog, stop, loggerVars, popedTaskCv, built, logged, written>>
    BY <1>11 DEF LogStopped, Goto, CallPc
  <2>2. LogTypeOK'
    BY <1>1, <2>1 DEF LogTypeOK
  <2>3. QED BY <2>1, <2>2, LogInvQueueKept
<1>12. ASSUME NEW c \in Client,
              NotifyAdd(c) \/ Shutdown(c) \/ Destroy(c) \/ NotifyShutdown(c) \/ Joined(c)
       PROVE  LogInv'
  <2>1. PICK pc \in CallPc \ {"logJob"} : clientPc' = [clientPc EXCEPT ![c] = pc]
    BY <1>12 DEF NotifyAdd, Shutdown, Destroy, NotifyShutdown, Joined, Goto, CallPc
  <2>2. /\ UNCHANGED <<tasksToLog, logged, written, clientJob, loggerPc, startedEarly, built,
                       popedTaskCv>>
        /\ stop' \in {stop, TRUE} /\ addTaskCv' \in {addTaskCv, FALSE}
    BY <1>12 DEF NotifyAdd, Shutdown, Destroy, NotifyShutdown, Joined, WakeLogger
  <2>3. clientPc' \in [Client -> CallPc]
    BY <1>1, <2>1 DEF LogTypeOK
  <2>4. LogTypeOK'
    BY <1>1, <2>2, <2>3 DEF LogTypeOK
  <2>5. QED BY <2>1, <2>2, <2>4, LogInvQueueKept
<1>13. CASE UNCHANGED vars
  BY <1>1, <1>13, LogInvQueueKept DEF vars, LogTypeOK
<1>14. QED
  BY <1>2, <1>3, <1>4, <1>5, <1>6, <1>7, <1>8, <1>9, <1>10, <1>11, <1>12, <1>13
  DEF Next, LoggerStep, ClientStep, ClientCall

LEMMA LogInvariant == Spec => []LogInv
BY LogInvInit, LogInvNext, PTL DEF Spec

(* The output and the queue together are the log, in order and without a   *)
(* repetition, and the queue keeps its capacity, whatever the threads do.  *)
THEOREM LogIsInOrder == Spec => []LoggedInOrder
<1>1. LogInv => LoggedInOrder
  BY DEF LogInv
<1>2. QED BY <1>1, LogInvariant, PTL

--------------------------------------------------------------------------------
(* Wakeups.                                                                *)

Notifier == {"notifyAdd", "shutdown", "destroy"}

(* A change that could wake the logging thread leaves a notifier behind,   *)
(* and notifiers stay until they have woken it.                            *)
LEMMA LoggerWakeupKept ==
  ASSUME LogTypeOK, NoLostLogWakeup, NEW c \in Client, NEW pc \in CallPc,
         clientPc' = [clientPc EXCEPT ![c] = pc],
         UNCHANGED <<addTaskCv, popedTaskCv, loggerPc>>,
         pc \in Notifier \/ (clientPc[c] \notin Notifier /\ UNCHANGED <<tasksToLog, stop>>),
         UNCHANGED startedEarly, stop => stop',
         popedTaskCv # {} => tasksToLog' = tasksToLog \/ loggerPc = "notify"
  PROVE  NoLostLogWakeup'
<1>1. ASSUME addTaskCv', ~(tasksToLog' = <<>> /\ ~stop')
      PROVE  \E d \in Client : clientPc'[d] \in Notifier
  <2>1. CASE pc \in Notifier
    <3>1. clientPc'[c] = pc
      BY DEF LogTypeOK
    <3>2. QED BY <2>1, <3>1
  <2>2. CASE clientPc[c] \notin Notifier /\ UNCHANGED <<tasksToLog, stop>>
    <3>1. PICK d \in Client : clientPc[d] \in Notifier
      BY <1>1, <2>2 DEF NoLostLogWakeup, Notifier
    <3>2. clientPc'[d] = clientPc[d]
      BY <2>2, <3>1 DEF LogTypeOK
    <3>3. QED BY <3>1, <3>2
  <2>3. QED BY <2>1, <2>2
<1>2. /\ popedTaskCv' # {} => Len(tasksToLog') = QUEUE_SIZE \/ loggerPc' = "notify"
      /\ loggerPc' \in {"exited", "hung"} => stop' \/ startedEarly'
  BY DEF NoLostLogWakeup
<1>3. QED BY <1>1, <1>2 DEF NoLostLogWakeup, Notifier

WakeInv == LogInv /\ NoLostLogWakeup

LEMMA WakeInvNext ==
  ASSUME WakeInv, [Next]_vars
  PROVE  WakeInv'
<1> USE DEF loggerVars, clientVars
<1>1. LogInv' /\ LogTypeOK /\ NoLostLogWakeup
  BY LogInvNext DEF WakeInv, LogInv
<1> SUFFICES NoLostLogWakeup'
  BY <1>1 DEF WakeInv
<1>2. CASE Construct \/ TestStop \/ TestStopEarly \/ UNCHANGED vars
  BY <1>1, <1>2 DEF Construct, TestStop, TestStopEarly, vars, NoLostLogWakeup
<1>3. CASE LoggerSleep
  BY <1>1, <1>3 DEF LoggerSleep, AtWait, NoLostLogWakeup
<1>4. CASE LoggerDrain
  BY <1>1, <1>4 DEF LoggerDrain, AtWait, NoLostLogWakeup
<1>5. CASE LoggerNotify
  BY <1>1, <1>5 DEF LoggerNotify, WakeAll, NoLostLogWakeup
<1>6. CASE SpuriousWakeup
  BY <1>1, <1>6 DEF SpuriousWakeup, NoLostLogWakeup
<1>7. ASSUME NEW c \in Client, LogPush(c) PROVE NoLostLogWakeup'
  <2>1. popedTaskCv # {} => loggerPc = "notify"
    BY <1>1, <1>7 DEF LogPush, NoLostLogWakeup
  <2>2. /\ clientPc' = [clientPc EXCEPT ![c] = "notifyAdd"]
        /\ "notifyAdd" \in CallPc /\ "notifyAdd" \in Notifier
        /\ UNCHANGED <<addTaskCv, popedTaskCv, loggerPc, startedEarly, stop>>
    BY <1>7 DEF LogPush, Goto, CallPc, Notifier
  <2>3. QED BY <1>1, <2>1, <2>2, LoggerWakeupKept
<1>8. ASSUME NEW c \in Client, LogSleep(c) PROVE NoLostLogWakeup'
  BY <1>1, <1>8 DEF LogSleep, NoLostLogWakeup
<1>9. ASSUME NEW c \in Client,
             Shutdown(c) \/ Destroy(c) \/ LogStopped(c) \/ Joined(c)
             \/ \E job \in Job : CallLogJob(c, job)
      PROVE  NoLostLogWakeup'
  <2>1. PICK pc \in CallPc :
          /\ clientPc' = [clientPc EXCEPT ![c] = pc]
          /\ pc \in Notifier \/ (clientPc[c] \notin Notifier /\ UNCHANGED <<tasksToLog, stop>>)
    BY <1>9 DEF Shutdown, Destroy, LogStopped, Joined, CallLogJob, Idle, AtLogJob, Goto, CallPc,
                Notifier
  <2>2. /\ UNCHANGED <<addTaskCv, popedTaskCv, loggerPc, startedEarly, tasksToLog>>
        /\ stop => stop'
    BY <1>9 DEF Shutdown, Destroy, LogStopped, Joined, CallLogJob
  <2>3. QED BY <1>1, <2>1, <2>2, LoggerWakeupKept
<1>10. ASSUME NEW c \in Client, NotifyAdd(c) \/ NotifyShutdown(c) PROVE NoLostLogWakeup'
  BY <1>1, <1>10 DEF NotifyAdd, NotifyShutdown, WakeLogger, NoLostLogWakeup
<1>11. QED
  BY <1>1, <1>2, <1>3, <1>4, <1>5, <1>6, <1>7, <1>8, <1>9, <1>10
  DEF Next, LoggerStep, ClientStep, ClientCall

(* The logging thread loses no wakeup, and a caller of logJob() none that  *)
(* announces a free place, for any number of callers and any capacity; the *)
(* thread that makes places is there as long as nobody stops the profiler. *)
(* It does not say that a caller wakes up when the profiler is stopped: it *)
(* may not, and only TLC checks when it does (LoggingGoesOn).              *)
THEOREM LogWakeupsAreNotLost == Spec => []NoLostLogWakeup
<1>1. Init => WakeInv
  BY LogInvInit DEF Init, WakeInv, NoLostLogWakeup
<1>2. WakeInv => NoLostLogWakeup
  BY DEF WakeInv
<1>3. QED BY <1>1, <1>2, WakeInvNext, PTL DEF Spec

================================================================================
