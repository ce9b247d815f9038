-------------------------------- MODULE Profiler -------------------------------
(***************************************************************************)
(* MultiThreadedCoreProfiler<QUEUE_SIZE> of                                *)
(* src/core/multithreaded_profiling.hpp: callers put finished jobs in a    *)
(* bounded queue, a logging thread writes them to the output.  Grain and   *)
(* wait sets are those of ThreadPool: a critical section is a step, a      *)
(* notification after the unlock is another one, and so is the unlocked    *)
(* read of m_stop at the head of the thread's loop.                        *)
(*                                                                         *)
(* logWave(), logRun() and logCustomDiff() write a line and touch no state *)
(* of the profiler; turnOn() and turnOff() set a flag nothing reads.       *)
(***************************************************************************)
EXTENDS Naturals, Sequences, FiniteSets, Functions

CONSTANTS
  Client,          (* threads that call the profiler                       *)
  Job,             (* the jobs they log                                    *)
  NoJob,           (* "no job"                                             *)
  QUEUE_SIZE       (* the template parameter                               *)

ASSUME ProfilerAssumption ==
  /\ IsFiniteSet(Client)
  /\ NoJob \notin Job
  /\ QUEUE_SIZE \in Nat \ {0}

VARIABLES
  tasksToLog,      (* m_tasksToLog                                         *)
  stop,            (* m_stop                                               *)
  loggerPc,        (* where the logging thread is in processQueue()        *)
  addTaskCv,       (* the logging thread sleeps on m_addTaskCv             *)
  popedTaskCv,     (* callers asleep on m_popedTaskCv                      *)
  clientPc,        (* the call each client is in                           *)
  clientJob,       (* the argument of its logJob()                         *)
  built,           (* the constructor has initialised every member         *)
  logged,          (* history: jobs accepted by logJob(), in order         *)
  written,         (* history: jobs in the output, in order                *)
  startedEarly     (* history: the thread read m_stop before its           *)
                   (* initialisation                                       *)

loggerVars == <<loggerPc, addTaskCv, startedEarly>>
clientVars == <<clientPc, clientJob>>
vars == <<tasksToLog, stop, loggerVars, popedTaskCv, clientVars, built, logged, written>>

Init ==
  /\ tasksToLog = <<>>
  /\ stop = FALSE
  /\ loggerPc = "test"
  /\ addTaskCv = FALSE
  /\ popedTaskCv = {}
  /\ clientPc = [c \in Client |-> "idle"]
  /\ clientJob = [c \in Client |-> NoJob]
  /\ built = FALSE
  /\ logged = <<>>
  /\ written = <<>>
  /\ startedEarly = FALSE

(* The constructor starts the thread (line 22) before it initialises the   *)
(* members declared after m_loggingThread (lines 97-102).                  *)
Construct ==
  /\ ~built
  /\ built' = TRUE
  /\ UNCHANGED <<tasksToLog, stop, loggerVars, popedTaskCv, clientVars, logged, written>>

--------------------------------------------------------------------------------
(* The logging thread, lines 78-93.                                        *)

(* while (!m_stop), read without the lock.                                 *)
TestStop ==
  /\ loggerPc = "test" /\ built
  /\ loggerPc' = IF stop THEN "exited" ELSE "wait"
  /\ UNCHANGED <<tasksToLog, stop, addTaskCv, popedTaskCv, clientVars, built, logged,
                 written, startedEarly>>

(* The same read before the constructor is done: m_stop has any value, and *)
(* the mutex that is locked next is unconstructed memory.  The thread      *)
(* leaves, is blocked for ever, or gets through by luck.                   *)
TestStopEarly ==
  /\ loggerPc = "test" /\ ~built
  /\ loggerPc' \in {"exited", "hung", "wait"}
  /\ startedEarly' = TRUE
  /\ UNCHANGED <<tasksToLog, stop, addTaskCv, popedTaskCv, clientVars, built, logged,
                 written>>

AtWait == loggerPc = "wait" /\ ~addTaskCv /\ built

LoggerSleep ==
  /\ AtWait
  /\ ~stop /\ tasksToLog = <<>>
  /\ addTaskCv' = TRUE
  /\ UNCHANGED <<tasksToLog, stop, loggerPc, popedTaskCv, clientVars, built, logged,
                 written, startedEarly>>

DrainNewestFirst ==
  /\ written' = written \o [i \in DOMAIN tasksToLog |-> tasksToLog[Len(tasksToLog) + 1 - i]]
  /\ tasksToLog' = <<>>

(* The inner loop writes every job that is queued, under the lock.         *)
Drain ==
  /\ written' = written \o tasksToLog
  /\ tasksToLog' = <<>>

LoggerDrain ==
  /\ AtWait
  /\ stop \/ tasksToLog # <<>>
  /\ Drain
  /\ loggerPc' = "notify"
  /\ UNCHANGED <<stop, addTaskCv, popedTaskCv, clientVars, built, logged, startedEarly>>

WakeOne(cv) == IF cv = {} THEN {{}} ELSE {cv \ {c} : c \in cv}

(* The wait sets that m_popedTaskCv.notify_all() leaves.                   *)
WakeAll(cv) == {{}}

LoggerNotify ==
  /\ loggerPc = "notify"
  /\ popedTaskCv' \in WakeAll(popedTaskCv)
  /\ loggerPc' = "test"
  /\ UNCHANGED <<tasksToLog, stop, addTaskCv, clientVars, built, logged, written,
                 startedEarly>>

LoggerStep == TestStop \/ TestStopEarly \/ LoggerSleep \/ LoggerDrain \/ LoggerNotify

--------------------------------------------------------------------------------
(* The public methods.                                                     *)

Goto(c, label) == clientPc' = [clientPc EXCEPT ![c] = label]

(* A call may start while the profiler exists.                             *)
Idle(c) ==
  /\ built
  /\ clientPc[c] = "idle"
  /\ \A d \in Client : clientPc[d] \notin {"destroy", "joining", "destroyed"}

(* logJob(), lines 45-59.                                                  *)
CallLogJob(c, job) ==
  /\ Idle(c)
  /\ job \notin Range(logged) \cup Range(clientJob)
  /\ Goto(c, "logJob")
  /\ clientJob' = [clientJob EXCEPT ![c] = job]
  /\ UNCHANGED <<tasksToLog, stop, loggerVars, popedTaskCv, built, logged, written>>

AtLogJob(c) == clientPc[c] = "logJob" /\ c \notin popedTaskCv

LogSleep(c) ==
  /\ AtLogJob(c)
  /\ Len(tasksToLog) = QUEUE_SIZE /\ ~stop
  /\ popedTaskCv' = popedTaskCv \cup {c}
  /\ UNCHANGED <<tasksToLog, stop, loggerVars, clientVars, built, logged, written>>

LogStopped(c) ==
  /\ AtLogJob(c)
  /\ stop
  /\ Goto(c, "idle")
  /\ clientJob' = [clientJob EXCEPT ![c] = NoJob]
  /\ UNCHANGED <<tasksToLog, stop, loggerVars, popedTaskCv, built, logged, written>>

LogPush(c) ==
  /\ AtLogJob(c)
  /\ Len(tasksToLog) # QUEUE_SIZE /\ ~stop
  /\ tasksToLog' = Append(tasksToLog, clientJob[c])
  /\ logged' = Append(logged, clientJob[c])
  /\ Goto(c, "notifyAdd")
  /\ clientJob' = [clientJob EXCEPT ![c] = NoJob]
  /\ UNCHANGED <<stop, loggerVars, popedTaskCv, built, written>>

WakeNobody(asleep) == asleep

(* m_addTaskCv.notify_one() or notify_all(): one thread waits there.       *)
WakeLogger(asleep) == FALSE

NotifyAdd(c) ==
  /\ clientPc[c] = "notifyAdd"
  /\ addTaskCv' = WakeLogger(addTaskCv)
  /\ Goto(c, "idle")
  /\ UNCHANGED <<tasksToLog, stop, loggerPc, startedEarly, popedTaskCv, clientJob, built,
                 logged, written>>

(* shutdown(), lines 37-43; ~MultiThreadedCoreProfiler(), lines 29-35,     *)
(* which runs while no other call is in progress.                          *)
Shutdown(c) ==
  /\ Idle(c)
  /\ stop' = TRUE
  /\ Goto(c, "shutdown")
  /\ UNCHANGED <<tasksToLog, loggerVars, popedTaskCv, clientJob, built, logged, written>>

Destroy(c) ==
  /\ built
  /\ \A d \in Client : clientPc[d] = "idle"
  /\ stop' = TRUE
  /\ Goto(c, "destroy")
  /\ UNCHANGED <<tasksToLog, loggerVars, popedTaskCv, clientJob, built, logged, written>>

NotifyShutdown(c) ==
  /\ clientPc[c] \in {"shutdown", "destroy"}
  /\ addTaskCv' = WakeLogger(addTaskCv)
  /\ Goto(c, IF clientPc[c] = "shutdown" THEN "idle" ELSE "joining")
  /\ UNCHANGED <<tasksToLog, stop, loggerPc, startedEarly, popedTaskCv, clientJob, built,
                 logged, written>>

Joined(c) ==
  /\ clientPc[c] = "joining"
  /\ loggerPc = "exited"
  /\ Goto(c, "destroyed")
  /\ UNCHANGED <<tasksToLog, stop, loggerVars, popedTaskCv, clientJob, built, logged,
                 written>>

ClientStep(c) ==
  \/ LogSleep(c) \/ LogStopped(c) \/ LogPush(c) \/ NotifyAdd(c)
  \/ NotifyShutdown(c) \/ Joined(c)

ClientCall(c) ==
  \/ \E job \in Job : CallLogJob(c, job)
  \/ Shutdown(c)
  \/ Destroy(c)

SpuriousWakeup ==
  /\ \/ addTaskCv /\ addTaskCv' = FALSE /\ UNCHANGED popedTaskCv
     \/ \E c \in popedTaskCv : popedTaskCv' = popedTaskCv \ {c} /\ UNCHANGED addTaskCv
  /\ UNCHANGED <<tasksToLog, stop, loggerPc, startedEarly, clientVars, built, logged,
                 written>>

Next ==
  \/ Construct
  \/ LoggerStep
  \/ \E c \in Client : ClientStep(c) \/ ClientCall(c)
  \/ SpuriousWakeup

Spec == Init /\ [][Next]_vars

(* The threads are scheduled and the mutex starves none of them.           *)
Fairness ==
  /\ WF_vars(Construct)
  /\ WF_vars(LoggerStep)
  /\ \A c \in Client : WF_vars(ClientStep(c))

FairSpec == Spec /\ Fairness

--------------------------------------------------------------------------------

(* Each job that logJob() accepted is written or still queued, once and in *)
(* the order of acceptance; so what a shutdown loses is the end of the     *)
(* log, at most QUEUE_SIZE jobs of it.                                     *)
LoggedInOrder ==
  /\ logged = written \o tasksToLog
  /\ IsInjective(logged)
  /\ Len(tasksToLog) <= QUEUE_SIZE

(* The logging thread never sleeps through what it waits for: while it     *)
(* sleeps the queue is empty and m_stop is down, or a caller is about to   *)
(* wake it.  A caller asleep in logJob() never sleeps through a free       *)
(* place: the queue is full, or the logging thread is about to notify.     *)
(* And as long as m_stop is down that thread is there to make a place.     *)
(* (m_stop, the other thing a caller waits for, is not notified to it: it  *)
(* may sleep through a shutdown(), and if the thread has left then, for    *)
(* ever.  LoggingGoesOn says whom a shutdown() reaches.)                   *)
NoLostLogWakeup ==
  /\ addTaskCv =>
       \/ tasksToLog = <<>> /\ ~stop
       \/ \E c \in Client : clientPc[c] \in {"notifyAdd", "shutdown", "destroy"}
  /\ popedTaskCv # {} => Len(tasksToLog) = QUEUE_SIZE \/ loggerPc = "notify"
  /\ loggerPc \in {"exited", "hung"} => stop \/ startedEarly

(* A job that logJob() accepted gets written, and logJob() returns, unless *)
(* the profiler is shut down (the loop is left without a last look at the  *)
(* queue), or the thread ran ahead of the constructor.  shutdown() does    *)
(* not notify m_popedTaskCv (line 42), but it reaches a caller of logJob() *)
(* by way of the logging thread, if that has gone past its test of m_stop: *)
(* then it drains and notifies once more.  (If it has not, it leaves, and  *)
(* a caller that sleeps on a queue filled since the last notification      *)
(* sleeps for ever.)                                                       *)
LoggingGoesOn ==
  /\ \A job \in Job :
       job \in Range(logged) ~> job \in Range(written) \/ stop \/ startedEarly
  /\ \A c \in Client :
       /\ clientPc[c] = "logJob" ~> clientPc[c] # "logJob" \/ stop \/ startedEarly
       /\ clientPc[c] = "logJob" /\ stop /\ loggerPc \in {"wait", "notify"}
            ~> clientPc[c] # "logJob"

(* The destructor returns, unless the thread hangs on the mutex that it    *)
(* locked before it was constructed.                                       *)
ProfilerIsDestroyed ==
  \A c \in Client : clientPc[c] = "destroy" ~> clientPc[c] = "destroyed" \/ loggerPc = "hung"

================================================================================
