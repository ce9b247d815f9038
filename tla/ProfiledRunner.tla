----------------------------- MODULE ProfiledRunner ----------------------------
(***************************************************************************)
(* ParallelCoreRunner<MultiThreadedCoreProfiler<QUEUE_SIZE>> compiled with *)
(* PROFILELOG, as in examples/profiling.cpp: ParallelRunner composed with  *)
(* Profiler.  The runner's thread, which alone collects done jobs, is also *)
(* the one that waits in logJob() for a place in the log's queue, so that  *)
(* three threads of control wait on each other through two monitors.       *)
(*                                                                         *)
(* logWave() and logRun() write a line and return; they are in LogLines.   *)
(***************************************************************************)
EXTENDS ParallelRunner

CONSTANT QUEUE_SIZE      (* of the profiler                                *)

VARIABLES                (* those of Profiler                              *)
  tasksToLog, logStop, loggerPc, loggerCv, placeCv, logPc, logJob, built, logged,
  written, startedEarly

Log == INSTANCE Profiler WITH
  Client <- {Runner}, Job <- SyncJob, stop <- logStop, addTaskCv <- loggerCv,
  popedTaskCv <- placeCv, clientPc <- logPc, clientJob <- logJob

logVars      == <<tasksToLog, logStop, loggerPc, loggerCv, placeCv, logPc, logJob, built,
                  logged, written, startedEarly>>
profiledVars == <<allVars, logVars>>

ProfiledInit == RunnerInit /\ Log!Init

(* The constructor of the runner, and thereby of the profiler, is done,    *)
(* and the runner's thread is not inside logJob().                         *)
LogIdle == built /\ logPc[Runner] = "idle"

SetDoneLogUnlessStopped ==
  SetDone /\ IF runStopFlag THEN UNCHANGED logVars ELSE Log!CallLogJob(Runner, doneJob)

(* Lines 62-71: the job is noted as done, then logJob() is called.         *)
SetDoneAndLog == SetDone /\ Log!CallLogJob(Runner, doneJob)

(* The profiler is a member of the runner, which outlives the pool.        *)
DestroyRunner ==
  /\ clientPc[Runner] = "destroyed"
  /\ Log!Destroy(Runner)
  /\ UNCHANGED allVars

ProfiledRunnerStep ==
  \/ LogIdle /\ ~(runnerPc = "setDone" /\ Returned) /\ RunnerStep /\ UNCHANGED logVars
  \/ LogIdle /\ SetDoneAndLog
  \/ Log!ClientStep(Runner) /\ UNCHANGED allVars
  \/ Log!Construct /\ UNCHANGED allVars
  \/ DestroyRunner

ProfiledNext ==
  \/ ProfiledRunnerStep
  \/ \E w \in Worker : NodeWorkerStep(w) /\ UNCHANGED logVars
  \/ Log!LoggerStep /\ UNCHANGED allVars
  \/ RaiseRunStopFlag /\ UNCHANGED logVars
  \/ \E t \in Worker \cup Client : SpuriousWakeup(t) /\ UNCHANGED <<runnerVars, logVars>>
  \/ Log!SpuriousWakeup /\ UNCHANGED allVars

(* The runner's thread, the workers and the logging thread keep running.   *)
ProfiledSpec ==
  /\ ProfiledInit /\ [][ProfiledNext]_profiledVars
  /\ WF_profiledVars(ProfiledRunnerStep)
  /\ \A w \in Worker : WF_profiledVars(NodeWorkerStep(w) /\ UNCHANGED logVars)
  /\ WF_profiledVars(Log!LoggerStep /\ UNCHANGED allVars)

--------------------------------------------------------------------------------

(* Profiling does not stop a program that would end without it: the run    *)
(* returns, pool and runner are destroyed, with the stop flag or without,  *)
(* and however small the queue of the log is.  The exception is a logging  *)
(* thread that ran ahead of the constructor and left, or hangs: then the   *)
(* runner waits for a place, or the destructor for the thread, for ever.   *)
ProfiledRunReturns == BufferFits => <>(logPc[Runner] = "destroyed" \/ startedEarly)

(* Each job the runner collected is given to the log before it collects    *)
(* the next one and before the run returns, whenever the stop flag rises:  *)
(* what the pool handed out is in the log, but for the job at hand.        *)
CollectedAreLogged == LogIdle => Range(logged) = retired \ {doneJob}

================================================================================
