----------------------------- MODULE ParallelRunner ----------------------------
(***************************************************************************)
(* ParallelCoreRunner of src/core/core_parallel.hpp running a NodeList of  *)
(* Nodes (src/dag/dag.hpp) on a ThreadPool.  This module adds the local    *)
(* variables of the runner and the flags of the nodes to ThreadPool, and   *)
(* its actions call the actions of the pool.  Here the runner is the only  *)
(* client and makes one call, runNodeListParallelNTimes(); RunnerSessions  *)
(* adds the other method, further calls and other clients.                 *)
(*                                                                         *)
(* A node is its place in the list (nodeIndex + 1), so _task and _id of a  *)
(* ThreadJob are the same number.  A job also carries the wave in which it *)
(* was scheduled, as a history: the code cannot see it.                    *)
(*                                                                         *)
(* Grain.  The flags of the nodes and the local variables are written by   *)
(* the runner only (m_ready also by an asserting worker), so the runner's  *)
(* code between two calls of the pool is one step per node scanned or job  *)
(* collected.  stopFlag only ever rises during a run, so consecutive reads *)
(* of it are one read.                                                     *)
(***************************************************************************)
EXTENDS ThreadPool

CONSTANTS
  Runner,          (* the thread that runs the node list                   *)
  NUM_OF_NODES,    (* nodes in the list                                    *)
  NumWaves         (* the argument n of runNodeListParallelNTimes()        *)

Node == 1 .. NUM_OF_NODES
Wave == 1 .. NumWaves

ASSUME RunnerAssumption ==
  /\ NUM_OF_NODES \in Nat \ {0}
  /\ NumWaves \in Nat \ {0}
  /\ Runner \in Client
  /\ SyncJob = Node \X Wave
  /\ PlainJob = {}

VARIABLES
  deps,               (* m_deps of every node                              *)
  mReady,             (* m_ready of every node                             *)
  mDone,              (* m_done of every node                              *)
  doneFlags,          (* local arrays of runNodeListParallelOnce()         *)
  scheduledFlags,
  nodeIndex,          (* the node the scan is at                           *)
  numberOfTasksDone,
  doneJob,            (* the Optional returned by tryGetNextDoneTask()     *)
  wave,               (* the current wave: iter + 1, m_waveNumber + 1      *)
  runStopFlag,        (* the atomic given to the runner                    *)
  runnerPc

nodeVars   == <<deps, mReady, mDone>>
localVars  == <<doneFlags, scheduledFlags, nodeIndex, numberOfTasksDone, doneJob>>
runnerVars == <<nodeVars, localVars, wave, runStopFlag, runnerPc>>
allVars    == <<vars, runnerVars>>

NoFlags == [n \in Node |-> FALSE]

(* The graphs that sortNodes() accepts: every set of nodes has one that    *)
(* does not depend on the others.                                          *)
AcyclicDeps ==
  {d \in [Node -> SUBSET Node] :
     \A S \in SUBSET Node \ {{}} : \E n \in S : d[n] \cap S = {}}

(* Nodes that were never run, a pool without jobs.                         *)
FreshStart ==
  /\ Init
  /\ deps \in AcyclicDeps
  /\ mReady = NoFlags
  /\ mDone = NoFlags
  /\ doneFlags = NoFlags
  /\ scheduledFlags = NoFlags
  /\ nodeIndex = 1
  /\ numberOfTasksDone = 0
  /\ doneJob = NoJob
  /\ runStopFlag \in BOOLEAN

RunnerInit == FreshStart /\ wave = 1 /\ runnerPc = "loop"

(* Definitions named for a defect are mutants, as in ThreadPool.           *)

(* Node::isReady(), dag.hpp:94-112: a cached true is returned as it is;    *)
(* otherwise the flag is computed from the dependencies and cached.        *)
IsReady(n) == deps[n] = {} \/ mReady[n] \/ \A d \in deps[n] : mDone[d]

CacheReady(n) ==
  mReady' = IF deps[n] = {} THEN mReady ELSE [mReady EXCEPT ![n] = IsReady(n)]

Returned == clientPc[Runner] = "idle"

WaveOpenOnceMore == numberOfTasksDone <= NUM_OF_NODES

(* while (!stopFlag && numberOfTasksDone < nodes.getNumberOfNodes())       *)
WaveOpen == numberOfTasksDone < NUM_OF_NODES

LoopTest ==
  /\ runnerPc = "loop"
  /\ runnerPc' = IF ~runStopFlag /\ WaveOpen THEN "scan" ELSE "waveEnd"
  /\ nodeIndex' = 1
  /\ UNCHANGED <<vars, nodeVars, doneFlags, scheduledFlags, numberOfTasksDone, doneJob,
                 wave, runStopFlag>>

(* The end of one round of the for loop, and of the loop (lines 49-56).    *)
Advance ==
  IF runStopFlag
  THEN runnerPc' = "waveEnd" /\ UNCHANGED nodeIndex
  ELSE IF nodeIndex < NUM_OF_NODES
       THEN runnerPc' = "scan" /\ nodeIndex' = nodeIndex + 1
       ELSE runnerPc' = "drain" /\ UNCHANGED nodeIndex

SchedulableUnready(n) == ~doneFlags[n] /\ ~scheduledFlags[n]

SchedulableAgain(n) == IsReady(n) /\ ~doneFlags[n]

Schedulable(n) == IsReady(n) /\ ~doneFlags[n] /\ ~scheduledFlags[n]

(* Call scheduleTask({node, nodeIndex, true}).                             *)
ScanSchedule ==
  /\ runnerPc = "scan"
  /\ Schedulable(nodeIndex)
  /\ CacheReady(nodeIndex)
  /\ CallScheduleTask(Runner, <<nodeIndex, wave>>)
  /\ runnerPc' = "schedule"
  /\ UNCHANGED <<deps, mDone, localVars, wave, runStopFlag>>

(* scheduleTask() has returned; its result is ignored.                     *)
Scheduled ==
  /\ runnerPc = "schedule" /\ Returned
  /\ scheduledFlags' = [scheduledFlags EXCEPT ![nodeIndex] = TRUE]
  /\ Advance
  /\ UNCHANGED <<vars, nodeVars, doneFlags, numberOfTasksDone, doneJob, wave, runStopFlag>>

ScanSkip ==
  /\ runnerPc = "scan"
  /\ ~Schedulable(nodeIndex)
  /\ CacheReady(nodeIndex)
  /\ Advance
  /\ UNCHANGED <<vars, deps, mDone, doneFlags, scheduledFlags, numberOfTasksDone,
                 doneJob, wave, runStopFlag>>

(* tryGetNextDoneTask() returned a job.                                    *)
Collect ==
  /\ runnerPc = "drain"
  /\ TryGetNextDoneTask(Runner)
  /\ doneJob' = Head(doneJobs)
  /\ runnerPc' = "setDone"
  /\ UNCHANGED <<nodeVars, doneFlags, scheduledFlags, nodeIndex, numberOfTasksDone,
                 wave, runStopFlag>>

CollectNothing ==
  /\ runnerPc = "drain"
  /\ TryGetNothing(Runner)
  /\ runnerPc' = "loop"
  /\ UNCHANGED <<nodeVars, localVars, wave, runStopFlag>>

SetDone ==
  /\ runnerPc = "setDone" /\ Returned
  /\ mDone' = [mDone EXCEPT ![doneJob[1]] = TRUE]
  /\ doneFlags' = [doneFlags EXCEPT ![doneJob[1]] = TRUE]
  /\ numberOfTasksDone' = numberOfTasksDone + 1
  /\ doneJob' = NoJob
  /\ runnerPc' = "drain"
  /\ UNCHANGED <<vars, deps, mReady, scheduledFlags, nodeIndex, wave, runStopFlag>>

(* Node::reset() of every node: m_ready only (dag.hpp:115).                *)
ResetNodes ==
  /\ mReady' = NoFlags
  /\ UNCHANGED <<deps, mDone>>

KeepCount ==
  /\ doneFlags' = NoFlags
  /\ scheduledFlags' = NoFlags
  /\ UNCHANGED numberOfTasksDone

(* The local variables of a new call of runNodeListParallelOnce().         *)
ResetLocals ==
  /\ doneFlags' = NoFlags
  /\ scheduledFlags' = NoFlags
  /\ numberOfTasksDone' = 0

(* runNodeListParallelOnce() is called.                                    *)
BeginWave ==
  /\ wave' = wave + 1
  /\ ResetLocals
  /\ ResetNodes
  /\ runnerPc' = "loop"
  /\ UNCHANGED <<vars, nodeIndex, doneJob, runStopFlag>>

(* runNodeListParallelNTimes() goes on with the next wave.                 *)
NextWave ==
  /\ runnerPc = "waveEnd"
  /\ ~runStopFlag /\ wave < NumWaves
  /\ BeginWave

RunEnds ==
  /\ runnerPc = "waveEnd"
  /\ runStopFlag \/ wave = NumWaves
  /\ runnerPc' = "returned"
  /\ UNCHANGED <<vars, nodeVars, localVars, wave, runStopFlag>>

(* The pool leaves its scope after the run.                                *)
DestroyPool ==
  /\ runnerPc = "returned"
  /\ Destroy(Runner)
  /\ runnerPc' = "destroying"
  /\ UNCHANGED <<nodeVars, localVars, wave, runStopFlag>>

(* The steps of runNodeListParallelOnce().                                 *)
WaveStep ==
  \/ LoopTest \/ ScanSchedule \/ Scheduled \/ ScanSkip
  \/ Collect \/ CollectNothing \/ SetDone
  \/ ClientStep(Runner) /\ runnerPc \in {"schedule", "setDone"} /\ UNCHANGED runnerVars

RunnerStep ==
  \/ WaveStep
  \/ NextWave \/ RunEnds \/ DestroyPool
  \/ ClientStep(Runner) /\ runnerPc = "destroying" /\ UNCHANGED runnerVars

(* A worker step.  With assertions compiled in, Node::run() calls          *)
(* isReady() (dag.hpp:155), which may write m_ready.                       *)
NodeWorkerStep(w) ==
  \/ WorkerStep(w) /\ UNCHANGED runnerVars
  \/ /\ FinishSync(w)
     /\ CacheReady(workerJob[w][1])
     /\ UNCHANGED <<deps, mDone, localVars, wave, runStopFlag, runnerPc>>

(* Another thread stores true in the flag given to the runner.             *)
RaiseRunStopFlag ==
  /\ ~runStopFlag
  /\ runStopFlag' = TRUE
  /\ UNCHANGED <<vars, nodeVars, localVars, wave, runnerPc>>

RunnerNext ==
  \/ RunnerStep
  \/ \E w \in Worker : NodeWorkerStep(w)
  \/ RaiseRunStopFlag
  \/ \E t \in Worker \cup Client : SpuriousWakeup(t) /\ UNCHANGED runnerVars

RunnerSpec == RunnerInit /\ [][RunnerNext]_allVars

(* The runner's thread and the workers keep running; nodes terminate.      *)
RunnerFairness ==
  /\ WF_allVars(RunnerStep)
  /\ \A w \in Worker : WF_allVars(NodeWorkerStep(w))

RunnerFairSpec == RunnerSpec /\ RunnerFairness

--------------------------------------------------------------------------------
(* Safety                                                                  *)

(* The jobs whose run() has returned.                                      *)
HasRun == Range(doneJobs) \cup retired

(* The runner uses the pool as its interface allows: every step is a step  *)
(* of the pool or leaves it alone, and no job is submitted twice, that is, *)
(* scheduledFlags and doneFlags keep a node from being scheduled again in  *)
(* the wave in which it was.                                               *)
UsesPool == Spec

(* A node that runs finds the outputs of its dependencies of the same      *)
(* wave: they have run and no other thread is writing them.                *)
RunsAfterDeps(w) == \A d \in deps[workerJob[w][1]] : <<d, workerJob[w][2]>> \in HasRun

(* In the first wave the list runs in dependency order, whatever the graph *)
(* and however the list is sorted.                                         *)
FirstWaveInOrder == \A w \in Running : workerJob[w][2] = 1 => RunsAfterDeps(w)

(* A node is never run by two workers at once, which would write its       *)
(* output (dag.hpp:186-189, unprotected) from two threads: within a wave   *)
(* it is submitted once, and the next wave submits it when the job of the  *)
(* wave before is collected.  (RunnerSessions: after a run that was        *)
(* stopped, its jobs may be in the pool when the next run begins.)         *)
NodesExclusive ==
  \A v, w \in Running : workerJob[v][1] = workerJob[w][1] => v = w

(* Nodes that are ready at the same time: nothing is done but a set D that *)
(* is closed under dependencies.                                           *)
ReadyTogether(S) ==
  \E D \in SUBSET Node :
    /\ \A d \in D : deps[d] \subseteq D
    /\ S \cap D = {} /\ \A n \in S : deps[n] \subseteq D

(* The buffer holds all nodes that are ready at once.  From the second     *)
(* wave on that is every node, because m_done is never reset.              *)
FirstWaveFits ==
  \A S \in SUBSET Node : ReadyTogether(S) => Cardinality(S) <= MAX_QUEUE_SIZE

BufferFits == NUM_OF_NODES <= MAX_QUEUE_SIZE

(* The runner, the only consumer of done jobs, never waits in              *)
(* scheduleTask() (line 45) for a place that only it could make, if the    *)
(* buffer holds what is ready at once: although it scans the whole list    *)
(* before it collects again, and the jobs that run and those that are done *)
(* keep their places, at each call a place is free.                        *)
NeverWaitsForPlace ==
  clientPc[Runner] = "schedule" /\ (BufferFits \/ (wave = 1 /\ FirstWaveFits)) => HasPlace

(* "Sequence of execution/scheduling is determined by topological sort of  *)
(* DAG." (README.md:6-7), in every wave.  It fails from the second wave on *)
(* because m_done is never reset, so isReady() is true from the start.     *)
EveryWaveInOrder == \A w \in Running : RunsAfterDeps(w)

--------------------------------------------------------------------------------
(* Liveness, under RunnerFairSpec                                          *)

(* The first wave ends, with the stop flag or without, for every graph the *)
(* buffer is large enough for, also when it is too small for the whole     *)
(* list: the runner is the only consumer of done jobs, and it collects     *)
(* none while it is inside scheduleTask().  (ProfiledRunner has the return *)
(* from several waves.)                                                    *)
FirstWaveEnds == FirstWaveFits => <>(runnerPc = "waveEnd")

(* "Each task is represented as node in directed acyclic graph (DAG) which *)
(* can be executed in parallel by the thread pool or in sequence."         *)
(* (README.md:5-6) says nothing of a buffer.  The run blocks for ever when *)
(* more nodes are ready at once than TASK_BUFFER_SIZE.                     *)
RunAlwaysReturns == <>(clientPc[Runner] = "destroyed")

================================================================================
