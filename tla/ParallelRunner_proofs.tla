------------------------- MODULE ParallelRunner_proofs -------------------------
(***************************************************************************)
(* The runner on its pool, for any graph, list, buffer, number of workers  *)
(* and number of waves.  The steps of a wave are the same in               *)
(* ParallelRunner, which makes one call, and in RunnerSessions, which      *)
(* makes many on a pool that others use too: CoreInv is proved for a step  *)
(* of a wave once, and used for both.  LiveInv is for the one, WaveCounts  *)
(* for the other, which may find jobs of an earlier run in the pool.       *)
(* ProfiledRunner is shown to use the runner and the profiler as they are. *)
(***************************************************************************)
EXTENDS RunnerSessions, ProfiledRunner, ThreadPoolJobs_proofs

--------------------------------------------------------------------------------
(* Facts about the helpers.                                                *)

LEMMA JobShape ==
  /\ Job = SyncJob
  /\ \A j \in Job : j = <<j[1], j[2]>> /\ j[1] \in Node /\ j[2] \in Wave
  /\ \A n \in Node, v \in Wave : <<n, v>> \in Job /\ <<n, v>> # NoJob
BY RunnerAssumption, PoolAssumption DEF Job

LEMMA PoolUntouched ==
  ASSUME UNCHANGED vars
  PROVE  UNCHANGED <<accepted, retired, clientPc, clientJob>>
BY DEF vars, queueVars, historyVars, clientVars

LEMMA AcceptedJobs ==
  ASSUME JobInv
  PROVE  /\ retired \subseteq accepted /\ accepted \subseteq Job
         /\ RunningJobs \subseteq accepted /\ retired \subseteq HasRun
BY DEF JobInv, CountInv, TypeOK, Conservation, HasRun

--------------------------------------------------------------------------------
(* The invariant that every user of a wave keeps.                          *)

WavePc == {"loop", "scan", "schedule", "drain", "setDone", "waveEnd"}

RunnerTypes ==
  /\ deps \in [Node -> SUBSET Node]
  /\ mReady \in [Node -> BOOLEAN] /\ mDone \in [Node -> BOOLEAN]
  /\ doneFlags \in [Node -> BOOLEAN] /\ scheduledFlags \in [Node -> BOOLEAN]
  /\ nodeIndex \in Node /\ wave \in 0 .. NumWaves /\ runStopFlag \in BOOLEAN
  /\ runnerPc \in WavePc \cup {"returned", "destroying"}
  /\ runnerPc \in WavePc => wave \in Wave

(* Where the runner is tells which call of the pool it is in; nobody else  *)
(* has a job to submit.                                                    *)
CallsOfRunner ==
  CASE runnerPc = "schedule" -> {"schedule", "notifyAdd", "idle"}
    [] runnerPc = "setDone" -> {"notifyPoped", "idle"}
    [] runnerPc = "destroying" -> {"destroy", "joining", "destroyed"}
    [] runnerPc = "returned" -> {"idle", "waitAll", "notifyPoped", "shutdown"}
    [] OTHER -> {"idle"}

RunnerCalls ==
  /\ \A c \in Client \ {Runner} :
       clientPc[c] \in {"idle", "waitAll", "shutdown"} /\ clientJob[c] = NoJob
  /\ clientPc[Runner] \in CallsOfRunner
  /\ clientJob[Runner] = IF clientPc[Runner] = "schedule" THEN <<nodeIndex, wave>> ELSE NoJob

(* A node that is not flagged as scheduled has no job of this wave. *)
JobsFlagged ==
  runnerPc \in WavePc =>
    \A n \in Node : <<n, wave>> \in accepted =>
      scheduledFlags[n] \/ (runnerPc = "schedule" /\ nodeIndex = n)

NoJobAhead == \A j \in accepted : j[2] <= wave

JobAtHand == IF runnerPc = "setDone" THEN doneJob \in retired ELSE doneJob = NoJob

(* In the first wave m_done is set for jobs of that wave only, and a       *)
(* cached m_ready is right.                                                *)
FirstWaveFlags ==
  wave <= 1 => /\ \A n \in Node : mDone[n] => <<n, 1>> \in retired
               /\ \A n \in Node : mReady[n] => \A d \in deps[n] : mDone[d]

FirstWaveSubmitted ==
  \A n \in Node : <<n, 1>> \in accepted \cup {clientJob[Runner]} =>
    \A d \in deps[n] : <<d, 1>> \in retired

CoreInv ==
  /\ RunnerTypes /\ RunnerCalls /\ JobsFlagged /\ NoJobAhead /\ JobAtHand
  /\ FirstWaveFlags /\ FirstWaveSubmitted

(* What holds in addition when the run found the pool empty: the jobs in   *)
(* the pool are of this wave; doneFlags and numberOfTasksDone stand for    *)
(* the jobs collected in it, but for the one at hand; and a wave that was  *)
(* not stopped ends complete.                                              *)
PoolHoldsThisWave == \A j \in accepted \ retired : j[2] = wave

DoneNodes == {n \in Node : doneFlags[n]}

DoneMarks ==
  /\ numberOfTasksDone = Cardinality(DoneNodes)
  /\ \A n \in Node : doneFlags[n] <=> <<n, wave>> \in retired \ {doneJob}
  /\ runnerPc = "setDone" => doneJob[2] = wave

WaveComplete == runnerPc = "waveEnd" /\ ~runStopFlag => \A n \in Node : doneFlags[n]

LiveInv == PoolHoldsThisWave /\ DoneMarks /\ WaveComplete

--------------------------------------------------------------------------------
(* What the steps of the pool do, as far as a runner can tell.             *)

LEMMA WorkerEffects ==
  ASSUME JobInv, NEW w \in Worker, WorkerStep(w)
  PROVE  UNCHANGED <<accepted, retired, clientPc, clientJob>>
<1> USE DEF clientVars, historyVars
<1>1. CASE FinishPlain(w)
  BY <1>1, FinishPlainMoves, RunnerAssumption
<1>2. CASE \/ WorkerSleep(w) \/ WorkerExit(w) \/ WorkerTake(w) \/ FinishSync(w)
           \/ WorkerNotifyFinish(w) \/ WorkerNotifyPoped(w)
  BY <1>2 DEF WorkerSleep, WorkerExit, WorkerTake, FinishSync, WorkerNotifyFinish,
     WorkerNotifyPoped
<1>3. QED BY <1>1, <1>2 DEF WorkerStep

(* A step of the call that the runner is in, during a wave or at the end.  *)
LEMMA RunnerCallEffects ==
  ASSUME JobInv, CoreInv, ClientStep(Runner), UNCHANGED runnerVars
  PROVE  /\ RunnerCalls' /\ retired' = retired
         /\ clientJob'[Runner] \in {clientJob[Runner], NoJob}
         /\ \/ accepted' = accepted
            \/ /\ accepted' = accepted \cup {<<nodeIndex, wave>>} /\ runnerPc = "schedule"
               /\ clientJob[Runner] = <<nodeIndex, wave>>
<1> USE DEF queueVars, clientVars, historyVars, runnerVars, localVars
<1>ty. /\ TypeOK /\ Runner \in Client
       /\ clientPc[Runner] \in CallsOfRunner /\ CallsOfRunner' = CallsOfRunner
  BY RunnerAssumption DEF JobInv, CountInv, CoreInv, RunnerCalls, CallsOfRunner
<1>1. CASE ScheduleAccept(Runner)
  <2>1. clientPc[Runner] = "schedule" /\ runnerPc = "schedule"
    BY <1>1, <1>ty DEF ScheduleAccept, AtSchedule, CallsOfRunner, CoreInv, RunnerTypes, WavePc
  <2>2. QED
    BY <1>1, <1>ty, <2>1 DEF ScheduleAccept, Enqueue, Goto, TypeOK, CoreInv, RunnerCalls,
       CallsOfRunner
<1>2. CASE ScheduleSleep(Runner) \/ WaitAllSleep(Runner) \/ GetDoneSleep(Runner)
  BY <1>2, <1>ty DEF ScheduleSleep, WaitAllSleep, GetDoneSleep, CoreInv, RunnerCalls
<1>3. CASE ScheduleStopped(Runner)
  <2>1. clientPc[Runner] = "schedule" /\ runnerPc = "schedule"
    BY <1>3, <1>ty DEF ScheduleStopped, AtSchedule, CallsOfRunner, CoreInv, RunnerTypes, WavePc
  <2>2. QED
    BY <1>3, <1>ty, <2>1 DEF ScheduleStopped, Goto, TypeOK, CoreInv, RunnerCalls,
       CallsOfRunner
<1>4. CASE NotifyAdd(Runner) \/ NotifyPoped(Runner) \/ WaitAllReturn(Runner)
  <2>1. /\ clientPc' = [clientPc EXCEPT ![Runner] = "idle"] /\ clientPc[Runner] # "schedule"
        /\ runnerPc # "destroying"
    BY <1>4, <1>ty DEF NotifyAdd, NotifyPoped, WaitAllReturn, AtWaitAll, Goto, CallsOfRunner
  <2>2. UNCHANGED <<doneJobs, clientJob, accepted, retired>>
    BY <1>4 DEF NotifyAdd, NotifyPoped, WaitAllReturn
  <2>3. "idle" \in CallsOfRunner
    BY <2>1 DEF CallsOfRunner
  <2>4. QED
    BY <1>ty, <2>1, <2>2, <2>3 DEF TypeOK, CoreInv, RunnerCalls
<1>5. CASE NotifyShutdown(Runner) \/ Joined(Runner)
  <2>1. UNCHANGED <<doneJobs, clientJob, accepted, retired>>
    BY <1>5 DEF NotifyShutdown, Joined
  <2>2. clientPc[Runner] # "schedule" /\ clientPc'[Runner] # "schedule"
    BY <1>5, <1>ty DEF NotifyShutdown, Joined, Goto, TypeOK
  <2>3. clientPc'[Runner] \in CallsOfRunner
    BY <1>5, <1>ty DEF NotifyShutdown, Joined, Goto, TypeOK, CallsOfRunner
  <2>4. \A c \in Client \ {Runner} : clientPc'[c] = clientPc[c]
    BY <1>5, <1>ty DEF NotifyShutdown, Joined, Goto, TypeOK
  <2>5. QED
    BY <1>ty, <2>1, <2>2, <2>3, <2>4 DEF CoreInv, RunnerCalls
<1>6. CASE GetDoneStopped(Runner) \/ GetDoneTake(Runner)
  BY <1>6, <1>ty DEF GetDoneStopped, GetDoneTake, AtGetDone, CallsOfRunner
<1>7. QED
  BY <1>1, <1>2, <1>3, <1>4, <1>5, <1>6 DEF ClientStep

--------------------------------------------------------------------------------
(* Steps that leave the wave where it is.                                  *)

(* m_ready, of which isReady() caches a true also in assertions, is still  *)
(* right after the step.                                                   *)
ReadyStaysRight ==
  /\ mReady' \in [Node -> BOOLEAN]
  /\ wave <= 1 => \A n \in Node : mReady'[n] => \A d \in deps[n] : mDone[d]

LEMMA ReadyKept ==
  ASSUME CoreInv, UNCHANGED mReady
  PROVE  ReadyStaysRight
BY DEF CoreInv, RunnerTypes, FirstWaveFlags, ReadyStaysRight

(* What isReady() answers in the first wave is what it stands for.         *)
LEMMA ReadyMeansDepsDone ==
  ASSUME CoreInv, NEW n \in Node, wave <= 1, IsReady(n)
  PROVE  \A d \in deps[n] : mDone[d]
BY DEF CoreInv, FirstWaveFlags, IsReady

LEMMA CacheReadyIsRight ==
  ASSUME CoreInv, NEW n \in Node, CacheReady(n)
  PROVE  ReadyStaysRight
<1>1. IsReady(n) \in BOOLEAN
  BY DEF CoreInv, RunnerTypes, IsReady
<1>2. wave <= 1 /\ IsReady(n) => \A d \in deps[n] : mDone[d]
  BY ReadyMeansDepsDone
<1>3. PICK v \in BOOLEAN : /\ mReady' = mReady \/ mReady' = [mReady EXCEPT ![n] = v]
                           /\ wave <= 1 /\ v => \A d \in deps[n] : mDone[d]
  BY <1>1, <1>2 DEF CacheReady
<1>4. QED
  BY <1>3 DEF CoreInv, RunnerTypes, FirstWaveFlags, ReadyStaysRight

WaveStays == UNCHANGED <<deps, mDone, localVars, wave, runStopFlag, runnerPc>>

(* The pool moves on under the runner.                                     *)
LEMMA PoolMoves ==
  ASSUME JobInv, CoreInv, WaveStays, ReadyStaysRight, RunnerCalls',
         retired \subseteq retired',
         clientJob'[Runner] \in {clientJob[Runner], NoJob},
         \/ accepted' = accepted
         \/ /\ accepted' = accepted \cup {<<nodeIndex, wave>>} /\ runnerPc = "schedule"
            /\ clientJob[Runner] = <<nodeIndex, wave>>
  PROVE  /\ CoreInv'
         /\ LiveInv /\ retired' = retired => LiveInv'
<1> USE DEF WaveStays, localVars
<1>1. RunnerTypes'
  BY DEF CoreInv, RunnerTypes, ReadyStaysRight
<1>2. JobsFlagged'
  BY JobShape DEF CoreInv, JobsFlagged, RunnerTypes
<1>3. NoJobAhead' /\ JobAtHand'
  BY DEF CoreInv, NoJobAhead, JobAtHand, RunnerTypes
<1>4. FirstWaveFlags'
  BY DEF CoreInv, FirstWaveFlags, ReadyStaysRight
<1>5. FirstWaveSubmitted'
  <2>1. \A n \in Node : <<n, 1>> # NoJob
    BY JobShape, RunnerAssumption DEF Wave
  <2>2. accepted' \cup {clientJob'[Runner]} \subseteq accepted \cup {clientJob[Runner], NoJob}
    OBVIOUS
  <2>3. QED BY <2>1, <2>2 DEF CoreInv, FirstWaveSubmitted
<1>6. ASSUME LiveInv, retired' = retired PROVE LiveInv'
  <2>1. PoolHoldsThisWave'
    BY <1>6 DEF LiveInv, PoolHoldsThisWave, CoreInv, RunnerTypes
  <2>2. DoneNodes' = DoneNodes
    BY DEF DoneNodes
  <2>3. DoneMarks' /\ WaveComplete'
    BY <1>6, <2>2 DEF LiveInv, DoneMarks, WaveComplete
  <2>4. QED BY <2>1, <2>3 DEF LiveInv
<1>7. QED BY <1>1, <1>2, <1>3, <1>4, <1>5, <1>6 DEF CoreInv

LEMMA WorkerKeepsRun ==
  ASSUME JobInv, CoreInv, NEW w \in Worker, NodeWorkerStep(w)
  PROVE  CoreInv' /\ (LiveInv => LiveInv')
<1>1. UNCHANGED <<accepted, retired, clientPc, clientJob>>
  BY WorkerEffects DEF NodeWorkerStep, WorkerStep
<1>2. WaveStays /\ ReadyStaysRight
  <2>1. CASE UNCHANGED runnerVars
    BY <2>1, ReadyKept DEF runnerVars, nodeVars, WaveStays
  <2>2. CASE FinishSync(w) /\ CacheReady(workerJob[w][1]) /\ WaveStays
    <3>1. workerJob[w][1] \in Node
      BY <2>2, JobShape DEF FinishSync
    <3>2. QED BY <2>2, <3>1, CacheReadyIsRight
  <2>3. QED BY <2>1, <2>2 DEF NodeWorkerStep, WaveStays
<1>3. RunnerCalls'
  BY <1>1, <1>2 DEF CoreInv, RunnerCalls, CallsOfRunner, WaveStays, localVars
<1>4. QED BY <1>1, <1>2, <1>3, PoolMoves

LEMMA CallKeepsRun ==
  ASSUME JobInv, CoreInv, ClientStep(Runner), UNCHANGED runnerVars
  PROVE  CoreInv' /\ (LiveInv => LiveInv')
<1>1. WaveStays /\ ReadyStaysRight
  BY ReadyKept DEF runnerVars, nodeVars, WaveStays
<1>2. QED BY <1>1, RunnerCallEffects, PoolMoves

(* A condition variable wakes a thread.                                    *)
LEMMA WakeupKeepsRun ==
  ASSUME JobInv, CoreInv, NEW t, SpuriousWakeup(t), UNCHANGED runnerVars
  PROVE  CoreInv' /\ (LiveInv => LiveInv')
<1>1. UNCHANGED <<doneJobs, accepted, retired, clientPc, clientJob>>
  BY DEF SpuriousWakeup, queueVars, historyVars, clientVars
<1>2. WaveStays /\ ReadyStaysRight
  BY ReadyKept DEF runnerVars, nodeVars, WaveStays
<1>3. RunnerCalls'
  BY <1>1, <1>2 DEF CoreInv, RunnerCalls, CallsOfRunner, WaveStays, localVars
<1>4. QED BY <1>1, <1>2, <1>3, PoolMoves

--------------------------------------------------------------------------------
(* The steps of runNodeListParallelOnce().                                 *)

LEMMA NodesFinite ==
  /\ NUM_OF_NODES \in Nat /\ IsFiniteSet(Node) /\ Cardinality(Node) = NUM_OF_NODES
  /\ DoneNodes \in SUBSET Node /\ IsFiniteSet(DoneNodes)
<1>1. NUM_OF_NODES \in Nat /\ IsFiniteSet(Node) /\ Cardinality(Node) = NUM_OF_NODES
  BY RunnerAssumption, FS_Interval DEF Node
<1>2. DoneNodes \in SUBSET Node
  BY DEF DoneNodes
<1>3. QED BY <1>1, <1>2, FS_Subset

LEMMA CountReached ==
  ASSUME CoreInv, DoneMarks, ~WaveOpen
  PROVE  \A n \in Node : doneFlags[n]
<1>1. /\ Cardinality(DoneNodes) \in Nat /\ Cardinality(DoneNodes) <= Cardinality(Node)
      /\ Cardinality(Node) = Cardinality(DoneNodes) => Node = DoneNodes
  BY NodesFinite, FS_Subset, FS_CardinalityType
<1>2. Node = DoneNodes
  BY <1>1, NodesFinite DEF DoneMarks, WaveOpen
<1>3. QED BY <1>2 DEF DoneNodes

(* Where the for loop goes after a round.                                  *)
LEMMA AdvanceGoes ==
  ASSUME CoreInv, Advance
  PROVE  /\ runnerPc' \in {"scan", "drain", "waveEnd"} /\ nodeIndex' \in Node
         /\ runnerPc' = "waveEnd" => runStopFlag
BY RunnerAssumption DEF Advance, CoreInv, RunnerTypes, Node

(* Steps between two calls: the pool does not move.  What is left to show  *)
(* for each of them is what it does to the flags.                          *)
LEMMA PoolRests ==
  ASSUME JobInv, CoreInv, RunnerTypes', UNCHANGED vars, UNCHANGED <<deps, wave>>,
         clientPc[Runner] = "idle",
         runnerPc' \in {"loop", "scan", "drain", "waveEnd"}, doneJob' = NoJob
  PROVE  RunnerCalls' /\ NoJobAhead' /\ JobAtHand' /\ FirstWaveSubmitted'
<1>1. UNCHANGED <<accepted, retired, clientPc, clientJob>>
  BY PoolUntouched
<1>2. RunnerCalls'
  BY <1>1 DEF CoreInv, RunnerCalls, CallsOfRunner
<1>3. QED
  BY <1>1, <1>2 DEF CoreInv, NoJobAhead, JobAtHand, FirstWaveSubmitted

LEMMA LoopTestKeepsRun ==
  ASSUME JobInv, CoreInv, LoopTest
  PROVE  CoreInv' /\ (LiveInv => LiveInv')
<1> USE DEF LoopTest, nodeVars
<1>1. /\ UNCHANGED <<accepted, retired>> /\ runnerPc' \in {"scan", "waveEnd"}
      /\ 1 \in Node /\ clientPc[Runner] = "idle" /\ doneJob = NoJob
  BY PoolUntouched, RunnerAssumption DEF Node, CoreInv, RunnerCalls, CallsOfRunner, JobAtHand
<1>2. RunnerTypes'
  BY <1>1 DEF CoreInv, RunnerTypes, WavePc
<1>3. JobsFlagged' /\ FirstWaveFlags'
  BY <1>1 DEF CoreInv, JobsFlagged, FirstWaveFlags, WavePc
<1>4. ASSUME LiveInv PROVE LiveInv'
  <2>1. DoneNodes' = DoneNodes
    BY DEF DoneNodes
  <2>2. PoolHoldsThisWave' /\ DoneMarks'
    BY <1>1, <1>4, <2>1 DEF LiveInv, PoolHoldsThisWave, DoneMarks
  <2>3. WaveComplete'
    BY <1>4, CountReached DEF LiveInv, WaveComplete
  <2>4. QED BY <2>2, <2>3 DEF LiveInv
<1>5. QED BY <1>1, <1>2, <1>3, <1>4, PoolRests DEF CoreInv

(* The pool gets a job that it did not have: the step is a call that       *)
(* ThreadPool allows.                                                      *)
LEMMA ScanSubmitsFresh ==
  ASSUME JobInv, CoreInv, ScanSchedule
  PROVE  <<nodeIndex, wave>> \in FreshJob
<1>1. nodeIndex \in Node /\ wave \in Wave /\ ~scheduledFlags[nodeIndex]
  BY DEF ScanSchedule, Schedulable, CoreInv, RunnerTypes, WavePc
<1>2. <<nodeIndex, wave>> \notin accepted
  BY <1>1 DEF ScanSchedule, CoreInv, JobsFlagged, WavePc
<1>3. \A c \in Client : clientJob[c] = NoJob
  BY DEF ScanSchedule, CallScheduleTask, Idle, CoreInv, RunnerCalls
<1>4. QED BY <1>1, <1>2, <1>3, JobShape DEF FreshJob

LEMMA ScanScheduleKeepsRun ==
  ASSUME JobInv, CoreInv, ScanSchedule
  PROVE  CoreInv' /\ (LiveInv => LiveInv')
<1> USE DEF ScanSchedule, localVars
<1>1. /\ TypeOK /\ Runner \in Client /\ nodeIndex \in Node /\ wave \in Wave
      /\ UNCHANGED <<accepted, retired, doneJobs>>
      /\ ReadyStaysRight
  BY RunnerAssumption, CacheReadyIsRight
  DEF JobInv, CountInv, CoreInv, RunnerTypes, WavePc, CallScheduleTask, queueVars, historyVars
<1>2. RunnerTypes'
  BY <1>1 DEF CoreInv, RunnerTypes, ReadyStaysRight, WavePc
<1>3. RunnerCalls'
  BY <1>1 DEF CoreInv, RunnerCalls, CallsOfRunner, CallScheduleTask, Goto, TypeOK
<1>4. JobsFlagged' /\ NoJobAhead' /\ JobAtHand'
  BY <1>1 DEF CoreInv, JobsFlagged, NoJobAhead, JobAtHand, WavePc
<1>5. FirstWaveFlags'
  BY <1>1 DEF CoreInv, FirstWaveFlags, ReadyStaysRight
<1>6. FirstWaveSubmitted'
  <2>1. clientJob'[Runner] = <<nodeIndex, wave>>
    BY <1>1 DEF CallScheduleTask, TypeOK
  <2>2. wave = 1 => \A d \in deps[nodeIndex] : <<d, 1>> \in retired
    <3>1. SUFFICES ASSUME wave = 1
                   PROVE  \A d \in deps[nodeIndex] : <<d, 1>> \in retired
      OBVIOUS
    <3>2. \A d \in deps[nodeIndex] : mDone[d] /\ d \in Node
      BY <1>1, <3>1, ReadyMeansDepsDone DEF Schedulable, CoreInv, RunnerTypes
    <3>3. \A n \in Node : mDone[n] => <<n, 1>> \in retired
      BY <3>1 DEF CoreInv, FirstWaveFlags
    <3>4. QED BY <3>2, <3>3, Zenon
  <2>3. ASSUME NEW n \in Node, <<n, 1>> = <<nodeIndex, wave>>
        PROVE  \A d \in deps[n] : <<d, 1>> \in retired
    BY <2>2, <2>3
  <2>4. QED BY <1>1, <2>1, <2>3 DEF CoreInv, FirstWaveSubmitted
<1>7. ASSUME LiveInv PROVE LiveInv'
  <2>1. DoneNodes' = DoneNodes
    BY DEF DoneNodes
  <2>2. QED BY <1>1, <1>7, <2>1 DEF LiveInv, PoolHoldsThisWave, DoneMarks, WaveComplete
<1>8. QED BY <1>2, <1>3, <1>4, <1>5, <1>6, <1>7 DEF CoreInv

LEMMA ScheduledKeepsRun ==
  ASSUME JobInv, CoreInv, Scheduled
  PROVE  CoreInv' /\ (LiveInv => LiveInv')
<1> USE DEF Scheduled, nodeVars
<1>1. /\ UNCHANGED <<accepted, retired>> /\ clientPc[Runner] = "idle" /\ doneJob = NoJob
      /\ runnerPc' \in {"scan", "drain", "waveEnd"} /\ nodeIndex' \in Node
      /\ runnerPc' = "waveEnd" => runStopFlag
  BY PoolUntouched, AdvanceGoes DEF Returned, CoreInv, JobAtHand
<1>2. RunnerTypes'
  BY <1>1 DEF CoreInv, RunnerTypes, WavePc
<1>3. JobsFlagged'
  BY <1>1 DEF CoreInv, JobsFlagged, RunnerTypes, WavePc
<1>4. FirstWaveFlags'
  BY <1>1 DEF CoreInv, FirstWaveFlags
<1>5. ASSUME LiveInv PROVE LiveInv'
  <2>1. DoneNodes' = DoneNodes
    BY DEF DoneNodes
  <2>2. QED BY <1>1, <1>5, <2>1 DEF LiveInv, PoolHoldsThisWave, DoneMarks, WaveComplete
<1>6. QED BY <1>1, <1>2, <1>3, <1>4, <1>5, PoolRests DEF CoreInv

LEMMA ScanSkipKeepsRun ==
  ASSUME JobInv, CoreInv, ScanSkip
  PROVE  CoreInv' /\ (LiveInv => LiveInv')
<1> USE DEF ScanSkip
<1>1. /\ UNCHANGED <<accepted, retired>> /\ clientPc[Runner] = "idle" /\ doneJob = NoJob
      /\ runnerPc' \in {"scan", "drain", "waveEnd"} /\ nodeIndex' \in Node
      /\ runnerPc' = "waveEnd" => runStopFlag
  BY PoolUntouched, AdvanceGoes DEF CoreInv, RunnerCalls, CallsOfRunner, JobAtHand
<1>2. ReadyStaysRight
  BY CacheReadyIsRight DEF CoreInv, RunnerTypes
<1>3. RunnerTypes'
  BY <1>1, <1>2 DEF CoreInv, RunnerTypes, ReadyStaysRight, WavePc
<1>4. JobsFlagged' /\ FirstWaveFlags'
  BY <1>1, <1>2 DEF CoreInv, JobsFlagged, FirstWaveFlags, ReadyStaysRight, WavePc
<1>5. ASSUME LiveInv PROVE LiveInv'
  <2>1. DoneNodes' = DoneNodes
    BY DEF DoneNodes
  <2>2. QED BY <1>1, <1>5, <2>1 DEF LiveInv, PoolHoldsThisWave, DoneMarks, WaveComplete
<1>6. QED BY <1>1, <1>3, <1>4, <1>5, PoolRests DEF CoreInv

(* The job that the pool hands back has run, and is handed back for the    *)
(* first time.                                                             *)
LEMMA TakeDoneHandsOver ==
  ASSUME JobInv, doneJobs # <<>>, TakeDone(Runner)
  PROVE  /\ Head(doneJobs) \in accepted \ retired
         /\ retired' = retired \cup {Head(doneJobs)} /\ UNCHANGED <<accepted, clientJob>>
         /\ clientPc' = [clientPc EXCEPT ![Runner] = "notifyPoped"]
<1>1. doneJobs \in Seq(SyncJob) /\ IsInjective(doneJobs)
  BY DEF JobInv, CountInv, TypeOK, Conservation
<1>2. Head(doneJobs) \in Range(doneJobs) /\ Range(Tail(doneJobs)) = Range(doneJobs) \ {Head(doneJobs)}
  BY <1>1, RangeOfTail
<1>3. QED BY <1>2 DEF TakeDone, Goto, JobInv, Conservation

LEMMA CollectKeepsRun ==
  ASSUME JobInv, CoreInv, Collect
  PROVE  CoreInv' /\ (LiveInv => LiveInv')
<1> USE DEF Collect, nodeVars
<1> DEFINE j == Head(doneJobs)
<1>1. /\ j \in accepted \ retired /\ retired' = retired \cup {j} /\ accepted' = accepted
      /\ UNCHANGED clientJob
      /\ clientPc' = [clientPc EXCEPT ![Runner] = "notifyPoped"]
      /\ doneJob = NoJob /\ doneJob' = j
  BY TakeDoneHandsOver DEF TryGetNextDoneTask, CoreInv, JobAtHand
<1>2. j \in Job /\ j # NoJob /\ NoJob \notin retired
  BY <1>1, PoolAssumption, AcceptedJobs
<1> HIDE DEF j
<1>3. RunnerTypes' /\ JobsFlagged' /\ NoJobAhead' /\ JobAtHand' /\ FirstWaveFlags'
  BY <1>1 DEF CoreInv, RunnerTypes, JobsFlagged, NoJobAhead, JobAtHand, FirstWaveFlags, WavePc
<1>4. RunnerCalls'
  BY <1>1, RunnerAssumption DEF CoreInv, RunnerCalls, CallsOfRunner, JobInv, CountInv, TypeOK
<1>5. FirstWaveSubmitted'
  BY <1>1 DEF CoreInv, FirstWaveSubmitted
<1>6. ASSUME LiveInv PROVE LiveInv'
  <2>1. DoneNodes' = DoneNodes
    BY DEF DoneNodes
  <2>2. j[2] = wave /\ retired' \ {doneJob'} = retired \ {doneJob}
    BY <1>1, <1>2, <1>6 DEF LiveInv, PoolHoldsThisWave
  <2>3. DoneMarks'
    BY <1>1, <1>6, <2>1, <2>2 DEF LiveInv, DoneMarks
  <2>4. PoolHoldsThisWave' /\ WaveComplete'
    BY <1>1, <1>6 DEF LiveInv, PoolHoldsThisWave, WaveComplete
  <2>5. QED BY <2>3, <2>4 DEF LiveInv
<1>7. QED BY <1>3, <1>4, <1>5, <1>6 DEF CoreInv

LEMMA CollectNothingKeepsRun ==
  ASSUME JobInv, CoreInv, CollectNothing
  PROVE  CoreInv' /\ (LiveInv => LiveInv')
<1> USE DEF CollectNothing, nodeVars, localVars
<1>1. /\ UNCHANGED vars /\ clientPc[Runner] = "idle" /\ doneJob = NoJob
      /\ UNCHANGED <<accepted, retired>>
  BY PoolUntouched DEF TryGetNothing, Idle, CoreInv, JobAtHand
<1>2. RunnerTypes' /\ JobsFlagged' /\ FirstWaveFlags'
  BY <1>1 DEF CoreInv, RunnerTypes, JobsFlagged, FirstWaveFlags, WavePc
<1>3. ASSUME LiveInv PROVE LiveInv'
  <2>1. DoneNodes' = DoneNodes
    BY DEF DoneNodes
  <2>2. QED BY <1>1, <1>3, <2>1 DEF LiveInv, PoolHoldsThisWave, DoneMarks, WaveComplete
<1>4. QED BY <1>1, <1>2, <1>3, PoolRests DEF CoreInv

LEMMA SetDoneKeepsRun ==
  ASSUME JobInv, CoreInv, SetDone
  PROVE  CoreInv' /\ (LiveInv => LiveInv')
<1> USE DEF SetDone
<1> DEFINE n == doneJob[1]
<1>1. /\ UNCHANGED <<accepted, retired>> /\ clientPc[Runner] = "idle"
      /\ doneJob \in retired /\ doneJob \in accepted /\ doneJob \in Job /\ NoJob \notin retired
  BY PoolUntouched, AcceptedJobs, PoolAssumption DEF Returned, CoreInv, JobAtHand
<1>2. n \in Node /\ doneJob[2] \in Wave /\ doneJob = <<n, doneJob[2]>> /\ doneJob[2] <= wave
  BY <1>1, JobShape DEF CoreInv, NoJobAhead
<1>3. RunnerTypes'
  BY <1>1, <1>2 DEF CoreInv, RunnerTypes, WavePc
<1>4. JobsFlagged'
  BY <1>1 DEF CoreInv, JobsFlagged, WavePc
<1>5. FirstWaveFlags'
  <2>1. SUFFICES ASSUME wave <= 1 PROVE FirstWaveFlags'
    BY DEF FirstWaveFlags
  <2>2. doneJob = <<n, 1>>
    BY <1>2, <2>1 DEF CoreInv, RunnerTypes, Wave
  <2>3. \A m \in Node : mDone[m] => mDone'[m]
    BY DEF CoreInv, RunnerTypes
  <2>4. \A m \in Node : mDone'[m] => mDone[m] \/ m = n
    BY DEF CoreInv, RunnerTypes
  <2>5. \A m \in Node : mDone'[m] => <<m, 1>> \in retired'
    BY <1>1, <2>1, <2>2, <2>4 DEF CoreInv, FirstWaveFlags
  <2>6. \A m \in Node : mReady'[m] => \A d \in deps'[m] : mDone'[d]
    BY <2>1, <2>3 DEF CoreInv, FirstWaveFlags, RunnerTypes
  <2>7. QED BY <2>5, <2>6 DEF FirstWaveFlags
<1>6. ASSUME LiveInv PROVE LiveInv'
  <2>1. doneJob = <<n, wave>> /\ ~doneFlags[n]
    BY <1>2, <1>6 DEF LiveInv, DoneMarks
  <2>2. DoneNodes' = DoneNodes \cup {n} /\ n \notin DoneNodes
    BY <1>2, <2>1 DEF DoneNodes, CoreInv, RunnerTypes
  <2>3. numberOfTasksDone' = Cardinality(DoneNodes')
    BY <1>6, <2>2, NodesFinite, FS_AddElement DEF LiveInv, DoneMarks
  <2>4. \A m \in Node : doneFlags'[m] <=> doneFlags[m] \/ m = n
    BY <1>2 DEF CoreInv, RunnerTypes
  <2>5. \A m \in Node : doneFlags'[m] <=> <<m, wave'>> \in retired' \ {doneJob'}
    BY <1>1, <1>6, <2>1, <2>4, JobShape, PoolAssumption DEF LiveInv, DoneMarks
  <2>6. QED
    BY <1>1, <1>6, <2>3, <2>5 DEF LiveInv, PoolHoldsThisWave, DoneMarks, WaveComplete
<1>7. QED BY <1>1, <1>3, <1>4, <1>5, <1>6, PoolRests DEF CoreInv

LEMMA WaveKeepsRun ==
  ASSUME JobInv, CoreInv, WaveStep
  PROVE  CoreInv' /\ (LiveInv => LiveInv')
BY LoopTestKeepsRun, ScanScheduleKeepsRun, ScheduledKeepsRun, ScanSkipKeepsRun,
   CollectKeepsRun, CollectNothingKeepsRun, SetDoneKeepsRun, CallKeepsRun DEF WaveStep

--------------------------------------------------------------------------------
(* From wave to wave.                                                      *)

(* A wave that nobody stopped leaves nothing in the pool.                  *)
LEMMA WaveLeavesNothing ==
  ASSUME JobInv, CoreInv, LiveInv, runnerPc = "waveEnd", ~runStopFlag
  PROVE  accepted = retired
<1>1. \A n \in Node : <<n, wave>> \in retired
  BY DEF LiveInv, WaveComplete, DoneMarks
<1>2. \A j \in accepted \ retired : j = <<j[1], wave>> /\ j[1] \in Node
  BY AcceptedJobs, JobShape DEF LiveInv, PoolHoldsThisWave
<1>3. QED BY <1>1, <1>2, AcceptedJobs

LEMMA BeginWaveStarts ==
  ASSUME JobInv, CoreInv, BeginWave, wave < NumWaves,
         runnerPc \in {"waveEnd", "returned"}, clientPc[Runner] = "idle"
  PROVE  CoreInv' /\ (accepted = retired => LiveInv')
<1> USE DEF BeginWave, ResetLocals, ResetNodes
<1>1. UNCHANGED <<accepted, retired, clientPc, clientJob>> /\ doneJob = NoJob
  BY PoolUntouched DEF CoreInv, JobAtHand
<1>2. \A n \in Node : <<n, wave'>> \notin accepted
  BY RunnerAssumption DEF CoreInv, NoJobAhead, RunnerTypes
<1>3. RunnerTypes'
  BY RunnerAssumption DEF CoreInv, RunnerTypes, Wave, WavePc, NoFlags
<1>4. RunnerCalls' /\ JobAtHand'
  BY <1>1 DEF CoreInv, RunnerCalls, CallsOfRunner, JobAtHand
<1>5. JobsFlagged' /\ NoJobAhead'
  <2>1. JobsFlagged'
    BY <1>1, <1>2 DEF JobsFlagged
  <2>2. \A j \in accepted : j[2] \in Nat /\ wave \in Nat
    BY AcceptedJobs, JobShape DEF Wave, CoreInv, RunnerTypes
  <2>3. QED BY <1>1, <2>1, <2>2 DEF CoreInv, NoJobAhead
<1>6. FirstWaveFlags' /\ FirstWaveSubmitted'
  <2>1. wave' <= 1 => wave <= 1
    BY DEF CoreInv, RunnerTypes
  <2>2. \A n \in Node : ~mReady'[n]
    BY DEF NoFlags
  <2>3. QED BY <1>1, <2>1, <2>2 DEF CoreInv, FirstWaveFlags, FirstWaveSubmitted
<1>7. ASSUME accepted = retired PROVE LiveInv'
  <2>1. DoneNodes' = {}
    BY DEF DoneNodes, NoFlags
  <2>2. QED
    BY <1>1, <1>2, <1>7, <2>1, FS_EmptySet
    DEF LiveInv, PoolHoldsThisWave, DoneMarks, WaveComplete, NoFlags
<1>8. QED BY <1>3, <1>4, <1>5, <1>6, <1>7 DEF CoreInv

LEMMA RunnerInitGives ==
  ASSUME FreshStart, wave \in {0, 1}, runnerPc \in {"loop", "returned"},
         runnerPc = "loop" => wave = 1
  PROVE  JobInv /\ CoreInv /\ LiveInv
<1> USE DEF FreshStart, Init, NoFlags
<1>1. JobInv
  BY JobInvInit DEF Init
<1>2. RunnerTypes
  BY RunnerAssumption DEF RunnerTypes, AcyclicDeps, Node, Wave, WavePc
<1>3. RunnerCalls /\ JobsFlagged /\ NoJobAhead /\ JobAtHand
  BY RunnerAssumption DEF RunnerCalls, CallsOfRunner, JobsFlagged, NoJobAhead, JobAtHand
<1>4. FirstWaveFlags
  BY DEF FirstWaveFlags
<1>5. FirstWaveSubmitted
  BY JobShape, RunnerAssumption DEF FirstWaveSubmitted, Wave
<1>6. DoneNodes = {}
  BY DEF DoneNodes
<1>7. LiveInv
  BY <1>6, FS_EmptySet DEF LiveInv, PoolHoldsThisWave, DoneMarks, WaveComplete
<1>8. QED BY <1>1, <1>2, <1>3, <1>4, <1>5, <1>7 DEF CoreInv

(* Every step of a wave is a step of the pool, or none.                    *)
LEMMA WaveStepsPool ==
  ASSUME JobInv, CoreInv, WaveStep
  PROVE  [Next]_vars
<1>1. CASE LoopTest \/ Scheduled \/ ScanSkip \/ CollectNothing \/ SetDone
  BY <1>1 DEF LoopTest, Scheduled, ScanSkip, CollectNothing, TryGetNothing, SetDone
<1>2. CASE ScanSchedule
  <2>1. CallScheduleTask(Runner, <<nodeIndex, wave>>)
    BY <1>2 DEF ScanSchedule
  <2>2. ClientCall(Runner)
    BY <1>2, <2>1, ScanSubmitsFresh DEF ClientCall
  <2>3. QED BY <2>2, RunnerAssumption DEF Next
<1>3. CASE Collect
  BY <1>3, RunnerAssumption DEF Collect, ClientCall, Next
<1>4. CASE ClientStep(Runner)
  BY <1>4, RunnerAssumption DEF Next
<1>5. QED BY <1>1, <1>2, <1>3, <1>4 DEF WaveStep

LEMMA NodeWorkerStepsPool ==
  ASSUME NEW w \in Worker, NodeWorkerStep(w)
  PROVE  Next
BY DEF NodeWorkerStep, WorkerStep, Next

(* The flag is raised by another thread, at any time.                      *)
LEMMA FlagKeepsRun ==
  ASSUME JobInv, CoreInv, RaiseRunStopFlag
  PROVE  CoreInv' /\ (LiveInv => LiveInv')
<1> USE DEF RaiseRunStopFlag, nodeVars, localVars
<1>1. UNCHANGED <<accepted, retired, clientPc, clientJob>>
  BY PoolUntouched
<1>2. RunnerTypes' /\ RunnerCalls'
  BY <1>1 DEF CoreInv, RunnerTypes, RunnerCalls, CallsOfRunner
<1>3. /\ JobsFlagged' /\ NoJobAhead' /\ JobAtHand' /\ FirstWaveFlags'
      /\ FirstWaveSubmitted'
  BY <1>1 DEF CoreInv, JobsFlagged, NoJobAhead, JobAtHand, FirstWaveFlags, FirstWaveSubmitted
<1>4. ASSUME LiveInv PROVE LiveInv'
  <2>1. DoneNodes' = DoneNodes
    BY DEF DoneNodes
  <2>2. QED BY <1>1, <1>4, <2>1 DEF LiveInv, PoolHoldsThisWave, DoneMarks, WaveComplete
<1>5. QED BY <1>2, <1>3, <1>4 DEF CoreInv

(* The run is over, or the pool is destroyed after it.                     *)
LEMMA PcLeavesWave ==
  ASSUME JobInv, CoreInv, UNCHANGED <<nodeVars, localVars, wave, runStopFlag>>,
         runnerPc \in {"waveEnd", "returned"}, runnerPc' \in {"returned", "destroying"},
         UNCHANGED <<accepted, retired, clientJob>>,
         RunnerCalls'
  PROVE  CoreInv' /\ (LiveInv => LiveInv')
<1> USE DEF nodeVars, localVars
<1>1. RunnerTypes' /\ JobsFlagged' /\ NoJobAhead' /\ JobAtHand' /\ FirstWaveFlags'
  BY DEF CoreInv, RunnerTypes, JobsFlagged, NoJobAhead, JobAtHand, FirstWaveFlags, WavePc
<1>2. FirstWaveSubmitted'
  BY DEF CoreInv, FirstWaveSubmitted
<1>3. ASSUME LiveInv PROVE LiveInv'
  <2>1. DoneNodes' = DoneNodes
    BY DEF DoneNodes
  <2>2. QED BY <1>3, <2>1 DEF LiveInv, PoolHoldsThisWave, DoneMarks, WaveComplete
<1>4. QED BY <1>1, <1>2, <1>3 DEF CoreInv

LEMMA DestroyPoolKeepsRun ==
  ASSUME JobInv, CoreInv, DestroyPool
  PROVE  /\ CoreInv' /\ (LiveInv => LiveInv')
         /\ Next
<1> USE DEF DestroyPool, Destroy
<1>1. UNCHANGED <<accepted, retired, clientJob>>
  BY DEF queueVars, historyVars
<1>2. RunnerCalls'
  BY <1>1, RunnerAssumption
  DEF CoreInv, RunnerCalls, CallsOfRunner, Goto, JobInv, CountInv, TypeOK
<1>3. Next
  BY RunnerAssumption DEF Next, ClientCall
<1>4. QED BY <1>1, <1>2, <1>3, PcLeavesWave

--------------------------------------------------------------------------------
(* One call of runNodeListParallelNTimes(): RunnerSpec.                    *)

RunInv == JobInv /\ CoreInv /\ LiveInv

LEMMA RunInvNext ==
  ASSUME RunInv, [RunnerNext]_allVars
  PROVE  [Next]_vars /\ RunInv'
<1> USE DEF RunInv
<1>1. CASE WaveStep
  BY <1>1, WaveKeepsRun, WaveStepsPool, JobInvNext
<1>2. CASE NextWave
  <2>1. UNCHANGED vars /\ accepted = retired /\ clientPc[Runner] = "idle"
    BY <1>2, WaveLeavesNothing
    DEF NextWave, BeginWave, CoreInv, RunnerCalls, CallsOfRunner
  <2>2. QED BY <1>2, <2>1, BeginWaveStarts, JobInvNext DEF NextWave
<1>3. CASE RunEnds
  <2>1. UNCHANGED vars /\ UNCHANGED <<accepted, retired, clientPc, clientJob>>
    BY <1>3, PoolUntouched DEF RunEnds
  <2>2. RunnerCalls'
    BY <1>3, <2>1 DEF RunEnds, CoreInv, RunnerCalls, CallsOfRunner
  <2>3. QED BY <1>3, <2>1, <2>2, PcLeavesWave, JobInvNext DEF RunEnds
<1>4. CASE DestroyPool
  BY <1>4, DestroyPoolKeepsRun, JobInvNext
<1>5. CASE ClientStep(Runner) /\ UNCHANGED runnerVars
  BY <1>5, CallKeepsRun, JobInvNext, RunnerAssumption DEF Next
<1>6. CASE \E w \in Worker : NodeWorkerStep(w)
  BY <1>6, WorkerKeepsRun, NodeWorkerStepsPool, JobInvNext
<1>7. CASE RaiseRunStopFlag
  <2>1. UNCHANGED vars
    BY <1>7 DEF RaiseRunStopFlag
  <2>2. QED BY <1>7, <2>1, FlagKeepsRun, JobInvNext
<1>8. CASE \E t \in Worker \cup Client : SpuriousWakeup(t) /\ UNCHANGED runnerVars
  <2>1. Next
    BY <1>8 DEF Next
  <2>2. QED BY <1>8, <2>1, WakeupKeepsRun, JobInvNext
<1>9. CASE UNCHANGED allVars
  <2>1. UNCHANGED vars /\ UNCHANGED runnerVars
    BY <1>9 DEF allVars
  <2>2. WaveStays /\ ReadyStaysRight
    BY <2>1, ReadyKept DEF runnerVars, nodeVars, WaveStays
  <2>3. RunnerCalls'
    BY <2>1, <2>2, PoolUntouched DEF CoreInv, RunnerCalls, CallsOfRunner, WaveStays, localVars
  <2>4. QED BY <2>1, <2>2, <2>3, PoolUntouched, PoolMoves, JobInvNext
<1>10. QED
  BY <1>1, <1>2, <1>3, <1>4, <1>5, <1>6, <1>7, <1>8, <1>9 DEF RunnerNext, RunnerStep

LEMMA RunInvariant == RunnerSpec => []RunInv
<1>1. RunnerInit => RunInv
  BY RunnerInitGives DEF RunnerInit, RunInv
<1>2. QED BY <1>1, RunInvNext, PTL DEF RunnerSpec

(* The runner uses the pool as its interface allows: it never submits a    *)
(* node again in the wave in which it was submitted, so that each of its   *)
(* steps is a step of ThreadPool, and what is proved of the pool holds     *)
(* under the runner.                                                       *)
THEOREM RunnerUsesPool == RunnerSpec => UsesPool
<1>1. RunnerInit => Init
  BY DEF RunnerInit, FreshStart
<1>2. RunInv /\ [RunnerNext]_allVars => [Next]_vars
  BY RunInvNext
<1>3. QED BY <1>1, <1>2, RunInvariant, PTL DEF RunnerSpec, UsesPool, Spec

LEMMA CoreInvOrders ==
  ASSUME JobInv, CoreInv
  PROVE  FirstWaveInOrder
<1> SUFFICES ASSUME NEW w \in Running, workerJob[w][2] = 1
             PROVE  RunsAfterDeps(w)
  BY DEF FirstWaveInOrder
<1>1. workerJob[w] \in accepted /\ workerJob[w] \in Job
  BY AcceptedJobs DEF RunningJobs
<1>2. workerJob[w] = <<workerJob[w][1], 1>> /\ workerJob[w][1] \in Node
  BY <1>1, JobShape
<1>3. QED BY <1>1, <1>2, AcceptedJobs DEF CoreInv, FirstWaveSubmitted, RunsAfterDeps

(* In the first wave a node runs only when its dependencies have, for any  *)
(* acyclic graph, any order of the list and any number of workers, and     *)
(* when the run is stopped or the scan overtakes the workers.              *)
THEOREM RunnerFirstWaveInOrder == RunnerSpec => []FirstWaveInOrder
<1>1. RunInv => FirstWaveInOrder
  BY CoreInvOrders DEF RunInv
<1>2. QED BY <1>1, RunInvariant, PTL

(* No node is ever run by two workers at the same time: all jobs in the    *)
(* pool are of one wave, in which a node has one job.                      *)
THEOREM RunnerNodesExclusive == RunnerSpec => []NodesExclusive
<1>1. RunInv => NodesExclusive
  <2> SUFFICES ASSUME RunInv, NEW v \in Running, NEW w \in Running,
                      workerJob[v][1] = workerJob[w][1]
               PROVE  v = w
    BY DEF NodesExclusive
  <2>1. /\ workerJob[v] \in accepted \ retired /\ workerJob[w] \in accepted \ retired
        /\ workerJob[v] \in Job /\ workerJob[w] \in Job
    BY AcceptedJobs DEF RunInv, JobInv, Conservation, RunningJobs
  <2>2. workerJob[v][2] = wave /\ workerJob[w][2] = wave
    BY <2>1 DEF RunInv, LiveInv, PoolHoldsThisWave
  <2>3. workerJob[v] = workerJob[w]
    BY <2>1, <2>2, JobShape
  <2>4. QED BY <2>3 DEF RunInv, JobInv, Conservation
<1>2. QED BY <1>1, RunInvariant, PTL

LEMMA DisjointCardinality ==
  ASSUME NEW S, NEW T, IsFiniteSet(S), IsFiniteSet(T), S \cap T = {}
  PROVE  IsFiniteSet(S \cup T) /\ Cardinality(S \cup T) = Cardinality(S) + Cardinality(T)
<1>1. Cardinality(S) \in Nat /\ Cardinality(T) \in Nat /\ Cardinality(S \cap T) = 0
  BY FS_CardinalityType, FS_EmptySet
<1>2. /\ IsFiniteSet(S \cup T)
      /\ Cardinality(S \cup T) = Cardinality(S) + Cardinality(T) - Cardinality(S \cap T)
  BY FS_Union, Zenon
<1>3. QED BY <1>1, <1>2

LEMMA PoolCountsJobs ==
  ASSUME JobInv
  PROVE  IsFiniteSet(accepted \ retired) /\ Cardinality(accepted \ retired) = numberOfTasks
<1> DEFINE queued == Range(scheduledJobs)
           done   == Range(doneJobs)
<1>1. /\ accepted \ retired = (queued \cup RunningJobs) \cup done
      /\ queued \cap RunningJobs = {} /\ (queued \cup RunningJobs) \cap done = {}
  BY DEF JobInv, Conservation
<1>2. /\ IsFiniteSet(queued) /\ Cardinality(queued) = Len(scheduledJobs)
      /\ IsFiniteSet(done) /\ Cardinality(done) = Len(doneJobs)
      /\ Len(scheduledJobs) \in Nat /\ Len(doneJobs) \in Nat
  BY RangeCardinality, LenProperties DEF JobInv, CountInv, TypeOK, Conservation
<1>3. IsFiniteSet(RunningJobs) /\ Cardinality(RunningJobs) = Cardinality(Running)
  <2> DEFINE f == [w \in Running |-> workerJob[w]]
  <2>1. f \in Surjection(Running, RunningJobs) /\ f \in Injection(Running, RunningJobs)
    BY DEF Surjection, Injection, IsInjective, RunningJobs, JobInv, Conservation
  <2>2. QED BY <2>1, RunningFinite, FS_Surjection
<1> HIDE DEF queued, done
<1>4. /\ IsFiniteSet(queued \cup RunningJobs)
      /\ Cardinality(queued \cup RunningJobs) = Len(scheduledJobs) + Cardinality(Running)
  BY <1>1, <1>2, <1>3, DisjointCardinality
<1>5. /\ IsFiniteSet(accepted \ retired)
      /\ Cardinality(accepted \ retired)
           = (Len(scheduledJobs) + Cardinality(Running)) + Len(doneJobs)
  <2>1. /\ IsFiniteSet((queued \cup RunningJobs) \cup done)
        /\ Cardinality((queued \cup RunningJobs) \cup done)
             = Cardinality(queued \cup RunningJobs) + Cardinality(done)
    BY <1>1, <1>2, <1>4, DisjointCardinality
  <2>2. QED BY <1>1, <1>2, <1>4, <2>1
<1>6. QED BY <1>5 DEF JobInv, CountInv, Accounting

(* The nodes that have a place in the pool or ask for one.                 *)
NodesInPool == {n \in Node : <<n, wave>> \in (accepted \ retired) \cup {clientJob[Runner]}}

(* While the runner submits a job it is the only job that asks for a place *)
(* beside those that have one, and all are of this wave.                   *)
LEMMA OneNodePerPlace ==
  ASSUME RunInv, clientPc[Runner] = "schedule"
  PROVE  /\ clientJob[Runner] = <<nodeIndex, wave>> /\ clientJob[Runner] \notin accepted
         /\ nodeIndex \in Node /\ wave \in Wave /\ IsFiniteSet(NodesInPool)
         /\ Cardinality(NodesInPool) = numberOfTasks + 1
<1> DEFINE jobs == (accepted \ retired) \cup {clientJob[Runner]}
           f == [n \in NodesInPool |-> <<n, wave>>]
<1>1. /\ clientJob[Runner] = <<nodeIndex, wave>> /\ clientJob[Runner] \notin accepted
      /\ nodeIndex \in Node /\ wave \in Wave
  BY RunnerAssumption
  DEF RunInv, JobInv, ArgsFresh, CoreInv, RunnerCalls, CallsOfRunner, RunnerTypes, WavePc
<1>2. IsFiniteSet(NodesInPool)
  BY NodesFinite, FS_Subset DEF NodesInPool
<1>3. Cardinality(jobs) = numberOfTasks + 1
  BY <1>1, PoolCountsJobs, FS_AddElement DEF RunInv
<1>4. \A j \in jobs : j[1] \in NodesInPool /\ j = <<j[1], wave>>
  <2>1. \A j \in jobs : j = <<j[1], wave>> /\ j[1] \in Node
    BY <1>1, AcceptedJobs, JobShape DEF RunInv, LiveInv, PoolHoldsThisWave
  <2>2. QED BY <2>1 DEF NodesInPool
<1>5. f \in Surjection(NodesInPool, jobs) /\ f \in Injection(NodesInPool, jobs)
  <2>1. f \in [NodesInPool -> jobs]
    BY DEF NodesInPool
  <2>2. \A j \in jobs : \E n \in NodesInPool : f[n] = j
    BY <1>4
  <2>3. \A m, n \in NodesInPool : f[m] = f[n] => m = n
    OBVIOUS
  <2>4. QED BY <2>1, <2>2, <2>3 DEF Surjection, Injection, IsInjective
<1>6. Cardinality(jobs) = Cardinality(NodesInPool)
  BY <1>2, <1>5, FS_Surjection
<1>7. QED BY <1>1, <1>2, <1>3, <1>6

(* In the first wave they are ready together: what they depend on was      *)
(* collected before they were submitted.                                   *)
LEMMA PoolNodesReady ==
  ASSUME RunInv, clientPc[Runner] = "schedule", wave = 1
  PROVE  ReadyTogether(NodesInPool)
<1> DEFINE D == {n \in Node : <<n, 1>> \in retired}
<1>1. clientJob[Runner] \notin accepted /\ retired \subseteq accepted
  BY OneNodePerPlace, AcceptedJobs DEF RunInv
<1>2. \A n \in Node : <<n, 1>> \in accepted \cup {clientJob[Runner]} => deps[n] \subseteq D
  BY DEF RunInv, CoreInv, FirstWaveSubmitted, RunnerTypes
<1>3. D \in SUBSET Node /\ \A d \in D : deps[d] \subseteq D
  BY <1>1, <1>2
<1>4. NodesInPool \cap D = {} /\ \A n \in NodesInPool : deps[n] \subseteq D
  BY <1>1, <1>2 DEF NodesInPool
<1>5. QED BY <1>3, <1>4 DEF ReadyTogether

(* The runner, which alone makes room in the pool, never has to wait for   *)
(* room: not in the first wave if the buffer holds every set of nodes that *)
(* can be ready at once, and not in a later one if it holds the list.      *)
THEOREM RunnerNeverWaits == RunnerSpec => []NeverWaitsForPlace
<1>1. RunInv => NeverWaitsForPlace
  <2> SUFFICES ASSUME RunInv, clientPc[Runner] = "schedule",
                      BufferFits \/ (wave = 1 /\ FirstWaveFits)
               PROVE  HasPlace
    BY DEF NeverWaitsForPlace
  <2>1. NodesInPool \in SUBSET Node
    BY DEF NodesInPool
  <2>2. /\ Cardinality(NodesInPool) = numberOfTasks + 1
        /\ Cardinality(NodesInPool) <= NUM_OF_NODES
    BY <2>1, OneNodePerPlace, NodesFinite, FS_Subset
  <2>3. Cardinality(NodesInPool) <= MAX_QUEUE_SIZE
    <3>1. CASE BufferFits
      BY <2>2, <3>1, PoolAssumption, NodesFinite, OneNodePerPlace, FS_CardinalityType DEF BufferFits
    <3>2. CASE wave = 1 /\ FirstWaveFits
      BY <2>1, <3>2, PoolNodesReady DEF FirstWaveFits
    <3>3. QED BY <3>1, <3>2
  <2>4. numberOfTasks \in Nat /\ Len(scheduledJobs) \in Nat /\ Len(scheduledJobs) <= numberOfTasks
    BY LenProperties, RunningFinite DEF RunInv, JobInv, CountInv, TypeOK, Accounting
  <2>5. QED BY <2>2, <2>3, <2>4, PoolAssumption DEF HasPlace
<1>2. QED BY <1>1, RunInvariant, PTL

--------------------------------------------------------------------------------
(* Runs in sequence on a pool that others use too: SessionSpec.            *)

(* Jobs may be left over, so that LiveInv does not hold.  What does is a   *)
(* count: the jobs in the pool and those the runner has counted in this    *)
(* wave are at most those it submitted in it and those it found.           *)
SubmittedNodes == {n \in Node : <<n, wave>> \in accepted}

CountedJobs == IF runnerPc = "setDone" THEN numberOfTasksDone + 1 ELSE numberOfTasksDone

JobsCounted ==
  runnerPc \in WavePc =>
    numberOfTasks + CountedJobs <= leftovers + Cardinality(SubmittedNodes)

EndsOnCount == runnerPc = "waveEnd" /\ ~runStopFlag => ~WaveOpen

WaveCounts ==
  /\ numberOfTasksDone \in Nat /\ leftovers \in Nat
  /\ JobsCounted /\ EndsOnCount

SessionInv == JobInv /\ CoreInv /\ WaveCounts

LEMMA SubmittedFinite ==
  /\ SubmittedNodes \in SUBSET Node /\ IsFiniteSet(SubmittedNodes)
  /\ Cardinality(SubmittedNodes) \in Nat /\ Cardinality(SubmittedNodes) <= NUM_OF_NODES
<1>1. SubmittedNodes \in SUBSET Node
  BY DEF SubmittedNodes
<1>2. QED BY <1>1, NodesFinite, FS_Subset, FS_CardinalityType

PoolCount == Cardinality(accepted \ retired) = numberOfTasks

LEMMA PoolCountNext == JobInv' => PoolCount'
<1>1. JobInv => PoolCount
  BY PoolCountsJobs DEF PoolCount
<1>2. QED BY <1>1, PTL

(* A wave goes on: no job, or one of this wave, is added.                  *)
LEMMA CountsStay ==
  ASSUME JobInv, JobInv', CoreInv, WaveCounts, UNCHANGED <<retired, wave, leftovers>>,
         accepted' \in {accepted, accepted \cup {<<nodeIndex, wave>>}},
         numberOfTasksDone' \in Nat, CountedJobs' = CountedJobs,
         runnerPc' \in WavePc => runnerPc \in WavePc, EndsOnCount'
  PROVE  WaveCounts'
<1> DEFINE pool == accepted \ retired
           j == <<nodeIndex, wave>>
<1>1. /\ numberOfTasks \in Nat /\ numberOfTasks' \in Nat /\ CountedJobs \in Nat
      /\ IsFiniteSet(pool) /\ Cardinality(pool) = numberOfTasks
      /\ Cardinality(accepted' \ retired') = numberOfTasks'
  <2>1. IsFiniteSet(pool) /\ Cardinality(pool) = numberOfTasks
    BY PoolCountsJobs
  <2>2. Cardinality(accepted' \ retired') = numberOfTasks'
    BY PoolCountNext DEF PoolCount
  <2>3. numberOfTasks \in Nat /\ numberOfTasks' \in Nat /\ CountedJobs \in Nat
    BY DEF JobInv, CountInv, TypeOK, WaveCounts, CountedJobs
  <2>4. QED BY <2>1, <2>2, <2>3
<1>2. CASE accepted' = accepted
  <2>1. numberOfTasks' = numberOfTasks /\ SubmittedNodes' = SubmittedNodes
    BY <1>1, <1>2 DEF SubmittedNodes
  <2>2. QED BY <2>1 DEF WaveCounts, JobsCounted
<1>3. CASE accepted' = accepted \cup {j} /\ j \notin accepted
  <2>1. accepted' \ retired' = pool \cup {j} /\ j \notin pool
    BY <1>3, AcceptedJobs
  <2>2. numberOfTasks' = numberOfTasks + 1
    BY <1>1, <2>1, FS_AddElement
  <2>3. SubmittedNodes' = SubmittedNodes \cup {nodeIndex} /\ nodeIndex \notin SubmittedNodes
    BY <1>3 DEF SubmittedNodes, CoreInv, RunnerTypes
  <2>4. Cardinality(SubmittedNodes') = Cardinality(SubmittedNodes) + 1
    BY <2>3, SubmittedFinite, FS_AddElement
  <2>5. QED BY <1>1, <2>2, <2>4, SubmittedFinite DEF WaveCounts, JobsCounted
<1>4. QED BY <1>2, <1>3

(* A job, of this wave or not, moves from the pool to the count.           *)
LEMMA CollectCounts ==
  ASSUME JobInv, WaveCounts, Collect, UNCHANGED leftovers
  PROVE  WaveCounts'
<1>1. /\ UNCHANGED <<accepted, wave, numberOfTasksDone>> /\ numberOfTasks' = numberOfTasks - 1
      /\ runnerPc = "drain" /\ runnerPc' = "setDone"
  BY TakeDoneHandsOver DEF Collect, TryGetNextDoneTask, TakeDone
<1>2. SubmittedNodes' = SubmittedNodes
  BY <1>1 DEF SubmittedNodes
<1>3. numberOfTasks \in Nat
  BY DEF JobInv, CountInv, TypeOK
<1>4. QED
  BY <1>1, <1>2, <1>3, SubmittedFinite
  DEF WaveCounts, JobsCounted, EndsOnCount, CountedJobs, WavePc

LEMMA WaveStepCounts ==
  ASSUME SessionInv, JobInv', WaveStep, UNCHANGED leftovers
  PROVE  WaveCounts'
<1> USE DEF SessionInv, WavePc
<1>1. CASE LoopTest
  <2>1. UNCHANGED <<accepted, retired>> /\ EndsOnCount'
    BY <1>1, PoolUntouched DEF LoopTest, EndsOnCount, WaveOpen
  <2>2. QED BY <1>1, <2>1, CountsStay DEF LoopTest, CountedJobs, WaveCounts
<1>2. CASE Scheduled \/ ScanSkip
  <2>1. UNCHANGED <<accepted, retired>> /\ EndsOnCount'
    BY <1>2, PoolUntouched, AdvanceGoes DEF Scheduled, ScanSkip, EndsOnCount
  <2>2. QED BY <1>2, <2>1, CountsStay, AdvanceGoes DEF Scheduled, ScanSkip, CountedJobs, WaveCounts
<1>3. CASE ScanSchedule
  <2>1. UNCHANGED <<accepted, retired>>
    BY <1>3 DEF ScanSchedule, CallScheduleTask, historyVars
  <2>2. QED
    BY <1>3, <2>1, CountsStay DEF ScanSchedule, localVars, CountedJobs, WaveCounts, EndsOnCount
<1>4. CASE Collect
  BY <1>4, CollectCounts
<1>5. CASE CollectNothing
  <2>1. UNCHANGED <<accepted, retired>>
    BY <1>5, PoolUntouched DEF CollectNothing, TryGetNothing
  <2>2. QED
    BY <1>5, <2>1, CountsStay
    DEF CollectNothing, localVars, CountedJobs, WaveCounts, EndsOnCount
<1>6. CASE SetDone
  <2>1. UNCHANGED <<accepted, retired>>
    BY <1>6, PoolUntouched DEF SetDone
  <2>2. QED BY <1>6, <2>1, CountsStay DEF SetDone, CountedJobs, WaveCounts, EndsOnCount
<1>7. CASE ClientStep(Runner) /\ runnerPc \in {"schedule", "setDone"} /\ UNCHANGED runnerVars
  <2>1. /\ UNCHANGED <<wave, numberOfTasksDone, runnerPc>>
        /\ CountedJobs' = CountedJobs /\ EndsOnCount'
    BY <1>7 DEF runnerVars, localVars, CountedJobs, EndsOnCount
  <2>2. retired' = retired /\ accepted' \in {accepted, accepted \cup {<<nodeIndex, wave>>}}
    BY <1>7, RunnerCallEffects
  <2>3. QED BY <2>1, <2>2, CountsStay DEF WaveCounts
<1>8. QED BY <1>1, <1>2, <1>3, <1>4, <1>5, <1>6, <1>7 DEF WaveStep

(* The pool or the stop flag moves under a wave.                           *)
LEMMA CountsKept ==
  ASSUME SessionInv, JobInv',
         UNCHANGED <<accepted, retired, localVars, wave, runnerPc, leftovers>>,
         runStopFlag => runStopFlag'
  PROVE  WaveCounts'
<1>1. /\ UNCHANGED <<wave, numberOfTasksDone, runnerPc>>
      /\ CountedJobs' = CountedJobs
  BY DEF localVars, CountedJobs
<1>2. EndsOnCount'
  BY <1>1 DEF SessionInv, WaveCounts, EndsOnCount, WaveOpen
<1>3. QED BY <1>1, <1>2, CountsStay DEF SessionInv, WaveCounts

(* Outside a wave nothing is counted.                                      *)
LEMMA CountsOff ==
  ASSUME runnerPc' \notin WavePc, numberOfTasksDone' \in Nat, leftovers' \in Nat
  PROVE  WaveCounts'
BY DEF WaveCounts, JobsCounted, EndsOnCount, WavePc

(* A wave begins: all that is in the pool was found there.                 *)
LEMMA BeginWaveCounts ==
  ASSUME SessionInv, BeginWave, leftovers' \in Nat, numberOfTasks <= leftovers'
  PROVE  WaveCounts'
<1>1. /\ numberOfTasks' = numberOfTasks /\ numberOfTasks \in Nat
      /\ numberOfTasksDone' = 0 /\ runnerPc' = "loop"
  BY DEF BeginWave, ResetLocals, vars, queueVars, SessionInv, JobInv, CountInv, TypeOK
<1>2. Cardinality(SubmittedNodes') \in Nat
  <2>1. SubmittedNodes' \in SUBSET Node
    BY DEF SubmittedNodes
  <2>2. QED BY <2>1, NodesFinite, FS_Subset, FS_CardinalityType
<1>3. QED BY <1>1, <1>2 DEF WaveCounts, JobsCounted, EndsOnCount, CountedJobs, WavePc

(* A wave that nobody stopped leaves no more in the pool than it found.    *)
LEMMA WaveLeavesNoMore ==
  ASSUME SessionInv, runnerPc = "waveEnd", ~runStopFlag
  PROVE  numberOfTasks <= leftovers
<1>1. /\ numberOfTasks + numberOfTasksDone <= leftovers + Cardinality(SubmittedNodes)
      /\ ~(numberOfTasksDone < NUM_OF_NODES)
  BY DEF SessionInv, WaveCounts, JobsCounted, EndsOnCount, CountedJobs, WaveOpen, WavePc
<1>2. numberOfTasks \in Nat /\ numberOfTasksDone \in Nat /\ leftovers \in Nat
  BY DEF SessionInv, WaveCounts, JobInv, CountInv, TypeOK
<1>3. QED BY <1>1, <1>2, SubmittedFinite, NodesFinite

(* What other threads do to the pool gives it no job and takes none.       *)
LEMMA OtherMoves ==
  ASSUME JobInv, CoreInv, NEW c \in Client, c # Runner,
         \/ Shutdown(c) \/ ClientStep(c) \/ RaiseStopFlag(c)
         \/ \E flag \in BOOLEAN : CallWaitForAllTasks(c, flag)
  PROVE  /\ UNCHANGED <<doneJobs, accepted, retired, clientJob>>
         /\ clientPc'[c] \in {"idle", "waitAll", "shutdown"}
         /\ \A d \in Client \ {c} : clientPc'[d] = clientPc[d]
<1> USE DEF queueVars, clientVars, historyVars
<1>ty. TypeOK /\ clientPc[c] \in {"idle", "waitAll", "shutdown"}
  BY DEF JobInv, CountInv, CoreInv, RunnerCalls
<1>1. CASE Shutdown(c) \/ \E flag \in BOOLEAN : CallWaitForAllTasks(c, flag)
  BY <1>1, <1>ty DEF Shutdown, CallWaitForAllTasks, Goto, TypeOK
<1>2. CASE RaiseStopFlag(c)
  BY <1>2, <1>ty DEF RaiseStopFlag
<1>3. CASE WaitAllSleep(c)
  BY <1>3, <1>ty DEF WaitAllSleep
<1>4. CASE WaitAllReturn(c) \/ NotifyShutdown(c)
  BY <1>4, <1>ty DEF WaitAllReturn, NotifyShutdown, Goto, TypeOK
<1>5. CASE \/ ScheduleSleep(c) \/ ScheduleStopped(c) \/ ScheduleAccept(c) \/ NotifyAdd(c)
           \/ GetDoneSleep(c) \/ GetDoneStopped(c) \/ GetDoneTake(c) \/ NotifyPoped(c)
           \/ Joined(c)
  BY <1>5, <1>ty DEF ScheduleSleep, ScheduleStopped, ScheduleAccept, NotifyAdd, GetDoneSleep,
     GetDoneStopped, GetDoneTake, NotifyPoped, Joined, AtSchedule, AtGetDone
<1>6. QED BY <1>1, <1>2, <1>3, <1>4, <1>5 DEF ClientStep

LEMMA OtherKeepsRun ==
  ASSUME JobInv, CoreInv, UNCHANGED runnerVars, NEW c \in Client, c # Runner,
         \/ Shutdown(c) \/ ClientStep(c) \/ RaiseStopFlag(c)
         \/ \E flag \in BOOLEAN : CallWaitForAllTasks(c, flag)
  PROVE  CoreInv' /\ (LiveInv => LiveInv')
<1>1. /\ UNCHANGED <<doneJobs, accepted, retired, clientJob>>
      /\ clientPc'[c] \in {"idle", "waitAll", "shutdown"}
      /\ \A d \in Client \ {c} : clientPc'[d] = clientPc[d]
  BY OtherMoves
<1>2. WaveStays /\ ReadyStaysRight
  BY ReadyKept DEF runnerVars, nodeVars, WaveStays
<1>3. RunnerCalls'
  BY <1>1, <1>2, RunnerAssumption
  DEF CoreInv, RunnerCalls, CallsOfRunner, WaveStays, localVars
<1>4. QED BY <1>1, <1>2, <1>3, PoolMoves

(* The caller's own use of the pool between two runs.                      *)
LEMMA CallerKeepsRun ==
  ASSUME JobInv, CoreInv, UNCHANGED runnerVars, runnerPc = "returned",
         \/ Shutdown(Runner) \/ TryGetNextDoneTask(Runner) \/ RaiseStopFlag(Runner)
         \/ \E flag \in BOOLEAN : CallWaitForAllTasks(Runner, flag)
  PROVE  CoreInv'
<1> USE DEF queueVars, clientVars, historyVars
<1>1. WaveStays /\ ReadyStaysRight /\ TypeOK /\ Runner \in Client
  BY ReadyKept, RunnerAssumption DEF runnerVars, nodeVars, WaveStays, JobInv, CountInv
<1>2. CASE TryGetNextDoneTask(Runner)
  <2>1. /\ UNCHANGED <<accepted, clientJob>> /\ retired \subseteq retired'
        /\ clientPc' = [clientPc EXCEPT ![Runner] = "notifyPoped"]
    BY <1>2, TakeDoneHandsOver DEF TryGetNextDoneTask
  <2>2. clientPc[Runner] = "idle"
    BY <1>2 DEF TryGetNextDoneTask, Idle
  <2>3. RunnerCalls'
    BY <1>1, <2>1, <2>2 DEF CoreInv, RunnerCalls, CallsOfRunner, WaveStays, localVars, TypeOK
  <2>4. QED BY <1>1, <2>1, <2>3, PoolMoves
<1>3. CASE \/ Shutdown(Runner) \/ RaiseStopFlag(Runner)
           \/ \E flag \in BOOLEAN : CallWaitForAllTasks(Runner, flag)
  <2>1. /\ UNCHANGED <<doneJobs, accepted, retired, clientJob>>
        /\ clientPc[Runner] # "schedule"
        /\ clientPc'[Runner] \in {"waitAll", "shutdown"}
        /\ \A d \in Client \ {Runner} : clientPc'[d] = clientPc[d]
    BY <1>1, <1>3
    DEF Shutdown, RaiseStopFlag, CallWaitForAllTasks, Idle, Goto, TypeOK
  <2>2. RunnerCalls'
    BY <1>1, <2>1 DEF CoreInv, RunnerCalls, CallsOfRunner, WaveStays, localVars
  <2>3. QED BY <1>1, <2>1, <2>2, PoolMoves
<1>4. QED BY <1>2, <1>3

(* m_ready, m_done and the jobs stay when the run returns, its locals go.  *)
LEMMA RunReturnsKeepsRun ==
  ASSUME JobInv, CoreInv, SessionRunReturns
  PROVE  CoreInv'
<1> USE DEF SessionRunReturns, ResetLocals, nodeVars
<1>1. UNCHANGED <<accepted, retired, clientPc, clientJob>>
  BY PoolUntouched
<1>2. RunnerTypes'
  BY RunnerAssumption DEF CoreInv, RunnerTypes, NoFlags, Node, WavePc
<1>3. RunnerCalls' /\ JobsFlagged' /\ NoJobAhead' /\ JobAtHand'
  BY <1>1 DEF CoreInv, RunnerCalls, CallsOfRunner, JobsFlagged, NoJobAhead, JobAtHand, WavePc
<1>4. FirstWaveFlags' /\ FirstWaveSubmitted'
  BY <1>1 DEF CoreInv, FirstWaveFlags, FirstWaveSubmitted
<1>5. QED BY <1>2, <1>3, <1>4 DEF CoreInv

LEMMA LowerFlagKeepsRun ==
  ASSUME JobInv, CoreInv, LowerRunStopFlag
  PROVE  CoreInv'
<1> USE DEF LowerRunStopFlag, nodeVars, localVars
<1>1. UNCHANGED <<accepted, retired, clientPc, clientJob>>
  BY PoolUntouched
<1>2. RunnerTypes' /\ RunnerCalls'
  BY <1>1 DEF CoreInv, RunnerTypes, RunnerCalls, CallsOfRunner
<1>3. /\ JobsFlagged' /\ NoJobAhead' /\ JobAtHand' /\ FirstWaveFlags'
      /\ FirstWaveSubmitted'
  BY <1>1 DEF CoreInv, JobsFlagged, NoJobAhead, JobAtHand, FirstWaveFlags, FirstWaveSubmitted
<1>4. QED BY <1>2, <1>3 DEF CoreInv

(* A call of either method.                                                *)
LEMMA CallRunKeepsSession ==
  ASSUME SessionInv, NEW m, NEW n, CallRun(m, n), wave < NumWaves
  PROVE  SessionInv' /\ UNCHANGED vars
<1> USE DEF CallRun, SessionInv
<1>1. BeginWave /\ clientPc[Runner] = "idle" /\ runnerPc = "returned" /\ UNCHANGED vars
  BY DEF Idle, BeginWave
<1>2. CoreInv'
  BY <1>1, BeginWaveStarts
<1>3. WaveCounts'
  BY BeginWaveCounts DEF JobInv, CountInv, TypeOK
<1>4. QED BY <1>1, <1>2, <1>3, JobInvNext

LEMMA SessionInvNext ==
  ASSUME SessionInv, [SessionNext]_sessionVars
  PROVE  SessionInv' /\ [Next]_vars
<1> USE DEF SessionInv, callVars
<1>nat. wave \in Int /\ Runner \in Client
  BY RunnerAssumption DEF CoreInv, RunnerTypes
<1>1. CASE \E n \in 1 .. NumWaves : wave + n <= NumWaves /\ CallRun("NTimes", n)
  <2>1. PICK n \in 1 .. NumWaves : wave + n <= NumWaves /\ CallRun("NTimes", n)
    BY <1>1
  <2>2. wave < NumWaves
    BY <1>nat, <2>1, RunnerAssumption
  <2>3. QED BY <2>1, <2>2, CallRunKeepsSession
<1>2. CASE wave < NumWaves /\ CallRun("Loop", 1)
  BY <1>2, CallRunKeepsSession
<1>3. CASE WaveStep /\ UNCHANGED callVars
  <2>1. CoreInv' /\ JobInv' /\ [Next]_vars
    BY <1>3, WaveKeepsRun, WaveStepsPool, JobInvNext
  <2>2. QED BY <1>3, <2>1, WaveStepCounts
<1>4. CASE SessionNextWave
  <2>1. UNCHANGED vars /\ ~runStopFlag /\ clientPc[Runner] = "idle" /\ runnerPc \in WavePc
        /\ runnerPc = "waveEnd" /\ BeginWave /\ wave < NumWaves
    BY <1>4 DEF SessionNextWave, KeepsLooping, BeginWave, CoreInv, RunnerCalls, CallsOfRunner,
       WavePc
  <2>2. WaveCounts'
    BY <1>4, <2>1, WaveLeavesNoMore, BeginWaveCounts DEF SessionNextWave, WaveCounts
  <2>3. QED BY <2>1, <2>2, BeginWaveStarts, JobInvNext
<1>5. CASE SessionRunReturns
  <2>1. UNCHANGED vars /\ WaveCounts'
    BY <1>5, CountsOff DEF SessionRunReturns, ResetLocals, WavePc
  <2>2. QED BY <1>5, <2>1, RunReturnsKeepsRun, JobInvNext
<1>6. CASE /\ ClientStep(Runner) /\ runnerPc \in {"returned", "destroying"}
           /\ UNCHANGED <<runnerVars, callVars>>
  <2>1. WaveCounts'
    BY <1>6, CountsOff DEF runnerVars, localVars, WaveCounts, WavePc
  <2>2. QED BY <1>6, <2>1, <1>nat, CallKeepsRun, JobInvNext DEF Next
<1>7. CASE CallerUsesPool
  <2>1. Next
    BY <1>7, <1>nat DEF CallerUsesPool, Next, ClientCall
  <2>2. CoreInv' /\ WaveCounts'
    BY <1>7, CallerKeepsRun, CountsOff
    DEF CallerUsesPool, runnerVars, localVars, WaveCounts, WavePc
  <2>3. QED BY <2>1, <2>2, JobInvNext
<1>8. CASE LowerRunStopFlag
  <2>1. UNCHANGED vars /\ WaveCounts'
    BY <1>8, CountsOff DEF LowerRunStopFlag, localVars, WaveCounts, WavePc
  <2>2. QED BY <1>8, <2>1, LowerFlagKeepsRun, JobInvNext
<1>9. CASE DestroyPool /\ UNCHANGED callVars
  <2>1. WaveCounts'
    BY <1>9, CountsOff DEF DestroyPool, localVars, WaveCounts, WavePc
  <2>2. QED BY <1>9, <2>1, DestroyPoolKeepsRun, JobInvNext
<1>10. CASE RaiseRunStopFlag /\ UNCHANGED callVars
  <2>1. UNCHANGED vars /\ UNCHANGED <<accepted, retired>> /\ JobInv'
    BY <1>10, PoolUntouched, JobInvNext DEF RaiseRunStopFlag
  <2>2. QED BY <1>10, <2>1, FlagKeepsRun, CountsKept DEF RaiseRunStopFlag
<1>11. CASE \E c \in Client : OtherUsesPool(c)
  <2>1. PICK c \in Client : OtherUsesPool(c)
    BY <1>11
  <2>2. JobInv' /\ Next
    BY <2>1, JobInvNext DEF OtherUsesPool, Next, ClientCall
  <2>3. QED BY <2>1, <2>2, OtherMoves, OtherKeepsRun, CountsKept DEF OtherUsesPool, runnerVars
<1>12. CASE \E c \in Client : RaiseStopFlag(c) /\ UNCHANGED <<runnerVars, callVars>>
  <2>1. PICK c \in Client : RaiseStopFlag(c) /\ UNCHANGED <<runnerVars, callVars>>
    BY <1>12
  <2>2. Next /\ JobInv'
    BY <2>1, JobInvNext DEF Next
  <2>3. CASE c # Runner
    BY <2>1, <2>2, <2>3, OtherMoves, OtherKeepsRun, CountsKept DEF runnerVars
  <2>4. CASE c = Runner
    <3>1. runnerPc = "returned"
      BY <2>1, <2>4 DEF RaiseStopFlag, CoreInv, RunnerTypes, RunnerCalls, CallsOfRunner, WavePc
    <3>2. WaveCounts'
      BY <2>1, <3>1, CountsOff DEF runnerVars, localVars, WaveCounts, WavePc
    <3>3. QED BY <2>1, <2>2, <2>4, <3>1, <3>2, CallerKeepsRun
  <2>5. QED BY <2>3, <2>4
<1>13. CASE \E w \in Worker : NodeWorkerStep(w) /\ UNCHANGED callVars
  <2>1. PICK w \in Worker : NodeWorkerStep(w) /\ UNCHANGED callVars
    BY <1>13
  <2>2. CoreInv' /\ JobInv' /\ Next
    BY <2>1, WorkerKeepsRun, NodeWorkerStepsPool, JobInvNext
  <2>3. UNCHANGED <<accepted, retired, localVars, wave, runStopFlag, runnerPc>>
    BY <2>1, WorkerEffects DEF NodeWorkerStep, WorkerStep, runnerVars
  <2>4. QED BY <2>1, <2>2, <2>3, CountsKept
<1>14. CASE \E t \in Worker \cup Client : SpuriousWakeup(t) /\ UNCHANGED <<runnerVars, callVars>>
  <2>1. Next /\ JobInv'
    BY <1>14, JobInvNext DEF Next
  <2>2. UNCHANGED <<accepted, retired>>
    BY <1>14 DEF SpuriousWakeup, historyVars
  <2>3. QED BY <1>14, <2>1, <2>2, WakeupKeepsRun, CountsKept DEF runnerVars
<1>15. CASE UNCHANGED sessionVars
  <2>1. UNCHANGED vars /\ UNCHANGED runnerVars /\ UNCHANGED leftovers
    BY <1>15 DEF sessionVars, allVars
  <2>2. WaveStays /\ ReadyStaysRight
    BY <2>1, ReadyKept DEF runnerVars, nodeVars, WaveStays
  <2>3. RunnerCalls'
    BY <2>1, <2>2, PoolUntouched DEF CoreInv, RunnerCalls, CallsOfRunner, WaveStays, localVars
  <2>4. CoreInv' /\ JobInv'
    BY <2>1, <2>2, <2>3, PoolUntouched, PoolMoves, JobInvNext
  <2>5. QED BY <2>1, <2>4, PoolUntouched, CountsKept DEF runnerVars
<1>16. QED
  BY <1>1, <1>2, <1>3, <1>4, <1>5, <1>6, <1>7, <1>8, <1>9, <1>10, <1>11, <1>12, <1>13, <1>14,
     <1>15 DEF SessionNext, SessionStep

LEMMA SessionInvariant == SessionSpec => []SessionInv
<1>1. SessionInit => SessionInv
  <2> SUFFICES ASSUME SessionInit PROVE SessionInv
    OBVIOUS
  <2>1. JobInv /\ CoreInv
    BY RunnerInitGives DEF SessionInit
  <2>2. WaveCounts
    BY DEF SessionInit, FreshStart, WaveCounts, JobsCounted, EndsOnCount, WavePc
  <2>3. QED BY <2>1, <2>2 DEF SessionInv
<1>2. QED BY <1>1, SessionInvNext, PTL DEF SessionSpec

(* The same for a program of many runs, whose caller and whose other       *)
(* threads stop the pool, wait for it, or collect from it between two      *)
(* runs: every step is a step of ThreadPool.                               *)
THEOREM SessionsUsePool == SessionSpec => UsesPool
<1>1. SessionInit => Init
  BY DEF SessionInit, FreshStart
<1>2. SessionInv /\ [SessionNext]_sessionVars => [Next]_vars
  BY SessionInvNext
<1>3. QED BY <1>1, <1>2, SessionInvariant, PTL DEF SessionSpec, UsesPool, Spec

(* The first wave of all runs keeps the order of the graph also when it is *)
(* cut short, or when the pool is stopped under it and refuses its jobs.   *)
THEOREM SessionsFirstWaveInOrder == SessionSpec => []FirstWaveInOrder
<1>1. SessionInv => FirstWaveInOrder
  BY CoreInvOrders DEF SessionInv
<1>2. QED BY <1>1, SessionInvariant, PTL

(* A wave that ends on its count lacks at most as many nodes as there were *)
(* jobs in the pool when the run began, whatever earlier runs left undone  *)
(* and whoever stops the pool.  JobsCounted is why: of the nodes that it   *)
(* submitted, those it has not collected are still in the pool.            *)
THEOREM SessionWavesEndAllRan == SessionSpec => WavesEndAllRan
<1> DEFINE A == LoopTest /\ ~WaveOpen => Cardinality(Uncollected) <= leftovers
<1>1. SessionInv => A
  <2> SUFFICES ASSUME SessionInv, LoopTest, ~WaveOpen
               PROVE  Cardinality(Uncollected) <= leftovers
    OBVIOUS
  <2> DEFINE inPool == {n \in Node : <<n, wave>> \in accepted \ retired}
             skipped == Node \ SubmittedNodes
  <2>1. /\ numberOfTasks + numberOfTasksDone <= leftovers + Cardinality(SubmittedNodes)
        /\ NUM_OF_NODES <= numberOfTasksDone /\ numberOfTasksDone \in Nat
        /\ leftovers \in Nat /\ numberOfTasks \in Nat
    BY NodesFinite
    DEF SessionInv, WaveCounts, JobsCounted, CountedJobs, LoopTest, WaveOpen, WavePc, JobInv,
        CountInv, TypeOK
  <2>2. IsFiniteSet(accepted \ retired) /\ Cardinality(accepted \ retired) = numberOfTasks
    BY PoolCountsJobs DEF SessionInv
  <2>3. Cardinality(inPool) \in Nat /\ Cardinality(inPool) <= numberOfTasks
    <3>1. [n \in inPool |-> <<n, wave>>] \in Injection(inPool, accepted \ retired)
      BY DEF Injection, IsInjective
    <3>2. IsFiniteSet(inPool)
      BY NodesFinite, FS_Subset
    <3>3. Cardinality(inPool) <= Cardinality(accepted \ retired)
      BY <2>2, <3>1, FS_Injection
    <3>4. QED BY <2>2, <3>2, <3>3, FS_CardinalityType
  <2>4. Cardinality(skipped) = NUM_OF_NODES - Cardinality(SubmittedNodes)
    <3>1. Cardinality(skipped) = Cardinality(Node) - Cardinality(Node \cap SubmittedNodes)
      BY NodesFinite, FS_Difference
    <3>2. Node \cap SubmittedNodes = SubmittedNodes
      BY SubmittedFinite
    <3>3. QED BY <3>1, <3>2, NodesFinite
  <2>5. Uncollected = skipped \cup inPool /\ skipped \cap inPool = {}
    BY AcceptedJobs DEF Uncollected, SubmittedNodes, SessionInv
  <2>6. Cardinality(Uncollected) = Cardinality(skipped) + Cardinality(inPool)
    <3>1. IsFiniteSet(skipped) /\ IsFiniteSet(inPool)
      BY NodesFinite, FS_Subset
    <3>2. QED BY <2>5, <3>1, DisjointCardinality
  <2> HIDE DEF inPool, skipped
  <2>7. QED BY <2>1, <2>3, <2>4, <2>6, NodesFinite, SubmittedFinite
<1>2. SessionSpec => [][A]_sessionVars
  BY <1>1, SessionInvariant, PTL
<1>3. QED BY <1>2 DEF WavesEndAllRan

--------------------------------------------------------------------------------
(* The runner with its profiler: ProfiledSpec.                             *)

LEMMA ProfiledStepsRunner ==
  ASSUME [ProfiledNext]_profiledVars
  PROVE  [RunnerNext]_allVars
BY DEF ProfiledNext, ProfiledRunnerStep, SetDoneAndLog, DestroyRunner, WaveStep, RunnerStep,
   RunnerNext, profiledVars

(* The log takes time, and may block, but gives the runner no behaviour    *)
(* that it does not have without it; so a profiled run keeps the order of  *)
(* the first wave and runs no node twice at once.                          *)
THEOREM ProfiledIsRunner == ProfiledSpec => RunnerSpec
<1>1. ProfiledInit => RunnerInit
  BY DEF ProfiledInit
<1>2. QED BY <1>1, ProfiledStepsRunner, PTL DEF ProfiledSpec, RunnerSpec

LogCallPc == {"idle", "logJob", "notifyAdd", "destroy", "joining", "destroyed"}

(* The log lacks the job that logJob() is called with, or the one that was *)
(* collected and not yet noted as done.  m_stop of the profiler is raised  *)
(* by its destructor only.                                                 *)
JobsGivenToLog ==
  /\ logged \in Seq(SyncJob)
  /\ logPc \in [{Runner} -> LogCallPc] /\ logJob \in [{Runner} -> SyncJob \cup {NoJob}]
  /\ logStop => logPc[Runner] \in {"destroy", "joining", "destroyed"}
  /\ IF logPc[Runner] = "logJob"
     THEN /\ logJob[Runner] \in SyncJob /\ doneJob = NoJob
          /\ Range(logged) \cup {logJob[Runner]} = retired
     ELSE Range(logged) = retired \ {doneJob}

LEMMA OtherStepsCollectNone ==
  ASSUME RunInv, RunnerStep, ~(runnerPc = "setDone" /\ Returned)
  PROVE  retired' \ {doneJob'} = retired \ {doneJob}
<1> USE DEF RunInv, nodeVars, localVars
<1>1. CASE LoopTest \/ Scheduled \/ ScanSkip \/ NextWave \/ RunEnds
  BY <1>1, PoolUntouched DEF LoopTest, Scheduled, ScanSkip, NextWave, BeginWave, RunEnds
<1>2. CASE ScanSchedule
  BY <1>2 DEF ScanSchedule, CallScheduleTask, historyVars
<1>3. CASE Collect
  <2>1. /\ Head(doneJobs) \in accepted \ retired /\ retired' = retired \cup {Head(doneJobs)}
        /\ doneJob' = Head(doneJobs) /\ doneJob = NoJob
    BY <1>3, TakeDoneHandsOver DEF Collect, TryGetNextDoneTask, CoreInv, JobAtHand
  <2>2. NoJob \notin retired
    BY AcceptedJobs, PoolAssumption
  <2>3. QED BY <2>1, <2>2
<1>4. CASE CollectNothing
  BY <1>4, PoolUntouched DEF CollectNothing, TryGetNothing
<1>5. CASE DestroyPool
  BY <1>5 DEF DestroyPool, Destroy, historyVars
<1>6. CASE ClientStep(Runner) /\ UNCHANGED runnerVars
  <2>1. retired' = retired
    BY <1>6, RunnerCallEffects
  <2>2. QED BY <1>6, <2>1 DEF runnerVars
<1>7. CASE SetDone
  BY <1>7 DEF SetDone
<1>8. QED
  BY <1>1, <1>2, <1>3, <1>4, <1>5, <1>6, <1>7 DEF RunnerStep, WaveStep

LEMMA LogVarsKept ==
  ASSUME JobsGivenToLog, UNCHANGED <<logged, logPc, logJob, logStop>>,
         retired' \ {doneJob'} = retired \ {doneJob},
         logPc[Runner] # "logJob" \/ UNCHANGED <<retired, doneJob>>
  PROVE  JobsGivenToLog'
BY DEF JobsGivenToLog

LEMMA ProfiledInvNext ==
  ASSUME RunInv, JobsGivenToLog, [ProfiledNext]_profiledVars
  PROVE  JobsGivenToLog' /\ [Log!Next]_(Log!vars)
<1>jobs. retired \subseteq SyncJob /\ NoJob \notin retired
  BY AcceptedJobs, JobShape, PoolAssumption DEF RunInv
<1>vars. ASSUME UNCHANGED logVars
         PROVE  UNCHANGED <<logged, logPc, logJob, logStop>> /\ UNCHANGED (Log!vars)
  BY <1>vars DEF logVars, Log!vars, Log!loggerVars, Log!clientVars
<1>all. ASSUME UNCHANGED allVars
        PROVE  UNCHANGED <<retired, doneJob>>
  BY <1>all DEF allVars, vars, historyVars, runnerVars, localVars
<1>1. CASE LogIdle /\ ~(runnerPc = "setDone" /\ Returned) /\ RunnerStep /\ UNCHANGED logVars
  BY <1>1, <1>vars, OtherStepsCollectNone, LogVarsKept DEF LogIdle
<1>2. CASE LogIdle /\ SetDoneAndLog
  <2>1. doneJob \in retired /\ retired' = retired /\ doneJob' = NoJob
    BY <1>2, PoolUntouched DEF SetDoneAndLog, SetDone, RunInv, CoreInv, JobAtHand
  <2>2. Log!CallLogJob(Runner, doneJob)
    BY <1>2 DEF SetDoneAndLog
  <2>3. [Log!Next]_(Log!vars)
    BY <1>jobs, <2>1, <2>2 DEF Log!Next, Log!ClientCall
  <2>4. /\ logPc' = [logPc EXCEPT ![Runner] = "logJob"]
        /\ logJob' = [logJob EXCEPT ![Runner] = doneJob]
        /\ logged' = logged /\ logStop' = logStop /\ logPc[Runner] = "idle"
    BY <1>2, <2>2 DEF Log!CallLogJob, Log!Goto, LogIdle
  <2>5. QED BY <1>jobs, <2>1, <2>3, <2>4 DEF JobsGivenToLog, LogCallPc
<1>3. CASE Log!ClientStep(Runner) /\ UNCHANGED allVars
  <2>1. [Log!Next]_(Log!vars)
    BY <1>3 DEF Log!Next
  <2>2. UNCHANGED <<retired, doneJob>>
    BY <1>3, <1>all
  <2>3. CASE Log!LogSleep(Runner)
    <3>1. UNCHANGED <<logged, logPc, logJob, logStop>>
      BY <2>3 DEF Log!LogSleep, Log!clientVars
    <3>2. QED BY <2>1, <2>2, <3>1, LogVarsKept
  <2>4. CASE Log!LogStopped(Runner)
    BY <2>4 DEF Log!LogStopped, Log!AtLogJob, JobsGivenToLog
  <2>5. CASE Log!LogPush(Runner)
    <3>1. /\ logPc[Runner] = "logJob" /\ logged' = Append(logged, logJob[Runner])
          /\ logPc' = [logPc EXCEPT ![Runner] = "notifyAdd"]
          /\ logJob' = [logJob EXCEPT ![Runner] = NoJob] /\ logStop' = logStop
      BY <2>5 DEF Log!LogPush, Log!AtLogJob, Log!Goto
    <3>2. /\ logged \in Seq(SyncJob) /\ logJob[Runner] \in SyncJob /\ doneJob = NoJob
          /\ Range(logged) \cup {logJob[Runner]} = retired
      BY <3>1 DEF JobsGivenToLog
    <3>3. /\ logged' \in Seq(SyncJob)
          /\ Range(logged') = retired
      <4>1. \A e \in SyncJob : /\ Append(logged, e) \in Seq(SyncJob)
                               /\ Range(Append(logged, e)) = Range(logged) \cup {e}
        BY <3>2, RangeOfAppend, AppendProperties
      <4>2. QED BY <3>1, <3>2, <4>1
    <3>4. QED
      BY <1>jobs, <2>1, <2>2, <3>1, <3>2, <3>3 DEF JobsGivenToLog, LogCallPc
  <2>6. CASE Log!NotifyAdd(Runner) \/ Log!NotifyShutdown(Runner) \/ Log!Joined(Runner)
    <3>1. /\ UNCHANGED <<logged, logJob, logStop>>
          /\ \/ /\ logPc[Runner] = "notifyAdd"
                /\ logPc' = [logPc EXCEPT ![Runner] = "idle"]
             \/ /\ logPc[Runner] \in {"destroy", "joining"}
                /\ \/ logPc' = [logPc EXCEPT ![Runner] = "joining"]
                   \/ logPc' = [logPc EXCEPT ![Runner] = "destroyed"]
      BY <2>6
      DEF Log!NotifyAdd, Log!NotifyShutdown, Log!Joined, Log!Goto, JobsGivenToLog, LogCallPc
    <3>2. QED BY <2>1, <2>2, <3>1 DEF JobsGivenToLog, LogCallPc
  <2>7. QED BY <1>3, <2>3, <2>4, <2>5, <2>6 DEF Log!ClientStep
<1>4. CASE Log!Construct /\ UNCHANGED allVars
  <2>1. UNCHANGED <<logged, logPc, logJob, logStop>>
    BY <1>4 DEF Log!Construct, Log!clientVars
  <2>2. QED BY <1>4, <1>all, <2>1, LogVarsKept DEF Log!Next
<1>5. CASE DestroyRunner
  <2>1. /\ UNCHANGED <<logged, logJob>> /\ logPc[Runner] = "idle"
        /\ logPc' = [logPc EXCEPT ![Runner] = "destroy"]
    BY <1>5 DEF DestroyRunner, Log!Destroy, Log!Goto
  <2>2. [Log!Next]_(Log!vars)
    BY <1>5 DEF DestroyRunner, Log!Next, Log!ClientCall
  <2>3. UNCHANGED <<retired, doneJob>>
    BY <1>5, <1>all DEF DestroyRunner
  <2>4. QED BY <2>1, <2>2, <2>3 DEF JobsGivenToLog, LogCallPc
<1>6. CASE \E w \in Worker : NodeWorkerStep(w) /\ UNCHANGED logVars
  <2>1. UNCHANGED <<retired, doneJob>>
    BY <1>6, WorkerEffects DEF RunInv, NodeWorkerStep, WorkerStep, runnerVars, localVars
  <2>2. QED BY <1>6, <1>vars, <2>1, LogVarsKept
<1>7. CASE Log!LoggerStep /\ UNCHANGED allVars
  <2>1. UNCHANGED <<logged, logPc, logJob, logStop>>
    BY <1>7 DEF Log!LoggerStep, Log!TestStop, Log!TestStopEarly, Log!LoggerSleep,
       Log!LoggerDrain, Log!LoggerNotify, Log!clientVars
  <2>2. QED BY <1>7, <1>all, <2>1, LogVarsKept DEF Log!Next
<1>8. CASE RaiseRunStopFlag /\ UNCHANGED logVars
  <2>1. UNCHANGED <<retired, doneJob>>
    BY <1>8, PoolUntouched DEF RaiseRunStopFlag, localVars
  <2>2. QED BY <1>8, <1>vars, <2>1, LogVarsKept
<1>9. CASE \E t \in Worker \cup Client : SpuriousWakeup(t) /\ UNCHANGED <<runnerVars, logVars>>
  <2>1. UNCHANGED <<retired, doneJob>>
    BY <1>9 DEF SpuriousWakeup, historyVars, runnerVars, localVars
  <2>2. QED BY <1>9, <1>vars, <2>1, LogVarsKept
<1>10. CASE Log!SpuriousWakeup /\ UNCHANGED allVars
  <2>1. UNCHANGED <<logged, logPc, logJob, logStop>>
    BY <1>10 DEF Log!SpuriousWakeup, Log!clientVars
  <2>2. QED BY <1>10, <1>all, <2>1, LogVarsKept DEF Log!Next
<1>11. CASE UNCHANGED profiledVars
  <2>1. UNCHANGED logVars /\ UNCHANGED allVars
    BY <1>11 DEF profiledVars
  <2>2. QED BY <1>vars, <1>all, <2>1, LogVarsKept
<1>12. QED
  BY <1>1, <1>2, <1>3, <1>4, <1>5, <1>6, <1>7, <1>8, <1>9, <1>10, <1>11
  DEF ProfiledNext, ProfiledRunnerStep

LEMMA ProfiledInvariant == ProfiledSpec => [](RunInv /\ JobsGivenToLog)
<1>1. ProfiledInit => RunInv /\ JobsGivenToLog
  <2> SUFFICES ASSUME ProfiledInit PROVE RunInv /\ JobsGivenToLog
    OBVIOUS
  <2>1. RunInv
    BY RunnerInitGives DEF ProfiledInit, RunnerInit, RunInv
  <2>2. JobsGivenToLog
    BY RangeOfEmpty, EmptySeq
    DEF ProfiledInit, RunnerInit, FreshStart, Init, Log!Init, JobsGivenToLog, LogCallPc
  <2>3. QED BY <2>1, <2>2
<1>2. RunInv /\ JobsGivenToLog /\ [ProfiledNext]_profiledVars => RunInv' /\ JobsGivenToLog'
  BY ProfiledStepsRunner, RunInvNext, ProfiledInvNext
<1>3. QED BY <1>1, <1>2, PTL DEF ProfiledSpec

(* Whenever the runner is outside logJob(), the log has been given exactly *)
(* the jobs that it collected, but for the one in its hands.               *)
THEOREM RunnerLogsWhatItCollects == ProfiledSpec => []CollectedAreLogged
<1>1. JobsGivenToLog => CollectedAreLogged
  BY DEF JobsGivenToLog, CollectedAreLogged, LogIdle
<1>2. QED BY <1>1, ProfiledInvariant, PTL

(* The runner uses the profiler as its interface allows: every step of the *)
(* profiled runner is a step of Profiler, or none.                         *)
THEOREM RunnerUsesProfiler == ProfiledSpec => Log!Spec
<1>1. ProfiledInit => Log!Init
  BY DEF ProfiledInit
<1>2. RunInv /\ JobsGivenToLog /\ [ProfiledNext]_profiledVars => [Log!Next]_(Log!vars)
  BY ProfiledInvNext
<1>3. QED BY <1>1, <1>2, ProfiledInvariant, PTL DEF ProfiledSpec, Log!Spec

================================================================================
