----------------------------- MODULE RunnerSessions ----------------------------
(***************************************************************************)
(* A program that uses one ThreadPool and one node list for several runs   *)
(* of ParallelCoreRunner, n waves or waves without end, each of which may  *)
(* be cut short by stopFlag and followed by another one.  Between two runs *)
(* the caller may use the pool itself; other threads may stop the pool, or *)
(* wait for its tasks, at any time, also during a run.                     *)
(*                                                                         *)
(* Only the runner's thread collects done jobs: a second collector takes   *)
(* jobs the runner waits for, which no use in the repository does.         *)
(*                                                                         *)
(* wave is m_waveNumber, plus one inside a wave, so that a job of an       *)
(* earlier run is told from one of the present wave; the code cannot.      *)
(***************************************************************************)
EXTENDS ParallelRunner

VARIABLES
  mode,            (* which method runs: "NTimes" or "Loop"                *)
  wavesLeft,       (* n - iter of runNodeListParallelNTimes()              *)
  leftovers        (* history: the jobs in the pool when the run began     *)

callVars    == <<mode, wavesLeft, leftovers>>
sessionVars == <<allVars, callVars>>

SessionInit ==
  /\ FreshStart
  /\ wave = 0
  /\ runnerPc = "returned"
  /\ mode = "NTimes"
  /\ wavesLeft = 0
  /\ leftovers = 0

(* runNodeListParallelNTimes() does not look at stopFlag before its first  *)
(* wave, runNodeListParallelLoop() does.  A call with n = 0, or a loop     *)
(* with the flag up, changes nothing.  A run of one wave is also           *)
(* runNodeListParallelOnce().  (NumWaves bounds the waves of all runs.)    *)
CallRun(m, n) ==
  /\ runnerPc = "returned" /\ Idle(Runner)
  /\ m = "Loop" => ~runStopFlag
  /\ BeginWave
  /\ mode' = m
  /\ wavesLeft' = n - 1
  /\ leftovers' = numberOfTasks

KeepsLoopingWhenStopped == mode = "Loop" \/ wavesLeft > 0

(* The test of stopFlag after each wave and the head of the loop.          *)
KeepsLooping == ~runStopFlag /\ (mode = "Loop" \/ wavesLeft > 0)

SessionNextWave ==
  /\ runnerPc = "waveEnd"
  /\ KeepsLooping /\ wave < NumWaves
  /\ BeginWave
  /\ wavesLeft' = IF mode = "Loop" THEN wavesLeft ELSE wavesLeft - 1
  /\ UNCHANGED <<mode, leftovers>>

(* The local variables and histories of a run have their initial values    *)
(* again.                                                                  *)
SessionRunReturns ==
  /\ runnerPc = "waveEnd"
  /\ ~KeepsLooping
  /\ runnerPc' = "returned"
  /\ mode' = "NTimes" /\ wavesLeft' = 0 /\ leftovers' = 0
  /\ ResetLocals /\ nodeIndex' = 1
  /\ UNCHANGED <<vars, nodeVars, doneJob, wave, runStopFlag>>

(* Between two runs the caller may wait for the jobs of a run that was     *)
(* stopped, collect them, or stop the pool.                                *)
CallerUsesPool ==
  /\ runnerPc = "returned"
  /\ \/ \E flag \in BOOLEAN : CallWaitForAllTasks(Runner, flag)
     \/ TryGetNextDoneTask(Runner)
     \/ Shutdown(Runner)
  /\ UNCHANGED <<runnerVars, callVars>>

(* What another thread does to the pool: shutdown(), or waitForAllTasks(), *)
(* which overwrites m_stop.                                                *)
OtherUsesPool(c) ==
  /\ c # Runner
  /\ \/ Shutdown(c)
     \/ \E flag \in BOOLEAN : CallWaitForAllTasks(c, flag)
     \/ ClientStep(c)
  /\ UNCHANGED <<runnerVars, callVars>>

LowerRunStopFlag ==
  /\ runnerPc = "returned" /\ runStopFlag
  /\ runStopFlag' = FALSE
  /\ UNCHANGED <<vars, nodeVars, localVars, wave, runnerPc, callVars>>

(* The steps of a run or of a call of the pool in progress.                *)
SessionStep ==
  \/ WaveStep /\ UNCHANGED callVars
  \/ SessionNextWave
  \/ SessionRunReturns
  \/ ClientStep(Runner) /\ runnerPc \in {"returned", "destroying"}
                        /\ UNCHANGED <<runnerVars, callVars>>

SessionNext ==
  \/ \E n \in 1 .. NumWaves : wave + n <= NumWaves /\ CallRun("NTimes", n)
  \/ wave < NumWaves /\ CallRun("Loop", 1)
  \/ SessionStep
  \/ CallerUsesPool
  \/ LowerRunStopFlag
  \/ (DestroyPool \/ RaiseRunStopFlag) /\ UNCHANGED callVars
  \/ \E c \in Client : OtherUsesPool(c)
  \/ \E c \in Client : RaiseStopFlag(c) /\ UNCHANGED <<runnerVars, callVars>>
  \/ \E w \in Worker : NodeWorkerStep(w) /\ UNCHANGED callVars
  \/ \E t \in Worker \cup Client : SpuriousWakeup(t) /\ UNCHANGED <<runnerVars, callVars>>

SessionSpec == SessionInit /\ [][SessionNext]_sessionVars

(* The runner's thread runs on inside a call, and nodes terminate.         *)
SessionFairSpec ==
  /\ SessionSpec
  /\ WF_sessionVars(SessionStep)
  /\ \A w \in Worker : WF_sessionVars(NodeWorkerStep(w) /\ UNCHANGED callVars)

--------------------------------------------------------------------------------

(* The nodes that have no collected job of this wave.                      *)
Uncollected == {n \in Node : <<n, wave>> \notin retired}

(* The runner counts jobs (line 39), and cannot tell a job that an earlier *)
(* run left in the pool from one of its own (line 58).  A wave that ends   *)
(* on its count lacks at most as many nodes as there were jobs in the pool *)
(* when the run began, in the first wave of the run and in later ones,     *)
(* which inherit the jobs of nodes that the wave before did not wait for.  *)
(* In particular it has run every node if the pool was empty.  Refused     *)
(* jobs (line 45 ignores the result of scheduleTask()) do not make it      *)
(* worse: other threads may stop the pool, also for a while.               *)
WavesEndAllRan ==
  [][LoopTest /\ ~WaveOpen => Cardinality(Uncollected) <= leftovers]_sessionVars

InRun == runnerPc \notin {"returned", "destroying"}

(* Once stopFlag is up the run returns, also from a pool that was stopped  *)
(* under it, where it would scan for ever otherwise: the runner is never   *)
(* asleep in scheduleTask(), which neither the flag nor shutdown() could   *)
(* end (thread_pool.hpp:143, 235).  The buffer must hold the list and what *)
(* the run found in it.                                                    *)
StopFlagEndsRun ==
  InRun /\ runStopFlag /\ NUM_OF_NODES + leftovers <= MAX_QUEUE_SIZE ~> ~InRun

================================================================================
