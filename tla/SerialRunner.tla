------------------------------ MODULE SerialRunner -----------------------------
(***************************************************************************)
(* SerialCoreRunner of src/core/core_serial.hpp running a NodeList on the  *)
(* caller's thread: n waves, or waves until stopFlag rises.  It composes   *)
(* with NodeList: the same thread builds, sorts and runs the list, in any  *)
(* order and as often as it likes.                                         *)
(*                                                                         *)
(* Another thread may raise stopFlag at any time.  Running a node and the  *)
(* read of the flag after it are one step: a flag that rises during the    *)
(* node is a flag that rose before the step.                               *)
(***************************************************************************)
EXTENDS NodeList

CONSTANT MaxWaves        (* bound: the argument n                          *)

ASSUME SerialAssumption == MaxWaves \in Nat

VARIABLES
  mReady,          (* the nodes with m_ready                               *)
  mDone,           (* the nodes with m_done                                *)
  runnerPc,        (* "idle", "loop", "wave", "waveEnd" or "notReady"      *)
  mode,            (* which method runs: "NTimes" or "Loop"                *)
  wavesLeft,       (* n - iter of runNodeListSerialNTimes()                *)
  runIndex,        (* nodeIndex of runNodeListSerialOnce()                 *)
  stopFlag,        (* the atomic of the caller                             *)
  ranThisWave,     (* history: nodes that ran in the current wave          *)
  lastSort,        (* history: the order of the list, "none" if changed    *)
  startsAfterStop  (* history: nodes started since stopFlag rose           *)

flagVars   == <<mReady, mDone>>
runVars    == <<runnerPc, mode, wavesLeft, runIndex, ranThisWave, startsAfterStop>>
serialVars == <<listVars, flagVars, runVars, stopFlag, lastSort>>

SerialInit ==
  /\ ListInit
  /\ mReady = {} /\ mDone = {}
  /\ runnerPc = "idle"
  /\ mode = "NTimes"
  /\ wavesLeft = 0
  /\ runIndex = 1
  /\ stopFlag \in BOOLEAN
  /\ ranThisWave = {}
  /\ lastSort = "none"
  /\ startsAfterStop = 0

(* The caller builds and sorts the list between two runs. *)
UseList ==
  /\ runnerPc = "idle"
  /\ \/ \E n \in Node : addNode(n) /\ lastSort' = "none"
     \/ \E n, other \in Node : \E i \in DOMAIN deps[n] :
          setDependencyAt(n, i, other) /\ lastSort' = "none"
     \/ (SortBegins \/ SearchStep) /\ UNCHANGED lastSort
     \/ \E t \in SortType :
          \/ SortReturns(t) /\ lastSort' = t
          \/ (SortCrashes(t) \/ SortAborts(t)) /\ UNCHANGED lastSort
  /\ UNCHANGED <<flagVars, runVars, stopFlag>>

(* runNodeListSerialNTimes(nodes, stopFlag, n), and with n = 1             *)
(* runNodeListSerialOnce(); runNodeListSerialLoop(nodes, stopFlag).        *)
CallRun(m, n) ==
  /\ runnerPc = "idle" /\ phase = "idle"
  /\ runnerPc' = "loop"
  /\ mode' = m
  /\ wavesLeft' = n
  /\ UNCHANGED <<listVars, flagVars, runIndex, ranThisWave, startsAfterStop, stopFlag,
                 lastSort>>

KeepsLoopingWhenStopped == IF mode = "NTimes" THEN wavesLeft > 0 ELSE TRUE

KeepsLooping == IF mode = "NTimes" THEN wavesLeft > 0 ELSE ~stopFlag

BeginWave ==
  /\ runnerPc = "loop"
  /\ KeepsLooping
  /\ runnerPc' = "wave"
  /\ runIndex' = 1
  /\ ranThisWave' = {}
  /\ UNCHANGED <<listVars, flagVars, mode, wavesLeft, startsAfterStop, stopFlag, lastSort>>

(* The local variables and histories of a run have their initial values    *)
(* again.                                                                  *)
RunReturns ==
  /\ runnerPc = "loop"
  /\ ~KeepsLooping
  /\ runnerPc' = "idle"
  /\ mode' = "NTimes" /\ wavesLeft' = 0 /\ runIndex' = 1
  /\ ranThisWave' = {} /\ startsAfterStop' = 0
  /\ UNCHANGED <<listVars, flagVars, stopFlag, lastSort>>

(* Node::isReady(), dag.hpp:94-112, with the cached m_ready.               *)
IsReady(n) == Depend(n) = {} \/ n \in mReady \/ Depend(n) \subseteq mDone

SetNothingDone(n) == mDone' = mDone

SetDone(n) == mDone' = mDone \cup {n}

(* run() and setDone() of the next node, then the test of the flag.        *)
RunNode(n) ==
  /\ runnerPc = "wave"
  /\ runIndex <= Len(nodes) /\ n = nodes[runIndex]
  /\ IsReady(n)
  /\ mReady' = IF Depend(n) = {} THEN mReady ELSE mReady \cup {n}
  /\ SetDone(n)
  /\ ranThisWave' = ranThisWave \cup {n}
  /\ startsAfterStop' = IF stopFlag THEN startsAfterStop + 1 ELSE 0
  /\ IF stopFlag
     THEN runnerPc' = "waveEnd" /\ UNCHANGED runIndex
     ELSE runIndex' = runIndex + 1 /\ UNCHANGED runnerPc
  /\ UNCHANGED <<listVars, mode, wavesLeft, stopFlag, lastSort>>

(* assert(this->isReady() && "Node is not ready to run!"), dag.hpp:155     *)
RunAborts(n) ==
  /\ runnerPc = "wave"
  /\ runIndex <= Len(nodes) /\ n = nodes[runIndex]
  /\ ~IsReady(n)
  /\ runnerPc' = "notReady"
  /\ UNCHANGED <<listVars, flagVars, mode, wavesLeft, runIndex, ranThisWave,
                 startsAfterStop, stopFlag, lastSort>>

ListEnds ==
  /\ runnerPc = "wave"
  /\ runIndex > Len(nodes)
  /\ runnerPc' = "waveEnd"
  /\ UNCHANGED <<listVars, flagVars, mode, wavesLeft, runIndex, ranThisWave,
                 startsAfterStop, stopFlag, lastSort>>

EndWaveUnchecked ==
  /\ runnerPc = "waveEnd"
  /\ wavesLeft' = IF mode = "NTimes" THEN wavesLeft - 1 ELSE 0
  /\ runnerPc' = "loop"
  /\ UNCHANGED <<listVars, flagVars, mode, runIndex, ranThisWave, startsAfterStop,
                 stopFlag, lastSort>>

(* runNodeListSerialNTimes() leaves its loop when the flag is up (line 80).*)
EndWave ==
  /\ runnerPc = "waveEnd"
  /\ wavesLeft' = IF mode = "NTimes" /\ ~stopFlag THEN wavesLeft - 1 ELSE 0
  /\ runnerPc' = "loop"
  /\ UNCHANGED <<listVars, flagVars, mode, runIndex, ranThisWave, startsAfterStop,
                 stopFlag, lastSort>>

RunStep ==
  \/ BeginWave \/ RunReturns \/ ListEnds \/ EndWave
  \/ \E n \in Node : RunNode(n) \/ RunAborts(n)

(* The flag belongs to the caller and to other threads; the caller lowers  *)
(* it between two runs.                                                    *)
ChangeStopFlag ==
  /\ stopFlag => runnerPc = "idle"
  /\ stopFlag' = ~stopFlag
  /\ UNCHANGED <<listVars, flagVars, runVars, lastSort>>

SerialNext ==
  \/ UseList
  \/ \E n \in 0 .. MaxWaves : CallRun("NTimes", n)
  \/ CallRun("Loop", 0)
  \/ RunStep
  \/ ChangeStopFlag

SerialSpec == SerialInit /\ [][SerialNext]_serialVars

(* The caller's thread runs on inside a call; nodes terminate.             *)
SerialFairSpec == SerialSpec /\ WF_serialVars(RunStep)

--------------------------------------------------------------------------------

(* A list sorted topologically or by depth runs in dependency order, in    *)
(* every wave of every run: no node is run before its dependencies have    *)
(* run in the same wave, and "Node is not ready to run!" is never said,    *)
(* although neither m_ready nor m_done is ever reset by this runner.       *)
SortedListRunsInOrder ==
  lastSort \in DependencySorts =>
    /\ runnerPc # "notReady"
    /\ runnerPc # "idle" => \A n \in ranThisWave : Depend(n) \subseteq ranThisWave

(* Once stopFlag is up at most one more node starts, whether the flag      *)
(* rises within a node, between nodes or between waves, and whether one    *)
(* loop or both have to be left.                                           *)
StopsAfterOneNode == startsAfterStop <= 1

(* A run of n waves returns or fails its assertion; an endless one does    *)
(* when the flag rises.                                                    *)
RunsEnd ==
  /\ runnerPc = "loop" /\ mode = "NTimes" ~> runnerPc \in {"idle", "notReady"}
  /\ runnerPc # "idle" /\ stopFlag        ~> runnerPc \in {"idle", "notReady"}

================================================================================
