--------------------------- MODULE SerialRunner_proofs -------------------------
(***************************************************************************)
(* The serial runner, for every graph, list and number of waves.  RunInv   *)
(* says which part of the list has run; StopInv where a run stands after a *)
(* node has started with the flag up.                                      *)
(***************************************************************************)
EXTENDS SerialRunner, NodeList_proofs

(* The first k nodes of the list.                                          *)
Front(k) == {nodes[i] : i \in 1 .. k}

RanIsFront ==
  \E k \in 0 .. Len(nodes) :
    ranThisWave = Front(k) /\ (runnerPc = "wave" => runIndex = k + 1)

SortIsKept == lastSort \in DependencySorts => InDependencyOrder(nodes)

RunInv ==
  /\ SearchInv
  /\ SortIsKept
  /\ runnerPc # "idle" => phase = "idle"
  /\ runnerPc = "idle" => ranThisWave = {}
  /\ runnerPc = "notReady" => lastSort \notin DependencySorts
  /\ ranThisWave \subseteq mDone
  /\ RanIsFront

(* After the node that started last, the wave ends, and then the run: no   *)
(* wave is left, or the endless loop sees the flag.                        *)
StopInv ==
  /\ startsAfterStop \in 0 .. 1
  /\ startsAfterStop = 1 =>
       /\ stopFlag
       /\ runnerPc \in {"waveEnd", "loop"}
       /\ runnerPc = "loop" /\ mode = "NTimes" => wavesLeft = 0

--------------------------------------------------------------------------------
(* At most one node starts after the flag.                                 *)

LEMMA StopInvRunNode ==
  ASSUME StopInv, NEW n \in Node, RunNode(n)
  PROVE  StopInv'
<1>1. startsAfterStop = 0 /\ stopFlag' = stopFlag /\ runnerPc = "wave"
  BY DEF StopInv, RunNode
<1>2. CASE stopFlag
  <2>1. startsAfterStop' = startsAfterStop + 1 /\ runnerPc' = "waveEnd"
    BY <1>2, Zenon DEF RunNode
  <2>2. stopFlag'
    BY <1>1, <1>2, Zenon
  <2>3. QED BY <1>1, <2>1, <2>2 DEF StopInv
<1>3. CASE ~stopFlag
  <2>1. startsAfterStop' = 0
    BY <1>3, Zenon DEF RunNode
  <2>2. QED BY <2>1 DEF StopInv
<1>4. QED BY <1>2, <1>3

LEMMA StopInvNext ==
  ASSUME StopInv, [SerialNext]_serialVars
  PROVE  StopInv'
<1>1. ASSUME UNCHANGED <<startsAfterStop, stopFlag, runnerPc, mode, wavesLeft>> PROVE StopInv'
  <2>1. stopFlag => stopFlag'
    BY <1>1, Zenon
  <2>2. QED BY <1>1, <2>1 DEF StopInv
<1>2. ASSUME UseList PROVE StopInv'
  BY <1>1, <1>2 DEF UseList, runVars
<1>3. ASSUME NEW m, NEW n, CallRun(m, n) PROVE StopInv'
  <2>1. startsAfterStop = 0 /\ startsAfterStop' = 0
    BY <1>3 DEF CallRun, StopInv
  <2>2. QED BY <2>1 DEF StopInv
<1>4. ASSUME BeginWave PROVE StopInv'
  <2>1. startsAfterStop # 1
    <3>1. SUFFICES ASSUME startsAfterStop = 1 PROVE FALSE
      OBVIOUS
    <3>2. stopFlag /\ runnerPc = "loop" /\ (mode = "NTimes" => wavesLeft = 0)
      BY <1>4, <3>1 DEF StopInv, BeginWave
    <3>3. CASE mode = "NTimes"
      BY <1>4, <3>2, <3>3 DEF BeginWave, KeepsLooping
    <3>4. CASE mode # "NTimes"
      BY <1>4, <3>2, <3>4, Zenon DEF BeginWave, KeepsLooping
    <3>5. QED BY <3>3, <3>4
  <2>2. startsAfterStop' = 0
    BY <1>4, <2>1 DEF StopInv, BeginWave
  <2>3. QED BY <2>2 DEF StopInv
<1>5. ASSUME RunReturns PROVE StopInv'
  BY <1>5 DEF RunReturns, StopInv
<1>6. ASSUME NEW n \in Node, RunNode(n) PROVE StopInv'
  BY <1>6, StopInvRunNode
<1>7. ASSUME NEW n \in Node, RunAborts(n) PROVE StopInv'
  <2>1. startsAfterStop = 0 /\ startsAfterStop' = 0
    BY <1>7 DEF RunAborts, StopInv
  <2>2. QED BY <2>1 DEF StopInv
<1>8. ASSUME ListEnds PROVE StopInv'
  <2>1. startsAfterStop = 0 /\ startsAfterStop' = 0
    BY <1>8 DEF ListEnds, StopInv
  <2>2. QED BY <2>1 DEF StopInv
<1>9. ASSUME EndWave PROVE StopInv'
  <2>1. startsAfterStop' = startsAfterStop /\ runnerPc' = "loop" /\ mode' = mode
    BY <1>9 DEF EndWave
  <2>2. stopFlag => stopFlag' /\ wavesLeft' = 0
    <3>1. stopFlag => ~(mode = "NTimes" /\ ~stopFlag)
      OBVIOUS
    <3>2. QED BY <1>9, <3>1, Zenon DEF EndWave
  <2>3. QED BY <2>1, <2>2 DEF StopInv
<1>10. ASSUME ChangeStopFlag PROVE StopInv'
  <2>1. startsAfterStop # 1
    BY <1>10 DEF ChangeStopFlag, StopInv
  <2>2. startsAfterStop' = startsAfterStop
    BY <1>10 DEF ChangeStopFlag, runVars
  <2>3. QED BY <2>1, <2>2 DEF StopInv
<1>11. ASSUME UNCHANGED serialVars PROVE StopInv'
  BY <1>1, <1>11 DEF serialVars, runVars
<1>12. QED
  BY <1>2, <1>3, <1>4, <1>5, <1>6, <1>7, <1>8, <1>9, <1>10, <1>11 DEF SerialNext, RunStep

(* However the flag rises, and whether n waves or an endless loop have to  *)
(* be left, one more node at most is started (core_serial.hpp:75-110).     *)
THEOREM SerialStopsAfterOneNode == SerialSpec => []StopsAfterOneNode
<1>1. SerialInit => StopInv
  BY DEF SerialInit, StopInv
<1>2. StopInv => StopsAfterOneNode
  BY DEF StopInv, StopsAfterOneNode
<1>3. QED BY <1>1, <1>2, StopInvNext, PTL DEF SerialSpec

--------------------------------------------------------------------------------
(* A sorted list runs in dependency order.                                 *)

(* The next node of a sorted list depends on nodes that have run.          *)
LEMMA NextIsReady ==
  ASSUME SearchInv, InDependencyOrder(nodes), NEW k \in 1 .. Len(nodes)
  PROVE  Depend(nodes[k]) \subseteq Front(k - 1)
<1>1. k \in DOMAIN nodes
  BY LenProperties DEF SearchInv, ListTypeOK
<1>2. QED BY <1>1 DEF InDependencyOrder, Front

LEMMA FrontGrows ==
  ASSUME NEW k \in Nat
  PROVE  Front(0) = {} /\ Front(k + 1) = Front(k) \cup {nodes[k + 1]}
<1>1. 1 .. k + 1 = (1 .. k) \cup {k + 1} /\ 1 .. 0 = {}
  OBVIOUS
<1>2. QED BY <1>1 DEF Front

(* No node of what has run depends on one that has not.                    *)
LEMMA FrontIsClosed ==
  ASSUME SearchInv, InDependencyOrder(nodes), NEW k \in 0 .. Len(nodes), NEW n \in Front(k)
  PROVE  Depend(n) \subseteq Front(k)
<1>1. Len(nodes) \in Nat
  BY LenProperties DEF SearchInv, ListTypeOK
<1>2. PICK i \in 1 .. k : n = nodes[i]
  BY DEF Front
<1>3. i \in 1 .. Len(nodes) /\ 1 .. i - 1 \subseteq 1 .. k
  BY <1>1, <1>2
<1>4. Depend(n) \subseteq Front(i - 1)
  BY <1>2, <1>3, NextIsReady
<1>5. Front(i - 1) \subseteq Front(k)
  BY <1>3 DEF Front
<1>6. QED BY <1>4, <1>5

(* The steps of a run leave the list alone.                                *)
LEMMA ListKept ==
  ASSUME RunInv, UNCHANGED listVars
  PROVE  /\ SearchInv' /\ InDependencyOrder(nodes)' = InDependencyOrder(nodes)
         /\ nodes' = nodes /\ phase' = phase
         /\ \A k : Front(k)' = Front(k)
<1>1. SearchInv'
  BY SearchInvNext DEF RunInv
<1>2. nodes' = nodes /\ phase' = phase /\ deps' = deps
  BY DEF listVars, graphVars
<1>3. QED BY <1>1, <1>2 DEF InDependencyOrder, Depend, Front

LEMMA RanSays ==
  ASSUME UNCHANGED listVars
  PROVE  RanIsFront' <=>
           \E k \in 0 .. Len(nodes) :
             ranThisWave' = Front(k) /\ (runnerPc' = "wave" => runIndex' = k + 1)
BY DEF RanIsFront, Front, listVars

(* The caller changes the list, or sorts it.                               *)
LEMMA RunInvUseList ==
  ASSUME RunInv, UseList
  PROVE  RunInv'
<1>1. SearchInv'
  BY SearchInvNext DEF RunInv, UseList, ListNext, SearchStep
<1>2. /\ runnerPc' = "idle" /\ ranThisWave' = {}
  BY DEF RunInv, UseList, runVars
<1>3. RanIsFront'
  <2>1. Len(nodes') \in Nat
    BY <1>1, LenProperties DEF SearchInv, ListTypeOK
  <2>2. Front(0)' = {}
    BY DEF Front
  <2>3. QED BY <1>2, <2>1, <2>2 DEF RanIsFront
<1>4. SortIsKept'
  <2>1. ASSUME lastSort' = "none" PROVE SortIsKept'
    BY <2>1 DEF SortIsKept, DependencySorts
  <2>2. ASSUME UNCHANGED <<nodes, deps, lastSort>> PROVE SortIsKept'
    BY <2>2 DEF RunInv, SortIsKept, InDependencyOrder, Depend
  <2>3. ASSUME SortBegins \/ SearchStep, lastSort' = lastSort PROVE SortIsKept'
    BY <2>2, <2>3 DEF SortBegins, SearchStep, DfsAborts, DfsEnters, DfsReturns, DfsLeaves,
       DfsOverruns, graphVars
  <2>4. ASSUME NEW t \in SortType, SortCrashes(t) \/ SortAborts(t), lastSort' = lastSort
        PROVE  SortIsKept'
    BY <2>2, <2>4 DEF SortCrashes, SortAborts, graphVars
  <2>5. ASSUME NEW t \in SortType, SortReturns(t), lastSort' = t PROVE SortIsKept'
    <3>1. SUFFICES ASSUME t \in DependencySorts PROVE InDependencyOrder(nodes)'
      BY <2>5 DEF SortIsKept
    <3>2. InDependencyOrder(nodes')
      BY <2>5, <3>1, SortedInOrder DEF RunInv
    <3>3. deps' = deps
      BY <2>5 DEF SortReturns, graphVars
    <3>4. QED BY <3>2, <3>3 DEF InDependencyOrder, Depend
  <2>6. QED BY <2>1, <2>3, <2>4, <2>5 DEF UseList
<1>5. QED BY <1>1, <1>2, <1>3, <1>4 DEF RunInv

(* A node runs, and with it the front that has run grows.                  *)
LEMMA RunInvRunNode ==
  ASSUME RunInv, NEW n \in Node, RunNode(n)
  PROVE  RunInv'
<1>1. /\ runnerPc = "wave" /\ runnerPc' \in {"wave", "waveEnd"}
      /\ runIndex <= Len(nodes) /\ n = nodes[runIndex]
      /\ runnerPc' = "wave" => runIndex' = runIndex + 1
      /\ mDone' = mDone \cup {n} /\ ranThisWave' = ranThisWave \cup {n}
      /\ UNCHANGED listVars /\ lastSort' = lastSort
  BY DEF RunNode, SetDone
<1>2. PICK k \in 0 .. Len(nodes) : ranThisWave = Front(k) /\ runIndex = k + 1
  BY <1>1 DEF RunInv, RanIsFront
<1>3. Len(nodes) \in Nat
  BY LenProperties DEF RunInv, SearchInv, ListTypeOK
<1>4. k + 1 \in 0 .. Len(nodes) /\ ranThisWave' = Front(k + 1)
  BY <1>1, <1>2, <1>3, FrontGrows
<1>5. RanIsFront'
  BY <1>1, <1>2, <1>4, RanSays
<1>6. ranThisWave' \subseteq mDone'
  BY <1>1 DEF RunInv
<1>7. QED BY <1>1, <1>5, <1>6, ListKept DEF RunInv, SortIsKept

(* The assertion of run() fails for a list that was not sorted only.       *)
LEMMA AbortMeansUnsorted ==
  ASSUME RunInv, NEW n \in Node, RunAborts(n)
  PROVE  lastSort \notin DependencySorts
<1>1. SUFFICES ASSUME InDependencyOrder(nodes) PROVE IsReady(n)
  BY DEF RunInv, SortIsKept, RunAborts
<1>2. runnerPc = "wave" /\ runIndex <= Len(nodes) /\ n = nodes[runIndex]
  BY DEF RunAborts
<1>3. PICK k \in 0 .. Len(nodes) : ranThisWave = Front(k) /\ runIndex = k + 1
  BY <1>2 DEF RunInv, RanIsFront
<1>4. runIndex \in 1 .. Len(nodes) /\ runIndex - 1 = k
  BY <1>2, <1>3, LenProperties DEF RunInv, SearchInv, ListTypeOK
<1>5. Depend(n) \subseteq Front(k)
  BY <1>1, <1>2, <1>4, NextIsReady DEF RunInv
<1>6. QED BY <1>3, <1>5 DEF RunInv, IsReady

LEMMA RunInvNext ==
  ASSUME RunInv, [SerialNext]_serialVars
  PROVE  RunInv'
<1>0. Len(nodes) \in Nat
  BY LenProperties DEF RunInv, SearchInv, ListTypeOK
<1>1. ASSUME UNCHANGED <<listVars, ranThisWave, mDone, lastSort>>,
             runnerPc' = "wave" => runnerPc = "wave" /\ runIndex' = runIndex,
             runnerPc' = "idle" => ranThisWave = {},
             runnerPc' # "idle" => phase = "idle",
             runnerPc' = "notReady" => lastSort \notin DependencySorts
      PROVE  RunInv'
  <2>1. RanIsFront'
    BY <1>1, RanSays DEF RunInv, RanIsFront
  <2>2. QED BY <1>1, <2>1, ListKept DEF RunInv, SortIsKept
<1>2. ASSUME UseList PROVE RunInv'
  BY <1>2, RunInvUseList
<1>3. ASSUME NEW m, NEW n, CallRun(m, n) PROVE RunInv'
  BY <1>1, <1>3 DEF CallRun, RunInv, flagVars
<1>4. ASSUME BeginWave PROVE RunInv'
  <2>1. /\ UNCHANGED listVars /\ runnerPc' = "wave" /\ runIndex' = 1 /\ ranThisWave' = {}
        /\ phase = "idle" /\ lastSort' = lastSort
    BY <1>4 DEF BeginWave, RunInv
  <2>2. RanIsFront'
    <3>1. 0 \in 0 .. Len(nodes) /\ ranThisWave' = Front(0) /\ runIndex' = 0 + 1
      BY <1>0, <2>1, FrontGrows
    <3>2. QED BY <2>1, <3>1, RanSays
  <2>3. QED BY <2>1, <2>2, ListKept DEF RunInv, SortIsKept
<1>5. ASSUME RunReturns PROVE RunInv'
  <2>1. /\ UNCHANGED listVars /\ runnerPc' = "idle" /\ ranThisWave' = {}
        /\ lastSort' = lastSort
    BY <1>5 DEF RunReturns
  <2>2. RanIsFront'
    <3>1. 0 \in 0 .. Len(nodes) /\ ranThisWave' = Front(0)
      BY <1>0, <2>1, FrontGrows
    <3>2. QED BY <2>1, <3>1, RanSays
  <2>3. QED BY <2>1, <2>2, ListKept DEF RunInv, SortIsKept
<1>6. ASSUME NEW n \in Node, RunNode(n) PROVE RunInv'
  BY <1>6, RunInvRunNode
<1>7. ASSUME NEW n \in Node, RunAborts(n) PROVE RunInv'
  BY <1>1, <1>7, AbortMeansUnsorted DEF RunAborts, RunInv, flagVars
<1>8. ASSUME ListEnds \/ EndWave PROVE RunInv'
  BY <1>1, <1>8 DEF ListEnds, EndWave, RunInv, flagVars
<1>9. ASSUME ChangeStopFlag PROVE RunInv'
  BY <1>1, <1>9 DEF ChangeStopFlag, RunInv, flagVars, runVars
<1>10. ASSUME UNCHANGED serialVars PROVE RunInv'
  BY <1>1, <1>10 DEF serialVars, RunInv, flagVars, runVars
<1>11. QED
  BY <1>2, <1>3, <1>4, <1>5, <1>6, <1>7, <1>8, <1>9, <1>10 DEF SerialNext, RunStep

(* A list that was sorted topologically or by depth, and not changed       *)
(* since, is run in dependency order in every wave, and no node of it is   *)
(* "not ready to run" (dag.hpp:155), for every graph and list.             *)
THEOREM SerialRunsInOrder == SerialSpec => []SortedListRunsInOrder
<1>1. SerialInit => RunInv
  <2>1. SUFFICES ASSUME SerialInit PROVE RunInv
    OBVIOUS
  <2>2. SearchInv /\ Len(nodes) = 0
    BY <2>1, SearchInvInit DEF SerialInit, ListInit
  <2>3. Front(0) = {}
    BY DEF Front
  <2>4. RanIsFront
    BY <2>1, <2>2, <2>3 DEF SerialInit, RanIsFront
  <2>5. QED BY <2>1, <2>2, <2>4 DEF SerialInit, RunInv, SortIsKept, DependencySorts
<1>2. RunInv => SortedListRunsInOrder
  <2>1. SUFFICES ASSUME RunInv, lastSort \in DependencySorts, NEW n \in ranThisWave
                 PROVE  Depend(n) \subseteq ranThisWave
    BY DEF RunInv, SortedListRunsInOrder
  <2>2. PICK k \in 0 .. Len(nodes) : ranThisWave = Front(k)
    BY <2>1 DEF RunInv, RanIsFront
  <2>3. QED BY <2>1, <2>2, FrontIsClosed DEF RunInv, SortIsKept
<1>3. QED BY <1>1, <1>2, RunInvNext, PTL DEF SerialSpec

--------------------------------------------------------------------------------
(* The runner and its list.                                                *)

(* A run leaves the list and the marks of its search as they are: every    *)
(* step of the serial runner is a step of NodeList, or none, so what is    *)
(* proved of lists and sorts holds for the lists that are run.             *)
THEOREM SerialUsesList == SerialSpec => ListSpec
<1>1. SerialInit => ListInit
  BY DEF SerialInit
<1>2. [SerialNext]_serialVars => [ListNext]_listVars
  <2>1. ASSUME UseList PROVE ListNext
    BY <2>1 DEF UseList, ListNext
  <2>2. ASSUME SerialNext, ~UseList PROVE UNCHANGED listVars
    BY <2>2 DEF SerialNext, CallRun, RunStep, BeginWave, RunReturns, ListEnds, EndWave, RunNode,
       RunAborts, ChangeStopFlag
  <2>3. QED BY <2>1, <2>2 DEF serialVars
<1>3. QED BY <1>1, <1>2, PTL DEF SerialSpec, ListSpec

================================================================================
