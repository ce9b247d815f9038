---------------------------- MODULE NodeList_proofs ----------------------------
(***************************************************************************)
(* What sortNodes() returns, for every graph, every list and every         *)
(* capacity.  The invariant SearchInv says where the depth-first search    *)
(* stands: the visited nodes are the active and the placed ones, the       *)
(* dependencies that an active node has passed are placed, and the depth   *)
(* of a node exceeds the depths of the dependencies it has passed.         *)
(* CycleInv, ChainInv, SoundInv and FrontInv add what cycles, depths,      *)
(* lists that lack no dependency, and sorted lists need.                   *)
(***************************************************************************)
EXTENDS NodeList, SequenceLemmas

Marks ==
  /\ visited = active \cup Range(sortedNodes)
  /\ active \cap Range(sortedNodes) = {}
  /\ IsInjective(sortedNodes)
  /\ phase = "idle" => stack = <<>> /\ sortedNodes = <<>> /\ nodeIndex = 1
  /\ \A n \in Node \ active : depIndex[n] = 1

(* The nodes that the loop of sortNodes() has passed are visited.          *)
NodesSeen ==
  /\ IsInjective(nodes)
  /\ \A i \in 1 .. nodeIndex - 1 : nodes[i] \in visited

PlacedInOrder ==
  /\ InDependencyOrder(sortedNodes)
  /\ \A n \in Range(sortedNodes) : \A d \in Depend(n) : depth[d] < depth[n]

PassedInOrder ==
  \A n \in active : \A i \in 1 .. depIndex[n] - 1 :
    /\ deps[n][i] \in Range(sortedNodes)
    /\ depth[deps[n][i]] < depth[n]

SearchInv == ListTypeOK /\ Marks /\ NodesSeen /\ PlacedInOrder /\ PassedInOrder

--------------------------------------------------------------------------------
(* Dependencies and sequences of nodes.                                    *)

LEMMA DependByIndex ==
  ASSUME deps \in [Node -> Seq(Node)], NEW n \in Node
  PROVE  /\ Len(deps[n]) \in Nat
         /\ DOMAIN deps[n] = 1 .. Len(deps[n])
         /\ \A i \in 1 .. Len(deps[n]) : deps[n][i] \in Node /\ deps[n][i] \in Depend(n)
         /\ \A d \in Depend(n) : d \in Node /\ \E i \in 1 .. Len(deps[n]) : d = deps[n][i]
<1>1. deps[n] \in Seq(Node)
  OBVIOUS
<1>2. /\ Len(deps[n]) \in Nat
      /\ DOMAIN deps[n] = 1 .. Len(deps[n])
      /\ \A i \in 1 .. Len(deps[n]) : deps[n][i] \in Node
  BY <1>1, LenProperties, ElementOfSeq
<1>3. QED BY <1>2 DEF Depend, Range

(* A node is placed after its dependencies.                                *)
LEMMA OrderOfAppend ==
  ASSUME NEW list \in Seq(Node), InDependencyOrder(list),
         NEW h \in Node, Depend(h) \subseteq Range(list)
  PROVE  InDependencyOrder(Append(list, h))
<1> DEFINE a == Append(list, h)
           n == Len(list)
<1>1. /\ n \in Nat /\ DOMAIN list = 1 .. n /\ DOMAIN a = 1 .. n + 1
      /\ \A i \in 1 .. n : a[i] = list[i]
      /\ a[n + 1] = h
  BY LenProperties, AppendProperties
<1> HIDE DEF a, n
<1>2. SUFFICES ASSUME NEW i \in 1 .. n + 1, NEW d \in Depend(a[i])
               PROVE  \E j \in 1 .. i - 1 : a[j] = d
  BY <1>1 DEF InDependencyOrder, a
<1>3. CASE i \in 1 .. n
  <2>1. PICK j \in 1 .. i - 1 : list[j] = d
    BY <1>1, <1>2, <1>3 DEF InDependencyOrder
  <2>2. j \in 1 .. n
    BY <1>1, <1>3
  <2>3. QED BY <1>1, <2>1, <2>2
<1>4. CASE i = n + 1
  <2>1. PICK j \in 1 .. n : list[j] = d
    BY <1>1, <1>2, <1>4 DEF Range
  <2>2. QED BY <1>1, <1>4, <2>1
<1>5. QED BY <1>1, <1>3, <1>4

(* The state that a step of the caller, or a failed sort, leaves alone.    *)
searchVars == <<depth, visited, active, sortVars>>

LEMMA SearchKept ==
  ASSUME Marks, PlacedInOrder, PassedInOrder, UNCHANGED <<deps, searchVars>>,
         phase' = "idle" => phase = "idle"
  PROVE  Marks' /\ PlacedInOrder' /\ PassedInOrder'
BY DEF searchVars, sortVars, Marks, PlacedInOrder, PassedInOrder, InDependencyOrder, Depend

--------------------------------------------------------------------------------
(* SearchInv is inductive.                                                 *)

LEMMA SearchInvInit == ListInit => SearchInv
<1> SUFFICES ASSUME ListInit PROVE SearchInv
  OBVIOUS
<1>1. deps \in [Node -> Seq(Node)]
  <2>1. deps \in [Node -> UNION {[1 .. k -> Node] : k \in 0 .. MaxDeps}]
    BY DEF ListInit, Graph
  <2>2. UNION {[1 .. k -> Node] : k \in 0 .. MaxDeps} \subseteq Seq(Node)
    BY SeqDef, ListAssumption DEF ListAssumption
  <2>3. QED BY <2>1, <2>2
<1>2. ListTypeOK
  BY <1>1, RangeOfEmpty, ListAssumption DEF ListInit, ListTypeOK, ListAssumption
<1>3. Marks /\ NodesSeen /\ PlacedInOrder /\ PassedInOrder
  BY RangeOfEmpty
  DEF ListInit, Marks, NodesSeen, PlacedInOrder, PassedInOrder, InDependencyOrder
<1>4. QED BY <1>2, <1>3 DEF SearchInv

(* Steps that change no more than phase: a sort that begins or goes wrong, *)
(* and stuttering.                                                         *)
LEMMA SearchInvPhase ==
  ASSUME SearchInv, UNCHANGED <<graphVars, depth, visited, active, nodes, sortVars>>,
         \/ phase' = phase
         \/ phase' \in {"sorting", "cycle", "overrun", "nullCompared", "sizeMismatch"}
  PROVE  SearchInv'
<1>1. Marks' /\ PlacedInOrder' /\ PassedInOrder'
  BY SearchKept DEF SearchInv, searchVars, graphVars
<1>2. NodesSeen'
  BY DEF SearchInv, NodesSeen, sortVars
<1>3. ListTypeOK'
  BY DEF SearchInv, ListTypeOK, graphVars, sortVars
<1>4. QED BY <1>1, <1>2, <1>3 DEF SearchInv

LEMMA SearchInvAdd ==
  ASSUME SearchInv, NEW n \in Node, addNode(n)
  PROVE  SearchInv'
<1> USE DEF SearchInv
<1>1. Marks' /\ PlacedInOrder' /\ PassedInOrder'
  BY SearchKept DEF addNode, searchVars, graphVars, sortVars
<1>2. nodes \in Seq(Node) /\ IsInjective(nodes) /\ n \notin Range(nodes) /\ nodeIndex = 1
  BY DEF ListTypeOK, NodesSeen, Marks, addNode
<1>3. NodesSeen'
  BY <1>2, RangeOfAppend DEF NodesSeen, addNode, sortVars
<1>4. /\ nodes' \in Seq(Node) /\ Len(nodes') = Len(nodes) + 1
      /\ Len(nodes) \in Nat /\ NUM_OF_NODES \in Nat
  BY <1>2, AppendProperties, LenProperties, ListAssumption DEF addNode, ListAssumption
<1>5. ListTypeOK'
  BY <1>2, <1>4 DEF ListTypeOK, addNode, graphVars, sortVars
<1>6. QED BY <1>1, <1>3, <1>5

LEMMA SearchInvRewire ==
  ASSUME SearchInv, NEW n \in Node, NEW other \in Node, NEW i \in DOMAIN deps[n],
         setDependencyAt(n, i, other)
  PROVE  SearchInv'
<1> USE DEF SearchInv
<1>1. stack = <<>> /\ sortedNodes = <<>> /\ active = {}
  BY RangeOfEmpty DEF setDependencyAt, Marks, ListTypeOK
<1>2. UNCHANGED <<depth, visited, active, nodes, phase, sortVars>>
  BY DEF setDependencyAt
<1>3. Marks' /\ NodesSeen' /\ PassedInOrder'
  BY <1>1, <1>2 DEF Marks, NodesSeen, PassedInOrder, sortVars
<1>4. PlacedInOrder'
  <2>1. sortedNodes' = <<>> /\ DOMAIN sortedNodes' = {} /\ Range(sortedNodes') = {}
    BY <1>1, <1>2, RangeOfEmpty DEF sortVars
  <2>2. InDependencyOrder(sortedNodes)'
    BY <2>1 DEF InDependencyOrder
  <2>3. QED BY <2>1, <2>2 DEF PlacedInOrder
<1>5. deps' \in [Node -> Seq(Node)]
  <2>1. deps \in [Node -> Seq(Node)] /\ deps[n] \in Seq(Node)
    BY DEF ListTypeOK
  <2>2. [deps[n] EXCEPT ![i] = other] \in Seq(Node)
    <3>1. PICK k \in Nat : deps[n] \in [1 .. k -> Node]
      BY <2>1, SeqDef
    <3>2. [deps[n] EXCEPT ![i] = other] \in [1 .. k -> Node]
      BY <3>1
    <3>3. QED BY <3>2, SeqDef
  <2>3. deps' = [deps EXCEPT ![n] = [deps[n] EXCEPT ![i] = other]]
    BY <2>1 DEF setDependencyAt
  <2>4. QED BY <2>1, <2>2, <2>3
<1>6. rewires' \in 0 .. MaxRewires
  <2>1. rewires < MaxRewires /\ rewires' = rewires + 1
    BY DEF setDependencyAt
  <2>2. rewires \in 0 .. MaxRewires /\ MaxRewires \in Nat
    BY ListAssumption DEF ListTypeOK, ListAssumption
  <2>3. QED BY <2>1, <2>2
<1>7. ListTypeOK'
  BY <1>5, <1>6 DEF ListTypeOK, setDependencyAt, sortVars
<1>8. QED BY <1>3, <1>4, <1>7

(* A call enters a node.                                                   *)
LEMMA SearchInvEnters ==
  ASSUME SearchInv, NEW n \in Node, DfsEnters(n)
  PROVE  SearchInv'
<1> USE DEF SearchInv
<1>1. /\ n \notin active /\ n \notin visited
      /\ visited' = visited \cup {n} /\ active' = active \cup {n} /\ stack' = <<n>> \o stack
      /\ UNCHANGED <<deps, priority, rewires, depth, nodes, phase, nodeIndex, depIndex,
                     sortedNodes>>
      /\ phase # "idle"
  BY DEF DfsEnters, Calls, graphVars
<1>2. stack \in Seq(Node) /\ IsInjective(stack) /\ active = Range(stack) /\ n \notin Range(stack)
  BY <1>1 DEF ListTypeOK
<1>3. stack' \in Seq(Node) /\ IsInjective(stack') /\ active' = Range(stack')
  BY <1>1, <1>2, RangeOfCons
<1>4. ListTypeOK'
  BY <1>1, <1>3 DEF ListTypeOK
<1>5. Marks'
  BY <1>1 DEF Marks
<1>6. NodesSeen'
  BY <1>1 DEF NodesSeen
<1>7. PlacedInOrder'
  BY <1>1 DEF PlacedInOrder, InDependencyOrder, Depend
<1>8. PassedInOrder'
  <2>1. depIndex[n] = 1
    BY <1>1 DEF Marks
  <2>2. QED BY <1>1, <2>1 DEF PassedInOrder
<1>9. QED BY <1>4, <1>5, <1>6, <1>7, <1>8

(* A call returns to sortNodes().                                          *)
LEMMA SearchInvReturnsToLoop ==
  ASSUME SearchInv, NEW n \in Node, DfsReturns(n), stack = <<>>
  PROVE  SearchInv'
<1> USE DEF SearchInv
<1>1. /\ n \in visited /\ nodeIndex <= Len(nodes) /\ n = nodes[nodeIndex]
      /\ nodeIndex' = nodeIndex + 1
      /\ UNCHANGED <<deps, priority, rewires, depth, visited, active, nodes, phase, stack,
                     depIndex, sortedNodes>>
      /\ phase # "idle"
  BY DEF DfsReturns, Calls, graphVars
<1>2. nodeIndex \in 1 .. Len(nodes) + 1 /\ Len(nodes) \in Nat
  BY LenProperties DEF ListTypeOK
<1>3. nodeIndex' \in 1 .. Len(nodes) + 1
  BY <1>1, <1>2
<1>4. ListTypeOK'
  BY <1>1, <1>3 DEF ListTypeOK
<1>5. Marks' /\ PlacedInOrder' /\ PassedInOrder'
  BY <1>1 DEF Marks, PlacedInOrder, PassedInOrder, InDependencyOrder, Depend
<1>6. \A i \in 1 .. nodeIndex' - 1 : i \in 1 .. nodeIndex - 1 \/ i = nodeIndex
  BY <1>1, <1>2
<1>7. NodesSeen'
  BY <1>1, <1>6 DEF NodesSeen
<1>8. QED BY <1>4, <1>5, <1>7

(* The innermost active node.                                              *)
LEMMA HeadIsActive ==
  ASSUME ListTypeOK, Marks, stack # <<>>
  PROVE  /\ Head(stack) \in Node /\ Head(stack) \in active
         /\ Head(stack) \notin Range(sortedNodes)
         /\ depIndex[Head(stack)] \in Nat \ {0}
<1>1. Head(stack) \in Node /\ Head(stack) \in Range(stack)
  BY HeadTailProperties, RangeOfTail DEF ListTypeOK
<1>2. QED BY <1>1 DEF ListTypeOK, Marks

(* A call returns to a node, which gets deeper than the dependency.        *)
LEMMA SearchInvReturnsToNode ==
  ASSUME SearchInv, NEW n \in Node, DfsReturns(n), stack # <<>>
  PROVE  SearchInv'
<1> USE DEF SearchInv
<1> DEFINE h == Head(stack)
<1>1. h \in Node /\ h \in active /\ h \notin Range(sortedNodes) /\ depIndex[h] \in Nat \ {0}
  BY HeadIsActive
<1>2. /\ n \in visited /\ n \notin active /\ phase # "idle"
      /\ depIndex[h] <= Len(deps[h]) /\ n = deps[h][depIndex[h]]
      /\ depth' = [depth EXCEPT ![h] = DeeperThan(depth[h], depth[n])]
      /\ depIndex' = [depIndex EXCEPT ![h] = depIndex[h] + 1]
      /\ UNCHANGED <<deps, priority, rewires, visited, active, nodes, phase, nodeIndex, stack,
                     sortedNodes>>
  BY <1>1 DEF DfsReturns, Calls, graphVars, ListTypeOK
<1> HIDE DEF h
<1>3. depth \in [Node -> Nat] /\ depIndex \in [Node -> Nat \ {0}] /\ active \subseteq Node
      /\ Range(sortedNodes) \subseteq Node
  BY ElementOfSeq, LenProperties DEF ListTypeOK, Range
<1>4. n \in Range(sortedNodes)
  BY <1>2 DEF Marks
<1>5. /\ depth'[h] \in Nat /\ depth'[h] >= depth[h] /\ depth'[h] > depth[n]
      /\ \A m \in Node : m # h => depth'[m] = depth[m]
  BY <1>1, <1>2, <1>3 DEF DeeperThan
<1>6. ListTypeOK'
  <2>1. depth' \in [Node -> Nat] /\ depIndex' \in [Node -> Nat \ {0}]
    BY <1>1, <1>2, <1>3 DEF DeeperThan
  <2>2. QED BY <1>2, <2>1 DEF ListTypeOK
<1>7. Marks'
  BY <1>1, <1>2, <1>3 DEF Marks
<1>8. NodesSeen'
  BY <1>2 DEF NodesSeen
<1>9. PlacedInOrder'
  <2>1. InDependencyOrder(sortedNodes)'
    BY <1>2 DEF PlacedInOrder, InDependencyOrder, Depend
  <2>2. ASSUME NEW m \in Range(sortedNodes), NEW d \in Depend(m)
        PROVE  depth'[d] < depth'[m]
    <3>1. d \in Range(sortedNodes)
      <4>1. PICK i \in DOMAIN sortedNodes : m = sortedNodes[i]
        BY DEF Range
      <4>2. PICK j \in 1 .. i - 1 : sortedNodes[j] = d
        BY <2>2, <4>1 DEF PlacedInOrder, InDependencyOrder
      <4>3. j \in DOMAIN sortedNodes
        BY <4>1, <4>2, LenProperties DEF ListTypeOK
      <4>4. QED BY <4>2, <4>3 DEF Range
    <3>2. depth'[d] = depth[d] /\ depth'[m] = depth[m]
      BY <1>1, <1>3, <1>5, <3>1
    <3>3. QED BY <2>2, <3>2 DEF PlacedInOrder
  <2>3. QED BY <1>2, <2>1, <2>2 DEF PlacedInOrder, Depend
<1>10. PassedInOrder'
  <2>1. SUFFICES ASSUME NEW m \in active, NEW i \in 1 .. depIndex'[m] - 1
                 PROVE  /\ deps[m][i] \in Range(sortedNodes)
                        /\ depth'[deps[m][i]] < depth'[m]
    BY <1>2 DEF PassedInOrder
  <2>2. CASE m # h
    <3>1. depIndex'[m] = depIndex[m] /\ depth'[m] = depth[m]
      BY <1>2, <1>3, <1>5, <2>2
    <3>2. deps[m][i] \in Range(sortedNodes) /\ depth[deps[m][i]] < depth[m]
      BY <2>1, <3>1 DEF PassedInOrder
    <3>3. QED BY <1>1, <1>3, <1>5, <3>1, <3>2
  <2>3. CASE m = h /\ i \in 1 .. depIndex[h] - 1
    <3>1. deps[h][i] \in Range(sortedNodes) /\ depth[deps[h][i]] < depth[h]
      BY <1>1, <2>3 DEF PassedInOrder
    <3>2. depth'[deps[h][i]] = depth[deps[h][i]] /\ depth[deps[h][i]] \in Nat /\ depth[h] \in Nat
      BY <1>1, <1>3, <1>5, <3>1
    <3>3. QED BY <1>5, <2>3, <3>1, <3>2
  <2>4. CASE m = h /\ i = depIndex[h]
    <3>1. depth'[n] = depth[n] /\ depth[n] \in Nat
      BY <1>1, <1>3, <1>4, <1>5
    <3>2. QED BY <1>2, <1>4, <1>5, <2>4, <3>1
  <2>5. m = h => i \in 1 .. depIndex[h] - 1 \/ i = depIndex[h]
    BY <1>1, <1>2, <1>3
  <2>6. QED BY <2>2, <2>3, <2>4, <2>5
<1>11. QED BY <1>6, <1>7, <1>8, <1>9, <1>10

(* A call places its node and leaves.                                      *)
LEMMA SearchInvLeaves ==
  ASSUME SearchInv, DfsLeaves
  PROVE  SearchInv'
<1> USE DEF SearchInv
<1> DEFINE h == Head(stack)
<1>1. stack # <<>> /\ phase # "idle" /\ depIndex[h] > Len(deps[h])
  BY DEF DfsLeaves, AllDepsSeen
<1>2. h \in Node /\ h \in active /\ h \notin Range(sortedNodes) /\ depIndex[h] \in Nat \ {0}
  BY <1>1, HeadIsActive
<1>3. /\ active' = active \ {h} /\ sortedNodes' = Append(sortedNodes, h) /\ stack' = Tail(stack)
      /\ depIndex' = [depIndex EXCEPT ![h] = 1]
      /\ UNCHANGED <<deps, priority, rewires, depth, visited, nodes, phase, nodeIndex>>
  BY DEF DfsLeaves, graphVars
<1>4. /\ stack' \in Seq(Node) /\ IsInjective(stack') /\ active' = Range(stack')
  BY <1>1, <1>3, RangeOfTail, HeadTailProperties DEF ListTypeOK
<1>5. /\ sortedNodes' \in Seq(Node) /\ IsInjective(sortedNodes')
      /\ Range(sortedNodes') = Range(sortedNodes) \cup {h}
  <2>1. sortedNodes \in Seq(Node) /\ IsInjective(sortedNodes)
    BY DEF ListTypeOK, Marks
  <2> HIDE DEF h
  <2>2. QED BY <1>2, <1>3, <2>1, RangeOfAppend, AppendProperties
<1> HIDE DEF h
<1>6. depIndex \in [Node -> Nat \ {0}] /\ active \subseteq Node /\ deps \in [Node -> Seq(Node)]
  BY LenProperties, ElementOfSeq DEF ListTypeOK, Range
<1>7. depIndex' \in [Node -> Nat \ {0}]
  BY <1>2, <1>3, <1>6
<1>8. ListTypeOK'
  BY <1>3, <1>4, <1>5, <1>7 DEF ListTypeOK
<1>9. Marks'
  <2>1. visited' = active' \cup Range(sortedNodes') /\ active' \cap Range(sortedNodes') = {}
    BY <1>2, <1>3, <1>5 DEF Marks
  <2>2. \A n \in Node \ active' : depIndex'[n] = 1
    BY <1>2, <1>3, <1>6 DEF Marks
  <2>3. QED BY <1>1, <1>3, <1>5, <2>1, <2>2 DEF Marks
<1>10. NodesSeen'
  BY <1>3 DEF NodesSeen
<1>11. ASSUME NEW d \in Depend(h) PROVE d \in Range(sortedNodes) /\ depth[d] < depth[h]
  <2>1. PICK i \in 1 .. Len(deps[h]) : d = deps[h][i]
    BY <1>2, <1>6, DependByIndex
  <2>2. i \in 1 .. depIndex[h] - 1
    BY <1>1, <1>2, <1>6, <2>1, DependByIndex
  <2>3. QED BY <1>2, <2>1, <2>2 DEF PassedInOrder
<1>12. PlacedInOrder'
  <2>1. InDependencyOrder(Append(sortedNodes, h))
    BY <1>2, <1>11, OrderOfAppend DEF PlacedInOrder, ListTypeOK
  <2>2. InDependencyOrder(sortedNodes)'
    BY <1>3, <2>1 DEF InDependencyOrder, Depend
  <2>3. \A n \in Range(sortedNodes') : \A d \in Depend(n) : depth[d] < depth[n]
    BY <1>5, <1>11 DEF PlacedInOrder
  <2>4. QED BY <1>3, <2>2, <2>3 DEF PlacedInOrder, Depend
<1>13. PassedInOrder'
  <2>1. \A n \in active' : n \in active /\ depIndex'[n] = depIndex[n]
    BY <1>2, <1>3, <1>6
  <2>2. QED BY <1>3, <1>5, <2>1 DEF PassedInOrder
<1>14. QED BY <1>8, <1>9, <1>10, <1>12, <1>13

--------------------------------------------------------------------------------
(* What a sort leaves in the list.                                         *)

(* When a sort returns the search has placed the nodes of the list, no     *)
(* others, and whatever the order, they are all still there.               *)
LEMMA SortedNodes ==
  ASSUME SearchInv, NEW t \in SortType, SortReturns(t)
  PROVE  /\ active = {} /\ visited = Range(sortedNodes)
         /\ Range(sortedNodes) = Range(nodes)
         /\ nodes' \in Seq(Node) /\ Len(nodes') = Len(nodes) /\ IsInjective(nodes')
         /\ Range(nodes') = Range(nodes)
<1> USE DEF SearchInv
<1>1. /\ stack = <<>> /\ nodeIndex > Len(nodes) /\ Len(sortedNodes) = Len(nodes)
      /\ nodes' \in Arrangements(t)
  BY DEF SortReturns, SearchDone
<1>2. nodes \in Seq(Node) /\ sortedNodes \in Seq(Node) /\ IsInjective(nodes)
      /\ IsInjective(sortedNodes) /\ Len(nodes) \in Nat
      /\ nodeIndex \in 1 .. Len(nodes) + 1
  BY LenProperties DEF ListTypeOK, Marks, NodesSeen
<1>3. active = {} /\ visited = Range(sortedNodes)
  BY <1>1, RangeOfEmpty DEF ListTypeOK, Marks
<1>4. Range(sortedNodes) = Range(nodes)
  <2>1. DOMAIN nodes = 1 .. Len(nodes) /\ nodeIndex - 1 = Len(nodes)
    BY <1>1, <1>2, LenProperties
  <2>2. Range(nodes) \subseteq Range(sortedNodes)
    BY <1>3, <2>1 DEF NodesSeen, Range
  <2>3. /\ IsFiniteSet(Range(sortedNodes))
        /\ Cardinality(Range(sortedNodes)) = Cardinality(Range(nodes))
    BY <1>1, <1>2, RangeCardinality
  <2>4. QED BY <2>2, <2>3, FS_Subset
<1>5. CASE t = "Topological"
  <2>1. nodes' = sortedNodes
    BY <1>1, <1>5 DEF Arrangements
  <2>2. QED BY <1>1, <1>2, <1>3, <1>4, <2>1
<1>6. CASE t # "Topological"
  <2>1. /\ nodes' \in [1 .. Len(nodes) -> Range(nodes)]
        /\ IsInjective(nodes')
    BY <1>1, <1>4, <1>6 DEF Arrangements
  <2>2. Range(nodes) \subseteq Node
    BY <1>2, LenProperties, ElementOfSeq DEF Range
  <2>3. nodes' \in [1 .. Len(nodes) -> Node]
    BY <2>1, <2>2
  <2>4. nodes' \in Seq(Node) /\ Len(nodes') = Len(nodes)
    BY <1>2, <2>3, SeqDef, LenProperties
  <2>5. Range(nodes') \subseteq Range(nodes)
    BY <2>1 DEF Range
  <2>6. /\ IsFiniteSet(Range(nodes))
        /\ Cardinality(Range(nodes')) = Cardinality(Range(nodes))
    BY <1>2, <2>1, <2>4, RangeCardinality
  <2>7. Range(nodes') = Range(nodes)
    BY <2>5, <2>6, FS_Subset
  <2>8. QED BY <1>3, <1>4, <2>1, <2>4, <2>7
<1>7. QED BY <1>5, <1>6

LEMMA SearchInvSorted ==
  ASSUME SearchInv, NEW t \in SortType, SortReturns(t)
  PROVE  SearchInv'
<1> USE DEF SearchInv
<1>1. /\ stack = <<>> /\ phase' = "idle" /\ visited' = visited \ Range(nodes')
      /\ nodeIndex' = 1 /\ sortedNodes' = <<>>
      /\ UNCHANGED <<deps, priority, rewires, depth, active, stack, depIndex>>
  BY DEF SortReturns, SearchDone, EndOfLocals, graphVars
<1>2. /\ active = {} /\ visited' = {}
      /\ nodes' \in Seq(Node) /\ Len(nodes') = Len(nodes) /\ IsInjective(nodes')
  BY <1>1, SortedNodes
<1>3. Len(nodes) \in Nat /\ Len(nodes) <= NUM_OF_NODES /\ <<>> \in Seq(Node)
  BY LenProperties DEF ListTypeOK
<1>4. Range(sortedNodes') = {} /\ IsInjective(sortedNodes') /\ DOMAIN sortedNodes' = {}
  BY <1>1, RangeOfEmpty
<1>5. ListTypeOK'
  <2>1. nodeIndex' \in 1 .. Len(nodes') + 1
    BY <1>1, <1>2, <1>3
  <2>2. QED BY <1>1, <1>2, <1>3, <2>1 DEF ListTypeOK
<1>6. Marks'
  BY <1>1, <1>2, <1>4 DEF Marks
<1>7. NodesSeen'
  BY <1>1, <1>2 DEF NodesSeen
<1>8. PlacedInOrder'
  BY <1>4 DEF PlacedInOrder, InDependencyOrder
<1>9. PassedInOrder'
  BY <1>1, <1>2 DEF PassedInOrder
<1>10. QED BY <1>5, <1>6, <1>7, <1>8, <1>9

LEMMA SearchInvNext ==
  ASSUME SearchInv, [ListNext]_listVars
  PROVE  SearchInv'
<1>1. CASE \E n \in Node : addNode(n)
  BY <1>1, SearchInvAdd
<1>2. CASE \E n, other \in Node : \E i \in DOMAIN deps[n] : setDependencyAt(n, i, other)
  BY <1>2, SearchInvRewire
<1>3. CASE SortBegins
  BY <1>3, SearchInvPhase DEF SortBegins
<1>4. CASE SearchStep
  <2>1. CASE \E n \in Node : DfsAborts(n)
    BY <2>1, SearchInvPhase DEF DfsAborts
  <2>2. CASE \E n \in Node : DfsEnters(n)
    BY <2>2, SearchInvEnters
  <2>3. CASE \E n \in Node : DfsReturns(n)
    BY <2>3, SearchInvReturnsToLoop, SearchInvReturnsToNode
  <2>4. CASE DfsLeaves
    BY <2>4, SearchInvLeaves
  <2>5. CASE DfsOverruns
    BY <2>5, SearchInvPhase DEF DfsOverruns
  <2>6. QED BY <1>4, <2>1, <2>2, <2>3, <2>4, <2>5 DEF SearchStep
<1>5. CASE \E t \in SortType : SortCrashes(t) \/ SortAborts(t)
  BY <1>5, SearchInvPhase DEF SortCrashes, SortAborts
<1>6. CASE \E t \in SortType : SortReturns(t)
  BY <1>6, SearchInvSorted
<1>7. CASE UNCHANGED listVars
  BY <1>7, SearchInvPhase DEF listVars
<1>8. QED BY <1>1, <1>2, <1>3, <1>4, <1>5, <1>6, <1>7 DEF ListNext

LEMMA SearchInvariant == ListSpec => []SearchInv
BY SearchInvInit, SearchInvNext, PTL DEF ListSpec

(* The variables of the list and of the search keep their types; so        *)
(* addNode() never writes past m_nodes.                                    *)
THEOREM ListTypeCorrect == ListSpec => []ListTypeOK
<1>1. SearchInv => ListTypeOK
  BY DEF SearchInv
<1>2. QED BY <1>1, SearchInvariant, PTL

(* A sort that returns has kept the nodes of the list and leaves no mark,  *)
(* for every graph, list and order.                                        *)
THEOREM SortKeepsTheNodes == ListSpec => SortKeepsNodes
<1> DEFINE A == \A t \in SortType :
                  SortReturns(t) => Range(nodes') = Range(nodes) /\ visited' = {} /\ active' = {}
<1>1. SearchInv => A
  <2>1. SUFFICES ASSUME SearchInv, NEW t \in SortType, SortReturns(t)
                 PROVE  Range(nodes') = Range(nodes) /\ visited' = {} /\ active' = {}
    OBVIOUS
  <2>2. visited' = visited \ Range(nodes') /\ active' = active
    BY <2>1 DEF SortReturns
  <2>3. QED BY <2>1, <2>2, SortedNodes
<1>2. ListSpec => [][A]_listVars
  BY <1>1, SearchInvariant, PTL
<1>3. QED BY <1>2 DEF SortKeepsNodes

(* What a sort that respects dependencies returns.                         *)
LEMMA SortedInOrder ==
  ASSUME SearchInv, NEW t \in DependencySorts, SortReturns(t)
  PROVE  InDependencyOrder(nodes')
<1>1. SUFFICES ASSUME NEW i \in DOMAIN nodes', NEW d \in Depend(nodes'[i])
               PROVE  \E j \in 1 .. i - 1 : nodes'[j] = d
  BY DEF InDependencyOrder
<1>2. t \in SortType /\ nodes' \in Arrangements(t)
  BY <1>1 DEF DependencySorts, SortType, SortReturns
<1>3. CASE t = "Topological"
  <2>1. nodes' = sortedNodes
    BY <1>2, <1>3 DEF Arrangements
  <2>2. QED BY <1>1, <2>1 DEF SearchInv, PlacedInOrder, InDependencyOrder
<1>4. CASE t \in {"Depth", "DepthOrPriority"}
  <2>1. /\ Range(nodes') = Range(sortedNodes) /\ nodes' \in Seq(Node)
        /\ \A k, l \in DOMAIN nodes' : k < l => MayPrecede(t, nodes'[k], nodes'[l])
    BY <1>1, <1>2, <1>4, SortedNodes DEF Arrangements
  <2>2. nodes'[i] \in Range(sortedNodes) /\ nodes'[i] \in Node
    BY <1>1, <2>1, LenProperties, ElementOfSeq DEF Range
  <2>3. depth[d] < depth[nodes'[i]]
    BY <1>1, <2>2 DEF SearchInv, PlacedInOrder
  <2>4. d \in Range(sortedNodes)
    <3>1. PICK k \in DOMAIN sortedNodes : nodes'[i] = sortedNodes[k]
      BY <2>2 DEF Range
    <3>2. PICK l \in 1 .. k - 1 : sortedNodes[l] = d
      BY <1>1, <3>1 DEF SearchInv, PlacedInOrder, InDependencyOrder
    <3>3. l \in DOMAIN sortedNodes
      BY <1>1, <3>1, <3>2, LenProperties DEF SearchInv, ListTypeOK
    <3>4. QED BY <3>2, <3>3 DEF Range
  <2>5. PICK j \in DOMAIN nodes' : nodes'[j] = d
    BY <2>1, <2>4 DEF Range
  <2>6. depth[d] \in Nat /\ depth[nodes'[i]] \in Nat
    <3>1. d \in Node
      BY <1>1, <2>4, LenProperties, ElementOfSeq DEF SearchInv, ListTypeOK, Range
    <3>2. QED BY <1>1, <2>2, <3>1 DEF SearchInv, ListTypeOK
  <2>7. ~(i < j) /\ i # j
    <3>1. i < j => MayPrecede(t, nodes'[i], d)
      BY <1>1, <2>1, <2>5
    <3>2. ~MayPrecede(t, nodes'[i], d)
      <4>1. CASE t = "Depth"
        BY <2>3, <2>6, <4>1 DEF MayPrecede
      <4>2. CASE t = "DepthOrPriority"
        BY <2>3, <2>6, <4>2 DEF MayPrecede
      <4>3. QED BY <1>4, <4>1, <4>2
    <3>3. i # j
      BY <2>3, <2>5, <2>6
    <3>4. QED BY <3>1, <3>2, <3>3
  <2>8. DOMAIN nodes' = 1 .. Len(nodes') /\ Len(nodes') \in Nat
    BY <2>1, LenProperties
  <2>9. QED BY <1>1, <2>5, <2>7, <2>8
<1>5. QED BY <1>1, <1>3, <1>4 DEF DependencySorts

(* The topological sort and the two sorts by depth return a list in        *)
(* dependency order, for every graph and list, also after dependencies     *)
(* were changed.                                                           *)
THEOREM SortIsTopological == ListSpec => SortsTopologically
<1> DEFINE A == \A t \in DependencySorts : SortReturns(t) => InDependencyOrder(nodes')
<1>1. SearchInv => A
  BY SortedInOrder
<1>2. ListSpec => [][A]_listVars
  BY <1>1, SearchInvariant, PTL
<1>3. QED BY <1>2 DEF SortsTopologically

--------------------------------------------------------------------------------
(* Cycles.                                                                 *)

(* Each active node is a dependency of the one that called for it.         *)
StackIsPath == \A i \in 1 .. Len(stack) - 1 : stack[i] \in Depend(stack[i + 1])

CycleInv ==
  /\ SearchInv
  /\ StackIsPath
  /\ phase = "cycle" => Cyclic(active)

(* Nodes whose depths exceed those of their dependencies form no cycle:    *)
(* the shallowest node of a cycle would depend on a shallower one.         *)
LEMMA PlacedIsAcyclic ==
  ASSUME SearchInv
  PROVE  ~Cyclic(Range(sortedNodes))
<1>1. SUFFICES ASSUME NEW C \in SUBSET Range(sortedNodes), C # {},
                      \A n \in C : Depend(n) \cap C # {}
               PROVE  FALSE
  BY DEF Cyclic
<1> DEFINE T == {depth[n] : n \in C}
<1>2. C \subseteq Node /\ depth \in [Node -> Nat]
  <2>1. sortedNodes \in Seq(Node) /\ depth \in [Node -> Nat]
    BY DEF SearchInv, ListTypeOK
  <2>2. Range(sortedNodes) \subseteq Node
    BY <2>1, LenProperties, ElementOfSeq DEF Range
  <2>3. QED BY <1>1, <2>1, <2>2
<1>3. T \subseteq Nat /\ T # {}
  BY <1>1, <1>2
<1>4. PICK x \in T : \A y \in T : ~(<<y, x>> \in OpToRel(<, Nat))
  BY <1>3, WFMin, NatLessThanWellFounded
<1>5. PICK n \in C : x = depth[n]
  BY <1>4
<1>6. PICK d \in C : d \in Depend(n)
  BY <1>1, <1>5
<1>7. depth[d] \in T /\ depth[d] < depth[n] /\ depth[d] \in Nat /\ depth[n] \in Nat
  BY <1>1, <1>2, <1>5, <1>6 DEF SearchInv, PlacedInOrder
<1>8. <<depth[d], x>> \in OpToRel(<, Nat)
  BY <1>5, <1>7 DEF OpToRel
<1>9. QED BY <1>4, <1>7, <1>8

(* A call that meets an active node closes a cycle of active nodes.        *)
LEMMA AbortMeansCycle ==
  ASSUME CycleInv, NEW n \in Node, DfsAborts(n)
  PROVE  Cyclic(active)
<1>1. n \in active /\ Calls(n)
  BY DEF DfsAborts
<1>2. stack \in Seq(Node) /\ active = Range(stack) /\ deps \in [Node -> Seq(Node)]
      /\ depIndex \in [Node -> Nat \ {0}]
  BY DEF CycleInv, SearchInv, ListTypeOK
<1>3. Len(stack) \in Nat /\ DOMAIN stack = 1 .. Len(stack)
  BY <1>2, LenProperties
<1>4. PICK k \in 1 .. Len(stack) : n = stack[k]
  BY <1>1, <1>2, <1>3 DEF Range
<1>5. stack # <<>> /\ Head(stack) = stack[1] /\ stack[1] \in Node
  BY <1>2, <1>3, <1>4, ElementOfSeq
<1>6. n \in Depend(stack[1])
  <2>1. /\ depIndex[stack[1]] \in Nat \ {0} /\ depIndex[stack[1]] <= Len(deps[stack[1]])
        /\ n = deps[stack[1]][depIndex[stack[1]]]
    BY <1>1, <1>2, <1>5 DEF Calls
  <2>2. depIndex[stack[1]] \in 1 .. Len(deps[stack[1]])
    BY <1>2, <1>5, <2>1, DependByIndex
  <2>3. QED BY <1>2, <1>5, <2>1, <2>2, DependByIndex
<1> DEFINE C == {stack[i] : i \in 1 .. k}
<1>7. C # {} /\ C \subseteq active
  <2>1. 1 .. k \subseteq DOMAIN stack /\ k \in 1 .. k
    BY <1>3, <1>4
  <2>2. C \subseteq Range(stack) /\ stack[k] \in C
    BY <2>1 DEF Range
  <2>3. QED BY <1>2, <2>2
<1>8. ASSUME NEW m \in C PROVE Depend(m) \cap C # {}
  <2>1. PICK i \in 1 .. k : m = stack[i]
    BY <1>8
  <2>2. CASE i = 1
    <3>1. n \in C
      BY <1>4
    <3>2. QED BY <1>6, <2>1, <2>2, <3>1
  <2>3. CASE i # 1
    <3>1. i - 1 \in 1 .. Len(stack) - 1 /\ (i - 1) + 1 = i /\ i - 1 \in 1 .. k
      BY <1>3, <1>4, <2>1, <2>3
    <3>2. stack[i - 1] \in Depend(stack[i]) /\ stack[i - 1] \in C
      BY <3>1 DEF CycleInv, StackIsPath
    <3>3. QED BY <2>1, <3>2
  <2>4. QED BY <2>2, <2>3
<1>9. QED BY <1>7, <1>8 DEF Cyclic

LEMMA CycleInvEnters ==
  ASSUME CycleInv, NEW n \in Node, DfsEnters(n)
  PROVE  StackIsPath'
<1>1. stack \in Seq(Node) /\ stack' = <<n>> \o stack /\ deps' = deps /\ Calls(n)
      /\ deps \in [Node -> Seq(Node)] /\ depIndex \in [Node -> Nat \ {0}]
  BY DEF CycleInv, SearchInv, ListTypeOK, DfsEnters, graphVars
<1>2. /\ Len(stack) \in Nat /\ Len(stack') = Len(stack) + 1 /\ stack'[1] = n
      /\ \A i \in 1 .. Len(stack) : stack'[i + 1] = stack[i]
  BY <1>1, RangeOfCons, LenProperties
<1>3. SUFFICES ASSUME NEW i \in 1 .. Len(stack)
               PROVE  stack'[i] \in Depend(stack'[i + 1])
  BY <1>1, <1>2 DEF StackIsPath, Depend
<1>4. CASE i = 1
  <2>1. stack # <<>> /\ Head(stack) = stack[1] /\ stack[1] \in Node
    BY <1>1, <1>2, <1>3, ElementOfSeq
  <2>2. /\ depIndex[stack[1]] \in Nat \ {0} /\ depIndex[stack[1]] <= Len(deps[stack[1]])
        /\ n = deps[stack[1]][depIndex[stack[1]]]
    BY <1>1, <2>1 DEF Calls
  <2>3. depIndex[stack[1]] \in 1 .. Len(deps[stack[1]])
    BY <1>1, <2>1, <2>2, DependByIndex
  <2>4. n \in Depend(stack[1])
    BY <1>1, <2>1, <2>2, <2>3, DependByIndex
  <2>5. stack'[2] = stack[1]
    BY <1>2, <1>3, <1>4
  <2>6. QED BY <1>2, <1>4, <2>4, <2>5
<1>5. CASE i # 1
  <2>1. i - 1 \in 1 .. Len(stack) - 1 /\ i - 1 \in 1 .. Len(stack) /\ (i - 1) + 1 = i
    BY <1>2, <1>3, <1>5
  <2>2. stack[i - 1] \in Depend(stack[i])
    BY <2>1 DEF CycleInv, StackIsPath
  <2>3. stack'[i] = stack[i - 1] /\ stack'[i + 1] = stack[i]
    BY <1>2, <1>3, <2>1
  <2>4. QED BY <2>2, <2>3
<1>6. QED BY <1>4, <1>5

LEMMA CycleInvLeaves ==
  ASSUME CycleInv, DfsLeaves
  PROVE  StackIsPath'
<1>1. stack \in Seq(Node) /\ stack # <<>> /\ stack' = Tail(stack) /\ deps' = deps
  BY DEF CycleInv, SearchInv, ListTypeOK, DfsLeaves, AllDepsSeen, graphVars
<1>2. /\ Len(stack) \in Nat /\ Len(stack') = Len(stack) - 1
      /\ \A i \in 1 .. Len(stack) - 1 : stack'[i] = stack[i + 1]
  BY <1>1, HeadTailProperties, LenProperties
<1>3. SUFFICES ASSUME NEW i \in 1 .. Len(stack) - 2
               PROVE  stack'[i] \in Depend(stack'[i + 1])
  BY <1>1, <1>2 DEF StackIsPath, Depend
<1>4. /\ i + 1 \in 1 .. Len(stack) - 1 /\ i \in 1 .. Len(stack) - 1
      /\ stack'[i] = stack[i + 1] /\ stack'[i + 1] = stack[(i + 1) + 1]
  BY <1>2, <1>3
<1>5. QED BY <1>4 DEF CycleInv, StackIsPath

(* The steps that keep the stack, and do not find a cycle.                 *)
LEMMA CycleInvKept ==
  ASSUME CycleInv, stack' = stack, active' = active,
         deps' = deps \/ stack = <<>>,
         phase' # "cycle" \/ (phase' = phase /\ deps' = deps)
  PROVE  StackIsPath' /\ (phase' = "cycle" => Cyclic(active)')
<1>1. StackIsPath'
  <2>1. CASE deps' = deps
    BY <2>1 DEF CycleInv, StackIsPath, Depend
  <2>2. CASE stack = <<>>
    BY <2>2 DEF StackIsPath
  <2>3. QED BY <2>1, <2>2
<1>2. phase' = "cycle" => Cyclic(active)'
  BY DEF CycleInv, Cyclic, Depend
<1>3. QED BY <1>1, <1>2

LEMMA CycleInvNext ==
  ASSUME CycleInv, [ListNext]_listVars
  PROVE  CycleInv'
<1> DEFINE Path == StackIsPath' /\ (phase' = "cycle" => Cyclic(active)')
<1>1. SearchInv'
  BY SearchInvNext DEF CycleInv
<1>2. ASSUME NEW n \in Node, addNode(n) PROVE Path
  BY <1>2, CycleInvKept DEF addNode, graphVars, sortVars
<1>3. ASSUME NEW n \in Node, NEW other \in Node, NEW i \in DOMAIN deps[n],
             setDependencyAt(n, i, other)
      PROVE  Path
  <2>1. /\ phase = "idle" /\ stack' = stack /\ active' = active /\ phase' # "cycle"
    BY <1>3 DEF setDependencyAt, sortVars
  <2>2. stack = <<>>
    BY <2>1 DEF CycleInv, SearchInv, Marks
  <2>3. QED BY <2>1, <2>2, CycleInvKept
<1>4. ASSUME SortBegins PROVE Path
  BY <1>4, CycleInvKept DEF SortBegins, graphVars, sortVars
<1>5. ASSUME NEW n \in Node, DfsAborts(n) PROVE Path
  <2>1. Cyclic(active) /\ UNCHANGED <<deps, active, stack>>
    BY <1>5, AbortMeansCycle DEF DfsAborts, graphVars, sortVars
  <2>2. Cyclic(active)'
    BY <2>1 DEF Cyclic, Depend
  <2>3. StackIsPath'
    BY <2>1 DEF CycleInv, StackIsPath, Depend
  <2>4. QED BY <2>2, <2>3
<1>6. ASSUME NEW n \in Node, DfsEnters(n) PROVE Path
  <2>1. phase' # "cycle"
    BY <1>6 DEF DfsEnters, Calls
  <2>2. QED BY <1>6, <2>1, CycleInvEnters
<1>7. ASSUME NEW n \in Node, DfsReturns(n) PROVE Path
  BY <1>7, CycleInvKept DEF DfsReturns, Calls, graphVars
<1>8. ASSUME DfsLeaves PROVE Path
  <2>1. phase' # "cycle"
    BY <1>8 DEF DfsLeaves
  <2>2. QED BY <1>8, <2>1, CycleInvLeaves
<1>9. ASSUME DfsOverruns PROVE Path
  BY <1>9, CycleInvKept DEF DfsOverruns, graphVars, sortVars
<1>10. ASSUME NEW t \in SortType, SortCrashes(t) \/ SortAborts(t) PROVE Path
  BY <1>10, CycleInvKept DEF SortCrashes, SortAborts, graphVars, sortVars
<1>11. ASSUME NEW t \in SortType, SortReturns(t) PROVE Path
  BY <1>11, CycleInvKept DEF SortReturns, EndOfLocals, graphVars
<1>12. ASSUME UNCHANGED listVars PROVE Path
  BY <1>12, CycleInvKept DEF listVars, graphVars, sortVars
<1>13. Path
  BY <1>2, <1>3, <1>4, <1>5, <1>6, <1>7, <1>8, <1>9, <1>10, <1>11, <1>12
  DEF ListNext, SearchStep
<1>14. QED BY <1>1, <1>13 DEF CycleInv

(* "Cycle in graph detected!" is said of cyclic graphs only, and the nodes *)
(* that the search has placed are never on a cycle, for every graph.       *)
THEOREM CyclesAreDetected == ListSpec => []CyclesAreFound
<1>1. ListInit => CycleInv
  BY SearchInvInit DEF ListInit, CycleInv, StackIsPath
<1>2. CycleInv => CyclesAreFound
  BY PlacedIsAcyclic DEF CycleInv, CyclesAreFound
<1>3. QED BY <1>1, <1>2, CycleInvNext, PTL DEF ListSpec

--------------------------------------------------------------------------------
(* Depths and chains of dependencies.                                      *)

LEMMA ChainOfNone ==
  ASSUME NEW n \in Node
  PROVE  n \in Chain(0)
<1> DEFINE p == [i \in 0 .. 0 |-> n]
<1>1. p \in [0 .. 0 -> Node] /\ p[0] = n /\ \A i \in 1 .. 0 : p[i] \in Depend(p[i - 1])
  OBVIOUS
<1>2. QED BY <1>1, Zenon DEF Chain

(* A chain from a dependency of n makes a longer one from n.               *)
LEMMA ChainGrows ==
  ASSUME NEW n \in Node, NEW d \in Depend(n), NEW k \in Nat, d \in Chain(k)
  PROVE  n \in Chain(k + 1)
<1>1. PICK p \in [0 .. k -> Node] : p[0] = d /\ \A i \in 1 .. k : p[i] \in Depend(p[i - 1])
  BY DEF Chain
<1> DEFINE q == [i \in 0 .. k + 1 |-> IF i = 0 THEN n ELSE p[i - 1]]
<1>2. q \in [0 .. k + 1 -> Node] /\ q[0] = n
  BY <1>1
<1>3. ASSUME NEW i \in 1 .. k + 1 PROVE q[i] \in Depend(q[i - 1])
  <2>1. CASE i = 1
    BY <1>1, <2>1
  <2>2. CASE i # 1
    <3>1. i - 1 \in 1 .. k /\ q[i] = p[i - 1] /\ q[i - 1] = p[(i - 1) - 1]
      BY <1>3, <2>2
    <3>2. QED BY <1>1, <3>1
  <2>3. QED BY <2>1, <2>2
<1> HIDE DEF q
<1>4. QED BY <1>2, <1>3 DEF Chain

(* The rest of a chain starts at a dependency.                             *)
LEMMA ChainShrinks ==
  ASSUME NEW n \in Node, NEW k \in Nat, n \in Chain(k + 1)
  PROVE  \E d \in Depend(n) : d \in Chain(k)
<1>1. PICK p \in [0 .. k + 1 -> Node] :
        p[0] = n /\ \A i \in 1 .. k + 1 : p[i] \in Depend(p[i - 1])
  BY DEF Chain
<1> DEFINE q == [i \in 0 .. k |-> p[i + 1]]
<1>2. q \in [0 .. k -> Node] /\ q[0] = p[1] /\ p[1] \in Depend(n) /\ p[1] \in Node
  BY <1>1
<1>3. ASSUME NEW i \in 1 .. k PROVE q[i] \in Depend(q[i - 1])
  <2>1. i + 1 \in 1 .. k + 1 /\ q[i] = p[i + 1] /\ q[i - 1] = p[(i + 1) - 1]
    BY <1>3
  <2>2. QED BY <1>1, <2>1
<1> HIDE DEF q
<1>4. p[1] \in Chain(k)
  BY <1>2, <1>3 DEF Chain
<1>5. QED BY <1>2, <1>4

LEMMA ChainPrefix ==
  ASSUME NEW k \in Nat, NEW j \in 0 .. k, NEW n \in Chain(k)
  PROVE  n \in Chain(j)
<1>1. PICK p \in [0 .. k -> Node] : p[0] = n /\ \A i \in 1 .. k : p[i] \in Depend(p[i - 1])
  BY DEF Chain
<1> DEFINE q == [i \in 0 .. j |-> p[i]]
<1>2. q \in [0 .. j -> Node] /\ q[0] = n /\ \A i \in 1 .. j : q[i] \in Depend(q[i - 1])
  BY <1>1
<1> HIDE DEF q
<1>3. n \in Node
  BY DEF Chain
<1>4. QED BY <1>2, <1>3 DEF Chain

(* No depth promises too long a chain, and that of a placed node is not    *)
(* too short either.                                                       *)
DepthIsReached == \A n \in Node : n \in Chain(depth[n])
DepthIsLongest == \A n \in Range(sortedNodes) : n \notin Chain(depth[n] + 1)

ChainInv == SearchInv /\ (rewires = 0 => DepthIsReached /\ DepthIsLongest)

LEMMA ChainSays ==
  ASSUME deps' = deps
  PROVE  /\ DepthIsReached' <=> \A n \in Node : n \in Chain(depth'[n])
         /\ DepthIsLongest' <=> \A n \in Range(sortedNodes') : n \notin Chain(depth'[n] + 1)
<1>1. ASSUME NEW n PROVE (n \in Chain(depth[n]))' <=> n \in Chain(depth'[n])
  BY DEF Chain, Depend
<1>2. ASSUME NEW n PROVE (n \in Chain(depth[n] + 1))' <=> n \in Chain(depth'[n] + 1)
  BY DEF Chain, Depend
<1>3. QED BY <1>1, <1>2, Zenon DEF DepthIsReached, DepthIsLongest

(* A call returns to a node: a chain of the dependency goes on from there. *)
LEMMA ChainInvReturns ==
  ASSUME SearchInv, SearchInv', DepthIsReached, DepthIsLongest,
         NEW n \in Node, DfsReturns(n)
  PROVE  DepthIsReached' /\ DepthIsLongest'
<1>1. deps' = deps /\ sortedNodes' = sortedNodes
  BY DEF DfsReturns, graphVars
<1>2. CASE stack = <<>>
  <2>1. depth' = depth
    BY <1>2 DEF DfsReturns
  <2>2. QED BY <1>1, <2>1, ChainSays DEF DepthIsReached, DepthIsLongest
<1>3. CASE stack # <<>>
  <2> DEFINE h == Head(stack)
  <2>1. h \in Node /\ h \notin Range(sortedNodes) /\ depIndex[h] \in Nat \ {0}
    BY <1>3, HeadIsActive DEF SearchInv
  <2>2. /\ depth' = [depth EXCEPT ![h] = DeeperThan(depth[h], depth[n])]
        /\ depIndex[h] <= Len(deps[h]) /\ n = deps[h][depIndex[h]]
    BY <1>3, <2>1 DEF DfsReturns, Calls, SearchInv, ListTypeOK
  <2>3. depth \in [Node -> Nat] /\ deps \in [Node -> Seq(Node)]
    BY DEF SearchInv, ListTypeOK
  <2> HIDE DEF h
  <2>4. depIndex[h] \in 1 .. Len(deps[h])
    BY <2>1, <2>2, <2>3, DependByIndex
  <2>5. n \in Depend(h)
    BY <2>1, <2>2, <2>3, <2>4, DependByIndex
  <2>6. h \in Chain(depth[n] + 1)
    BY <2>1, <2>3, <2>5, ChainGrows DEF DepthIsReached
  <2>7. depth'[h] \in {depth[h], depth[n] + 1} /\ \A m \in Node \ {h} : depth'[m] = depth[m]
    BY <2>1, <2>2, <2>3 DEF DeeperThan
  <2>8. \A m \in Node : m \in Chain(depth'[m])
    BY <2>6, <2>7 DEF DepthIsReached
  <2>9. Range(sortedNodes) \subseteq Node
    BY ElementOfSeq, LenProperties DEF SearchInv, ListTypeOK, Range
  <2>10. \A m \in Range(sortedNodes) : m \notin Chain(depth'[m] + 1)
    BY <2>1, <2>7, <2>9 DEF DepthIsLongest
  <2>11. QED BY <1>1, <2>8, <2>10, ChainSays
<1>4. QED BY <1>2, <1>3

(* A placed node has a chain through one of its dependencies, and these    *)
(* are placed and less deep.                                               *)
LEMMA ChainInvLeaves ==
  ASSUME SearchInv, SearchInv', DepthIsReached, DepthIsLongest, DfsLeaves
  PROVE  DepthIsReached' /\ DepthIsLongest'
<1> DEFINE h == Head(stack)
<1>1. UNCHANGED <<deps, depth>> /\ sortedNodes' = Append(sortedNodes, h) /\ stack # <<>>
      /\ depIndex[h] > Len(deps[h])
  BY DEF DfsLeaves, AllDepsSeen, graphVars
<1>2. h \in Node /\ h \in active /\ depIndex[h] \in Nat \ {0}
  BY <1>1, HeadIsActive DEF SearchInv
<1>3. depth \in [Node -> Nat] /\ deps \in [Node -> Seq(Node)] /\ sortedNodes \in Seq(Node)
  BY DEF SearchInv, ListTypeOK
<1> HIDE DEF h
<1>4. Range(sortedNodes') = Range(sortedNodes) \cup {h}
  BY <1>1, <1>2, <1>3, RangeOfAppend
<1>5. h \notin Chain(depth[h] + 1)
  <2>1. SUFFICES ASSUME h \in Chain(depth[h] + 1) PROVE FALSE
    OBVIOUS
  <2>2. PICK d \in Depend(h) : d \in Chain(depth[h])
    BY <1>2, <1>3, <2>1, ChainShrinks
  <2>3. PICK i \in 1 .. Len(deps[h]) : d = deps[h][i]
    BY <1>2, <1>3, DependByIndex
  <2>4. i \in 1 .. depIndex[h] - 1 /\ d \in Node
    BY <1>1, <1>2, <1>3, <2>3, DependByIndex
  <2>5. d \in Range(sortedNodes) /\ depth[d] < depth[h]
    BY <1>2, <2>3, <2>4 DEF SearchInv, PassedInOrder
  <2>6. depth[h] \in Nat /\ depth[d] + 1 \in 0 .. depth[h]
    BY <1>2, <1>3, <2>4, <2>5
  <2>7. d \in Chain(depth[d] + 1)
    BY <2>2, <2>6, ChainPrefix
  <2>8. QED BY <2>5, <2>7 DEF DepthIsLongest
<1>6. QED BY <1>1, <1>4, <1>5, ChainSays DEF DepthIsReached, DepthIsLongest

LEMMA ChainInvNext ==
  ASSUME ChainInv, [ListNext]_listVars
  PROVE  ChainInv'
<1> DEFINE Depths == rewires' = 0 => DepthIsReached' /\ DepthIsLongest'
<1>1. SearchInv /\ SearchInv' /\ rewires \in Nat
  <2>1. SearchInv /\ SearchInv'
    BY SearchInvNext DEF ChainInv
  <2>2. rewires \in 0 .. MaxRewires
    BY <2>1 DEF SearchInv, ListTypeOK
  <2>3. QED BY <2>1, <2>2
<1>2. ASSUME UNCHANGED <<deps, rewires, depth>>, sortedNodes' \in {sortedNodes, <<>>}
      PROVE  Depths
  BY <1>2, ChainSays, RangeOfEmpty DEF ChainInv, DepthIsReached, DepthIsLongest
<1>3. ASSUME NEW n \in Node, addNode(n) \/ DfsAborts(n) \/ DfsEnters(n) PROVE Depths
  BY <1>2, <1>3 DEF addNode, DfsAborts, DfsEnters, graphVars, sortVars
<1>4. ASSUME NEW n \in Node, NEW other \in Node, NEW i \in DOMAIN deps[n],
             setDependencyAt(n, i, other)
      PROVE  Depths
  BY <1>1, <1>4 DEF setDependencyAt
<1>5. ASSUME SortBegins \/ DfsOverruns \/ UNCHANGED listVars PROVE Depths
  BY <1>2, <1>5 DEF SortBegins, DfsOverruns, graphVars, sortVars, listVars
<1>6. ASSUME NEW n \in Node, DfsReturns(n) PROVE Depths
  <2>1. rewires' = rewires
    BY <1>6 DEF DfsReturns, graphVars
  <2>2. QED BY <1>1, <1>6, <2>1, ChainInvReturns DEF ChainInv
<1>7. ASSUME DfsLeaves PROVE Depths
  <2>1. rewires' = rewires
    BY <1>7 DEF DfsLeaves, graphVars
  <2>2. QED BY <1>1, <1>7, <2>1, ChainInvLeaves DEF ChainInv
<1>8. ASSUME NEW t \in SortType, SortCrashes(t) \/ SortAborts(t) \/ SortReturns(t) PROVE Depths
  BY <1>2, <1>8 DEF SortCrashes, SortAborts, SortReturns, EndOfLocals, graphVars, sortVars
<1>9. Depths
  BY <1>3, <1>4, <1>5, <1>6, <1>7, <1>8 DEF ListNext, SearchStep
<1>10. QED BY <1>1, <1>9 DEF ChainInv

(* The depth that dfs() leaves at a placed node is the length of the       *)
(* longest chain of dependencies from it (lines 285-288), for every graph  *)
(* and after any number of sorts.                                          *)
THEOREM DepthsAreChains == ListSpec => []DepthIsLongestChain
<1>1. ListInit => ChainInv
  <2>1. SUFFICES ASSUME ListInit PROVE DepthIsReached /\ DepthIsLongest
    BY SearchInvInit DEF ChainInv
  <2>2. DepthIsReached
    <3>1. \A n \in Node : depth[n] = 0
      BY <2>1 DEF ListInit
    <3>2. QED BY <3>1, ChainOfNone DEF DepthIsReached
  <2>3. QED BY <2>1, <2>2, RangeOfEmpty DEF ListInit, DepthIsLongest
<1>2. ChainInv => DepthIsLongestChain
  <2>1. SUFFICES ASSUME ChainInv, rewires = 0, NEW n \in Range(sortedNodes)
                 PROVE  n \in Chain(depth[n]) /\ n \notin Chain(depth[n] + 1)
    BY DEF DepthIsLongestChain
  <2>2. Range(sortedNodes) \subseteq Node
    BY <2>1, ElementOfSeq, LenProperties DEF ChainInv, SearchInv, ListTypeOK, Range
  <2>3. QED BY <2>1, <2>2 DEF ChainInv, DepthIsReached, DepthIsLongest
<1>3. QED BY <1>1, <1>2, ChainInvNext, PTL DEF ListSpec

--------------------------------------------------------------------------------
(* A list that contains the dependencies of its nodes.                     *)

(* The search stays within the list.                                       *)
SoundInv ==
  /\ SearchInv
  /\ ClosedList => visited \subseteq Range(nodes)
  /\ ClosedListsSort

(* A closed list fills the array exactly when it is full, and a search     *)
(* that is done has placed all of it.                                      *)
LEMMA ClosedListFits ==
  ASSUME SoundInv, ClosedList
  PROVE  /\ DfsOverruns => FALSE
         /\ SearchDone => Len(sortedNodes) = Len(nodes)
<1>1. /\ nodes \in Seq(Node) /\ sortedNodes \in Seq(Node) /\ Len(nodes) <= NUM_OF_NODES
      /\ IsInjective(nodes) /\ IsInjective(sortedNodes)
      /\ Range(sortedNodes) \subseteq visited /\ active \subseteq visited
      /\ visited \subseteq Range(nodes)
  BY DEF SoundInv, SearchInv, ListTypeOK, Marks, NodesSeen
<1>2. /\ IsFiniteSet(Range(nodes)) /\ Cardinality(Range(nodes)) = Len(nodes)
      /\ Cardinality(Range(sortedNodes)) = Len(sortedNodes)
      /\ Len(nodes) \in Nat /\ Len(sortedNodes) \in Nat /\ NUM_OF_NODES \in Nat
  BY <1>1, RangeCardinality, LenProperties, ListAssumption DEF ListAssumption
<1>3. /\ Range(sortedNodes) \in SUBSET Range(nodes) /\ Len(sortedNodes) <= Len(nodes)
      /\ Len(sortedNodes) = Len(nodes) => Range(sortedNodes) = Range(nodes)
  BY <1>1, <1>2, FS_Subset
<1>4. ASSUME DfsOverruns PROVE FALSE
  <2>1. stack # <<>> /\ Len(sortedNodes) = NUM_OF_NODES
    BY <1>4 DEF DfsOverruns, AllDepsSeen
  <2>2. Head(stack) \in Range(nodes) /\ Head(stack) \notin Range(sortedNodes)
    BY <1>1, <2>1, HeadIsActive DEF SoundInv, SearchInv
  <2>3. Len(sortedNodes) = Len(nodes)
    BY <1>1, <1>2, <1>3, <2>1
  <2>4. QED BY <1>3, <2>2, <2>3
<1>5. ASSUME SearchDone PROVE Len(sortedNodes) = Len(nodes)
  <2>1. stack = <<>> /\ nodeIndex > Len(nodes) /\ nodeIndex \in 1 .. Len(nodes) + 1
    BY <1>5 DEF SearchDone, SoundInv, SearchInv, ListTypeOK
  <2>2. visited = Range(sortedNodes)
    BY <2>1, RangeOfEmpty DEF SoundInv, SearchInv, ListTypeOK, Marks
  <2>3. DOMAIN nodes = 1 .. Len(nodes) /\ nodeIndex - 1 = Len(nodes)
    BY <1>1, <1>2, <2>1, LenProperties
  <2>4. Range(nodes) \subseteq visited
    BY <2>3 DEF SoundInv, SearchInv, NodesSeen, Range
  <2>5. Range(nodes) = Range(sortedNodes)
    BY <1>1, <2>2, <2>4
  <2>6. QED BY <1>2, <2>5
<1>6. QED BY <1>4, <1>5

(* The next node that dfs() is called for is in the list.                  *)
LEMMA CalledIsListed ==
  ASSUME SoundInv, ClosedList, NEW n \in Node, Calls(n)
  PROVE  n \in Range(nodes)
<1>1. /\ nodes \in Seq(Node) /\ deps \in [Node -> Seq(Node)]
      /\ nodeIndex \in 1 .. Len(nodes) + 1
  BY DEF SoundInv, SearchInv, ListTypeOK
<1>2. CASE stack = <<>>
  <2>1. nodeIndex \in DOMAIN nodes /\ n = nodes[nodeIndex]
    BY <1>1, <1>2, LenProperties DEF Calls
  <2>2. QED BY <2>1 DEF Range
<1>3. CASE stack # <<>>
  <2>1. /\ Head(stack) \in Node /\ Head(stack) \in active
        /\ depIndex[Head(stack)] \in Nat \ {0}
    BY <1>3, HeadIsActive DEF SoundInv, SearchInv
  <2>2. /\ depIndex[Head(stack)] <= Len(deps[Head(stack)])
        /\ n = deps[Head(stack)][depIndex[Head(stack)]]
    BY <1>3 DEF Calls
  <2>3. depIndex[Head(stack)] \in 1 .. Len(deps[Head(stack)])
    BY <1>1, <2>1, <2>2, DependByIndex
  <2>4. n \in Depend(Head(stack))
    BY <1>1, <2>1, <2>2, <2>3, DependByIndex
  <2>5. Head(stack) \in Range(nodes)
    BY <2>1 DEF SoundInv, SearchInv, Marks
  <2>6. QED BY <2>4, <2>5 DEF ClosedList
<1>4. QED BY <1>2, <1>3

LEMMA SoundInvNext ==
  ASSUME SoundInv, [ListNext]_listVars
  PROVE  SoundInv'
<1> DEFINE Sound == (ClosedList => visited \subseteq Range(nodes))' /\ ClosedListsSort'
<1>1. SearchInv'
  BY SearchInvNext DEF SoundInv
<1>2. ASSUME phase' = "idle" PROVE Sound
  <2>1. stack' = <<>> /\ sortedNodes' = <<>> /\ visited' = active' \cup Range(sortedNodes')
        /\ active' = Range(stack')
    BY <1>1, <1>2 DEF SearchInv, Marks, ListTypeOK
  <2>2. visited' = {}
    BY <2>1, RangeOfEmpty
  <2>3. QED BY <1>2, <2>2 DEF ClosedListsSort
<1>3. ASSUME UNCHANGED <<deps, nodes>>, ClosedList => visited' \subseteq Range(nodes),
             ClosedList => \/ phase' \in {"sorting", "cycle"}
                           \/ phase' = phase
                           \/ phase' = "nullCompared" /\ Len(nodes) < NUM_OF_NODES
      PROVE  Sound
  <2>1. ClosedList' <=> ClosedList
    BY <1>3 DEF ClosedList, Depend
  <2>2. QED BY <1>3, <2>1 DEF SoundInv, ClosedListsSort
<1>4. ASSUME NEW n \in Node, addNode(n) PROVE Sound
  BY <1>2, <1>4 DEF addNode
<1>5. ASSUME NEW n \in Node, NEW other \in Node, NEW i \in DOMAIN deps[n],
             setDependencyAt(n, i, other)
      PROVE  Sound
  BY <1>2, <1>5 DEF setDependencyAt
<1>6. ASSUME NEW n \in Node, DfsEnters(n) PROVE Sound
  <2>1. Calls(n) /\ visited' = visited \cup {n} /\ phase' = phase /\ UNCHANGED <<deps, nodes>>
    BY <1>6 DEF DfsEnters, graphVars
  <2>2. ClosedList => visited' \subseteq Range(nodes)
    BY <2>1, CalledIsListed DEF SoundInv
  <2>3. QED BY <1>3, <2>1, <2>2
<1>7. ASSUME NEW n \in Node, DfsAborts(n) \/ DfsReturns(n) PROVE Sound
  BY <1>3, <1>7 DEF SoundInv, DfsAborts, DfsReturns, graphVars
<1>8. ASSUME SortBegins \/ DfsLeaves \/ UNCHANGED listVars PROVE Sound
  BY <1>3, <1>8 DEF SoundInv, SortBegins, DfsLeaves, graphVars, listVars
<1>9. ASSUME DfsOverruns PROVE Sound
  BY <1>3, <1>9, ClosedListFits DEF SoundInv, DfsOverruns, graphVars
<1>10. ASSUME NEW t \in SortType, SortCrashes(t) PROVE Sound
  <2>1. /\ SearchDone /\ Len(sortedNodes) < NUM_OF_NODES /\ phase' = "nullCompared"
        /\ UNCHANGED <<deps, nodes, visited>>
    BY <1>10 DEF SortCrashes, ComparesNull, graphVars
  <2>2. QED BY <1>3, <2>1, ClosedListFits DEF SoundInv
<1>11. ASSUME NEW t \in SortType, SortAborts(t) PROVE Sound
  <2>1. /\ SearchDone /\ Len(sortedNodes) # Len(nodes)
        /\ UNCHANGED <<deps, nodes, visited>>
    BY <1>11 DEF SortAborts, graphVars
  <2>2. QED BY <1>3, <2>1, ClosedListFits DEF SoundInv
<1>12. ASSUME NEW t \in SortType, SortReturns(t) PROVE Sound
  BY <1>2, <1>12 DEF SortReturns
<1>13. Sound
  BY <1>4, <1>5, <1>6, <1>7, <1>8, <1>9, <1>10, <1>11, <1>12 DEF ListNext, SearchStep
<1>14. QED BY <1>1, <1>13 DEF SoundInv

(* sortNodes() writes past its array, or says that the "array sizes do not *)
(* match", of a list only that lacks a dependency of one of its nodes; and *)
(* the comparisons of std::sort meet a null pointer only if it has free    *)
(* places, for every graph and list, after any number of sorts.            *)
THEOREM ClosedListsAreSorted == ListSpec => []ClosedListsSort
<1>1. ListInit => SoundInv
  <2>1. SUFFICES ASSUME ListInit PROVE visited = {} /\ phase = "idle"
    BY SearchInvInit DEF SoundInv, ClosedListsSort
  <2>2. QED BY <2>1 DEF ListInit
<1>2. SoundInv => ClosedListsSort
  BY DEF SoundInv
<1>3. QED BY <1>1, <1>2, SoundInvNext, PTL DEF ListSpec

--------------------------------------------------------------------------------
(* A list that is in dependency order already.                             *)

(* The search places its nodes as they come: the placed nodes are the      *)
(* front of the list, and dfs() never calls itself for an unvisited node.  *)
FrontIsPlaced ==
  /\ Len(sortedNodes) = nodeIndex - 1 \/ Len(sortedNodes) = nodeIndex
  /\ \A i \in 1 .. Len(sortedNodes) : i <= Len(nodes) /\ sortedNodes[i] = nodes[i]
  /\ stack # <<>> =>
       /\ Len(sortedNodes) = nodeIndex - 1
       /\ nodeIndex <= Len(nodes)
       /\ stack = <<nodes[nodeIndex]>>

FrontInv ==
  /\ SearchInv
  /\ InDependencyOrder(nodes) /\ phase = "sorting" => FrontIsPlaced

(* What the search needs to know of the list and of the placed nodes.      *)
LEMMA FrontFacts ==
  ASSUME SearchInv, FrontIsPlaced
  PROVE  /\ Len(nodes) \in Nat /\ Len(sortedNodes) \in Nat
         /\ DOMAIN nodes = 1 .. Len(nodes) /\ DOMAIN sortedNodes = 1 .. Len(sortedNodes)
         /\ nodeIndex \in 1 .. Len(nodes) + 1
         /\ \A i \in 1 .. Len(sortedNodes) : nodes[i] \in Range(sortedNodes)
         /\ nodeIndex <= Len(nodes) /\ nodes[nodeIndex] \in Range(sortedNodes)
              => Len(sortedNodes) = nodeIndex
<1>1. /\ Len(nodes) \in Nat /\ Len(sortedNodes) \in Nat
      /\ DOMAIN nodes = 1 .. Len(nodes) /\ DOMAIN sortedNodes = 1 .. Len(sortedNodes)
      /\ nodeIndex \in 1 .. Len(nodes) + 1
  BY LenProperties DEF SearchInv, ListTypeOK
<1>2. ASSUME NEW i \in 1 .. Len(sortedNodes) PROVE nodes[i] \in Range(sortedNodes)
  BY <1>1, <1>2 DEF FrontIsPlaced, Range
<1>3. ASSUME nodeIndex <= Len(nodes), nodes[nodeIndex] \in Range(sortedNodes)
      PROVE  Len(sortedNodes) = nodeIndex
  <2>1. PICK j \in 1 .. Len(sortedNodes) : nodes[nodeIndex] = sortedNodes[j]
    BY <1>1, <1>3 DEF Range
  <2>2. j \in DOMAIN nodes /\ nodeIndex \in DOMAIN nodes /\ nodes[j] = nodes[nodeIndex]
    <3>1. j <= Len(nodes) /\ sortedNodes[j] = nodes[j]
      BY <2>1 DEF FrontIsPlaced
    <3>2. QED BY <1>1, <1>3, <2>1, <3>1
  <2>3. j = nodeIndex
    BY <2>2 DEF SearchInv, NodesSeen, IsInjective
  <2>4. Len(sortedNodes) = nodeIndex - 1 \/ Len(sortedNodes) = nodeIndex
    BY DEF FrontIsPlaced
  <2>5. nodeIndex \in 1 .. Len(sortedNodes) /\ nodeIndex \in Int /\ Len(sortedNodes) \in Nat
    BY <1>1, <2>1, <2>3
  <2>6. QED BY <2>4, <2>5
<1>4. QED BY <1>1, <1>2, <1>3

LEMMA FrontEnters ==
  ASSUME SearchInv, FrontIsPlaced, InDependencyOrder(nodes),
         NEW n \in Node, DfsEnters(n)
  PROVE  FrontIsPlaced'
<1>1. /\ Calls(n) /\ n \notin visited /\ n \notin Range(sortedNodes)
      /\ stack' = <<n>> \o stack /\ UNCHANGED <<nodes, nodeIndex, sortedNodes>>
  BY DEF DfsEnters, SearchInv, Marks
<1>2. CASE stack = <<>>
  <2>1. nodeIndex <= Len(nodes) /\ n = nodes[nodeIndex]
    BY <1>1, <1>2 DEF Calls
  <2>2. Len(sortedNodes) = nodeIndex - 1
    BY <1>1, <2>1, FrontFacts DEF FrontIsPlaced
  <2>3. stack' = <<nodes[nodeIndex]>>
    BY <1>1, <1>2, <2>1
  <2>4. QED BY <1>1, <2>1, <2>2, <2>3 DEF FrontIsPlaced
<1>3. CASE stack # <<>>
  <2>1. /\ Len(sortedNodes) = nodeIndex - 1 /\ nodeIndex <= Len(nodes)
        /\ Head(stack) = nodes[nodeIndex]
    BY <1>3 DEF FrontIsPlaced
  <2>2. nodeIndex \in DOMAIN nodes /\ Len(sortedNodes) \in Nat
    BY <2>1, FrontFacts
  <2>3. n \in Depend(nodes[nodeIndex])
    <3>1. Head(stack) \in Node /\ depIndex[Head(stack)] \in Nat \ {0}
      BY <1>3, HeadIsActive DEF SearchInv
    <3>2. /\ n = deps[Head(stack)][depIndex[Head(stack)]]
          /\ depIndex[Head(stack)] <= Len(deps[Head(stack)])
      BY <1>1, <1>3 DEF Calls
    <3>3. deps \in [Node -> Seq(Node)]
      BY DEF SearchInv, ListTypeOK
    <3>4. depIndex[Head(stack)] \in 1 .. Len(deps[Head(stack)])
      BY <3>1, <3>2, <3>3, DependByIndex
    <3>5. QED BY <2>1, <3>1, <3>2, <3>3, <3>4, DependByIndex
  <2>4. PICK j \in 1 .. nodeIndex - 1 : nodes[j] = n
    BY <2>2, <2>3 DEF InDependencyOrder
  <2>5. QED BY <1>1, <2>1, <2>4, FrontFacts
<1>4. QED BY <1>2, <1>3

LEMMA FrontReturns ==
  ASSUME SearchInv, FrontIsPlaced, NEW n \in Node, DfsReturns(n)
  PROVE  FrontIsPlaced'
<1>1. /\ Calls(n) /\ n \in Range(sortedNodes)
      /\ UNCHANGED <<stack, nodes, sortedNodes>>
  BY DEF DfsReturns, SearchInv, Marks
<1>2. CASE stack = <<>>
  <2>1. nodeIndex <= Len(nodes) /\ n = nodes[nodeIndex] /\ nodeIndex' = nodeIndex + 1
    BY <1>1, <1>2 DEF Calls, DfsReturns
  <2>2. Len(sortedNodes) = nodeIndex /\ nodeIndex \in Nat
    BY <1>1, <2>1, FrontFacts
  <2>3. QED BY <1>1, <1>2, <2>1, <2>2 DEF FrontIsPlaced
<1>3. CASE stack # <<>>
  BY <1>1, <1>3 DEF DfsReturns, FrontIsPlaced
<1>4. QED BY <1>2, <1>3

LEMMA FrontLeaves ==
  ASSUME SearchInv, FrontIsPlaced, DfsLeaves
  PROVE  FrontIsPlaced'
<1> DEFINE h == nodes[nodeIndex]
           n == Len(sortedNodes)
<1>1. /\ stack = <<h>> /\ n = nodeIndex - 1 /\ nodeIndex <= Len(nodes)
      /\ Head(stack) = h
  BY DEF DfsLeaves, AllDepsSeen, FrontIsPlaced
<1>2. /\ sortedNodes' = Append(sortedNodes, h) /\ stack' = Tail(stack)
      /\ UNCHANGED <<nodes, nodeIndex>>
  BY <1>1 DEF DfsLeaves
<1>3. stack' = <<>>
  BY <1>1, <1>2
<1>4. n \in Nat /\ nodeIndex \in 1 .. Len(nodes) + 1 /\ Len(nodes) \in Nat
  BY FrontFacts
<1>5. h \in Node /\ sortedNodes \in Seq(Node)
  BY <1>1, HeadIsActive DEF SearchInv, ListTypeOK, DfsLeaves, AllDepsSeen
<1>6. /\ Len(sortedNodes') = n + 1 /\ sortedNodes'[n + 1] = h
      /\ \A i \in 1 .. n : sortedNodes'[i] = sortedNodes[i]
  BY <1>2, <1>5, AppendProperties
<1>7. ASSUME NEW i \in 1 .. n + 1 PROVE i <= Len(nodes) /\ sortedNodes'[i] = nodes[i]
  <2>1. CASE i \in 1 .. n
    BY <1>6, <2>1 DEF FrontIsPlaced
  <2>2. CASE i = n + 1
    BY <1>1, <1>4, <1>6, <2>2
  <2>3. QED BY <1>4, <2>1, <2>2
<1>8. Len(sortedNodes') = nodeIndex
  BY <1>1, <1>4, <1>6
<1>9. QED BY <1>2, <1>3, <1>6, <1>7, <1>8 DEF FrontIsPlaced

LEMMA FrontInvNext ==
  ASSUME FrontInv, [ListNext]_listVars
  PROVE  FrontInv'
<1>1. SearchInv /\ SearchInv'
  BY SearchInvNext DEF FrontInv
<1>2. SUFFICES ASSUME InDependencyOrder(nodes)', phase' = "sorting"
               PROVE  FrontIsPlaced'
  BY <1>1 DEF FrontInv
<1>3. CASE phase = "idle"
  <2>1. SortBegins
    BY <1>2, <1>3
    DEF ListNext, SearchStep, addNode, setDependencyAt, DfsAborts, DfsEnters, DfsReturns,
        DfsLeaves, DfsOverruns, Calls, SortCrashes, SortAborts, SortReturns, SearchDone,
        listVars
  <2>2. stack' = <<>> /\ sortedNodes' = <<>> /\ nodeIndex' = 1
    BY <1>1, <1>3, <2>1 DEF SortBegins, SearchInv, Marks, sortVars
  <2>3. Len(sortedNodes') = 0
    BY <2>2
  <2>4. QED BY <2>2, <2>3 DEF FrontIsPlaced
<1>4. CASE phase = "sorting"
  <2>1. \/ \E n \in Node : DfsEnters(n) \/ DfsReturns(n)
        \/ DfsLeaves
        \/ UNCHANGED listVars
    BY <1>2, <1>4
    DEF ListNext, SearchStep, addNode, setDependencyAt, SortBegins, DfsAborts,
        DfsOverruns, SortCrashes, SortAborts, SortReturns
  <2>2. UNCHANGED <<nodes, deps>>
    BY <2>1 DEF DfsEnters, DfsReturns, DfsLeaves, listVars, graphVars
  <2>3. InDependencyOrder(nodes)
    BY <1>2, <2>2 DEF InDependencyOrder, Depend
  <2>4. FrontIsPlaced
    BY <1>4, <2>3 DEF FrontInv
  <2>5. CASE UNCHANGED listVars
    BY <2>4, <2>5 DEF FrontIsPlaced, listVars, sortVars
  <2>6. QED BY <1>1, <2>1, <2>3, <2>4, <2>5, FrontEnters, FrontReturns, FrontLeaves
<1>5. CASE phase \notin {"idle", "sorting"}
  BY <1>2, <1>5
  DEF ListNext, SearchStep, addNode, setDependencyAt, SortBegins, DfsAborts, DfsEnters,
      DfsReturns, DfsLeaves, DfsOverruns, Calls, SortCrashes, SortAborts, SortReturns,
      SearchDone, listVars
<1>6. QED BY <1>3, <1>4, <1>5

(* The topological sort leaves a list that is in dependency order as it    *)
(* is, for every graph and list.                                           *)
THEOREM SortKeepsOrder == ListSpec => SortedListIsKept
<1> DEFINE A == InDependencyOrder(nodes) /\ SortReturns("Topological") => nodes' = nodes
<1>1. ListInit => FrontInv
  BY SearchInvInit DEF ListInit, FrontInv
<1>2. FrontInv => A
  <2>1. SUFFICES ASSUME FrontInv, InDependencyOrder(nodes), SortReturns("Topological")
                 PROVE  nodes' = nodes
    OBVIOUS
  <2>2. /\ Len(sortedNodes) = Len(nodes) /\ nodes' = sortedNodes /\ phase = "sorting"
    BY <2>1 DEF SortReturns, Arrangements, SearchDone
  <2>3. \A i \in 1 .. Len(sortedNodes) : sortedNodes[i] = nodes[i]
    BY <2>1, <2>2 DEF FrontInv, FrontIsPlaced
  <2>4. nodes \in Seq(Node) /\ sortedNodes \in Seq(Node)
    BY <2>1 DEF FrontInv, SearchInv, ListTypeOK
  <2>5. QED BY <2>2, <2>3, <2>4, SeqEqual
<1>3. ListSpec => [][A]_listVars
  BY <1>1, <1>2, FrontInvNext, PTL DEF ListSpec
<1>4. QED BY <1>3 DEF SortedListIsKept

================================================================================
