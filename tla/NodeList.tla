-------------------------------- MODULE NodeList -------------------------------
(***************************************************************************)
(* NodeList<NUM_OF_NODES> of src/dag/dag.hpp: the list that a runner runs, *)
(* and sortNodes(), which orders it.  sortNodes() is a depth-first search  *)
(* over the dependencies (dfs()), that also computes the depth of each     *)
(* node, followed by a std::sort for four of the five orders.              *)
(*                                                                         *)
(* The recursion of dfs() is the stack of the nodes whose call is in       *)
(* progress, innermost first; the loop variable depIndex of a call is kept *)
(* per node, because an active node has one call only.  A call that enters *)
(* a node is one step, and so is one that returns: after a call has left   *)
(* its node, its caller finds the node visited and takes the same branch   *)
(* as for a node that was visited earlier.                                 *)
(*                                                                         *)
(* Dependencies are set before the list is sorted, and a node is added     *)
(* once; neither is checked by the code.                                   *)
(***************************************************************************)
EXTENDS Integers, Sequences, FiniteSets, Functions

CONSTANTS
  Node,            (* the nodes, in the list or not                        *)
  NUM_OF_NODES,    (* the template parameter: capacity of the list         *)
  MaxDeps,         (* bound: dependencies of a node                        *)
  MaxEdges,        (* bound: dependencies of all nodes together            *)
  Priority,        (* the priorities in use                                *)
  MaxRewires       (* bound: dependencies changed after construction       *)

ASSUME ListAssumption ==
  /\ NUM_OF_NODES \in Nat \ {0}
  /\ MaxDeps \in Nat /\ MaxEdges \in Nat /\ MaxRewires \in Nat
  /\ Priority \subseteq Nat

VARIABLES
  deps,            (* m_deps of every node                                 *)
  priority,        (* m_prio                                               *)
  depth,           (* m_depth                                              *)
  visited,         (* the nodes with m_visited                             *)
  active,          (* the nodes with m_active                              *)
  nodes,           (* m_nodes, the first m_size places                     *)
  phase,           (* "idle", "sorting", or how a sort went wrong          *)
  nodeIndex,       (* the loop of sortNodes()                              *)
  stack,           (* the calls of dfs() in progress, innermost first      *)
  depIndex,        (* the loop of each of them                             *)
  sortedNodes,     (* the first sortedNodesSize places                     *)
  rewires          (* history: dependencies changed so far                 *)

graphVars == <<deps, priority, rewires>>
sortVars  == <<nodeIndex, stack, depIndex, sortedNodes>>

listVars == <<graphVars, depth, visited, active, nodes, phase, sortVars>>

SortType == {"Topological", "Depth", "Priority", "DepthOrPriority", "CustomPriority"}

Depend(n) == Range(deps[n])

(* The graphs a program may build, cyclic ones included; a node may depend *)
(* on another one twice.                                                   *)
Graph ==
  {d \in [Node -> UNION {[1 .. k -> Node] : k \in 0 .. MaxDeps}] :
     Cardinality({e \in Node \X (1 .. MaxDeps) : e[2] \in DOMAIN d[e[1]]}) <= MaxEdges}

ListInit ==
  /\ deps \in Graph
  /\ priority \in [Node -> Priority]
  /\ depth = [n \in Node |-> 0]
  /\ visited = {}
  /\ active = {}
  /\ nodes = <<>>
  /\ phase = "idle"
  /\ nodeIndex = 1
  /\ stack = <<>>
  /\ depIndex = [n \in Node |-> 1]
  /\ sortedNodes = <<>>
  /\ rewires = 0

(* Definitions named for a defect are mutants, as in ThreadPool.           *)

addNodeOnePast(n) ==
  /\ phase = "idle"
  /\ n \notin Range(nodes)
  /\ Len(nodes) <= NUM_OF_NODES
  /\ nodes' = Append(nodes, n)
  /\ UNCHANGED <<graphVars, depth, visited, active, phase, sortVars>>

(* addNode(), lines 211-215; its assertion demands a free place.           *)
addNode(n) ==
  /\ phase = "idle"
  /\ n \notin Range(nodes)
  /\ Len(nodes) < NUM_OF_NODES
  /\ nodes' = Append(nodes, n)
  /\ UNCHANGED <<graphVars, depth, visited, active, phase, sortVars>>

(* Node::setDependencyAt() on a node that has been sorted, or may have.    *)
setDependencyAt(n, i, other) ==
  /\ phase = "idle"
  /\ rewires < MaxRewires
  /\ rewires' = rewires + 1
  /\ deps' = [deps EXCEPT ![n][i] = other]
  /\ UNCHANGED <<priority, depth, visited, active, nodes, phase, sortVars>>

(* sortNodes(), lines 228-231.                                             *)
SortBegins ==
  /\ phase = "idle"
  /\ phase' = "sorting"
  /\ UNCHANGED <<graphVars, depth, visited, active, nodes, sortVars>>

(* dfs(n) is called, by sortNodes() or for the next dependency of the      *)
(* innermost node.                                                         *)
Calls(n) ==
  /\ phase = "sorting"
  /\ IF stack = <<>>
     THEN nodeIndex <= Len(nodes) /\ n = nodes[nodeIndex]
     ELSE LET caller == Head(stack)
          IN  depIndex[caller] <= Len(deps[caller]) /\ n = deps[caller][depIndex[caller]]

DfsAbortsOnVisited(n) ==
  /\ Calls(n)
  /\ n \in visited
  /\ phase' = "cycle"
  /\ UNCHANGED <<graphVars, depth, visited, active, nodes, sortVars>>

(* assert(!node->isActive() && "Cycle in graph detected!")                 *)
DfsAborts(n) ==
  /\ Calls(n)
  /\ n \in active
  /\ phase' = "cycle"
  /\ UNCHANGED <<graphVars, depth, visited, active, nodes, sortVars>>

DfsEnters(n) ==
  /\ Calls(n)
  /\ n \notin active /\ n \notin visited
  /\ visited' = visited \cup {n}
  /\ active' = active \cup {n}
  /\ stack' = <<n>> \o stack
  /\ UNCHANGED <<graphVars, depth, nodes, phase, nodeIndex, depIndex, sortedNodes>>

DeeperThanLast(d, e) == e + 1

SameDepth(d, e) == IF e > d THEN e ELSE d

DeeperThan(d, e) == IF e + 1 > d THEN e + 1 ELSE d

(* dfs(n) returns and its caller goes on; a caller that is a node sets its *)
(* depth (line 288).                                                       *)
DfsReturns(n) ==
  /\ Calls(n)
  /\ n \notin active /\ n \in visited
  /\ IF stack = <<>>
     THEN /\ nodeIndex' = nodeIndex + 1
          /\ UNCHANGED <<depth, depIndex>>
     ELSE /\ depth' = [depth EXCEPT ![Head(stack)] = DeeperThan(@, depth[n])]
          /\ depIndex' = [depIndex EXCEPT ![Head(stack)] = @ + 1]
          /\ UNCHANGED nodeIndex
  /\ UNCHANGED <<graphVars, visited, active, nodes, phase, stack, sortedNodes>>

AllDepsSeen == stack # <<>> /\ depIndex[Head(stack)] > Len(deps[Head(stack)])

DfsLeavesInFront ==
  /\ phase = "sorting"
  /\ AllDepsSeen
  /\ Len(sortedNodes) < NUM_OF_NODES
  /\ active' = active \ {Head(stack)}
  /\ sortedNodes' = <<Head(stack)>> \o sortedNodes
  /\ stack' = Tail(stack)
  /\ depIndex' = [depIndex EXCEPT ![Head(stack)] = 1]
  /\ UNCHANGED <<graphVars, depth, visited, nodes, phase, nodeIndex>>

(* Lines 291-293: the innermost node is placed.                            *)
DfsLeaves ==
  /\ phase = "sorting"
  /\ AllDepsSeen
  /\ Len(sortedNodes) < NUM_OF_NODES
  /\ active' = active \ {Head(stack)}
  /\ sortedNodes' = Append(sortedNodes, Head(stack))
  /\ stack' = Tail(stack)
  /\ depIndex' = [depIndex EXCEPT ![Head(stack)] = 1]
  /\ UNCHANGED <<graphVars, depth, visited, nodes, phase, nodeIndex>>

(* Line 292 writes past sortedNodes: undefined behaviour, nothing after it *)
(* is modelled.                                                            *)
DfsOverruns ==
  /\ phase = "sorting"
  /\ AllDepsSeen
  /\ Len(sortedNodes) = NUM_OF_NODES
  /\ phase' = "overrun"
  /\ UNCHANGED <<graphVars, depth, visited, active, nodes, sortVars>>

SearchDone == phase = "sorting" /\ stack = <<>> /\ nodeIndex > Len(nodes)

(* a may stand before b.  customCompare is the caller's: any order.        *)
MayPrecede(sortType, a, b) ==
  CASE sortType = "Depth"           -> depth[a] <= depth[b]
    [] sortType = "Priority"        -> priority[a] >= priority[b]
    [] sortType = "DepthOrPriority" -> \/ depth[a] < depth[b]
                                       \/ depth[a] = depth[b] /\ priority[a] >= priority[b]
    [] sortType = "CustomPriority"  -> TRUE

(* What lines 236-263 may leave in sortedNodes; std::sort is not stable.   *)
Arrangements(sortType) ==
  IF sortType = "Topological"
  THEN {sortedNodes}
  ELSE {list \in [1 .. Len(sortedNodes) -> Range(sortedNodes)] :
          /\ IsInjective(list)
          /\ \A i, j \in DOMAIN list : i < j => MayPrecede(sortType, list[i], list[j])}

(* std::sort runs over the whole array; a place without a node is a null   *)
(* pointer that it compares with the others.                               *)
ComparesNull(sortType) ==
  sortType # "Topological" /\ Len(sortedNodes) < NUM_OF_NODES /\ NUM_OF_NODES > 1

(* The comparisons of the code follow the pointer: undefined behaviour.  A *)
(* customCompare may bear null pointers, as the default does (line 227).   *)
FollowsNull(sortType) == ComparesNull(sortType) /\ sortType # "CustomPriority"

(* The comparison follows a null pointer, or it leaves one in front of a   *)
(* node, where line 269 follows it.                                        *)
SortCrashes(sortType) ==
  /\ SearchDone
  /\ ComparesNull(sortType)
  /\ phase' = "nullCompared"
  /\ UNCHANGED <<graphVars, depth, visited, active, nodes, sortVars>>

(* assert(sortedNodesSize == m_size && "... array sizes do not match!")    *)
SortAborts(sortType) ==
  /\ SearchDone
  /\ ~FollowsNull(sortType) /\ Len(sortedNodes) # Len(nodes)
  /\ phase' = "sizeMismatch"
  /\ UNCHANGED <<graphVars, depth, visited, active, nodes, sortVars>>

(* The local variables of sortNodes() have their initial values again.     *)
EndOfLocals ==
  /\ nodeIndex' = 1
  /\ sortedNodes' = <<>>
  /\ UNCHANGED <<stack, depIndex>>

SortReturnsUnreset(sortType) ==
  /\ SearchDone
  /\ ~FollowsNull(sortType) /\ Len(sortedNodes) = Len(nodes)
  /\ nodes' \in Arrangements(sortType)
  /\ phase' = "idle"
  /\ EndOfLocals
  /\ UNCHANGED <<graphVars, depth, visited, active>>

(* Lines 236-270.  Null pointers, if there were any, are behind the nodes. *)
SortReturns(sortType) ==
  /\ SearchDone
  /\ ~FollowsNull(sortType) /\ Len(sortedNodes) = Len(nodes)
  /\ nodes' \in Arrangements(sortType)
  /\ visited' = visited \ Range(nodes')
  /\ phase' = "idle"
  /\ EndOfLocals
  /\ UNCHANGED <<graphVars, depth, active>>

SearchStep ==
  \/ \E n \in Node : DfsAborts(n) \/ DfsEnters(n) \/ DfsReturns(n)
  \/ DfsLeaves \/ DfsOverruns

ListNext ==
  \/ \E n \in Node : addNode(n)
  \/ \E n, other \in Node : \E i \in DOMAIN deps[n] : setDependencyAt(n, i, other)
  \/ SortBegins
  \/ SearchStep
  \/ \E t \in SortType : SortCrashes(t) \/ SortAborts(t) \/ SortReturns(t)

ListSpec == ListInit /\ [][ListNext]_listVars

--------------------------------------------------------------------------------

ListTypeOK ==
  /\ deps \in [Node -> Seq(Node)]
  /\ priority \in [Node -> Priority]
  /\ depth \in [Node -> Nat]
  /\ visited \subseteq Node
  /\ active = Range(stack) /\ IsInjective(stack) /\ stack \in Seq(Node)
  /\ nodes \in Seq(Node) /\ Len(nodes) <= NUM_OF_NODES
  /\ phase \in {"idle", "sorting", "cycle", "overrun", "nullCompared", "sizeMismatch"}
  /\ nodeIndex \in 1 .. Len(nodes) + 1
  /\ depIndex \in [Node -> Nat \ {0}]
  /\ sortedNodes \in Seq(Node)
  /\ rewires \in 0 .. MaxRewires

(* Each node stands after the nodes it depends on.                         *)
InDependencyOrder(list) ==
  \A i \in DOMAIN list : \A d \in Depend(list[i]) : \E j \in 1 .. i - 1 : list[j] = d

DependencySorts == {"Topological", "Depth", "DepthOrPriority"}

(* "Sequence of execution/scheduling is determined by topological sort of  *)
(* DAG." (README.md:6-7).  Sorting by depth respects the dependencies too, *)
(* though std::sort is not stable, and although depths are never reset: a  *)
(* depth that is stale after setDependencyAt() is still greater than the   *)
(* depth of every dependency.                                              *)
SortsTopologically ==
  [][\A t \in DependencySorts : SortReturns(t) => InDependencyOrder(nodes')]_listVars

Cyclic(S) == \E C \in (SUBSET S) \ {{}} : \A n \in C : Depend(n) \cap C # {}

(* "Cycle in graph detected!" (line 276) is said of a graph with a cycle   *)
(* through the active nodes, and what the search has placed before has     *)
(* none, whichever node it started from.                                   *)
CyclesAreFound ==
  /\ phase = "cycle" => Cyclic(active)
  /\ ~Cyclic(Range(sortedNodes))

(* A sort that returns has dropped no node and brought in none, although   *)
(* the code compares sizes only (line 265), and it leaves no mark that the *)
(* next sort would trip over.                                              *)
SortKeepsNodes ==
  [][\A t \in SortType :
       SortReturns(t) => Range(nodes') = Range(nodes) /\ visited' = {} /\ active' = {}]_listVars

(* The nodes from which k dependencies can be followed.                    *)
Chain(k) ==
  {n \in Node :
     \E p \in [0 .. k -> Node] : p[0] = n /\ \A i \in 1 .. k : p[i] \in Depend(p[i - 1])}

(* The depth of a placed node is the length of its longest chain of        *)
(* dependencies, in whatever order the search reaches them (lines 285-288) *)
(* and however often the list was sorted before.                           *)
DepthIsLongestChain ==
  rewires = 0 =>
    \A n \in Range(sortedNodes) : n \in Chain(depth[n]) /\ n \notin Chain(depth[n] + 1)

ClosedList == \A n \in Range(nodes) : Depend(n) \subseteq Range(nodes)

(* "Sorted and initial array sizes do not match!" (line 265), and a write  *)
(* past the array before that (line 292), blame a list that lacks a        *)
(* dependency of one of its nodes, never the search; and null pointers are *)
(* followed only in a list with free places.                               *)
ClosedListsSort ==
  ClosedList =>
    /\ phase \notin {"overrun", "sizeMismatch"}
    /\ phase = "nullCompared" => Len(nodes) < NUM_OF_NODES

(* A list that already respects the dependencies is left as it is by the   *)
(* topological sort.                                                       *)
SortedListIsKept ==
  [][InDependencyOrder(nodes) /\ SortReturns("Topological") => nodes' = nodes]_listVars

================================================================================
