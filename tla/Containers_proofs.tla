--------------------------- MODULE Containers_proofs ---------------------------
(***************************************************************************)
(* The two containers.  The ring of TaskQueue.tla, for every capacity and  *)
(* every set of jobs: its indices stay in range and it implements          *)
(* BoundedFifo.  The objects in OptionalValue.tla, for every number of     *)
(* places and of objects: each has one owner, which destroys it once.      *)
(***************************************************************************)
EXTENDS TaskQueue, OptionalValue, SequenceTheorems, TLAPS

--------------------------------------------------------------------------------
(* TaskQueue.                                                              *)

(* Advancing an index by one modulo the capacity wraps exactly at the last *)
(* slot (the two "% MAX_TASKS" of thread_task_queue.hpp).                  *)
LEMMA NextSlotWraps ==
  ASSUME NEW i \in Slot
  PROVE  NextSlot(i) = IF i + 1 = MAX_TASKS THEN 0 ELSE i + 1
BY QueueAssumption DEF NextSlot, Slot

(* Append and Tail as functions on the positions of a sequence. *)
LEMMA AppendAsFunction ==
  ASSUME NEW S, NEW s \in Seq(S), NEW e \in S
  PROVE  Append(s, e) = [k \in 1 .. Len(s) + 1 |-> IF k <= Len(s) THEN s[k] ELSE e]
<1> DEFINE n == Len(s) + 1
           f == [k \in 1 .. n |-> IF k <= Len(s) THEN s[k] ELSE e]
<1>1. /\ Append(s, e) \in Seq(S)
      /\ Len(Append(s, e)) = n
      /\ \A k \in 1 .. n : Append(s, e)[k] = IF k <= Len(s) THEN s[k] ELSE e
  BY AppendProperties, LenProperties
<1>2. n \in Nat /\ f \in [1 .. n -> S]
  BY LenProperties
<1>3. f \in Seq(S) /\ Len(f) = n
  BY <1>2
<1>4. QED BY <1>1, <1>3, SeqEqual

LEMMA TailAsFunction ==
  ASSUME NEW S, NEW s \in Seq(S), s # <<>>
  PROVE  Tail(s) = [k \in 1 .. Len(s) - 1 |-> s[k + 1]]
<1> DEFINE n == Len(s) - 1
           f == [k \in 1 .. n |-> s[k + 1]]
<1>1. /\ Tail(s) \in Seq(S)
      /\ Len(Tail(s)) = n
      /\ \A k \in 1 .. n : Tail(s)[k] = s[k + 1]
  BY HeadTailProperties
<1>2. n \in Nat /\ f \in [1 .. n -> S]
  BY EmptySeq, LenProperties
<1>3. f \in Seq(S) /\ Len(f) = n
  BY <1>2
<1>4. QED BY <1>1, <1>3, SeqEqual

(* The indices, the size and the link between them: the inductive invariant. *)
RingInv == TypeOK /\ TailFollowsSize /\ LiveSlotsHoldJobs

LEMMA RingInvInit == Init => RingInv
BY QueueAssumption DEF Init, RingInv, TypeOK, TailFollowsSize,
   LiveSlotsHoldJobs, Slot, SlotAt

LEMMA RingInvPush ==
  ASSUME RingInv, NEW task \in Job, push(task)
  PROVE  RingInv'
<1> DEFINE Result == Job \cup {NoJob} \cup BOOLEAN
<1>0. result' \in Result
  BY Zenon DEF push
<1>1. CASE size >= MAX_TASKS
  <2>1. UNCHANGED <<tasks, head, tail, size>>
    BY <1>1, QueueAssumption DEF RingInv, TypeOK, push
  <2>2. TypeOK'
    BY <1>0, <2>1 DEF RingInv, TypeOK
  <2>3. TailFollowsSize' /\ LiveSlotsHoldJobs'
    BY <2>1 DEF RingInv, TailFollowsSize, LiveSlotsHoldJobs, SlotAt
  <2>4. QED BY <2>2, <2>3 DEF RingInv
<1>2. CASE size < MAX_TASKS
  <2>1. NextSlot(tail) = IF tail + 1 = MAX_TASKS THEN 0 ELSE tail + 1
    BY NextSlotWraps DEF RingInv, TypeOK
  <2>2. TypeOK'
    <3>1. /\ tasks' \in [Slot -> Job \cup {NoJob}]
          /\ head' \in Slot
          /\ tail' \in Slot
          /\ size' \in 0 .. MAX_TASKS
      BY <1>2, <2>1, QueueAssumption DEF RingInv, TypeOK, push, Slot
    <3>2. QED BY <1>0, <3>1 DEF TypeOK
  <2>3. TailFollowsSize'
    BY <1>2, <2>1, QueueAssumption
    DEF RingInv, TypeOK, TailFollowsSize, SlotAt, push, Slot
  <2>4. LiveSlotsHoldJobs'
    BY <1>2, QueueAssumption
    DEF RingInv, TypeOK, TailFollowsSize, LiveSlotsHoldJobs, SlotAt, push, Slot
  <2>5. QED BY <2>2, <2>3, <2>4 DEF RingInv
<1>3. QED BY <1>1, <1>2, QueueAssumption DEF RingInv, TypeOK

LEMMA RingInvPop ==
  ASSUME RingInv, pop
  PROVE  RingInv'
<1>1. CASE size <= 0
  BY <1>1, QueueAssumption DEF RingInv, TypeOK, TailFollowsSize,
     LiveSlotsHoldJobs, SlotAt, pop, Slot
<1>2. CASE size > 0
  <2>1. NextSlot(head) = IF head + 1 = MAX_TASKS THEN 0 ELSE head + 1
    BY NextSlotWraps DEF RingInv, TypeOK
  <2>2. TypeOK'
    BY <1>2, <2>1, QueueAssumption DEF RingInv, TypeOK, pop, Slot
  <2>3. TailFollowsSize'
    BY <1>2, <2>1, QueueAssumption
    DEF RingInv, TypeOK, TailFollowsSize, SlotAt, pop, Slot
  <2>4. LiveSlotsHoldJobs'
    <3> SUFFICES ASSUME NEW k \in 0 .. size' - 1 PROVE tasks'[SlotAt(k)'] \in Job
      BY DEF LiveSlotsHoldJobs
    <3>1. k + 1 \in 0 .. size - 1 /\ SlotAt(k)' = SlotAt(k + 1)
      BY <1>2, <2>1, QueueAssumption DEF RingInv, TypeOK, SlotAt, pop, Slot
    <3>2. QED BY <1>2, <3>1 DEF RingInv, LiveSlotsHoldJobs, pop
  <2>5. QED BY <2>2, <2>3, <2>4 DEF RingInv
<1>3. QED BY <1>1, <1>2, QueueAssumption DEF RingInv, TypeOK

LEMMA RingInvariant == Spec => []RingInv
<1>1. RingInv /\ [Next]_vars => RingInv'
  <2> SUFFICES ASSUME RingInv, [Next]_vars PROVE RingInv'
    OBVIOUS
  <2>1. CASE UNCHANGED vars
    <3>1. UNCHANGED <<tasks, head, tail, size, result>>
      BY <2>1 DEF vars
    <3>2. QED BY <3>1 DEF RingInv, TypeOK, TailFollowsSize, LiveSlotsHoldJobs, SlotAt
  <2>2. CASE \E task \in Job : push(task)
    BY <2>2, RingInvPush
  <2>3. CASE pop
    BY <2>3, RingInvPop
  <2>4. QED BY <2>1, <2>2, <2>3 DEF Next
<1>2. QED BY <1>1, RingInvInit, PTL DEF Spec

(* No call of push() or pop() indexes outside m_tasks or miscounts m_size, *)
(* whatever the capacity (thread_task_queue.hpp:21-41).                    *)
THEOREM QueueTypeCorrect == Spec => []TypeOK
BY RingInvariant, PTL DEF RingInv

(* The tail index stays m_size places behind the head.                     *)
THEOREM QueueTailFollowsSize == Spec => []TailFollowsSize
BY RingInvariant, PTL DEF RingInv

(* Every slot between head and tail holds a pushed job.                    *)
THEOREM QueueLiveSlotsHoldJobs == Spec => []LiveSlotsHoldJobs
BY RingInvariant, PTL DEF RingInv

--------------------------------------------------------------------------------

(* The queued jobs form a sequence of m_size jobs. *)
LEMMA ContentsIsSeq ==
  ASSUME RingInv
  PROVE  Contents \in Seq(Job) /\ Len(Contents) = size
<1>1. Contents \in [1 .. size -> Job]
  <2> SUFFICES ASSUME NEW k \in 1 .. size PROVE tasks[SlotAt(k - 1)] \in Job
    BY DEF Contents
  <2>1. k - 1 \in 0 .. size - 1
    BY DEF RingInv, TypeOK
  <2>2. QED BY <2>1 DEF RingInv, LiveSlotsHoldJobs
<1>2. size \in Nat
  BY QueueAssumption DEF RingInv, TypeOK
<1>3. QED BY <1>1, <1>2

(* push() appends to the queued jobs, or refuses when all slots are live. *)
LEMMA PushRefines ==
  ASSUME RingInv, NEW task \in Job, push(task)
  PROVE  Fifo!PushAccepted(task) \/ Fifo!PushRefused
<1>1. CASE size >= MAX_TASKS
  <2>1. UNCHANGED <<tasks, head, tail, size>> /\ size = MAX_TASKS
    BY <1>1, QueueAssumption DEF RingInv, TypeOK, push
  <2>2. result' = FALSE
    <3>1. ~(size < MAX_TASKS)
      BY <2>1, QueueAssumption
    <3>2. QED BY <3>1, Zenon DEF push
  <2>3. Contents' = Contents
    BY <2>1 DEF Contents, SlotAt
  <2>4. Len(Contents) = MAX_TASKS
    BY <2>1, ContentsIsSeq
  <2>5. QED BY <2>2, <2>3, <2>4, Zenon DEF Fifo!PushRefused
<1>2. CASE size < MAX_TASKS
  <2>1. Len(Contents) < MAX_TASKS
    BY <1>2, ContentsIsSeq
  <2>2. result' = TRUE
    <3>1. ~(size >= MAX_TASKS)
      BY <1>2, QueueAssumption DEF RingInv, TypeOK
    <3>2. QED BY <3>1, Zenon DEF push
  <2>3. /\ tasks' = [tasks EXCEPT ![tail] = task]
        /\ size' = size + 1
        /\ head' = head
    BY <1>2, QueueAssumption DEF push, RingInv, TypeOK
  <2>4. tail = SlotAt(size)
    BY <1>2, QueueAssumption DEF RingInv, TypeOK, TailFollowsSize
  <2>5. \A k \in 1 .. size : tasks'[SlotAt(k - 1)'] = tasks[SlotAt(k - 1)]
    BY <1>2, <2>3, <2>4, QueueAssumption DEF RingInv, TypeOK, SlotAt, Slot
  <2>6. \A k \in 1 .. size + 1 : k > size => tasks'[SlotAt(k - 1)'] = task
    BY <1>2, <2>3, <2>4, QueueAssumption DEF RingInv, TypeOK, SlotAt, Slot
  <2>7. Contents' = [k \in 1 .. size + 1 |-> IF k <= size THEN Contents[k] ELSE task]
    BY <2>3, <2>5, <2>6, QueueAssumption DEF Contents, RingInv, TypeOK
  <2>8. Append(Contents, task) = [k \in 1 .. size + 1 |-> IF k <= size THEN Contents[k] ELSE task]
    BY ContentsIsSeq, AppendAsFunction
  <2>9. QED BY <2>1, <2>2, <2>7, <2>8, Zenon DEF Fifo!PushAccepted
<1>3. QED BY <1>1, <1>2, QueueAssumption DEF RingInv, TypeOK

(* pop() returns and removes the oldest queued job, or reports an empty queue. *)
LEMMA PopRefines ==
  ASSUME RingInv, pop
  PROVE  Fifo!PopJob \/ Fifo!PopNothing
<1>1. CASE size <= 0
  <2>1. UNCHANGED <<tasks, head, tail, size>> /\ size = 0 /\ result' = NoJob
    BY <1>1, QueueAssumption DEF RingInv, TypeOK, pop
  <2>2. Contents' = Contents
    BY <2>1 DEF Contents, SlotAt
  <2>3. Contents = <<>>
    BY <2>1, ContentsIsSeq
  <2>4. QED BY <2>1, <2>2, <2>3 DEF Fifo!PopNothing
<1>2. CASE size > 0
  <2>1. /\ result' = tasks[head]
        /\ head' = NextSlot(head)
        /\ size' = size - 1
        /\ tasks' = tasks
    BY <1>2, QueueAssumption DEF pop, RingInv, TypeOK
  <2>2. NextSlot(head) = IF head + 1 = MAX_TASKS THEN 0 ELSE head + 1
    BY NextSlotWraps DEF RingInv, TypeOK
  <2>3. Contents # <<>> /\ Contents[1] = tasks[head]
    BY <1>2, ContentsIsSeq, QueueAssumption DEF Contents, SlotAt, RingInv, TypeOK, Slot
  <2>4. \A k \in 1 .. size - 1 : tasks'[SlotAt(k - 1)'] = tasks[SlotAt(k)]
    BY <1>2, <2>1, <2>2, QueueAssumption DEF RingInv, TypeOK, SlotAt, Slot
  <2>5. Contents' = [k \in 1 .. size - 1 |-> Contents[k + 1]]
    BY <1>2, <2>1, <2>4, QueueAssumption DEF Contents, RingInv, TypeOK
  <2>6. Tail(Contents) = [k \in 1 .. size - 1 |-> Contents[k + 1]]
    BY ContentsIsSeq, TailAsFunction, <2>3
  <2>7. Head(Contents) = tasks[head]
    BY ContentsIsSeq, <2>3
  <2>8. QED BY <2>1, <2>3, <2>5, <2>6, <2>7 DEF Fifo!PopJob
<1>3. QED BY <1>1, <1>2, QueueAssumption DEF RingInv, TypeOK

(* The ring buffer implements the bounded FIFO: the initial ring is the    *)
(* empty queue and every call is a step of BoundedFifo.                    *)
THEOREM RingImplementsFifo == Spec => RingIsFifo
<1>1. Init => Fifo!Init
  BY DEF Init, Fifo!Init, Contents
<1>2. RingInv /\ [Next]_vars => [Fifo!Next]_Fifo!vars
  <2> SUFFICES ASSUME RingInv, [Next]_vars PROVE [Fifo!Next]_Fifo!vars
    OBVIOUS
  <2>1. CASE UNCHANGED vars
    BY <2>1 DEF vars, Fifo!vars, Contents, SlotAt
  <2>2. CASE \E task \in Job : push(task)
    BY <2>2, PushRefines DEF Fifo!Next
  <2>3. CASE pop
    BY <2>3, PopRefines DEF Fifo!Next
  <2>4. QED BY <2>1, <2>2, <2>3 DEF Next
<1>3. QED BY <1>1, <1>2, RingInvariant, PTL DEF Spec, RingIsFifo, Fifo!Spec

--------------------------------------------------------------------------------
(* Optional.                                                               *)

(* Objects are numbered in the order of construction, and an Optional that *)
(* has ended its lifetime holds nothing.                                   *)
ObjectsNumbered ==
  /\ constructed \in Nat
  /\ storage \in [Optional -> 0 .. constructed]
  /\ hasValue \subseteq exists /\ exists \subseteq Optional
  /\ live \subseteq 1 .. constructed /\ misused \subseteq 0 .. constructed

OwnedInv == ObjectsNumbered /\ OwnedOnce

(* What OwnedOnce says of one object.                                      *)
Owned(x) ==
  /\ x \notin misused
  /\ IF x \in live THEN \E o \in exists : Holders(x) = {o} ELSE Holders(x) = {}

(* An object that a step neither constructs, destroys nor moves.           *)
LEMMA OwnerKept ==
  ASSUME NEW x, Owned(x), Holders(x)' = Holders(x), x \in live' <=> x \in live,
         x \notin misused', Holders(x) \subseteq exists'
  PROVE  Owned(x)'
BY DEF Owned

(* An object that its only holder o gives up by reset() or an assignment.  *)
LEMMA ResetDestroysOwn ==
  ASSUME OwnedInv, NEW o \in exists, NEW x \in (1 .. constructed) \ shared
  PROVE  /\ x \in Reset(o).live <=> x \in live /\ ~(o \in hasValue /\ Value(o) = x)
         /\ x \notin Reset(o).misused
         /\ o \in hasValue /\ Value(o) = x => Holders(x) = {o}
<1>1. Owned(x)
  BY DEF OwnedInv, OwnedOnce, Owned
<1>2. o \in hasValue /\ Value(o) = x => o \in Holders(x)
  BY DEF Holders
<1>3. o \in hasValue /\ Value(o) = x => Holders(x) = {o} /\ x \in live
  BY <1>1, <1>2 DEF Owned
<1>4. QED BY <1>1, <1>3 DEF Reset, Owned

LEMMA ResetNumbers ==
  ASSUME ObjectsNumbered, NEW o \in exists
  PROVE  Reset(o).live \subseteq live /\ Reset(o).misused \subseteq 0 .. constructed
BY DEF ObjectsNumbered, Reset, Value

LEMMA OwnedSays ==
  /\ OwnedOnce <=> \A x \in (1 .. constructed) \ shared : Owned(x)
  /\ OwnedOnce' <=> \A x \in (1 .. constructed') \ shared' : Owned(x)'
BY DEF OwnedOnce, Owned

(* A new object in o, in place of what o held.                             *)
LEMMA ConstructOwns ==
  ASSUME OwnedInv, NEW o \in Optional, NEW L, Construct(o, L),
         L \subseteq live, exists' = exists \cup {o},
         o \notin exists => o \notin hasValue,
         misused' \subseteq 0 .. constructed \/ constructed + 1 \in shared',
         misused' \subseteq 0 .. constructed + 1, shared \subseteq shared',
         \A x \in (1 .. constructed) \ shared' :
           /\ x \in L <=> x \in live /\ ~(o \in hasValue /\ Value(o) = x)
           /\ x \notin misused'
           /\ o \in hasValue /\ Value(o) = x => Holders(x) = {o}
  PROVE  OwnedInv'
<1>k. PICK k : k = constructed + 1
  OBVIOUS
<1>1. /\ constructed \in Nat /\ constructed' = k /\ k \notin 0 .. constructed
      /\ storage' = [storage EXCEPT ![o] = k] /\ hasValue' = hasValue \cup {o}
      /\ live' = L \cup {k} /\ storage \in [Optional -> 0 .. constructed]
      /\ hasValue \subseteq exists /\ exists \subseteq Optional /\ live \subseteq 1 .. constructed
  BY <1>k DEF Construct, OwnedInv, ObjectsNumbered
<1>2. 0 .. constructed \subseteq 0 .. k /\ k \in 0 .. k /\ 1 .. k = (1 .. constructed) \cup {k} /\ k \in Nat
  BY <1>1, <1>k
<1>3. ObjectsNumbered'
  BY <1>1, <1>2, <1>k DEF ObjectsNumbered
<1>4. ASSUME k \notin shared' PROVE Owned(k)'
  <2>1. Holders(k)' = {o}
    BY <1>1 DEF Holders, Value
  <2>2. QED BY <1>1, <1>k, <1>4, <2>1 DEF Owned
<1>5. ASSUME NEW x \in (1 .. constructed) \ shared' PROVE Owned(x)'
  <2>1. x # k /\ Owned(x)
    BY <1>1, <1>5 DEF OwnedInv, OwnedOnce, Owned
  <2>2. Holders(x)' = Holders(x) \ {o}
    <3>1. ASSUME NEW p PROVE p \in Holders(x)' <=> p \in Holders(x) \ {o}
      <4>1. CASE p = o
        <5>1. o \notin Holders(x)'
          BY <1>1, <2>1 DEF Holders, Value
        <5>2. QED BY <4>1, <5>1
      <4>2. CASE p # o
        <5>1. p \in exists' \cap hasValue' <=> p \in exists \cap hasValue
          BY <1>1, <4>2
        <5>2. p \in exists \cap hasValue => Value(p)' = Value(p)
          BY <1>1, <4>2 DEF Value
        <5>3. QED BY <4>2, <5>1, <5>2 DEF Holders
      <4>3. QED BY <4>1, <4>2
    <3>2. QED BY <3>1
  <2>3. CASE o \in hasValue /\ Value(o) = x
    <3>1. x \notin live' /\ x \notin misused'
      BY <1>1, <2>1, <2>3
    <3>2. Holders(x)' = {}
      BY <2>2, <2>3
    <3>3. QED BY <3>1, <3>2 DEF Owned
  <2>4. CASE ~(o \in hasValue /\ Value(o) = x)
    <3>1. o \notin Holders(x)
      BY <2>4 DEF Holders
    <3>2. Holders(x)' = Holders(x)
      BY <2>2, <3>1
    <3>3. Holders(x) \subseteq exists'
      BY DEF Holders
    <3>4. x \in live' <=> x \in live
      BY <1>1, <2>1, <2>4
    <3>5. x \notin misused'
      OBVIOUS
    <3>6. QED BY <2>1, <3>2, <3>3, <3>4, <3>5, OwnerKept
  <2>5. QED BY <2>3, <2>4
<1>6. \A x \in (1 .. constructed') \ shared' : Owned(x)'
  BY <1>1, <1>2, <1>4, <1>5
<1>7. QED BY <1>3, <1>6, OwnedSays DEF OwnedInv

LEMMA OwnedInvNext ==
  ASSUME OwnedInv, [OptionalNext]_optionalVars
  PROVE  OwnedInv'
<1>num. /\ constructed \in Nat /\ storage \in [Optional -> 0 .. constructed]
        /\ hasValue \subseteq exists /\ exists \subseteq Optional
        /\ live \subseteq 1 .. constructed /\ misused \subseteq 0 .. constructed
  BY DEF OwnedInv, ObjectsNumbered
<1>own. \A x \in (1 .. constructed) \ shared : Owned(x)
  BY OwnedSays DEF OwnedInv
<1>1. ASSUME NEW o \in Optional, CreateEmpty(o) PROVE OwnedInv'
  <2>1. ObjectsNumbered'
    BY <1>1, <1>num DEF CreateEmpty, ObjectsNumbered, NoBytes
  <2>2. \A x : Holders(x)' = Holders(x)
    BY <1>1, <1>num DEF CreateEmpty, Holders, Value
  <2>3. \A x \in (1 .. constructed) \ shared : Owned(x)'
    BY <1>1, <1>own, <2>2 DEF CreateEmpty, Owned
  <2>4. QED BY <1>1, <2>1, <2>3, OwnedSays DEF CreateEmpty, OwnedInv
<1>2. ASSUME NEW o \in Optional, CreateFrom(o) PROVE OwnedInv'
  <2>1. /\ o \notin hasValue /\ exists' = exists \cup {o} /\ Construct(o, live)
        /\ misused' = misused /\ shared' = shared /\ misused \subseteq 0 .. constructed + 1
    BY <1>2, <1>num DEF CreateFrom
  <2>2. QED BY <1>num, <1>own, <2>1, ConstructOwns DEF Owned
<1>3. ASSUME NEW o \in Optional, Assign(o) PROVE OwnedInv'
  <2>1. /\ o \in exists /\ exists' = exists /\ Construct(o, Reset(o).live)
        /\ misused' = Reset(o).misused /\ shared' = shared
    BY <1>3 DEF Assign
  <2>2. /\ Reset(o).live \subseteq live /\ Reset(o).misused \subseteq 0 .. constructed
        /\ 0 .. constructed \subseteq 0 .. constructed + 1
    BY <1>num, <2>1, ResetNumbers DEF OwnedInv
  <2>3. exists' = exists \cup {o}
    BY <2>1
  <2>4. QED BY <2>1, <2>2, <2>3, ResetDestroysOwn, ConstructOwns
<1>4. ASSUME NEW o \in Optional, AssignOwn(o) PROVE OwnedInv'
  <2>1. /\ o \in exists /\ exists' = exists /\ Construct(o, Reset(o).live)
        /\ misused' = Reset(o).misused \cup {Value(o)}
        /\ shared' = shared \cup {Value(o), constructed + 1}
    BY <1>4 DEF AssignOwn
  <2>2. /\ Reset(o).live \subseteq live /\ Reset(o).misused \subseteq 0 .. constructed
        /\ 0 .. constructed \subseteq 0 .. constructed + 1 /\ Value(o) \in 0 .. constructed
    BY <1>num, <2>1, ResetNumbers DEF OwnedInv, Value
  <2>3. exists' = exists \cup {o} /\ misused' \subseteq 0 .. constructed + 1
    BY <2>1, <2>2
  <2>4. \A x \in (1 .. constructed) \ shared' :
          /\ x \in Reset(o).live <=> x \in live /\ ~(o \in hasValue /\ Value(o) = x)
          /\ x \notin misused'
          /\ o \in hasValue /\ Value(o) = x => Holders(x) = {o}
    BY <2>1, ResetDestroysOwn
  <2>5. QED BY <2>1, <2>2, <2>3, <2>4, ConstructOwns
<1>5. ASSUME NEW o \in Optional, NEW lives \in BOOLEAN, CallReset(o, lives) PROVE OwnedInv'
  <2>1. /\ o \in exists /\ exists' \in {exists, exists \ {o}} /\ live' = Reset(o).live
        /\ misused' = Reset(o).misused /\ hasValue' = hasValue \ {o}
        /\ UNCHANGED <<storage, constructed, shared>>
    BY <1>5 DEF CallReset
  <2>2. ObjectsNumbered'
    BY <1>num, <2>1, ResetNumbers DEF OwnedInv, ObjectsNumbered
  <2>3. ASSUME NEW x \in (1 .. constructed) \ shared PROVE Owned(x)'
    <3>1. Holders(x)' = Holders(x) \ {o}
      BY <1>num, <2>1 DEF Holders, Value
    <3>2. /\ x \in live' <=> x \in live /\ ~(o \in hasValue /\ Value(o) = x)
          /\ x \notin misused'
          /\ o \in hasValue /\ Value(o) = x => Holders(x) = {o}
      BY <2>1, ResetDestroysOwn
    <3>3. CASE o \in hasValue /\ Value(o) = x
      BY <3>1, <3>2, <3>3 DEF Owned
    <3>4. CASE ~(o \in hasValue /\ Value(o) = x)
      <4>1. Holders(x)' = Holders(x) /\ Holders(x) \subseteq exists'
        BY <2>1, <3>1, <3>4 DEF Holders
      <4>2. QED BY <1>own, <3>2, <3>4, <4>1, OwnerKept
    <3>5. QED BY <3>3, <3>4
  <2>4. QED BY <2>1, <2>2, <2>3, OwnedSays DEF OwnedInv
<1>6. ASSUME NEW o \in Optional, NEW p \in Optional, Copy(o, p) PROVE OwnedInv'
  <2>1. /\ o \in exists /\ exists' = exists \cup {p}
        /\ storage' = [storage EXCEPT ![p] = storage[o]]
        /\ hasValue' = IF o \in hasValue THEN hasValue \cup {p} ELSE hasValue \ {p}
        /\ shared' = shared \cup {storage[q] : q \in {o, p} \cap hasValue}
        /\ UNCHANGED <<live, constructed, misused>>
    BY <1>6 DEF Copy
  <2>2. ObjectsNumbered'
    BY <1>num, <2>1 DEF ObjectsNumbered
  <2>3. ASSUME NEW x \in (1 .. constructed) \ shared' PROVE Owned(x)'
    <3>1. /\ o \in hasValue => storage[o] # x
          /\ p \in hasValue => storage[p] # x
      BY <2>1, <2>3
    <3>2. Holders(x)' = Holders(x)
      BY <1>num, <2>1, <3>1 DEF Holders, Value
    <3>3. Owned(x) /\ Holders(x) \subseteq exists'
      BY <1>own, <2>1, <2>3 DEF Holders
    <3>4. QED BY <2>1, <3>2, <3>3, OwnerKept DEF Owned
  <2>4. QED BY <2>1, <2>2, <2>3, OwnedSays DEF OwnedInv
<1>7. CASE UNCHANGED optionalVars
  BY <1>7 DEF optionalVars, OwnedInv, ObjectsNumbered, OwnedOnce, Holders, Value
<1>8. QED
  BY <1>1, <1>2, <1>3, <1>4, <1>5, <1>6, <1>7 DEF OptionalNext

(* An object that no implicit copy and no assignment to itself has touched *)
(* is destroyed once, when its one holder gives it up, in any sequence of  *)
(* calls on any number of Optionals.                                       *)
THEOREM ObjectsAreOwnedOnce == OptionalSpec => []OwnedOnce
<1>1. OptionalInit => OwnedInv
  BY DEF OptionalInit, OwnedInv, ObjectsNumbered, OwnedOnce, NoBytes
<1>2. OwnedInv => OwnedOnce
  BY DEF OwnedInv
<1>3. QED BY <1>1, <1>2, OwnedInvNext, PTL DEF OptionalSpec

================================================================================
