------------------------------- MODULE TaskQueue -------------------------------
(***************************************************************************)
(* TaskQueue<MAX_TASKS> of src/thread_pool/thread_task_queue.hpp: a ring   *)
(* of MAX_TASKS slots with a head index (next job out), a tail index (next *)
(* free slot) and a size.  It has no lock of its own: the thread pool and  *)
(* the profiler call it under their mutex, so every call is one step.      *)
(*                                                                         *)
(* pop() never clears the slot it read; the specification keeps the stale  *)
(* job in "tasks" as the code does, so that an index error would hand out  *)
(* an old job again.                                                       *)
(***************************************************************************)
EXTENDS Integers, Sequences

CONSTANTS
  MAX_TASKS, (* number of slots                                     *)
  Job,       (* the ThreadJobs that callers push                    *)
  NoJob      (* a value-initialised slot, and an empty Optional     *)

ASSUME QueueAssumption ==
  /\ MAX_TASKS \in Nat \ {0}
  /\ NoJob \notin Job
  /\ Job \cap BOOLEAN = {}

VARIABLES
  tasks,     (* m_tasks                                             *)
  head,      (* m_head                                              *)
  tail,      (* m_tail                                              *)
  size,      (* m_size                                              *)
  result     (* value returned by the last call                     *)

vars == <<tasks, head, tail, size, result>>

Slot == 0 .. MAX_TASKS - 1

(* The index after i, as push() and pop() advance m_tail and m_head. *)
NextSlot(i) == (i + 1) % MAX_TASKS

Init ==
  /\ tasks = [i \in Slot |-> NoJob]
  /\ head = 0
  /\ tail = 0
  /\ size = 0
  /\ result = NoJob

push(task) ==
  \/ /\ size >= MAX_TASKS
     /\ result' = FALSE
     /\ UNCHANGED <<tasks, head, tail, size>>
  \/ /\ size < MAX_TASKS
     /\ tasks' = [tasks EXCEPT ![tail] = task]
     /\ tail' = NextSlot(tail)
     /\ size' = size + 1
     /\ result' = TRUE
     /\ UNCHANGED head

(* A definition named for a defect is a mutant: a plausible wrong version  *)
(* of the definition that follows it, to show that a property notices.     *)
popKeepsHead ==
  /\ size > 0
  /\ result' = tasks[head]
  /\ size' = size - 1
  /\ UNCHANGED <<tasks, head, tail>>

pop ==
  \/ /\ size <= 0
     /\ result' = NoJob
     /\ UNCHANGED <<tasks, head, tail, size>>
  \/ /\ size > 0
     /\ result' = tasks[head]
     /\ head' = NextSlot(head)
     /\ size' = size - 1
     /\ UNCHANGED <<tasks, tail>>

Next ==
  \/ \E task \in Job : push(task)
  \/ pop

Spec == Init /\ [][Next]_vars

--------------------------------------------------------------------------------

(* The indices stay inside the ring and the size inside the capacity, so   *)
(* no call of push() or pop() reaches outside m_tasks.                     *)
TypeOK ==
  /\ tasks \in [Slot -> Job \cup {NoJob}]
  /\ head \in Slot
  /\ tail \in Slot
  /\ size \in 0 .. MAX_TASKS
  /\ result \in Job \cup {NoJob} \cup BOOLEAN

(* The slot that is k places behind the head. *)
SlotAt(k) == IF head + k < MAX_TASKS THEN head + k ELSE head + k - MAX_TASKS

(* m_tail is redundant: it is always m_size places after m_head, although  *)
(* push() and pop() advance the two indices independently.                 *)
TailFollowsSize == tail = IF size = MAX_TASKS THEN head ELSE SlotAt(size)

(* A full and an empty ring both have head = tail and are not confused:    *)
(* the live slots hold jobs, never the value-initialised ThreadJob.        *)
LiveSlotsHoldJobs == \A k \in 0 .. size - 1 : tasks[SlotAt(k)] \in Job

(* The queued jobs, oldest first: the refinement mapping. *)
Contents == [k \in 1 .. size |-> tasks[SlotAt(k - 1)]]

Fifo == INSTANCE BoundedFifo WITH contents <- Contents

(* The ring implements the bounded FIFO: jobs come out in the order in     *)
(* which push() accepted them, none twice, and push() refuses a job        *)
(* exactly when MAX_TASKS jobs are queued (thread_task_queue.hpp:21-41).   *)
RingIsFifo == Fifo!Spec

================================================================================
