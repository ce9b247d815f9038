------------------------------ MODULE BoundedFifo ------------------------------
(***************************************************************************)
(* What TaskQueue promises: a first-in first-out queue of at most          *)
(* MAX_TASKS jobs.  An operation records what it returned in "result": a   *)
(* boolean for push, a job or NoJob (an empty Optional) for pop.           *)
(***************************************************************************)
EXTENDS Integers, Sequences

CONSTANTS
  MAX_TASKS, (* the template parameter of the queue      *)
  Job,       (* the jobs that can be queued              *)
  NoJob      (* the empty Optional returned by pop       *)

VARIABLES
  contents,  (* the queued jobs, oldest first            *)
  result     (* what the last operation returned         *)

vars == <<contents, result>>

Init == contents = <<>> /\ result = NoJob

(* push() appends and returns true, or refuses on a full queue. *)
PushAccepted(j) ==
  /\ Len(contents) < MAX_TASKS
  /\ contents' = Append(contents, j)
  /\ result' = TRUE

PushRefused ==
  /\ Len(contents) = MAX_TASKS
  /\ result' = FALSE
  /\ UNCHANGED contents

(* pop() takes the oldest job, or returns an empty Optional. *)
PopJob ==
  /\ contents # <<>>
  /\ result' = Head(contents)
  /\ contents' = Tail(contents)

PopNothing ==
  /\ contents = <<>>
  /\ result' = NoJob
  /\ UNCHANGED contents

Next ==
  \/ \E j \in Job : PushAccepted(j)
  \/ PushRefused
  \/ PopJob
  \/ PopNothing

Spec == Init /\ [][Next]_vars

================================================================================
