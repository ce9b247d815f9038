--------------------------------- MODULE JobPool -------------------------------
(***************************************************************************)
(* What ThreadPool promises about jobs, without threads, locks or          *)
(* condition variables: at most Capacity jobs are in the pool, they start  *)
(* in the order in which they were accepted, each runs once, and a job     *)
(* that is to be collected is handed back once, in the order of            *)
(* completion.                                                             *)
(***************************************************************************)
EXTENDS Naturals, Sequences, FiniteSets, Functions

CONSTANTS
  SyncJob,   (* jobs that a client collects                  *)
  PlainJob,  (* jobs that are discarded when they have run   *)
  Capacity   (* how many jobs the pool holds                 *)

VARIABLES
  queued,    (* accepted, not started, oldest first          *)
  running,   (* the set of jobs that are running             *)
  done,      (* run, not collected, oldest first             *)
  gone       (* collected or discarded                       *)

vars == <<queued, running, done, gone>>

Init == queued = <<>> /\ running = {} /\ done = <<>> /\ gone = {}

Held == Len(queued) + Cardinality(running) + Len(done)

Submit(j) ==
  /\ Held < Capacity
  /\ j \notin Range(queued) \cup running \cup Range(done) \cup gone
  /\ queued' = Append(queued, j)
  /\ UNCHANGED <<running, done, gone>>

Start ==
  /\ queued # <<>>
  /\ running' = running \cup {Head(queued)}
  /\ queued' = Tail(queued)
  /\ UNCHANGED <<done, gone>>

Complete(j) ==
  /\ j \in running \cap SyncJob
  /\ running' = running \ {j}
  /\ done' = Append(done, j)
  /\ UNCHANGED <<queued, gone>>

Discard(j) ==
  /\ j \in running \cap PlainJob
  /\ running' = running \ {j}
  /\ gone' = gone \cup {j}
  /\ UNCHANGED <<queued, done>>

Collect ==
  /\ done # <<>>
  /\ gone' = gone \cup {Head(done)}
  /\ done' = Tail(done)
  /\ UNCHANGED <<queued, running>>

Next ==
  \/ \E j \in SyncJob \cup PlainJob : Submit(j) \/ Complete(j) \/ Discard(j)
  \/ Start
  \/ Collect

Spec == Init /\ [][Next]_vars

================================================================================
