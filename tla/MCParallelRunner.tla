---------------------------- MODULE MCParallelRunner ---------------------------
(***************************************************************************)
(* Instances of ParallelRunner for TLC: every acyclic graph over the nodes *)
(* is an initial state, so each run covers all graphs and all list orders. *)
(***************************************************************************)
EXTENDS ParallelRunner

(* The jobs of the run: each node in each wave.                            *)
MCSyncJob == Node \X Wave

================================================================================
