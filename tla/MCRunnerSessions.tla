---------------------------- MODULE MCRunnerSessions ---------------------------
(***************************************************************************)
(* The instance of RunnerSessions for TLC.                                 *)
(***************************************************************************)
EXTENDS RunnerSessions

(* The jobs of all runs: each node in each wave.                           *)
MCSyncJob == Node \X Wave

================================================================================
