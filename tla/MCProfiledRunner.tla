---------------------------- MODULE MCProfiledRunner ---------------------------
(***************************************************************************)
(* The instance of ProfiledRunner for TLC.                                 *)
(***************************************************************************)
EXTENDS ProfiledRunner

(* The jobs of the run: each node in each wave.                            *)
MCSyncJob == Node \X Wave

================================================================================
