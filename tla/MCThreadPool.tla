------------------------------ MODULE MCThreadPool -----------------------------
(***************************************************************************)
(* Small instances of ThreadPool for TLC.  Threads of one kind and jobs of *)
(* one kind are interchangeable, which the runs without liveness use.      *)
(***************************************************************************)
EXTENDS ThreadPool, TLC

Symmetry ==
  Permutations(Worker) \cup Permutations(Client)
    \cup Permutations(SyncJob) \cup Permutations(PlainJob)

================================================================================
