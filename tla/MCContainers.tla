------------------------------ MODULE MCContainers -----------------------------
(***************************************************************************)
(* The instance of the two containers for TLC.  pop() returns an Optional, *)
(* but of a ThreadJob, which owns nothing: neither container can disturb   *)
(* the other, and the initial state says which one is used.                *)
(***************************************************************************)
EXTENDS TaskQueue, OptionalValue

VARIABLE used            (* "queue" or "optional"                          *)

containersVars == <<vars, optionalVars, used>>

ContainersInit == Init /\ OptionalInit /\ used \in {"queue", "optional"}

QueueStep == used = "queue" /\ Next /\ UNCHANGED <<optionalVars, used>>

OptionalStep == used = "optional" /\ OptionalNext /\ UNCHANGED <<vars, used>>

ContainersSpec == ContainersInit /\ [][QueueStep \/ OptionalStep]_containersVars

================================================================================
