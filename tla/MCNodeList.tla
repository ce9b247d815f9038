------------------------------- MODULE MCNodeList ------------------------------
(***************************************************************************)
(* A small instance of NodeList for TLC.                                   *)
(***************************************************************************)
EXTENDS NodeList, TLC

Symmetry == Permutations(Node)

================================================================================
