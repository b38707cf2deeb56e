---------------------------- MODULE MCStateManager ----------------------------
(* Small instances of StateManager.                                           *)
EXTENDS StateManager, TLC

Symmetry == Permutations(Tasks) \cup Permutations(Users \ {Main})
================================================================================
