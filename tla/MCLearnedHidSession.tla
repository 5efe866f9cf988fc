--------------------------- MODULE MCLearnedHidSession ---------------------------
(* Instances of LearnedHidSession for TLC.                                         *)
EXTENDS LearnedHidSession, TLC

Symmetry == Permutations(Clients) \cup Permutations(Shapes)
==================================================================================
