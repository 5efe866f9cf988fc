------------------------------ MODULE MCRuntimeWake ------------------------------
(* Finite instance of RuntimeWake.                                                 *)
EXTENDS RuntimeWake
===================================================================================
