----------------------------- MODULE MCMouseRemapper -----------------------------
(* An instance of MouseRemapper for TLC: two chords that share a modifier, a macro *)
(* that taps keys of both, and a button mapped to a key of the macro.             *)
EXTENDS MouseRemapper

CONSTANTS copy, paste, letter, macro, ctrl, c, v

Entry(what, codes) == [kind |-> what, keys |-> codes]

MCMapping ==
  [b \in Buttons |->
     CASE b = copy   -> Entry("chord", <<ctrl, c>>)
       [] b = paste  -> Entry("chord", <<ctrl, v>>)
       [] b = letter -> Entry("key", <<v>>)
       [] OTHER      -> Entry("macro", <<>>)]

MCMacro == <<<<ctrl, v>>>>
==================================================================================
