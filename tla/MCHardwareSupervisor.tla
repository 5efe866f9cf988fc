-------------------------- MODULE MCHardwareSupervisor --------------------------
(* Instances of HardwareSupervisor for TLC: the kinds of backend each run meets.   *)
EXTENDS HardwareSupervisor, TLC

CONSTANTS native1, native2, path1, path2

Backend(name, isLearned, nodes, watching, zones) ==
  [compat |-> FALSE, adapter |-> name, learned |-> isLearned, path |-> nodes,
   watch |-> watching, lights |-> zones]

Generic == Backend(NoAdapter, FALSE, path1, "none", FALSE)
Learned == Backend(NoAdapter, TRUE, path1, "session", FALSE)
Native  == Backend(native1, FALSE, path1, "detached", FALSE)
Other   == Backend(native2, FALSE, path2, "readable", FALSE)
Quiet   == Backend(native1, FALSE, path1, "none", FALSE)

MixedKinds == {Generic, Learned, Native, Other}
QuietKinds == {Quiet}

\* For invariants only.
Symmetry == Permutations(Ids)
================================================================================
