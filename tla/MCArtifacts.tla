---------------------------- MODULE MCArtifacts ----------------------------
(***************************************************************************)
(* The instance of Artifacts for TLC: two drivers that want one compiler.  *)
(***************************************************************************)
EXTENDS Artifacts, TLC

DriverPermutations == Permutations(Driver)
=============================================================================
