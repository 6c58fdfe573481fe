------------------------- MODULE MCPasskeyExecution -------------------------
(* Instances of PasskeyExecution for TLC.                                  *)
EXTENDS PasskeyExecution, TLC

PasskeySymmetry == Permutations(Approvals) \cup Permutations(Handlers)
=============================================================================
