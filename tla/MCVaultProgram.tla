--------------------------- MODULE MCVaultProgram ---------------------------
(* Instances of VaultProgram for TLC.                                      *)
EXTENDS VaultProgram, TLC

\* A usable policy, one whose window opens later, and three that
\* ValidateSessionPolicy must refuse.
MCPolicies ==
  LET p == [actions |-> {"TRANSFER"}, per_action_limit |-> 1,
            cumulative_limit |-> 2, valid_after |-> 0, valid_until |-> 1]
  IN {p, [p EXCEPT !.per_action_limit = 2, !.valid_after = 1, !.valid_until = 2],
      [p EXCEPT !.cumulative_limit = 0], [p EXCEPT !.actions = {"OTHER"}],
      [p EXCEPT !.valid_after = 2]}

\* Vaults are interchangeable: the configurations use this as SYMMETRY.
VaultSymmetry == Permutations(Vaults)
=============================================================================
