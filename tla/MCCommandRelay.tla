---------------------------- MODULE MCCommandRelay ----------------------------
(* Small instances of CommandRelay.                                        *)
EXTENDS CommandRelayRefinement

Symmetry == Permutations(Commands)

===============================================================================
