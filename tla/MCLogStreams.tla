----------------------------- MODULE MCLogStreams -----------------------------
(* Small instances of LogStreams.                                          *)
EXTENDS LogStreams, TLC

Symmetry == Permutations(Requests)

===============================================================================
