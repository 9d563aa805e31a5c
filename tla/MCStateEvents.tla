---------------------------- MODULE MCStateEvents ----------------------------
(* Small instances of StateEvents.                                         *)
EXTENDS StateEvents


==============================================================================
