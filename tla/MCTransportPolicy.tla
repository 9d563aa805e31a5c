--------------------------- MODULE MCTransportPolicy ---------------------------
(* Instances of TransportPolicy; their constants are in the cfg files.     *)
EXTENDS TransportPolicy

================================================================================
