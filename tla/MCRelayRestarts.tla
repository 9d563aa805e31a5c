---------------------------- MODULE MCRelayRestarts ----------------------------
(* A small instance of RelayRestarts: its registry is as large as the set  *)
(* of commands, so that only a restart makes it forget.                    *)
EXTENDS RelayRestarts

================================================================================
