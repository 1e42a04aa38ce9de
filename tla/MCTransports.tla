---------------------------- MODULE MCTransports ----------------------------
(* Transports for TLC.                                                      *)
EXTENDS Transports
=============================================================================
