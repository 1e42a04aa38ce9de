---------------------------- MODULE MCPublisher ----------------------------
(* A cyclic and an acyclic publisher on one connection.                     *)
EXTENDS Publisher
=============================================================================
