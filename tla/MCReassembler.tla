--------------------------- MODULE MCReassembler ---------------------------
(* Reassembler for TLC: messages are interchangeable.                       *)
EXTENDS Reassembler, TLC

Perms == Permutations(Messages)
=============================================================================
