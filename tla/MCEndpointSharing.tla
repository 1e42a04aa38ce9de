------------------------ MODULE MCEndpointSharing -------------------------
(* EndpointSharing for TLC: interchangeable nodes and managers.             *)
EXTENDS EndpointSharing, TLC

Perms == Permutations(Nodes) \cup Permutations(Managers)
=============================================================================
