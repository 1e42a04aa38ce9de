-------------------------- MODULE MCClientManager --------------------------
(* ClientManager on a few clients, which are interchangeable.               *)
EXTENDS ClientManager, TLC

Perms == Permutations(Clients)

(* Liveness, while nobody asks for a connection during disconnect().  The   *)
(* operations are left out: what one does to a connection, marking it down, *)
(* NodeReconnects and FindSessionInvalid do too.                            *)
LiveNext ==
  /\ Calls \/ Attempt \/ Loop \/ NodeOpcua \/ Disconnecting \/ FindSessionInvalid
  /\ Undisturbed'
LiveSpec == Init /\ [][LiveNext]_vars /\ ManagerFairness /\ ServerFairness
ServerGoneSpec == Init /\ [][LiveNext]_vars /\ ManagerFairness
=============================================================================
