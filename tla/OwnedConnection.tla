-------------------------- MODULE OwnedConnection --------------------------
(***************************************************************************)
(* What a client manager promises the nodes that share it, whatever runs   *)
(* inside: at most one connection, opened only on behalf of a user, given  *)
(* up before another one is opened, and none left once it is released.     *)
(***************************************************************************)
CONSTANT Clients

VARIABLES phase,    \* "released", "used" or "releasing"
          live      \* connections that are open and that nobody is closing

Init == phase = "released" /\ live = {}

OneOf(cs) == cs = {} \/ \E c \in Clients : cs = {c}

(* The first request opens at most one connection.                          *)
Ask ==
  /\ phase = "released" /\ phase' = "used"
  /\ OneOf(live')

(* In use, a connection may be given up, and opened when there is none.     *)
Work ==
  /\ phase = "used" /\ phase' = "used"
  /\ live = {} \/ live' = {}
  /\ OneOf(live')

(* While it is released, connections are only given up.                     *)
Release ==
  /\ phase \in {"used", "released", "releasing"} /\ phase' = "releasing"
  /\ live' \in {live, {}}

(* A request that came meanwhile is still to be served.                     *)
Released ==
  /\ phase = "releasing" /\ phase' \in {"released", "used"}
  /\ live' = {}

Next == Ask \/ Work \/ Release \/ Released
Spec == Init /\ [][Next]_<<phase, live>>
=============================================================================
