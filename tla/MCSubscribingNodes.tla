------------------------- MODULE MCSubscribingNodes -------------------------
(* SubscribingNodes for TLC.                                                *)
EXTENDS SubscribingNodes, TLC

(* Bound: a node is not followed further when messages have overlapped and  *)
(* something is refused, nor an event or a browse node when messages have   *)
(* overlapped and something could not be terminated.                        *)
Followed ==
  clash => refused = NoneRefused /\ (kind = "client" \/ ~failed)

Perms == Permutations(Topics) \cup Permutations(Messages)
=============================================================================
