------------------------ MODULE MCVerticalEmulation ------------------------
EXTENDS VerticalEmulation, TLC

CONSTANTS n1, n2, p1, p2, d1, d2

(* Two pods of size 1 on a node that holds both, to become 2 each: then it *)
(* holds one, and the second fits on the other node.                       *)
MCCapacity == n1 :> 2 @@ n2 :> 2
MCHome == [p \in OldPod |-> n1]

(* What p1 does not find free, p2 has to leave.                            *)
MCPriority == p1 :> 1 @@ p2 :> 0

(* The label of d2 selects the pod of d1 too.                              *)
MCOwns == d1 :> {p1} @@ d2 :> {p1, p2}
MCRequests == { << d1 >>, << d2 >> }
=============================================================================
