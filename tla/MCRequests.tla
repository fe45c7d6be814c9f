----------------------------- MODULE MCRequests -----------------------------
EXTENDS Requests, TLC

CONSTANT d

DeployItem(replicas) == [kind |-> "deployment", name |-> d, replicas |-> replicas]
StatefulItem(replicas) == [kind |-> "statefulset", name |-> d, replicas |-> replicas]

Bodied(endpoint, kind, nodes, deployApps) ==
  [endpoint |-> endpoint, kind |-> kind, nodes |-> nodes, deployApps |-> deployApps,
   statefulsetApps |-> << StatefulItem(2) >>]

Node(usable, number) == [usable |-> usable, number |-> number]

(* Counts are 3 bits wide, -4..3.  Among the counts asked for are zero,    *)
(* none, and one whose difference to a real size overflows; among the      *)
(* bodies, two faulty ones: a missing count before a wrong kind, and after;*)
(* among the nodes asked for, -1 and the first number that may be fatal.   *)
MCRequest ==
  { Bodied("apps", "deployment", << >>, << DeployItem(0), DeployItem(3) >>),
    Bodied("apps", "statefulset", << >>, << DeployItem(Nil) >>),
    Bodied("apps", "deployment", << >>, << DeployItem(Nil), StatefulItem(1) >>),
    Bodied("apps", "deployment", << >>, << DeployItem(2), StatefulItem(1), DeployItem(Nil) >>),
    Bodied("horizontal", "deployment", << >>, << DeployItem(3), DeployItem(2) >>),
    Bodied("horizontal", "deployment", << >>, << DeployItem(-4) >>),
    Bodied("horizontal", "statefulset", << >>, << DeployItem(3) >>),
    Bodied("prediction", "deployment", << Node(FALSE, -2), Node(TRUE, -1) >>, << DeployItem(2) >>),
    Bodied("prediction", "deployment", << Node(TRUE, 1), Node(FALSE, 1) >>, << DeployItem(2) >>),
    Bodied("prediction", "deployment", << Node(TRUE, 1), Node(TRUE, -2) >>, << DeployItem(2) >>),
    Bodied("prediction", "other", << Node(TRUE, 1) >>, << DeployItem(2) >>) }

(* Every job one of these can become.                                      *)
MCGroup == UNION {{JobOf(r, apps) : apps \in AppsFor(r)} :
                    r \in {q \in MCRequest : Outcome(q) = "parsed"}}
=============================================================================
