------------------------------ MODULE NodePool ------------------------------
(***************************************************************************)
(* The nodes of the simulated cluster under AddNodes and DeleteNodes       *)
(* (src/pkg/scheduler/simulator.go).  Both run without a lock on the HTTP  *)
(* goroutine that called them, and in the worker for a prediction: they    *)
(* list the nodes, decide, then create or delete one node at a time.       *)
(*                                                                         *)
(* ListNodes has its label selector commented out, so what it returns, and *)
(* what is counted and deleted, includes the nodes mirrored from the real  *)
(* cluster.  The list is sorted by name.  Names are random, so a new node  *)
(* may fall anywhere in it: names are numbers here.                        *)
(*                                                                         *)
(* The simulated pods are those an earlier job has left; no job runs.      *)
(***************************************************************************)
EXTENDS Integers, Sequences, FiniteSets

CONSTANTS Name,       \* node names
          Existing,   \* nodes in the API store at the start, mirrored or simulated
          PodName,    \* names of the simulated pods found at the start
          Caller,     \* goroutines that may call AddNodes or DeleteNodes
          Requests,   \* what they may ask for
          AccessNum,  \* nodes per access switch (accessNum, 45)
          Prd         \* addNodeStrategy = "prd"

ASSUME NameAssumption ==
  Name \subseteq Nat /\ Existing \subseteq Name /\ IsFiniteSet(Existing)
ASSUME RequestAssumption == Requests \subseteq [op : {"add", "delete"}, count : Int]
ASSUME AccessAssumption == AccessNum \in Nat \ {0}
ASSUME PodAssumption == PodName \subseteq Nat

VARIABLES
  nodes,     \* node names in the API store
  nodePods,  \* simulated pods in the API store, with their nodes
  used,      \* node names that have been given out
  req        \* per caller: its request and how far it is

vars == <<nodes, nodePods, used, req>>

States == {"idle", "list", "create", "drop", "listPods", "deletePods", "listAll",
           "deleteAll", "done", "panicked"}
NoRequest == [op |-> "add", count |-> 0, at |-> "idle", sizes |-> << >>, doomed |-> {}]

Init ==
  /\ nodes = Existing
  /\ nodePods \in [PodName -> Existing]
  /\ used = Existing
  /\ req = [c \in Caller |-> NoRequest]

Goto(c, at) == req' = [req EXCEPT ![c].at = at]
Doom(c, at, S) == req' = [req EXCEPT ![c].at = at, ![c].doomed = S]

Least(S) == CHOOSE x \in S : \A y \in S : x <= y
Rank(S, x) == Cardinality({y \in S : y < x})
MutantFirst(S, k) == {x \in S : Rank(S, x) <= k}
First(S, k) == {x \in S : Rank(S, x) < k}
Limit(x, y) == IF x < y THEN x ELSE y

-----------------------------------------------------------------------------
(* How addNodes spreads n nodes over access switches: in twos halves of at *)
(* most AccessNum, or switches of AccessNum and one for the rest.          *)
Chunks(n) ==
  [i \in 1 .. (n + AccessNum - 1) \div AccessNum |->
     Limit(AccessNum, n - (i - 1) * AccessNum)]

MutantOneSwitch(n) == <<n, 0>>
MutantHalves(n) == <<n \div 2, n \div 2>>
Halves(n) == <<n \div 2, (n \div 2) + (n % 2)>>

BuildRulesNode(n) == IF n <= 2 * AccessNum THEN Halves(n) ELSE Chunks(n)

SwitchSizes(n) == IF Prd THEN BuildRulesNode(n) ELSE Chunks(n)

(* What is left to create: a switch without nodes has no loop iteration.   *)
Ahead(sizes) ==
  LET left == {i \in DOMAIN sizes : sizes[i] > 0}
  IN  IF left = {} THEN << >> ELSE SubSeq(sizes, Least(left), Len(sizes))

-----------------------------------------------------------------------------
Call(c, r) ==
  /\ req[c].at \in {"idle", "done", "panicked"}
  /\ req' = [req EXCEPT ![c] = [NoRequest EXCEPT !.op = r.op, !.count = r.count,
                                  !.at = IF r.op = "add" THEN "list" ELSE "listPods"]]
  /\ UNCHANGED <<nodes, nodePods, used>>

(* AddNodes: list, then create what is missing, delete what is too much,   *)
(* or return.  Only the list of the iteration counts, however old.         *)
Missing(c) == req[c].count - Cardinality(nodes)

AddMissing(c) ==
  /\ req[c].at = "list"
  /\ Missing(c) > 0
  /\ LET sizes == Ahead(SwitchSizes(Missing(c)))
     IN  req' = [req EXCEPT ![c].at = IF sizes = << >> THEN "list" ELSE "create",
                            ![c].sizes = sizes]
  /\ UNCHANGED <<nodes, nodePods, used>>

(* For a negative count the end of Items[0:k] is beyond the last item: out *)
(* of range, or still within the slice's capacity; then the empty items    *)
(* that follow name no node.                                               *)
AddExcess(c) ==
  /\ req[c].at = "list"
  /\ Missing(c) < 0
  /\ \/ req[c].count < 0 /\ Goto(c, "panicked")
     \/ nodes # {} /\ Doom(c, "drop", First(nodes, -Missing(c)))
  /\ UNCHANGED <<nodes, nodePods, used>>

MutantEnough(c) == Missing(c) <= 0
IsEnough(c) == Missing(c) = 0

AddEnough(c) ==
  /\ req[c].at = "list"
  /\ IsEnough(c)
  /\ Goto(c, "done")
  /\ UNCHANGED <<nodes, nodePods, used>>

OneLess(sizes) == Ahead([sizes EXCEPT ![1] = @ - 1])

CreateNode(c, x) ==
  /\ req[c].at = "create"
  /\ x \in Name \ used
  /\ nodes' = nodes \cup {x}
  /\ used' = used \cup {x}
  /\ LET sizes == OneLess(req[c].sizes)
     IN  req' = [req EXCEPT ![c].at = IF sizes = << >> THEN "list" ELSE "create",
                            ![c].sizes = sizes]
  /\ UNCHANGED nodePods

(* Deletes go in list order.  A node that is gone is logged, no more.      *)
DropNode(c) ==
  /\ req[c].at \in {"drop", "deleteAll"}
  /\ LET x == Least(req[c].doomed)
         rest == req[c].doomed \ {x}
     IN  /\ nodes' = nodes \ {x}
         /\ Doom(c, CASE rest # {} -> req[c].at
                      [] rest = {} /\ req[c].at = "drop" -> "list"
                      [] OTHER -> "done",
                 rest)
  /\ UNCHANGED <<nodePods, used>>

-----------------------------------------------------------------------------
(* DeleteNodes: CleanPod, whose error is ignored, then every node.         *)
ListPods(c) ==
  /\ req[c].at = "listPods"
  /\ Doom(c, IF DOMAIN nodePods = {} THEN "listAll" ELSE "deletePods", DOMAIN nodePods)
  /\ UNCHANGED <<nodes, nodePods, used>>

MutantGiveUp(c, rest) == IF rest = {} THEN "listPods" ELSE "listAll"
AfterPod(c, rest) == IF rest = {} THEN "listPods" ELSE "deletePods"

DeletePod(c) ==
  /\ req[c].at = "deletePods"
  /\ LET p == Least(req[c].doomed)
         rest == req[c].doomed \ {p}
     IN  IF p \in DOMAIN nodePods
           THEN /\ nodePods' = [q \in DOMAIN nodePods \ {p} |-> nodePods[q]]
                /\ Doom(c, AfterPod(c, rest), rest)
           ELSE /\ Doom(c, "listAll", {})
                /\ UNCHANGED nodePods
  /\ UNCHANGED <<nodes, used>>

ListAll(c) ==
  /\ req[c].at = "listAll"
  /\ Doom(c, IF nodes = {} THEN "done" ELSE "deleteAll", nodes)
  /\ UNCHANGED <<nodes, nodePods, used>>

Step(c) ==
  \/ AddMissing(c)
  \/ AddExcess(c)
  \/ AddEnough(c)
  \/ \E x \in Name : CreateNode(c, x)
  \/ DropNode(c)
  \/ ListPods(c)
  \/ DeletePod(c)
  \/ ListAll(c)

Next == \E c \in Caller : Step(c) \/ \E r \in Requests : Call(c, r)

Spec == Init /\ [][Next]_vars

(* A goroutine that can go on does; nobody has to call.                    *)
FairSpec == Spec /\ \A c \in Caller : WF_vars(Step(c))

-----------------------------------------------------------------------------
(* Every variable keeps to its type; no switch is planned with more than   *)
(* AccessNum nodes.                                                        *)
TypeOK ==
  /\ nodes \subseteq used /\ used \subseteq Name
  /\ DOMAIN nodePods \subseteq PodName
  /\ \A p \in DOMAIN nodePods : nodePods[p] \in Existing
  /\ req \in [Caller -> [op : {"add", "delete"}, count : Int, at : States,
                         sizes : Seq(0..AccessNum), doomed : SUBSET Nat]]

Active(c) == req[c].at \notin {"idle", "done", "panicked"}

(* AddNodes requests in flight together never leave fewer nodes than the   *)
(* least of them asks for, although each deletes from a list that may be   *)
(* out of date (AddNodes:1491-1498): only while nodes are first being      *)
(* created are there fewer.                                                *)
NeverShort ==
  \A r \in Requests :
    (\A s \in Requests : s.op = "add" /\ s.count >= r.count)
      => nodes = used \/ Cardinality(nodes) >= r.count

(* When every AddNodes for the same number has returned, there are that    *)
(* many nodes: none is still to be created or deleted.                     *)
Settled ==
  \A r \in Requests :
    /\ \A s \in Requests : s = r /\ r.op = "add"
    /\ \A c \in Caller : ~Active(c)
    /\ \E c \in Caller : req[c].at = "done"
    => Cardinality(nodes) = r.count

(* AddNodes returns when all that run ask for the same number (the loop at *)
(* 1477-1506 ends).                                                        *)
AddsEnd == \A c \in Caller : []<>~Active(c)

(* When a DeleteNodes has gone on to the nodes and simulated pods are      *)
(* left, another one has them all on its list and will delete the next:    *)
(* CleanPod gives up only to a rival (1322-1327).                          *)
PodsInHand ==
  (\E c \in Caller : req[c].op = "delete" /\ req[c].at \in {"listAll", "deleteAll", "done"})
    => \/ DOMAIN nodePods = {}
       \/ \E d \in Caller : /\ req[d].at = "deletePods"
                            /\ DOMAIN nodePods \subseteq req[d].doomed
                            /\ Least(req[d].doomed) \in DOMAIN nodePods

(* simulator.go:1511: "check simulator pod, if exist, delete all, than     *)
(* delete node": no node is deleted while a simulated pod is on it.        *)
PodsBeforeNodes ==
  [][\A p \in DOMAIN nodePods' : nodePods[p] \in nodes => nodePods[p] \in nodes']_vars

=============================================================================
