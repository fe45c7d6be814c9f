-------------------------- MODULE PredictionSearch --------------------------
(***************************************************************************)
(* PredictionEmulator (simulator.go:1083-1164): how many simulated nodes   *)
(* do the apps of a job need?  A binary search between minNode and maxNode *)
(* whose ends start as guesses (FminNode, FmaxNode) and are moved when the *)
(* search runs into them.  Each try replaces all nodes of the cluster by   *)
(* predictionNodeCount new ones (CreateFakeNode) and simulates the apps    *)
(* until one does not fit (CreateApps).                                    *)
(*                                                                         *)
(* The apps enter as one number: `needed`, the least number of nodes that  *)
(* takes them all.  The nodes of a try are alike, so a larger number takes *)
(* them too.  Some number of nodes suffices, and the node count of the     *)
(* request is not negative.                                                *)
(***************************************************************************)
EXTENDS Integers

CONSTANTS Requested,   \* NodeNumber values a prediction job may carry
          Needs        \* values of `needed`

ASSUME RequestedAssumption == Requested \in SUBSET Nat
ASSUME NeedsAssumption == Needs \in SUBSET Nat

VARIABLES
  needed,               \* fixed by the job's apps
  minNode, maxNode,     \* the interval being searched
  FminNode, FmaxNode,   \* its ends that are guesses, not tries
  predictionNodeCount,  \* the next node count to try
  go,                   \* PredictionGo of the last try
  nodes,                \* simulated nodes now in the cluster
  backup,               \* node count of the last try that succeeded (-1: none)
  saved,                \* predictionNode[key] and emulatorResult[key]
  pc

searchVars == <<needed, minNode, maxNode, FminNode, FmaxNode, predictionNodeCount, go,
                nodes, backup, saved, pc>>

Nothing == [min |-> 0, max |-> 0, predicted |-> 0, access |-> -1, reviews |-> -1]

(* generateMaxNode.  In floating point 1.4 * m may fall just short of an   *)
(* integer, and is truncated; there is no case for 3001..4000.             *)
GenerateMaxNode(m) ==
  CASE m <= 1                 -> {10}
    [] 1 < m /\ m <= 100      -> {2 * m}
    [] 100 < m /\ m <= 1000   -> {(12 * m) \div 10}
    [] 1000 < m /\ m <= 3000  -> {(13 * m) \div 10}
    [] 4000 < m               -> {(14 * m) \div 10, (14 * m - 1) \div 10}
    [] OTHER                  -> {0}

MutantMidpoint(lo, hi) == (lo + hi + 1) \div 2
Midpoint(lo, hi) == (lo + hi) \div 2

Init ==
  /\ needed \in Needs
  /\ minNode \in Requested
  /\ FminNode = minNode
  /\ FmaxNode \in GenerateMaxNode(minNode)
  /\ maxNode = FmaxNode
  /\ predictionNodeCount = Midpoint(minNode, FmaxNode)
  /\ go = FALSE
  /\ nodes = 0
  /\ backup = -1
  /\ saved = Nothing
  /\ pc = "try"

(* CreateFakeNode (all nodes out, the new ones in) and CreateApps.         *)
Simulate(count) == /\ nodes' = count
                   /\ go' = (count >= needed)

MutantFirstBackup == backup' = IF backup = -1 THEN predictionNodeCount ELSE backup
KeepBackup == backup' = predictionNodeCount

Try ==
  /\ pc = "try"
  /\ Simulate(predictionNodeCount)
  /\ IF go' THEN /\ maxNode' = predictionNodeCount
                 /\ KeepBackup
                 /\ UNCHANGED minNode
            ELSE /\ minNode' = predictionNodeCount
                 /\ UNCHANGED <<maxNode, backup>>
  /\ predictionNodeCount' = Midpoint(minNode', maxNode')
  /\ pc' = "decide"
  /\ UNCHANGED <<needed, FminNode, FmaxNode, saved>>

MutantAdjacent == maxNode - minNode <= 2
Adjacent == maxNode - minNode = 1

(* SavePrediction: the reviews and the access switches are those of a try  *)
(* with `run` nodes.                                                       *)
SavePrediction(min, max, predicted, run) ==
  /\ saved' = [min |-> min, max |-> max, predicted |-> predicted, access |-> run,
               reviews |-> run]
  /\ pc' = "done"

(* Both ends have been tried: the answer is maxNode.  DeleteNodes empties  *)
(* the cluster.                                                            *)
Found ==
  /\ pc = "decide"
  /\ Adjacent /\ FmaxNode # maxNode /\ FminNode # minNode
  /\ nodes' = 0
  /\ predictionNodeCount' = maxNode
  /\ SavePrediction(minNode, maxNode, maxNode, IF go THEN nodes ELSE backup)
  /\ UNCHANGED <<needed, minNode, maxNode, FminNode, FmaxNode, go, backup>>

RaiseMax ==
  /\ pc = "decide"
  /\ Adjacent /\ FmaxNode = maxNode
  /\ FmaxNode' = FmaxNode + 100
  /\ maxNode' = FmaxNode'
  /\ predictionNodeCount' = Midpoint(minNode, maxNode')
  /\ pc' = "try"
  /\ UNCHANGED <<needed, minNode, FminNode, go, nodes, backup, saved>>

MutantLowerGuess == FminNode' = FminNode - 2
LowerGuess == FminNode' = FminNode \div 2

LowerMin ==
  /\ pc = "decide"
  /\ Adjacent /\ FmaxNode # maxNode /\ FminNode = minNode
  /\ Midpoint(minNode, maxNode) # 0
  /\ LowerGuess
  /\ minNode' = FminNode'
  /\ predictionNodeCount' = Midpoint(minNode', maxNode)
  /\ pc' = "try"
  /\ UNCHANGED <<needed, maxNode, FmaxNode, go, nodes, backup, saved>>

(* One node is enough; is none?                                            *)
TryNone ==
  /\ pc = "decide"
  /\ Adjacent /\ FmaxNode # maxNode /\ FminNode = minNode
  /\ Midpoint(minNode, maxNode) = 0
  /\ Simulate(0)
  /\ IF go' THEN SavePrediction(0, 1, 0, 0)
            ELSE SavePrediction(0, 1, 1, backup)
  /\ UNCHANGED <<needed, minNode, maxNode, FminNode, FmaxNode, predictionNodeCount, backup>>

Continue ==
  /\ pc = "decide"
  /\ ~Adjacent
  /\ pc' = "try"
  /\ UNCHANGED <<needed, minNode, maxNode, FminNode, FmaxNode, predictionNodeCount, go,
                 nodes, backup, saved>>

Next == Try \/ Found \/ RaiseMax \/ LowerMin \/ TryNone \/ Continue

Spec == Init /\ [][Next]_searchVars

(* The worker goroutine is never suspended for good.                       *)
FairSpec == Spec /\ WF_searchVars(Next)

-----------------------------------------------------------------------------
TypeOK ==
  /\ needed \in Nat
  /\ minNode \in Int /\ maxNode \in Int /\ FminNode \in Nat /\ FmaxNode \in Nat
  /\ predictionNodeCount \in Int
  /\ go \in BOOLEAN
  /\ nodes \in Int
  /\ backup \in Int
  /\ saved \in [min : Int, max : Int, predicted : Int, access : Int, reviews : Int]
  /\ pc \in {"try", "decide", "done"}

(* Every end of the interval that is no longer a guess has been tried: the *)
(* apps did not fit on minNode nodes and fit on maxNode, and backup holds  *)
(* the reviews of that try.  This is why it is safe to halve FminNode and  *)
(* to raise FmaxNode in the middle of the search (1130-1141).              *)
EndsAreTried ==
  /\ minNode # FminNode => minNode < needed
  /\ maxNode # FmaxNode => needed <= maxNode /\ backup = maxNode

(* The answer is the least number of nodes that takes the apps, and the    *)
(* reviews and switches saved with it come from a try with that many nodes *)
(* (SavePrediction, 1117-1129 and 1142-1152).                              *)
PredictionIsMinimal ==
  pc = "done" => /\ saved.predicted = needed
                 /\ saved.reviews = needed
                 /\ saved.access = needed

(* No try leaves the interval, so none is repeated.                        *)
EachTryNarrows ==
  pc = "try" => minNode < predictionNodeCount /\ predictionNodeCount < maxNode

(* The job is answered.                                                    *)
PredictionEnds == <>(pc = "done")

=============================================================================
