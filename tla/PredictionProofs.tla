-------------------------- MODULE PredictionProofs --------------------------
(***************************************************************************)
(* The node-count search is right for every need and every request that    *)
(* generateMaxNode has a case for.  The argument: a search never tries an  *)
(* end of its interval (the interval has at least two steps when a try     *)
(* starts), so an end that differs from its guess was tried, and two tried *)
(* neighbours enclose the answer.                                          *)
(***************************************************************************)
EXTENDS PredictionSearch, TLAPS

(* Requests outside the band 3001..4000, for which FmaxNode would be 0.    *)
Covered == Requested \cap (3001..4000) = {}

(* The interval: it contains its guesses, and a try starts strictly inside.*)
Interval ==
  /\ 0 <= FminNode /\ FminNode <= minNode /\ maxNode <= FmaxNode
  /\ pc # "done" => /\ minNode < maxNode
                    /\ predictionNodeCount = Midpoint(minNode, maxNode)
  /\ pc = "try" => maxNode - minNode >= 2
  /\ pc = "decide" /\ go => nodes = maxNode

IInv == TypeOK /\ Interval /\ EndsAreTried /\ PredictionIsMinimal

-----------------------------------------------------------------------------
(* The midpoint of an interval of two steps or more is strictly inside it. *)
LEMMA MidpointInside ==
  ASSUME NEW lo \in Int, NEW hi \in Int, hi - lo >= 2
  PROVE  /\ Midpoint(lo, hi) \in Int
         /\ lo < Midpoint(lo, hi) /\ Midpoint(lo, hi) < hi
BY DEF Midpoint

(* generateMaxNode leaves at least two steps above a covered request.      *)
LEMMA GuessIsRoomy ==
  ASSUME NEW m \in Nat, m \notin 3001..4000, NEW M \in GenerateMaxNode(m)
  PROVE  M \in Nat /\ M - m >= 2
<1>1. CASE m <= 1
  BY <1>1 DEF GenerateMaxNode
<1>2. CASE 1 < m /\ m <= 100
  BY <1>2 DEF GenerateMaxNode
<1>3. CASE 100 < m /\ m <= 1000
  BY <1>3 DEF GenerateMaxNode
<1>4. CASE 1000 < m /\ m <= 3000
  BY <1>4 DEF GenerateMaxNode
<1>5. CASE 4000 < m
  BY <1>5 DEF GenerateMaxNode
<1>6. QED
  BY <1>1, <1>2, <1>3, <1>4, <1>5

(* A try succeeds exactly on a sufficient number of nodes.                 *)
LEMMA GoIsSufficient ==
  ASSUME NEW count \in Int, needed \in Nat, Simulate(count)
  PROVE  go' \in BOOLEAN /\ (go' <=> count >= needed)
<1>1. go' \in BOOLEAN
  BY DEF Simulate
<1>2. go' <=> count >= needed
  BY DEF Simulate
<1>3. QED
  BY <1>1, <1>2

(* A covered request starts with an interval to search.                    *)
LEMMA InitIInv == ASSUME Covered, Init PROVE IInv
<1>1. /\ minNode \in Nat /\ minNode \notin 3001..4000 /\ needed \in Nat
      /\ FmaxNode \in GenerateMaxNode(minNode)
  BY RequestedAssumption, NeedsAssumption DEF Covered, Init
<1>2. FmaxNode \in Nat /\ FmaxNode - minNode >= 2
  BY <1>1, GuessIsRoomy
<1>3. predictionNodeCount \in Int
  BY <1>1, <1>2, MidpointInside DEF Init
<1>4. TypeOK
  <2>1. saved \in [min : Int, max : Int, predicted : Int, access : Int, reviews : Int]
    BY DEF Init, Nothing
  <2>2. go \in BOOLEAN
    BY Zenon DEF Init
  <2>3. QED
    BY <1>1, <1>2, <1>3, <2>1, <2>2 DEF Init, TypeOK
<1>5. Interval /\ EndsAreTried /\ PredictionIsMinimal
  BY <1>1, <1>2 DEF Init, Interval, EndsAreTried, PredictionIsMinimal
<1>6. QED
  BY <1>4, <1>5 DEF IInv

(* A try is strictly inside the interval, so the end it moves to is not    *)
(* beyond any guess, and the outcome says on which side the answer lies.   *)
LEMMA TryIInv == ASSUME IInv, Try PROVE IInv'
<1> USE DEF IInv, Try
<1>1. /\ needed \in Nat /\ minNode \in Int /\ maxNode \in Int /\ FminNode \in Nat
      /\ FmaxNode \in Nat /\ predictionNodeCount \in Int /\ backup \in Int
      /\ 0 <= FminNode /\ FminNode <= minNode /\ maxNode <= FmaxNode
  BY DEF TypeOK, Interval
<1>2. minNode < predictionNodeCount /\ predictionNodeCount < maxNode
  BY <1>1, MidpointInside DEF Interval
<1>3. go' \in BOOLEAN /\ (go' <=> predictionNodeCount >= needed)
  BY <1>1, GoIsSufficient
<1>4. nodes' = predictionNodeCount /\ pc' = "decide" /\ saved' = saved
  BY DEF Simulate
<1>5. CASE go'
  <2>1. minNode' = minNode /\ maxNode' = predictionNodeCount /\ backup' = predictionNodeCount
    BY <1>5 DEF KeepBackup
  <2>2. predictionNodeCount' = Midpoint(minNode', maxNode') /\ predictionNodeCount' \in Int
    BY <1>1, <2>1 DEF Midpoint
  <2>3. TypeOK'
    BY <1>1, <1>3, <1>4, <2>1, <2>2 DEF TypeOK
  <2>4. Interval'
    BY <1>1, <1>2, <1>4, <2>1, <2>2 DEF Interval
  <2>5. EndsAreTried' /\ PredictionIsMinimal'
    BY <1>1, <1>3, <1>4, <1>5, <2>1 DEF EndsAreTried, PredictionIsMinimal
  <2>6. QED
    BY <2>3, <2>4, <2>5
<1>6. CASE ~go'
  <2>1. minNode' = predictionNodeCount /\ maxNode' = maxNode /\ backup' = backup
    BY <1>6
  <2>2. predictionNodeCount' = Midpoint(minNode', maxNode') /\ predictionNodeCount' \in Int
    BY <1>1, <2>1 DEF Midpoint
  <2>3. TypeOK'
    BY <1>1, <1>3, <1>4, <2>1, <2>2 DEF TypeOK
  <2>4. Interval'
    BY <1>1, <1>2, <1>4, <1>6, <2>1, <2>2 DEF Interval
  <2>5. EndsAreTried' /\ PredictionIsMinimal'
    BY <1>1, <1>3, <1>4, <1>6, <2>1 DEF EndsAreTried, PredictionIsMinimal
  <2>6. QED
    BY <2>3, <2>4, <2>5
<1>7. QED
  BY <1>5, <1>6

(* Neighbours are no longer neighbours once the lower one moved down.      *)
LEMMA LowerEndWidens ==
  ASSUME NEW lo \in Int, NEW hi \in Int, NEW new \in Int, hi = lo + 1, new <= lo - 1
  PROVE  hi - new >= 2 /\ new < hi
OBVIOUS

(* Halving FminNode keeps it non-negative and widens the interval.         *)
LEMMA LowerMinIInv == ASSUME IInv, LowerMin PROVE IInv'
<1> USE DEF IInv, LowerMin
<1>1. /\ minNode \in Int /\ maxNode \in Int /\ FminNode \in Nat /\ FmaxNode \in Nat
      /\ FminNode = minNode /\ maxNode = minNode + 1 /\ maxNode <= FmaxNode
  BY DEF TypeOK, Interval, Adjacent
<1>2. FminNode # 0
  BY <1>1 DEF Midpoint
<1>3. FminNode' \in Nat /\ FminNode' <= FminNode - 1 /\ minNode' = FminNode'
  BY <1>1, <1>2 DEF LowerGuess
<1>4. predictionNodeCount' = Midpoint(minNode', maxNode') /\ predictionNodeCount' \in Int
  BY <1>1, <1>3 DEF Midpoint
<1>5. TypeOK'
  BY <1>1, <1>3, <1>4 DEF TypeOK
<1>6. Interval'
  <2>1. maxNode' = maxNode /\ minNode' \in Int /\ minNode' <= minNode - 1
    BY <1>1, <1>3
  <2>2. maxNode' - minNode' >= 2 /\ minNode' < maxNode'
    BY <1>1, <2>1, LowerEndWidens
  <2>3. 0 <= FminNode' /\ FminNode' <= minNode' /\ maxNode' <= FmaxNode'
    BY <1>1, <1>3
  <2>4. QED
    BY <1>4, <2>2, <2>3 DEF Interval
<1>7. EndsAreTried' /\ PredictionIsMinimal'
  BY <1>1, <1>3 DEF EndsAreTried, PredictionIsMinimal
<1>8. QED
  BY <1>5, <1>6, <1>7

(* The interval is 0..1: the answer is 0 or 1, and one node was tried.     *)
LEMMA TryNoneIInv == ASSUME IInv, TryNone PROVE IInv'
<1> USE DEF IInv, TryNone
<1>1. /\ needed \in Nat /\ minNode \in Int /\ maxNode \in Int /\ FminNode \in Nat
      /\ FmaxNode \in Nat /\ predictionNodeCount \in Int /\ backup \in Int
      /\ 0 <= FminNode /\ FminNode = minNode /\ maxNode - minNode = 1
      /\ maxNode # FmaxNode
  BY DEF TypeOK, Interval, Adjacent
<1>2. minNode = 0 /\ maxNode = 1
  BY <1>1 DEF Midpoint
<1>3. needed <= 1 /\ backup = 1
  BY <1>1, <1>2 DEF EndsAreTried
<1>4. go' \in BOOLEAN /\ (go' <=> 0 >= needed)
  BY <1>1, GoIsSufficient
<1>5. nodes' = 0 /\ pc' = "done"
  BY DEF Simulate, SavePrediction
<1>6. /\ saved' \in [min : Int, max : Int, predicted : Int, access : Int, reviews : Int]
      /\ saved'.predicted = needed /\ saved'.access = needed /\ saved'.reviews = needed
  <2>1. CASE go'
    BY <1>1, <1>4, <2>1 DEF SavePrediction
  <2>2. CASE ~go'
    BY <1>1, <1>3, <1>4, <2>2 DEF SavePrediction
  <2>3. QED
    BY <2>1, <2>2
<1>7. TypeOK'
  BY <1>1, <1>4, <1>5, <1>6 DEF TypeOK
<1>8. Interval' /\ EndsAreTried' /\ PredictionIsMinimal'
  BY <1>5, <1>6 DEF Interval, EndsAreTried, PredictionIsMinimal
<1>9. QED
  BY <1>7, <1>8

(* The invariant survives every step.                                      *)
LEMMA StepIInv == ASSUME IInv, [Next]_searchVars PROVE IInv'
<1> USE DEF IInv, TypeOK, Interval, EndsAreTried, PredictionIsMinimal
<1>1. CASE Try
  BY <1>1, TryIInv
<1>2. CASE Found
  BY <1>2 DEF Found, SavePrediction, Adjacent
<1>3. CASE RaiseMax
  <2>1. minNode \in Int /\ maxNode' \in Int /\ maxNode' - minNode >= 2
    BY <1>3 DEF RaiseMax, Adjacent
  <2>2. predictionNodeCount' \in Int
    BY <1>3, <2>1, MidpointInside DEF RaiseMax
  <2>3. QED
    BY <1>3, <2>1, <2>2 DEF RaiseMax, Adjacent
<1>4. CASE LowerMin
  BY <1>4, LowerMinIInv
<1>5. CASE TryNone
  BY <1>5, TryNoneIInv
<1>6. CASE Continue
  <2>1. maxNode - minNode >= 2
    BY <1>6 DEF Continue, Adjacent
  <2>2. QED
    BY <1>6, <2>1 DEF Continue
<1>7. CASE UNCHANGED searchVars
  BY <1>7 DEF searchVars
<1>8. QED
  BY <1>1, <1>2, <1>3, <1>4, <1>5, <1>6, <1>7 DEF Next

(* The search interval always encloses the answer in the sense of IInv.    *)
THEOREM SearchInvariant == ASSUME Covered PROVE Spec => []IInv
<1>1. Init => IInv
  BY InitIInv
<1>2. IInv /\ [Next]_searchVars => IInv'
  BY StepIInv
<1>3. QED
  BY <1>1, <1>2, PTL DEF Spec

(* Types, with guesses that never become negative (1095-1141).             *)
THEOREM SearchTyped == ASSUME Covered PROVE Spec => []TypeOK
<1>1. IInv => TypeOK
  BY DEF IInv
<1>2. QED
  BY <1>1, SearchInvariant, PTL

(* What PredictionEmulator saves is the least sufficient node count, with  *)
(* the reviews and switches of a try on that many nodes.                   *)
THEOREM PredictionCorrect == ASSUME Covered PROVE Spec => []PredictionIsMinimal
<1>1. IInv => PredictionIsMinimal
  BY DEF IInv
<1>2. QED
  BY <1>1, SearchInvariant, PTL

(* The ends that are not guesses have been tried.                          *)
THEOREM EndsCorrect == ASSUME Covered PROVE Spec => []EndsAreTried
<1>1. IInv => EndsAreTried
  BY DEF IInv
<1>2. QED
  BY <1>1, SearchInvariant, PTL

(* No node count is tried twice: each try is inside the interval.          *)
THEOREM TriesNarrow == ASSUME Covered PROVE Spec => []EachTryNarrows
<1>1. IInv => EachTryNarrows
  <2>1. ASSUME IInv, pc = "try"
        PROVE  minNode < predictionNodeCount /\ predictionNodeCount < maxNode
    BY <2>1, MidpointInside DEF IInv, TypeOK, Interval
  <2>2. QED
    BY <2>1 DEF EachTryNarrows
<1>2. QED
  BY <1>1, SearchInvariant, PTL

=============================================================================
