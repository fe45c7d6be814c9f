--------------------------- MODULE NodePoolProofs ---------------------------
(***************************************************************************)
(* Proofs about NodePool, for any callers, requests and names.             *)
(***************************************************************************)
EXTENDS NodePool, FiniteSetTheorems, SequenceTheorems, WellFoundedInduction, TLAPS

(* A nonempty set of names has a first one.                                *)
LEMMA LeastIsFirst ==
  ASSUME NEW S \in SUBSET Nat, S # {}
  PROVE  Least(S) \in S /\ \A y \in S : Least(S) <= y
<1> DEFINE R == {ss \in Nat \X Nat : ss[1] < ss[2]}
<1>1. IsWellFoundedOn(R, Nat)
  BY NatLessThanWellFounded DEF OpToRel
<1> HIDE DEF R
<1>2. PICK x \in S : \A y \in S : ~(<<y, x>> \in R)
  BY <1>1, WFMin, Zenon
<1>3. ASSUME NEW y \in S PROVE x <= y
  <2>1. \A u, v \in Nat : u < v => <<u, v>> \in R
    BY SMT DEF R
  <2>2. ~(y < x)
    BY <1>2, <2>1
  <2>3. QED
    BY <2>2
<1>4. \E m \in S : \A y \in S : m <= y
  BY <1>3
<1>5. QED
  BY <1>4 DEF Least

(* The first k nodes of a list that is not empty are at least one.         *)
LEMMA FirstIsNotEmpty ==
  ASSUME NEW S \in SUBSET Nat, S # {}, NEW k \in Int, k > 0
  PROVE  First(S, k) # {}
<1>1. Least(S) \in S /\ \A y \in S : Least(S) <= y
  BY LeastIsFirst
<1>2. PICK m \in S : \A y \in S : m <= y
  BY <1>1
<1>3. {y \in S : y < m} = {}
  <2>1. \A y \in S : m \in Nat /\ y \in Nat /\ m <= y
    BY <1>2
  <2>2. \A y \in S : ~(y < m)
    BY <2>1
  <2>3. QED
    BY <2>2, Zenon
<1>4. Rank(S, m) < k
  BY <1>3, FS_EmptySet DEF Rank
<1>5. m \in First(S, k)
  BY <1>4 DEF First
<1>6. QED
  BY <1>5

(* A node among the first k of a list has at least the rest, less the k,   *)
(* behind it.                                                              *)
LEMMA FirstHasMoreBehind ==
  ASSUME NEW S \in SUBSET Nat, IsFiniteSet(S), NEW k \in Int, NEW x \in First(S, k)
  PROVE  Cardinality({y \in S : y > x}) >= Cardinality(S) - k
<1> DEFINE B == {y \in S : y < x}
           A == {y \in S : y > x}
<1>1. /\ x \in S
      /\ Cardinality(B) < k
  BY DEF First, Rank
<1>2. IsFiniteSet(B) /\ IsFiniteSet(A)
  BY FS_Subset
<1>3. /\ \A y : y \in S <=> y \in B \/ y = x \/ y \in A
      /\ \A y : ~(y \in A /\ (y \in B \/ y = x))
      /\ x \notin B
  <2>1. x \in Nat /\ x \in S
    BY <1>1
  <2>2. \A y \in S : y \in Nat
    OBVIOUS
  <2>3. \A y \in Nat : (y < x \/ y = x \/ y > x) /\ ~(y > x /\ y < x)
    BY <2>1
  <2>4. ~(x < x) /\ ~(x > x)
    BY <2>1
  <2>5. QED
    BY <2>1, <2>2, <2>3, <2>4, Zenon
<1> DEFINE L == B \cup {x}
<1> HIDE DEF A, B
<1>4. IsFiniteSet(L) /\ Cardinality(L) = Cardinality(B) + 1
  BY <1>2, <1>3, FS_AddElement
<1>5. S = L \cup A /\ L \cap A = {}
  BY <1>3
<1> HIDE DEF L
<1>6. Cardinality(S) = Cardinality(L) + Cardinality(A) - Cardinality({})
  <2>1. Cardinality(L \cup A) = Cardinality(L) + Cardinality(A) - Cardinality(L \cap A)
    BY <1>2, <1>4, FS_Union
  <2>2. QED
    BY <1>5, <2>1
<1>7. /\ Cardinality(A) \in Nat
      /\ Cardinality(B) \in Nat
      /\ Cardinality({}) = 0
  BY <1>2, FS_CardinalityType, FS_EmptySet
<1>8. Cardinality(A) >= Cardinality(S) - k
  BY <1>1, <1>4, <1>6, <1>7
<1>9. QED
  BY <1>8 DEF A

-----------------------------------------------------------------------------
Fields == {"op", "count", "at", "sizes", "doomed"}
AddStates == {"list", "create", "drop"}
DeleteStates == {"listPods", "deletePods", "listAll", "deleteAll"}
Deleting == {"drop", "deletePods", "deleteAll"}

(* The types the proofs need: a request's place fits its kind, and what is *)
(* being deleted is not empty.                                             *)
GoodRequest(r) ==
  /\ DOMAIN r = Fields
  /\ r.count \in Int
  /\ r.at \in States
  /\ r.doomed \in SUBSET Nat
  /\ r.at \in AddStates => r.op = "add"
  /\ r.at \in DeleteStates => r.op = "delete"
  /\ r.at \in Deleting => r.doomed # {}

Typed ==
  /\ nodes \subseteq used /\ used \subseteq Name /\ IsFiniteSet(used)
  /\ DOMAIN nodePods \subseteq Nat
  /\ DOMAIN req = Caller
  /\ \A c \in Caller : GoodRequest(req[c])

(* What a step does to the requests: caller c goes on to a, with S to be   *)
(* deleted; the others stay where they are.                                *)
Moves(c, a, S) ==
  /\ DOMAIN req' = Caller
  /\ \A d \in Caller \ {c} : req'[d] = req[d]
  /\ DOMAIN req'[c] = Fields
  /\ req'[c].op = req[c].op
  /\ req'[c].count = req[c].count
  /\ req'[c].at = a
  /\ req'[c].doomed = S

LEMMA GotoMoves ==
  ASSUME Typed, NEW c \in Caller, NEW a, Goto(c, a)
  PROVE  Moves(c, a, req[c].doomed)
BY DEF Typed, GoodRequest, Goto, Moves, Fields

LEMMA DoomMoves ==
  ASSUME Typed, NEW c \in Caller, NEW a, NEW S, Doom(c, a, S)
  PROVE  Moves(c, a, S)
BY DEF Typed, GoodRequest, Doom, Moves, Fields

LEMMA SizesMoves ==
  ASSUME Typed, NEW c \in Caller, NEW a, NEW z,
         req' = [req EXCEPT ![c].at = a, ![c].sizes = z]
  PROVE  Moves(c, a, req[c].doomed)
BY DEF Typed, GoodRequest, Moves, Fields

LEMMA MovesGood ==
  ASSUME Typed, NEW c \in Caller, NEW a \in States, NEW S \in SUBSET Nat, Moves(c, a, S),
         a \in AddStates => req[c].op = "add",
         a \in DeleteStates => req[c].op = "delete",
         a \in Deleting => S # {}
  PROVE  DOMAIN req' = Caller /\ \A d \in Caller : GoodRequest(req'[d])
<1>1. GoodRequest(req'[c])
  BY DEF Typed, Moves, GoodRequest
<1>2. \A d \in Caller \ {c} : GoodRequest(req'[d])
  BY DEF Typed, Moves
<1>3. QED
  BY <1>1, <1>2 DEF Moves

LEMMA DoneIsGood ==
  ASSUME Typed, NEW c \in Caller, NEW a \in {"listPods", "listAll", "done"},
         req[c].op = "delete", Moves(c, a, {})
  PROVE  DOMAIN req' = Caller /\ \A d \in Caller : GoodRequest(req'[d])
<1>1. a \in States /\ a \notin AddStates /\ a \notin Deleting
  BY DEF States, AddStates, Deleting
<1>2. QED
  BY <1>1, MovesGood

(* Nodes may be created, none is deleted.                                  *)
Grows ==
  /\ nodes \subseteq nodes' /\ nodes' \subseteq used' /\ used' \subseteq Name
  /\ IsFiniteSet(used')
  /\ used' \ nodes' \subseteq used \ nodes
  /\ nodePods' = nodePods

LEMMA SameGrows == ASSUME Typed, UNCHANGED <<nodes, nodePods, used>> PROVE Grows
BY DEF Typed, Grows

(* The caller's next place, as Moves, for each of its steps.               *)
LEMMA StepMoves ==
  ASSUME Typed, NEW c \in Caller, Step(c)
  PROVE  \/ /\ req[c].at \in {"list", "create"}
            /\ \E a \in {"list", "create", "done", "panicked"} :
                 Moves(c, a, req[c].doomed)
            /\ Grows
         \/ /\ req[c].at = "list"
            /\ Missing(c) < 0 /\ nodes # {}
            /\ Moves(c, "drop", First(nodes, -Missing(c)))
            /\ UNCHANGED <<nodes, nodePods, used>>
         \/ DropNode(c)
         \/ ListPods(c)
         \/ DeletePod(c)
         \/ ListAll(c)
<1>1. CASE AddMissing(c)
  <2> DEFINE z == Ahead(SwitchSizes(Missing(c)))
  <2>1. \E a \in {"list", "create"} : req' = [req EXCEPT ![c].at = a, ![c].sizes = z]
    BY <1>1 DEF AddMissing
  <2>2. PICK a \in {"list", "create"} : req' = [req EXCEPT ![c].at = a, ![c].sizes = z]
    BY <2>1
  <2> HIDE DEF z
  <2>3. Moves(c, a, req[c].doomed)
    BY <2>2, SizesMoves
  <2>4. QED
    BY <1>1, <2>3, SameGrows DEF AddMissing
<1>2. CASE AddExcess(c)
  <2>1. CASE req[c].count < 0 /\ Goto(c, "panicked")
    BY <1>2, <2>1, GotoMoves, SameGrows DEF AddExcess
  <2>2. CASE nodes # {} /\ Doom(c, "drop", First(nodes, -Missing(c)))
    BY <1>2, <2>2, DoomMoves DEF AddExcess
  <2>3. QED
    BY <1>2, <2>1, <2>2 DEF AddExcess
<1>3. CASE AddEnough(c)
  BY <1>3, GotoMoves, SameGrows DEF AddEnough
<1>4. ASSUME NEW x \in Name, CreateNode(c, x)
      PROVE  /\ req[c].at = "create"
             /\ \E a \in {"list", "create"} : Moves(c, a, req[c].doomed)
             /\ Grows
  <2> DEFINE z == OneLess(req[c].sizes)
  <2>1. \E a \in {"list", "create"} : req' = [req EXCEPT ![c].at = a, ![c].sizes = z]
    BY <1>4 DEF CreateNode
  <2>2. PICK a \in {"list", "create"} : req' = [req EXCEPT ![c].at = a, ![c].sizes = z]
    BY <2>1
  <2> HIDE DEF z
  <2>3. Moves(c, a, req[c].doomed)
    BY <2>2, SizesMoves
  <2>4. IsFiniteSet(used')
    BY <1>4, FS_AddElement DEF CreateNode, Typed
  <2>5. Grows
    BY <1>4, <2>4 DEF CreateNode, Grows, Typed
  <2>6. QED
    BY <1>4, <2>3, <2>5 DEF CreateNode
<1>5. QED
  BY <1>1, <1>2, <1>3, <1>4 DEF Step

(* Deleting the next node of the caller's list.                            *)
LEMMA DropMoves ==
  ASSUME Typed, NEW c \in Caller, DropNode(c)
  PROVE  \E x \in req[c].doomed :
           /\ nodes' = nodes \ {x}
           /\ UNCHANGED <<nodePods, used>>
           /\ \E a \in States :
                /\ Moves(c, a, req[c].doomed \ {x})
                /\ \/ a = req[c].at /\ req[c].doomed \ {x} # {}
                   \/ a = "list" /\ req[c].at = "drop"
                   \/ a = "done" /\ req[c].at = "deleteAll"
<1> DEFINE x == Least(req[c].doomed)
           rest == req[c].doomed \ {x}
           a == CASE rest # {} -> req[c].at
                  [] rest = {} /\ req[c].at = "drop" -> "list"
                  [] OTHER -> "done"
<1>1. req[c].at \in {"drop", "deleteAll"} /\ req[c].doomed # {} /\ req[c].doomed \in SUBSET Nat
  BY DEF DropNode, Typed, GoodRequest, Deleting
<1>2. x \in req[c].doomed
  BY <1>1, LeastIsFirst
<1>3. nodes' = nodes \ {x} /\ Doom(c, a, rest) /\ UNCHANGED <<nodePods, used>>
  BY DEF DropNode
<1> HIDE DEF x
<1>4. a \in States
  BY <1>1 DEF States
<1>5. \/ a = req[c].at /\ rest # {}
      \/ a = "list" /\ req[c].at = "drop"
      \/ a = "done" /\ req[c].at = "deleteAll"
  BY <1>1
<1> HIDE DEF a, rest
<1>6. Moves(c, a, rest)
  BY <1>3, DoomMoves
<1>7. QED
  BY <1>2, <1>3, <1>4, <1>5, <1>6 DEF rest

(* Deleting the next pod of the caller's list, or finding it gone.         *)
LEMMA PodMoves ==
  ASSUME Typed, NEW c \in Caller, DeletePod(c)
  PROVE  /\ req[c].at = "deletePods"
         /\ UNCHANGED <<nodes, used>>
         /\ \E p \in req[c].doomed :
              /\ \A y \in req[c].doomed : p <= y
              /\ \/ /\ p \in DOMAIN nodePods
                    /\ DOMAIN nodePods' = DOMAIN nodePods \ {p}
                    /\ \/ /\ req[c].doomed \ {p} = {}
                          /\ Moves(c, "listPods", {})
                       \/ /\ req[c].doomed \ {p} # {}
                          /\ Moves(c, "deletePods", req[c].doomed \ {p})
                 \/ /\ p \notin DOMAIN nodePods
                    /\ nodePods' = nodePods
                    /\ Moves(c, "listAll", {})
<1> DEFINE p == Least(req[c].doomed)
           rest == req[c].doomed \ {p}
<1>1. req[c].at = "deletePods" /\ req[c].doomed # {} /\ req[c].doomed \in SUBSET Nat
  BY DEF DeletePod, Typed, GoodRequest, Deleting
<1>2. p \in req[c].doomed /\ \A y \in req[c].doomed : p <= y
  BY <1>1, LeastIsFirst
<1>3. IF p \in DOMAIN nodePods
        THEN /\ nodePods' = [q \in DOMAIN nodePods \ {p} |-> nodePods[q]]
             /\ Doom(c, AfterPod(c, rest), rest)
        ELSE /\ Doom(c, "listAll", {})
             /\ UNCHANGED nodePods
  BY DEF DeletePod
<1>4. UNCHANGED <<nodes, used>>
  BY DEF DeletePod
<1> HIDE DEF p
<1>5. CASE p \in DOMAIN nodePods
  <2>1. DOMAIN nodePods' = DOMAIN nodePods \ {p} /\ Doom(c, AfterPod(c, rest), rest)
    BY <1>3, <1>5
  <2>2. CASE rest = {}
    BY <1>1, <1>2, <1>4, <1>5, <2>1, <2>2, DoomMoves DEF AfterPod
  <2>3. CASE rest # {}
    BY <1>1, <1>2, <1>4, <1>5, <2>1, <2>3, DoomMoves DEF AfterPod
  <2>4. QED
    BY <2>2, <2>3
<1>6. CASE p \notin DOMAIN nodePods
  BY <1>1, <1>2, <1>3, <1>4, <1>6, DoomMoves
<1>7. QED
  BY <1>5, <1>6

LEMMA ListPodsMoves ==
  ASSUME Typed, NEW c \in Caller, ListPods(c)
  PROVE  /\ req[c].at = "listPods"
         /\ UNCHANGED <<nodes, nodePods, used>>
         /\ \/ DOMAIN nodePods = {} /\ Moves(c, "listAll", {})
            \/ DOMAIN nodePods # {} /\ Moves(c, "deletePods", DOMAIN nodePods)
<1>1. CASE DOMAIN nodePods = {}
  BY <1>1, DoomMoves DEF ListPods
<1>2. CASE DOMAIN nodePods # {}
  BY <1>2, DoomMoves DEF ListPods
<1>3. QED
  BY <1>1, <1>2

LEMMA ListAllMoves ==
  ASSUME Typed, NEW c \in Caller, ListAll(c)
  PROVE  /\ req[c].at = "listAll"
         /\ UNCHANGED <<nodes, nodePods, used>>
         /\ \/ nodes = {} /\ Moves(c, "done", nodes)
            \/ nodes # {} /\ Moves(c, "deleteAll", nodes)
<1>1. CASE nodes = {}
  BY <1>1, DoomMoves DEF ListAll
<1>2. CASE nodes # {}
  BY <1>2, DoomMoves DEF ListAll
<1>3. QED
  BY <1>1, <1>2

(* A call replaces the caller's request.                                   *)
LEMMA CallReplaces ==
  ASSUME Typed, NEW c \in Caller, NEW r \in Requests, Call(c, r)
  PROVE  /\ UNCHANGED <<nodes, nodePods, used>>
         /\ req[c].at \in {"idle", "done", "panicked"}
         /\ DOMAIN req' = Caller
         /\ \A d \in Caller \ {c} : req'[d] = req[d]
         /\ GoodRequest(req'[c])
         /\ req'[c].op = r.op /\ req'[c].count = r.count
         /\ \/ r.op = "add" /\ req'[c].at = "list"
            \/ r.op = "delete" /\ req'[c].at = "listPods"
<1> DEFINE n == [NoRequest EXCEPT !.op = r.op, !.count = r.count,
                                  !.at = IF r.op = "add" THEN "list" ELSE "listPods"]
<1>1. r.op \in {"add", "delete"} /\ r.count \in Int
  BY RequestAssumption
<1>2. /\ DOMAIN n = Fields /\ n.op = r.op /\ n.count = r.count /\ n.doomed = {}
      /\ n.at = IF r.op = "add" THEN "list" ELSE "listPods"
  BY DEF NoRequest, Fields
<1>3. /\ req[c].at \in {"idle", "done", "panicked"}
      /\ req' = [req EXCEPT ![c] = n]
      /\ UNCHANGED <<nodes, nodePods, used>>
  BY DEF Call
<1> HIDE DEF n
<1>4. req'[c] = n /\ DOMAIN req' = Caller /\ \A d \in Caller \ {c} : req'[d] = req[d]
  BY <1>3 DEF Typed
<1>5. GoodRequest(n)
  BY <1>1, <1>2 DEF GoodRequest, States, AddStates, DeleteStates, Deleting
<1>6. QED
  BY <1>1, <1>2, <1>3, <1>4, <1>5

-----------------------------------------------------------------------------
LEMMA TypedInit == Init => Typed
<1> SUFFICES ASSUME Init PROVE Typed
  OBVIOUS
<1>1. \A c \in Caller : req[c] = NoRequest
  BY DEF Init
<1>2. GoodRequest(NoRequest)
  BY DEF GoodRequest, NoRequest, Fields, States, AddStates, DeleteStates, Deleting
<1>3. QED
  BY <1>1, <1>2, NameAssumption, PodAssumption DEF Init, Typed

LEMMA TypedStep == Typed /\ [Next]_vars => Typed'
<1> SUFFICES ASSUME Typed, [Next]_vars PROVE Typed'
  OBVIOUS
<1> DEFINE Pool == nodes' \subseteq used' /\ used' \subseteq Name /\ IsFiniteSet(used')
           Pods == DOMAIN nodePods' \subseteq Nat
           Asks == DOMAIN req' = Caller /\ \A d \in Caller : GoodRequest(req'[d])
<1> SUFFICES Pool /\ Pods /\ Asks
  BY DEF Typed
<1>1. ASSUME UNCHANGED <<nodes, nodePods, used>> PROVE Pool /\ Pods
  BY <1>1 DEF Typed
<1>2. CASE UNCHANGED vars
  BY <1>1, <1>2 DEF vars, Typed
<1>3. ASSUME NEW c \in Caller, NEW r \in Requests, Call(c, r) PROVE Pool /\ Pods /\ Asks
  <2>1. Asks
    BY <1>3, CallReplaces DEF Typed
  <2>2. UNCHANGED <<nodes, nodePods, used>>
    BY <1>3, CallReplaces
  <2>3. QED
    BY <1>1, <2>1, <2>2
<1>4. ASSUME NEW c \in Caller, Step(c) PROVE Pool /\ Pods /\ Asks
  <2> HIDE DEF Pool, Pods, Asks
  <2>0. GoodRequest(req[c]) /\ nodes \in SUBSET Nat /\ DOMAIN nodePods \in SUBSET Nat
    BY NameAssumption DEF Typed
  <2>1. CASE /\ req[c].at \in {"list", "create"}
             /\ \E a \in {"list", "create", "done", "panicked"} :
                  Moves(c, a, req[c].doomed)
             /\ Grows
    <3>1. PICK a \in {"list", "create", "done", "panicked"} : Moves(c, a, req[c].doomed)
      BY <2>1
    <3>2. /\ a \in States /\ req[c].doomed \in SUBSET Nat
          /\ a \in AddStates => req[c].op = "add"
          /\ a \notin DeleteStates /\ a \notin Deleting
      BY <2>0, <2>1 DEF GoodRequest, States, AddStates, DeleteStates, Deleting
    <3>3. Asks
      BY <3>1, <3>2, MovesGood DEF Asks
    <3>4. QED
      BY <2>1, <3>3 DEF Pool, Pods, Grows, Typed
  <2>2. CASE /\ req[c].at = "list"
             /\ Missing(c) < 0 /\ nodes # {}
             /\ Moves(c, "drop", First(nodes, -Missing(c)))
             /\ UNCHANGED <<nodes, nodePods, used>>
    <3> DEFINE S == First(nodes, -Missing(c))
    <3>1. IsFiniteSet(nodes) /\ Cardinality(nodes) \in Nat
      BY FS_Subset, FS_CardinalityType DEF Typed
    <3>2. -Missing(c) \in Int /\ -Missing(c) > 0
      BY <2>0, <2>2, <3>1 DEF Missing, GoodRequest
    <3>3. nodes # {}
      BY <2>2
    <3>4. S # {}
      BY <2>0, <3>1, <3>2, <3>3, FirstIsNotEmpty
    <3>5. S \in SUBSET Nat
      BY <2>0 DEF First
    <3>6. /\ "drop" \in States /\ "drop" \notin DeleteStates /\ req[c].op = "add"
      BY <2>0, <2>2 DEF GoodRequest, States, AddStates, DeleteStates
    <3> HIDE DEF S
    <3>7. Moves(c, "drop", S)
      BY <2>2 DEF S
    <3>8. Asks
      BY <3>4, <3>5, <3>6, <3>7, MovesGood DEF Asks
    <3>9. QED
      BY <1>1, <2>2, <3>8 DEF Pool, Pods
  <2>3. CASE DropNode(c)
    <3>1. PICK x \in req[c].doomed :
           /\ nodes' = nodes \ {x}
           /\ UNCHANGED <<nodePods, used>>
           /\ \E a \in States :
                /\ Moves(c, a, req[c].doomed \ {x})
                /\ \/ a = req[c].at /\ req[c].doomed \ {x} # {}
                   \/ a = "list" /\ req[c].at = "drop"
                   \/ a = "done" /\ req[c].at = "deleteAll"
      BY <2>3, DropMoves
    <3>2. PICK a \in States :
            /\ Moves(c, a, req[c].doomed \ {x})
            /\ \/ a = req[c].at /\ req[c].doomed \ {x} # {}
               \/ a = "list" /\ req[c].at = "drop"
               \/ a = "done" /\ req[c].at = "deleteAll"
      BY <3>1
    <3>3. /\ req[c].doomed \ {x} \in SUBSET Nat
          /\ a \in AddStates => req[c].op = "add"
          /\ a \in DeleteStates => req[c].op = "delete"
          /\ a \in Deleting => req[c].doomed \ {x} # {}
      BY <2>0, <3>2 DEF GoodRequest, AddStates, DeleteStates, Deleting
    <3>4. Asks
      BY <3>2, <3>3, MovesGood DEF Asks
    <3>5. QED
      BY <3>1, <3>4 DEF Pool, Pods, Typed
  <2>4. CASE ListPods(c)
    <3>1. req[c].at = "listPods" /\ UNCHANGED <<nodes, nodePods, used>>
      BY <2>4, ListPodsMoves
    <3>2. req[c].op = "delete"
      BY <2>0, <3>1 DEF GoodRequest, DeleteStates
    <3>3. Asks
      <4>1. "listAll" \in States /\ "deletePods" \in States /\ {} \in SUBSET Nat
            /\ "listAll" \notin AddStates /\ "deletePods" \notin AddStates
            /\ "listAll" \notin Deleting
        BY DEF States, AddStates, Deleting
      <4>2. CASE DOMAIN nodePods = {} /\ Moves(c, "listAll", {})
        BY <3>2, <4>1, <4>2, MovesGood DEF Asks
      <4>3. CASE DOMAIN nodePods # {} /\ Moves(c, "deletePods", DOMAIN nodePods)
        BY <2>0, <3>2, <4>1, <4>3, MovesGood DEF Asks
      <4>4. QED
        BY <2>4, <4>2, <4>3, ListPodsMoves
    <3>4. QED
      BY <1>1, <3>1, <3>3 DEF Pool, Pods
  <2>5. CASE DeletePod(c)
    <3>1. req[c].at = "deletePods" /\ UNCHANGED <<nodes, used>>
      BY <2>5, PodMoves
    <3>2. req[c].op = "delete"
      BY <2>0, <3>1 DEF GoodRequest, DeleteStates
    <3>3. /\ DOMAIN nodePods' \subseteq DOMAIN nodePods
          /\ \/ Moves(c, "listPods", {})
             \/ \E p : req[c].doomed \ {p} # {} /\ Moves(c, "deletePods", req[c].doomed \ {p})
             \/ Moves(c, "listAll", {})
      BY <2>5, PodMoves
    <3>4. /\ "listAll" \in States /\ "deletePods" \in States /\ "listPods" \in States
          /\ {} \in SUBSET Nat
          /\ "listAll" \notin AddStates /\ "deletePods" \notin AddStates
          /\ "listPods" \notin AddStates /\ "listPods" \notin Deleting
          /\ "listAll" \notin Deleting
      BY DEF States, AddStates, Deleting
    <3>5. ASSUME Moves(c, "listPods", {}) PROVE Asks
      BY <3>2, <3>5, DoneIsGood DEF Asks
    <3>6. ASSUME NEW p, req[c].doomed \ {p} # {}, Moves(c, "deletePods", req[c].doomed \ {p})
          PROVE  Asks
      <4>1. req[c].doomed \ {p} \in SUBSET Nat
        BY <2>0 DEF GoodRequest
      <4>2. QED
        BY <3>2, <3>4, <3>6, <4>1, MovesGood DEF Asks
    <3>7. ASSUME Moves(c, "listAll", {}) PROVE Asks
      BY <3>2, <3>7, DoneIsGood DEF Asks
    <3>8. QED
      BY <3>1, <3>3, <3>5, <3>6, <3>7 DEF Pool, Pods, Typed
  <2>6. CASE ListAll(c)
    <3>1. req[c].at = "listAll" /\ UNCHANGED <<nodes, nodePods, used>>
      BY <2>6, ListAllMoves
    <3>2. req[c].op = "delete"
      BY <2>0, <3>1 DEF GoodRequest, DeleteStates
    <3>3. /\ "done" \in States /\ "deleteAll" \in States
          /\ "done" \notin AddStates /\ "deleteAll" \notin AddStates
          /\ "done" \notin DeleteStates /\ "done" \notin Deleting
      BY DEF States, AddStates, DeleteStates, Deleting
    <3>4. Asks
      <4>1. CASE nodes = {} /\ Moves(c, "done", nodes)
        BY <2>0, <3>3, <4>1, MovesGood DEF Asks
      <4>2. CASE nodes # {} /\ Moves(c, "deleteAll", nodes)
        BY <2>0, <3>2, <3>3, <4>2, MovesGood DEF Asks
      <4>3. QED
        BY <2>6, <4>1, <4>2, ListAllMoves
    <3>5. QED
      BY <1>1, <3>1, <3>4 DEF Pool, Pods
  <2>7. QED
    BY <1>4, <2>1, <2>2, <2>3, <2>4, <2>5, <2>6, StepMoves
<1>5. QED
  BY <1>2, <1>3, <1>4 DEF Next

(* The proof invariant and the type invariant of every behaviour.          *)
THEOREM PoolIsTyped == Spec => []Typed
<1>1. QED
  BY TypedInit, TypedStep, PTL DEF Spec

-----------------------------------------------------------------------------
(* NeverShort.  A list may be old, and rivals may have deleted the nodes   *)
(* it starts with; but whoever deletes node x saw at least k nodes behind  *)
(* it, and to delete one of those somebody must have seen k behind that.   *)
Behind(k, x, S) == Cardinality({y \in S : y > x}) >= k

LEMMA BehindMore ==
  ASSUME NEW S, NEW T, IsFiniteSet(T), S \subseteq T, NEW k \in Int, NEW x, Behind(k, x, S)
  PROVE  Behind(k, x, T)
<1> DEFINE A == {y \in S : y > x}
           B == {y \in T : y > x}
<1>1. IsFiniteSet(B) /\ A \subseteq B
  BY FS_Subset
<1> HIDE DEF A, B
<1>2. Cardinality(A) <= Cardinality(B) /\ Cardinality(A) \in Nat /\ Cardinality(B) \in Nat
  BY <1>1, FS_Subset, FS_CardinalityType
<1>3. Cardinality(A) >= k
  BY DEF Behind, A
<1>4. Cardinality(B) >= k
  BY <1>2, <1>3
<1>5. QED
  BY <1>4 DEF Behind, B

LEMMA BehindLess ==
  ASSUME NEW S \in SUBSET Nat, IsFiniteSet(S), NEW k \in Int, NEW x \in Nat, NEW z \in Nat,
         Behind(k, x, S), Behind(k, z, S)
  PROVE  Behind(k, x, S \ {z})
<1> DEFINE A == {y \in S : y > z}
           B == {y \in S \ {z} : y > x}
           C == {y \in S : y > x}
<1>1. \A y \in S : y \in Nat
  OBVIOUS
<1>2. IsFiniteSet(A) /\ IsFiniteSet(B)
  BY FS_Subset
<1>3. Cardinality(A) >= k /\ Cardinality(C) >= k
  BY DEF Behind
<1>4. CASE z > x
  <2>1. \A y \in Nat : y > z => y > x /\ y # z
    BY <1>4
  <2>2. A \subseteq B
    BY <1>1, <2>1
  <2> HIDE DEF A, B
  <2>3. Cardinality(A) <= Cardinality(B) /\ Cardinality(A) \in Nat /\ Cardinality(B) \in Nat
    BY <1>2, <2>2, FS_Subset, FS_CardinalityType
  <2>4. Cardinality(B) >= k
    BY <1>3, <2>3
  <2>5. QED
    BY <2>4 DEF Behind, B
<1>5. CASE ~(z > x)
  <2>1. \A y \in S : y > x => y # z
    BY <1>5
  <2>2. B = C
    BY <2>1, Zenon
  <2>3. QED
    BY <1>3, <2>2 DEF Behind
<1>6. QED
  BY <1>4, <1>5

OnlyAdds(k) == \A s \in Requests : s.op = "add" /\ s.count >= k

Kept(k) ==
  /\ \A c \in Caller : req[c].at \notin DeleteStates
  /\ \A c \in Caller : req[c].at \in AddStates => req[c].count >= k
  /\ \A x \in used \ nodes : Behind(k, x, nodes)
  /\ \A c \in Caller : req[c].at = "drop" =>
       \A x \in req[c].doomed : Behind(k, x, nodes)

LEMMA KeptInit == ASSUME NEW k, Init PROVE Kept(k)
BY DEF Init, Kept, NoRequest, DeleteStates, AddStates

(* When nodes are only added, the nodes gone and those still to be deleted *)
(* keep their k behind them.                                               *)
LEMMA KeptGrows ==
  ASSUME Typed, NEW k \in Int, Kept(k), Grows, NEW c \in Caller,
         NEW a \in {"list", "create", "done", "panicked"},
         req[c].at \in AddStates, Moves(c, a, req[c].doomed)
  PROVE  Kept(k)'
<1>1. \A x : Behind(k, x, nodes) => Behind(k, x, nodes')
  <2>1. IsFiniteSet(nodes') /\ nodes \subseteq nodes'
    BY FS_Subset DEF Grows
  <2>2. QED
    BY <2>1, BehindMore
<1>2. \A d \in Caller : req'[d].at \notin DeleteStates
  BY DEF Kept, Moves, DeleteStates
<1>3. \A d \in Caller : req'[d].at \in AddStates => req'[d].count >= k
  BY DEF Kept, Moves
<1>4. \A x \in used' \ nodes' : Behind(k, x, nodes')
  BY <1>1 DEF Kept, Grows
<1>5. \A d \in Caller : req'[d].at = "drop" =>
        \A x \in req'[d].doomed : Behind(k, x, nodes')
  <2>1. \A d \in Caller \ {c} : req'[d] = req[d]
    BY DEF Moves
  <2>2. req'[c].at # "drop"
    BY DEF Moves
  <2>3. QED
    BY <1>1, <2>1, <2>2 DEF Kept
<1>6. QED
  BY <1>2, <1>3, <1>4, <1>5 DEF Kept

(* The excess an AddNodes finds leaves at least its count behind each.     *)
LEMMA KeptExcess ==
  ASSUME Typed, NEW k \in Int, Kept(k), NEW c \in Caller,
         req[c].at = "list", Moves(c, "drop", First(nodes, -Missing(c))),
         UNCHANGED <<nodes, nodePods, used>>
  PROVE  Kept(k)'
<1> DEFINE S == First(nodes, -Missing(c))
<1>1. /\ nodes \in SUBSET Nat /\ IsFiniteSet(nodes) /\ Cardinality(nodes) \in Nat
      /\ req[c].count \in Int
  BY NameAssumption, FS_Subset, FS_CardinalityType DEF Typed, GoodRequest
<1>2. req[c].count >= k
  BY DEF Kept, AddStates
<1>3. /\ -Missing(c) \in Int
      /\ Cardinality(nodes) - (-Missing(c)) = req[c].count
  BY <1>1 DEF Missing
<1>4. ASSUME NEW x \in S PROVE Behind(k, x, nodes)
  <2>1. Cardinality({y \in nodes : y > x}) >= Cardinality(nodes) - (-Missing(c))
    BY <1>1, <1>3, FirstHasMoreBehind
  <2> DEFINE A == {y \in nodes : y > x}
  <2>2. Cardinality(A) \in Nat
    BY <1>1, FS_Subset, FS_CardinalityType
  <2> HIDE DEF A
  <2>3. Cardinality(A) >= req[c].count
    BY <1>3, <2>1 DEF A
  <2>4. Cardinality(A) >= k
    BY <1>1, <1>2, <2>2, <2>3
  <2>5. QED
    BY <2>4 DEF Behind, A
<1> HIDE DEF S
<1>5. req'[c].at = "drop" /\ req'[c].doomed = S /\ req'[c].count = req[c].count
  BY DEF Moves, S
<1>6. \A d \in Caller \ {c} : req'[d] = req[d]
  BY DEF Moves
<1>7. \A d \in Caller : req'[d].at \notin DeleteStates
  BY <1>5, <1>6 DEF Kept, DeleteStates
<1>8. \A d \in Caller : req'[d].at \in AddStates => req'[d].count >= k
  BY <1>2, <1>5, <1>6 DEF Kept
<1>9. \A x \in used' \ nodes' : Behind(k, x, nodes')
  BY DEF Kept
<1>10. \A d \in Caller : req'[d].at = "drop" =>
         \A x \in req'[d].doomed : Behind(k, x, nodes')
  BY <1>4, <1>5, <1>6 DEF Kept
<1>11. QED
  BY <1>7, <1>8, <1>9, <1>10 DEF Kept

LEMMA KeptDrop ==
  ASSUME Typed, NEW k \in Int, Kept(k), NEW c \in Caller, DropNode(c)
  PROVE  Kept(k)'
<1>1. PICK x \in req[c].doomed :
        /\ nodes' = nodes \ {x}
        /\ UNCHANGED <<nodePods, used>>
        /\ \E a \in States :
             /\ Moves(c, a, req[c].doomed \ {x})
             /\ \/ a = req[c].at /\ req[c].doomed \ {x} # {}
                \/ a = "list" /\ req[c].at = "drop"
                \/ a = "done" /\ req[c].at = "deleteAll"
  BY DropMoves
<1>2. req[c].at = "drop"
  BY DEF DropNode, Kept, DeleteStates
<1>3. /\ nodes \in SUBSET Nat /\ IsFiniteSet(nodes) /\ used \in SUBSET Nat
      /\ \A d \in Caller : req[d].doomed \in SUBSET Nat
  BY NameAssumption, FS_Subset DEF Typed, GoodRequest
<1>4. x \in Nat /\ Behind(k, x, nodes)
  BY <1>2, <1>3 DEF Kept
<1>5. \A y \in Nat : Behind(k, y, nodes) => Behind(k, y, nodes')
  BY <1>1, <1>3, <1>4, BehindLess
<1>6. PICK a \in {"drop", "list"} : Moves(c, a, req[c].doomed \ {x})
  BY <1>1, <1>2
<1>7. /\ req'[c].at = a /\ req'[c].doomed \subseteq req[c].doomed
      /\ req'[c].count = req[c].count
      /\ \A d \in Caller \ {c} : req'[d] = req[d]
  BY <1>6 DEF Moves
<1>8. \A d \in Caller : req'[d].at \notin DeleteStates
  BY <1>7 DEF Kept, DeleteStates
<1>9. \A d \in Caller : req'[d].at \in AddStates => req'[d].count >= k
  BY <1>2, <1>7 DEF Kept, AddStates
<1>10. \A y \in used' \ nodes' : Behind(k, y, nodes')
  <2>1. \A y \in used' \ nodes' : y \in used \ nodes \/ y = x
    BY <1>1
  <2>2. \A y \in used' \ nodes' : y \in Nat /\ Behind(k, y, nodes)
    BY <1>3, <1>4, <2>1 DEF Kept
  <2>3. QED
    BY <1>5, <2>2
<1>11. \A d \in Caller : req'[d].at = "drop" =>
         \A y \in req'[d].doomed : Behind(k, y, nodes')
  <2>1. \A y \in req'[c].doomed : Behind(k, y, nodes')
    BY <1>2, <1>3, <1>5, <1>7 DEF Kept
  <2>2. \A d \in Caller \ {c} : req'[d].at = "drop" =>
         \A y \in req'[d].doomed : Behind(k, y, nodes')
    BY <1>3, <1>5, <1>7 DEF Kept
  <2>3. QED
    BY <2>1, <2>2
<1>12. QED
  BY <1>8, <1>9, <1>10, <1>11 DEF Kept

LEMMA KeptStep ==
  ASSUME Typed, NEW k \in Int, OnlyAdds(k), Kept(k), [Next]_vars
  PROVE  Kept(k)'
<1>1. CASE UNCHANGED vars
  BY <1>1 DEF vars, Kept
<1>2. ASSUME NEW c \in Caller, NEW r \in Requests, Call(c, r) PROVE Kept(k)'
  <2>1. r.op = "add" /\ r.count >= k /\ r.count \in Int
    BY RequestAssumption DEF OnlyAdds
  <2>2. /\ UNCHANGED <<nodes, used>>
        /\ \A d \in Caller \ {c} : req'[d] = req[d]
        /\ req'[c].count = r.count
        /\ req'[c].at = "list"
    BY <1>2, <2>1, CallReplaces
  <2>3. QED
    BY <2>1, <2>2 DEF Kept, DeleteStates
<1>3. ASSUME NEW c \in Caller, Step(c) PROVE Kept(k)'
  <2>1. req[c].at \notin DeleteStates
    BY DEF Kept
  <2>2. /\ ~ListPods(c) /\ ~DeletePod(c) /\ ~ListAll(c)
    BY <2>1 DEF ListPods, DeletePod, ListAll, DeleteStates
  <2>3. CASE /\ req[c].at \in {"list", "create"}
             /\ \E a \in {"list", "create", "done", "panicked"} :
                  Moves(c, a, req[c].doomed)
             /\ Grows
    <3>1. req[c].at \in AddStates
      BY <2>3 DEF AddStates
    <3>2. QED
      BY <2>3, <3>1, KeptGrows
  <2>4. QED
    BY <1>3, <2>2, <2>3, StepMoves, KeptExcess, KeptDrop
<1>4. QED
  BY <1>1, <1>2, <1>3 DEF Next

KeptAll == Typed /\ \A k \in Int : OnlyAdds(k) => Kept(k)

(* However many AddNodes run together on lists that are out of date, they  *)
(* never leave fewer nodes than the least of them asks for.                *)
THEOREM PoolIsNeverShort == Spec => []NeverShort
<1>1. Init => KeptAll
  BY TypedInit, KeptInit DEF KeptAll
<1>2. KeptAll /\ [Next]_vars => KeptAll'
  <2> SUFFICES ASSUME KeptAll, [Next]_vars PROVE KeptAll'
    OBVIOUS
  <2>1. Typed'
    BY TypedStep DEF KeptAll
  <2>2. ASSUME NEW k \in Int, OnlyAdds(k) PROVE Kept(k)'
    BY <2>2, KeptStep DEF KeptAll
  <2>3. QED
    BY <2>1, <2>2 DEF KeptAll, OnlyAdds
<1>3. KeptAll => NeverShort
  <2> SUFFICES ASSUME KeptAll, NEW r \in Requests, OnlyAdds(r.count), nodes # used
               PROVE  Cardinality(nodes) >= r.count
    BY DEF NeverShort, OnlyAdds
  <2>1. r.count \in Int
    BY RequestAssumption
  <2>2. PICK x \in used \ nodes : TRUE
    BY DEF KeptAll, Typed
  <2>3. Behind(r.count, x, nodes)
    BY <2>1 DEF KeptAll, Kept
  <2> DEFINE A == {y \in nodes : y > x}
  <2>4. IsFiniteSet(nodes) /\ A \subseteq nodes
    BY FS_Subset DEF KeptAll, Typed
  <2> HIDE DEF A
  <2>5. /\ Cardinality(A) \in Nat /\ Cardinality(nodes) \in Nat
        /\ Cardinality(A) <= Cardinality(nodes)
    BY <2>4, FS_Subset, FS_CardinalityType
  <2>6. Cardinality(A) >= r.count
    BY <2>3 DEF Behind, A
  <2>7. QED
    BY <2>1, <2>5, <2>6
<1>4. QED
  BY <1>1, <1>2, <1>3, PTL DEF Spec

-----------------------------------------------------------------------------
(* PodsInHand.  Every list is in the order of the names and holds all that *)
(* is left, so the pods go in that order whoever deletes them; who finds   *)
(* its next pod gone is behind somebody who has the next one to delete.    *)
Past(c) == req[c].op = "delete" /\ req[c].at \in {"listAll", "deleteAll", "done"}
Overtaken(c) == req[c].at = "deletePods" /\ ~(req[c].doomed \subseteq DOMAIN nodePods)
Leads(c) == /\ req[c].at = "deletePods"
            /\ Least(req[c].doomed) \in DOMAIN nodePods

InOrder(c) ==
  req[c].at = "deletePods" =>
    /\ DOMAIN nodePods \subseteq req[c].doomed
    /\ \A y \in req[c].doomed : y \in DOMAIN nodePods \/ \A q \in DOMAIN nodePods : y < q

Hand ==
  /\ \A c \in Caller : InOrder(c)
  /\ (\E c \in Caller : Past(c) \/ Overtaken(c))
       => DOMAIN nodePods = {} \/ \E d \in Caller : Leads(d)

LEMMA HandInit == Init => Hand
<1> SUFFICES ASSUME Init PROVE Hand
  OBVIOUS
<1>1. \A c \in Caller : req[c].at = "idle"
  BY DEF Init, NoRequest
<1>2. QED
  BY <1>1 DEF Hand, InOrder, Past, Overtaken

(* Steps of a caller that is not deleting pods.                            *)
LEMMA HandElsewhere ==
  ASSUME Hand, NEW c \in Caller, nodePods' = nodePods,
         \A d \in Caller \ {c} : req'[d] = req[d],
         req[c].at # "deletePods",
         req'[c].at = "deletePods" => req'[c].doomed = DOMAIN nodePods,
         Past(c)' => Past(c) \/ DOMAIN nodePods = {}
  PROVE  Hand'
<1>1. ASSUME NEW d \in Caller \ {c}
      PROVE  /\ InOrder(d) => InOrder(d)'
             /\ Past(d)' => Past(d)
             /\ Overtaken(d)' => Overtaken(d)
             /\ Leads(d) => Leads(d)'
  <2>1. req'[d] = req[d]
    OBVIOUS
  <2>2. InOrder(d) => InOrder(d)'
    BY <2>1 DEF InOrder
  <2>3. Past(d)' => Past(d)
    BY <2>1 DEF Past
  <2>4. Overtaken(d)' => Overtaken(d)
    BY <2>1 DEF Overtaken
  <2>5. Leads(d) => Leads(d)'
    BY <2>1 DEF Leads
  <2>6. QED
    BY <2>2, <2>3, <2>4, <2>5, Zenon
<1>2. InOrder(c)' /\ ~Overtaken(c)' /\ ~Leads(c)
  <2>1. InOrder(c)'
    BY DEF InOrder
  <2>2. ~Overtaken(c)'
    BY DEF Overtaken
  <2>3. ~Leads(c)
    BY DEF Leads
  <2>4. QED
    BY <2>1, <2>2, <2>3, Zenon
<1>3. ASSUME NEW d \in Caller PROVE InOrder(d)'
  <2>1. InOrder(d)
    BY DEF Hand
  <2>2. QED
    BY <1>1, <1>2, <2>1, Zenon
<1>4. ASSUME NEW d \in Caller, Past(d)' \/ Overtaken(d)', DOMAIN nodePods # {}
      PROVE  \E e \in Caller : Leads(e)'
  <2>1. Past(d) \/ Overtaken(d)
    <3>1. CASE d = c
      BY <1>2, <1>4, <3>1, Zenon
    <3>2. CASE d # c
      BY <1>1, <1>4, <3>2, Zenon
    <3>3. QED
      BY <3>1, <3>2
  <2>2. PICK e \in Caller : Leads(e)
    BY <1>4, <2>1, Zenon DEF Hand
  <2>3. e # c
    BY <1>2, <2>2, Zenon
  <2>4. QED
    BY <1>1, <2>2, <2>3, Zenon
<1>5. DOMAIN nodePods' = DOMAIN nodePods
  OBVIOUS
<1> DEFINE After == \E d \in Caller : Past(d)' \/ Overtaken(d)'
           Led == \E e \in Caller : Leads(e)'
<1>6. After => DOMAIN nodePods' = {} \/ Led
  BY <1>4, <1>5
<1>7. QED
  BY <1>3, <1>6 DEF Hand

(* Deleting a pod makes the caller the leader, or empties the pods.        *)
LEMMA HandDeletes ==
  ASSUME Typed, Hand, NEW c \in Caller, DeletePod(c)
  PROVE  Hand'
<1>1. /\ req[c].at = "deletePods"
      /\ \E p \in req[c].doomed :
           /\ \A y \in req[c].doomed : p <= y
           /\ \/ /\ p \in DOMAIN nodePods
                 /\ DOMAIN nodePods' = DOMAIN nodePods \ {p}
                 /\ \/ /\ req[c].doomed \ {p} = {}
                       /\ Moves(c, "listPods", {})
                    \/ /\ req[c].doomed \ {p} # {}
                       /\ Moves(c, "deletePods", req[c].doomed \ {p})
              \/ /\ p \notin DOMAIN nodePods
                 /\ nodePods' = nodePods
                 /\ Moves(c, "listAll", {})
  BY PodMoves
<1>2. PICK p \in req[c].doomed :
           /\ \A y \in req[c].doomed : p <= y
           /\ \/ /\ p \in DOMAIN nodePods
                 /\ DOMAIN nodePods' = DOMAIN nodePods \ {p}
                 /\ \/ /\ req[c].doomed \ {p} = {}
                       /\ Moves(c, "listPods", {})
                    \/ /\ req[c].doomed \ {p} # {}
                       /\ Moves(c, "deletePods", req[c].doomed \ {p})
              \/ /\ p \notin DOMAIN nodePods
                 /\ nodePods' = nodePods
                 /\ Moves(c, "listAll", {})
  BY <1>1
<1> DEFINE S == req[c].doomed
           P == DOMAIN nodePods
<1>3. S \in SUBSET Nat /\ P \subseteq S /\ p \in Nat
  BY <1>1 DEF Typed, GoodRequest, Hand, InOrder
<1>4. \A y \in S : y \in P \/ \A q \in P : y < q
  BY <1>1 DEF Hand, InOrder
<1>5. \A d \in Caller \ {c} : req'[d] = req[d]
  BY <1>2 DEF Moves
<1>6. CASE p \in P
  <2>1. DOMAIN nodePods' = P \ {p}
    BY <1>2, <1>6
  <2>2. \A d \in Caller \ {c} : InOrder(d)'
    <3> SUFFICES ASSUME NEW d \in Caller \ {c}, req[d].at = "deletePods"
                 PROVE  /\ P \ {p} \subseteq req[d].doomed
                        /\ \A y \in req[d].doomed : \/ y \in P \ {p}
                                                    \/ \A q \in P \ {p} : y < q
      BY <1>5, <2>1 DEF InOrder
    <3>1. /\ P \subseteq req[d].doomed
          /\ \A y \in req[d].doomed : y \in P \/ \A q \in P : y < q
      BY DEF Hand, InOrder
    <3>2. \A q \in P \ {p} : p < q
      <4>1. \A q \in P : q \in Nat /\ p <= q
        BY <1>2, <1>3
      <4>2. QED
        BY <1>3, <4>1
    <3>3. QED
      BY <3>1, <3>2
  <2>3. CASE S \ {p} = {} /\ Moves(c, "listPods", {})
    <3>1. DOMAIN nodePods' = {}
      BY <1>3, <2>1, <2>3
    <3>2. InOrder(c)'
      BY <2>3 DEF InOrder, Moves
    <3>3. QED
      BY <2>2, <3>1, <3>2 DEF Hand
  <2>4. CASE S \ {p} # {} /\ Moves(c, "deletePods", S \ {p})
    <3>1. req'[c].at = "deletePods" /\ req'[c].doomed = S \ {p}
      BY <2>4 DEF Moves
    <3>2. \A y \in S : p <= y /\ y \in Nat
      BY <1>2, <1>3
    <3>3. \A y \in S \ {p} : ~(y < p)
      BY <1>3, <3>2
    <3>4. S \ {p} \subseteq P \ {p}
      BY <1>4, <1>6, <3>3
    <3>5. Least(S \ {p}) \in P \ {p}
      <4>1. S \ {p} \in SUBSET Nat /\ S \ {p} # {}
        BY <1>3, <2>4
      <4>2. Least(S \ {p}) \in S \ {p}
        BY <4>1, LeastIsFirst
      <4>3. QED
        BY <3>4, <4>2
    <3>6. InOrder(c)'
      BY <1>3, <2>1, <3>1, <3>4 DEF InOrder
    <3>7. Leads(c)'
      BY <2>1, <3>1, <3>5 DEF Leads
    <3>8. QED
      BY <2>2, <3>6, <3>7 DEF Hand
  <2>5. QED
    BY <1>2, <1>6, <2>3, <2>4
<1>7. CASE p \notin P
  <2>1. nodePods' = nodePods /\ Moves(c, "listAll", {})
    BY <1>2, <1>7
  <2>2. req'[c].at = "listAll"
    BY <2>1 DEF Moves
  <2>3. Overtaken(c)
    BY <1>1, <1>7 DEF Overtaken
  <2>4. Least(S) = p
    <3>1. Least(S) \in S /\ \A y \in S : Least(S) <= y
      BY <1>3, LeastIsFirst
    <3> DEFINE l == Least(S)
    <3> HIDE DEF l
    <3>2. l \in Nat /\ l <= p /\ p <= l
      BY <1>2, <1>3, <3>1 DEF l
    <3>3. l = p
      BY <1>3, <3>2
    <3>4. QED
      BY <3>3 DEF l
  <2>5. ~Leads(c)
    BY <1>7, <2>4 DEF Leads
  <2>6. \A d \in Caller : InOrder(d)'
    BY <1>5, <2>1, <2>2 DEF Hand, InOrder
  <2>7. P = {} \/ \E d \in Caller \ {c} : Leads(d)
    BY <2>3, <2>5 DEF Hand
  <2>8. DOMAIN nodePods' = {} \/ \E d \in Caller : Leads(d)'
    BY <1>5, <2>1, <2>7 DEF Leads
  <2>9. QED
    BY <2>6, <2>8 DEF Hand
<1>8. QED
  BY <1>6, <1>7

LEMMA HandStep ==
  ASSUME Typed, Hand, [Next]_vars
  PROVE  Hand'
<1>1. CASE UNCHANGED vars
  BY <1>1 DEF vars, Hand, InOrder, Past, Overtaken, Leads
<1>2. ASSUME NEW c \in Caller, NEW r \in Requests, Call(c, r) PROVE Hand'
  <2>1. /\ nodePods' = nodePods
        /\ \A d \in Caller \ {c} : req'[d] = req[d]
        /\ req[c].at # "deletePods" /\ req'[c].at \in {"list", "listPods"}
    BY <1>2, CallReplaces
  <2>2. ~Past(c)' /\ req'[c].at # "deletePods"
    BY <2>1 DEF Past
  <2>3. QED
    BY <2>1, <2>2, HandElsewhere
<1>3. ASSUME NEW c \in Caller, Step(c) PROVE Hand'
  <2>0. GoodRequest(req[c])
    BY DEF Typed
  <2>1. ASSUME req[c].at \in AddStates, nodePods' = nodePods,
               NEW a \in States \ {"deletePods"}, NEW S, Moves(c, a, S)
        PROVE  Hand'
    <3>1. req'[c].op = "add" /\ req'[c].at = a /\ \A d \in Caller \ {c} : req'[d] = req[d]
      BY <2>0, <2>1 DEF GoodRequest, Moves
    <3>2. ~Past(c)' /\ req'[c].at # "deletePods" /\ req[c].at # "deletePods"
      BY <2>1, <3>1 DEF Past, AddStates
    <3>3. QED
      BY <2>1, <3>1, <3>2, HandElsewhere
  <2>2. ASSUME Past(c), nodePods' = nodePods,
               NEW a \in States \ {"deletePods"}, NEW S, Moves(c, a, S)
        PROVE  Hand'
    <3>1. /\ req'[c].at # "deletePods" /\ req[c].at # "deletePods"
          /\ \A d \in Caller \ {c} : req'[d] = req[d]
      BY <2>2 DEF Past, Moves
    <3>2. QED
      BY <2>2, <3>1, HandElsewhere
  <2>3. CASE /\ req[c].at \in {"list", "create"}
             /\ \E a \in {"list", "create", "done", "panicked"} :
                  Moves(c, a, req[c].doomed)
             /\ Grows
    <3>1. /\ req[c].at \in AddStates /\ nodePods' = nodePods
          /\ \E a \in States \ {"deletePods"} : Moves(c, a, req[c].doomed)
      BY <2>3 DEF AddStates, Grows, States
    <3>2. QED
      BY <2>1, <3>1
  <2>4. CASE /\ req[c].at = "list"
             /\ Moves(c, "drop", First(nodes, -Missing(c)))
             /\ UNCHANGED <<nodes, nodePods, used>>
    <3>1. /\ req[c].at \in AddStates /\ nodePods' = nodePods
          /\ "drop" \in States \ {"deletePods"}
      BY <2>4 DEF AddStates, States
    <3>2. QED
      BY <2>1, <2>4, <3>1
  <2>5. CASE DropNode(c)
    <3>1. /\ nodePods' = nodePods
          /\ req[c].at \in {"drop", "deleteAll"}
          /\ \E a \in States \ {"deletePods"}, S \in {req[c].doomed \ {x} : x \in req[c].doomed} :
               Moves(c, a, S)
      <4>1. req[c].at \in {"drop", "deleteAll"}
        BY <2>5 DEF DropNode
      <4>2. QED
        BY <2>5, <4>1, DropMoves
    <3>2. req[c].at \in AddStates \/ Past(c)
      BY <2>0, <3>1 DEF GoodRequest, AddStates, DeleteStates, Past
    <3>3. QED
      BY <2>1, <2>2, <3>1, <3>2
  <2>6. CASE ListPods(c)
    <3>1. /\ req[c].at = "listPods" /\ nodePods' = nodePods
          /\ \/ DOMAIN nodePods = {} /\ Moves(c, "listAll", {})
             \/ DOMAIN nodePods # {} /\ Moves(c, "deletePods", DOMAIN nodePods)
      BY <2>6, ListPodsMoves
    <3>2. /\ \A d \in Caller \ {c} : req'[d] = req[d]
          /\ req'[c].at = "deletePods" => req'[c].doomed = DOMAIN nodePods
          /\ Past(c)' => DOMAIN nodePods = {}
      BY <3>1 DEF Moves, Past
    <3>3. QED
      BY <3>1, <3>2, HandElsewhere
  <2>7. CASE DeletePod(c)
    BY <2>7, HandDeletes
  <2>8. CASE ListAll(c)
    <3>1. /\ req[c].at = "listAll" /\ nodePods' = nodePods
          /\ \E a \in States \ {"deletePods"} : Moves(c, a, nodes)
      BY <2>8, ListAllMoves DEF States
    <3>2. Past(c)
      BY <2>0, <3>1 DEF GoodRequest, DeleteStates, Past
    <3>3. QED
      BY <2>2, <3>1, <3>2
  <2>9. QED
    BY <1>3, <2>3, <2>4, <2>5, <2>6, <2>7, <2>8, StepMoves
<1>4. QED
  BY <1>1, <1>2, <1>3 DEF Next

(* When a DeleteNodes is past CleanPod, no simulated pod is left or        *)
(* another DeleteNodes has them all on its list and the next one to go.    *)
THEOREM PodsStayInHand == Spec => []PodsInHand
<1>1. Init => Typed /\ Hand
  BY TypedInit, HandInit
<1>2. Typed /\ Hand /\ [Next]_vars => (Typed /\ Hand)'
  BY TypedStep, HandStep
<1>3. Typed /\ Hand => PodsInHand
  BY DEF Hand, PodsInHand, Past, Leads, InOrder
<1>4. QED
  BY <1>1, <1>2, <1>3, PTL DEF Spec

-----------------------------------------------------------------------------
(* Equal AddNodes settle.  The last one to return has seen the number it   *)
(* asks for, with nobody left who could change it.                         *)
Equal(r) == r.op = "add" /\ \A s \in Requests : s = r

Settles(r) ==
  /\ \A c \in Caller : req[c].at # "idle" => req[c].op = "add" /\ req[c].count = r.count
  /\ \A c \in Caller : req[c].at = "done" => r.count >= 0
  /\ (\A c \in Caller : ~Active(c)) /\ (\E c \in Caller : req[c].at = "done")
       => Cardinality(nodes) = r.count

LEMMA SettlesWhileActive ==
  ASSUME Typed, NEW r, Settles(r), NEW c \in Caller,
         \A d \in Caller \ {c} : req'[d] = req[d],
         req'[c].op = "add", req'[c].count = r.count,
         req'[c].at \notin {"idle", "done", "panicked"}
  PROVE  Settles(r)'
<1>1. \A d \in Caller : req'[d].at # "idle" => req'[d].op = "add" /\ req'[d].count = r.count
  BY DEF Settles
<1>2. \A d \in Caller : req'[d].at = "done" => r.count >= 0
  BY DEF Settles
<1>3. Active(c)'
  BY DEF Active
<1>4. QED
  BY <1>1, <1>2, <1>3 DEF Settles

(* Only AddEnough returns, and not for a negative count.                   *)
LEMMA EnoughSettles ==
  ASSUME Typed, NEW r \in Requests, Settles(r), NEW c \in Caller, AddEnough(c)
  PROVE  Settles(r)'
<1>1. /\ req[c].at = "list" /\ Missing(c) = 0 /\ nodes' = nodes
      /\ Moves(c, "done", req[c].doomed)
  BY GotoMoves DEF AddEnough, IsEnough
<1>2. Cardinality(nodes) \in Nat /\ r.count \in Int /\ req[c].count = r.count
  <2>1. IsFiniteSet(nodes)
    BY FS_Subset DEF Typed
  <2>2. QED
    BY <1>1, <2>1, FS_CardinalityType, RequestAssumption DEF Settles
<1>3. Cardinality(nodes) = r.count /\ r.count >= 0
  BY <1>1, <1>2 DEF Missing
<1>4. \A d \in Caller : req'[d].at # "idle" => req'[d].op = "add" /\ req'[d].count = r.count
  BY <1>1 DEF Settles, Moves
<1>5. QED
  BY <1>1, <1>3, <1>4 DEF Settles

(* A panic is one of a negative count, for which nobody has returned.      *)
LEMMA PanicSettles ==
  ASSUME Typed, NEW r \in Requests, Settles(r), NEW c \in Caller,
         req[c].at = "list", req[c].count < 0, Goto(c, "panicked"), nodes' = nodes
  PROVE  Settles(r)'
<1>1. Moves(c, "panicked", req[c].doomed)
  BY GotoMoves
<1>2. req[c].count = r.count /\ r.count \in Int
  BY RequestAssumption DEF Settles
<1>3. \A d \in Caller : req[d].at # "done" /\ req'[d].at # "done"
  BY <1>1, <1>2 DEF Settles, Moves
<1>4. QED
  BY <1>1, <1>3 DEF Settles, Moves

LEMMA SettlesStep ==
  ASSUME Typed, NEW r \in Requests, Equal(r), Settles(r), [Next]_vars
  PROVE  Settles(r)'
<1>1. CASE UNCHANGED vars
  BY <1>1 DEF vars, Settles, Active
<1>2. ASSUME NEW c \in Caller, NEW s \in Requests, Call(c, s) PROVE Settles(r)'
  <2>1. s = r /\ r.op = "add"
    BY DEF Equal
  <2>2. /\ \A d \in Caller \ {c} : req'[d] = req[d]
        /\ req'[c].op = "add" /\ req'[c].count = r.count /\ req'[c].at = "list"
    BY <1>2, <2>1, CallReplaces
  <2>3. QED
    BY <2>2, SettlesWhileActive
<1>3. ASSUME NEW c \in Caller, Step(c) PROVE Settles(r)'
  <2>0. GoodRequest(req[c])
    BY DEF Typed
  <2>1. req[c].at # "idle" => req[c].op = "add" /\ req[c].count = r.count
    BY DEF Settles
  <2>2. ASSUME NEW a \in {"list", "create", "drop"}, NEW S, Moves(c, a, S), req[c].at \in AddStates
        PROVE  Settles(r)'
    <3>1. req[c].at # "idle"
      BY <2>2 DEF AddStates
    <3>2. QED
      BY <2>1, <2>2, <3>1, SettlesWhileActive DEF Moves
  <2>3. CASE DropNode(c)
    <3>1. req[c].at \in {"drop", "deleteAll"}
      BY <2>3 DEF DropNode
    <3>2. req[c].at = "drop"
      BY <2>0, <2>1, <3>1 DEF GoodRequest, DeleteStates
    <3>3. PICK a, S : Moves(c, a, S) /\ a \in {"list", "drop"}
      BY <2>3, <3>2, DropMoves
    <3>4. QED
      BY <2>2, <3>2, <3>3 DEF AddStates
  <2>4. CASE ListPods(c) \/ DeletePod(c) \/ ListAll(c)
    BY <2>0, <2>1, <2>4 DEF ListPods, DeletePod, ListAll, GoodRequest, DeleteStates
  <2>5. CASE AddExcess(c)
    <3>1. CASE req[c].count < 0 /\ Goto(c, "panicked")
      BY <2>5, <3>1, PanicSettles DEF AddExcess
    <3>2. CASE Doom(c, "drop", First(nodes, -Missing(c)))
      BY <2>2, <2>5, <3>2, DoomMoves DEF AddExcess, AddStates
    <3>3. QED
      BY <2>5, <3>1, <3>2 DEF AddExcess
  <2>6. CASE AddMissing(c)
    <3> DEFINE z == Ahead(SwitchSizes(Missing(c)))
    <3>1. req' = [req EXCEPT ![c].at = IF z = << >> THEN "list" ELSE "create", ![c].sizes = z]
          /\ req[c].at = "list"
      BY <2>6 DEF AddMissing
    <3> HIDE DEF z
    <3>2. PICK a \in {"list", "create"} : Moves(c, a, req[c].doomed)
      BY <3>1, SizesMoves
    <3>3. QED
      BY <2>2, <3>1, <3>2 DEF AddStates
  <2>7. ASSUME NEW x \in Name, CreateNode(c, x) PROVE Settles(r)'
    <3> DEFINE z == OneLess(req[c].sizes)
    <3>1. req' = [req EXCEPT ![c].at = IF z = << >> THEN "list" ELSE "create", ![c].sizes = z]
          /\ req[c].at = "create"
      BY <2>7 DEF CreateNode
    <3> HIDE DEF z
    <3>2. PICK a \in {"list", "create"} : Moves(c, a, req[c].doomed)
      BY <3>1, SizesMoves
    <3>3. QED
      BY <2>2, <3>1, <3>2 DEF AddStates
  <2>8. QED
    BY <1>3, <2>3, <2>4, <2>5, <2>6, <2>7, EnoughSettles DEF Step
<1>4. QED
  BY <1>1, <1>2, <1>3 DEF Next

SettledInv == Typed /\ \A r \in Requests : Equal(r) => Settles(r)

(* When all AddNodes for one number have returned there are that many      *)
(* nodes, however they have overtaken each other.                          *)
THEOREM PoolSettles == Spec => []Settled
<1>1. Init => SettledInv
  BY TypedInit DEF SettledInv, Init, Settles, NoRequest
<1>2. SettledInv /\ [Next]_vars => SettledInv'
  <2> SUFFICES ASSUME SettledInv, [Next]_vars PROVE SettledInv'
    OBVIOUS
  <2>1. Typed'
    BY TypedStep DEF SettledInv
  <2>2. ASSUME NEW r \in Requests, Equal(r) PROVE Settles(r)'
    BY <2>2, SettlesStep DEF SettledInv
  <2>3. QED
    BY <2>1, <2>2 DEF SettledInv, Equal
<1>3. SettledInv => Settled
  BY DEF SettledInv, Settled, Equal, Settles
<1>4. QED
  BY <1>1, <1>2, <1>3, PTL DEF Spec

-----------------------------------------------------------------------------
(* How nodes are spread over switches.                                     *)
Sizes == Seq(0..AccessNum)

LEMMA Rounding ==
  ASSUME NEW n \in Nat
  PROVE  /\ (n + AccessNum - 1) \div AccessNum \in Nat
         /\ AccessNum * ((n + AccessNum - 1) \div AccessNum) < n + AccessNum
<1> DEFINE x == n + AccessNum - 1
<1>1. x \in Nat /\ AccessNum \in Nat \ {0}
  BY AccessAssumption
<1> HIDE DEF x
<1>2. x \div AccessNum \in Nat /\ AccessNum * (x \div AccessNum) <= x
  BY <1>1
<1>3. QED
  BY <1>1, <1>2 DEF x

LEMMA ChunksFit == ASSUME NEW n \in Nat PROVE Chunks(n) \in Sizes
<1> DEFINE k == (n + AccessNum - 1) \div AccessNum
<1>1. AccessNum \in Nat \ {0} /\ k \in Nat /\ AccessNum * k < n + AccessNum
  BY Rounding, AccessAssumption
<1> HIDE DEF k
<1>2. ASSUME NEW i \in 1..k PROVE Limit(AccessNum, n - (i - 1) * AccessNum) \in 0..AccessNum
  <2>1. \A a, b, c \in Nat : a <= b => c * a <= c * b
    OBVIOUS
  <2>2. AccessNum * i <= AccessNum * k
    BY <1>1, <2>1
  <2>3. (i - 1) * AccessNum = AccessNum * i - AccessNum
    BY <1>1
  <2> DEFINE m == (i - 1) * AccessNum
             p == AccessNum * i
             q == AccessNum * k
  <2>4. p \in Nat /\ q \in Nat /\ p <= q /\ m = p - AccessNum /\ q < n + AccessNum
    BY <1>1, <2>2, <2>3
  <2> HIDE DEF m, p, q
  <2>5. n - m \in Nat
    BY <1>1, <2>4
  <2>6. Limit(AccessNum, n - m) \in 0..AccessNum
    BY <1>1, <2>5 DEF Limit
  <2>7. QED
    BY <2>6 DEF m
<1>3. Chunks(n) = [i \in 1..k |-> Limit(AccessNum, n - (i - 1) * AccessNum)]
  BY DEF Chunks, k
<1>4. QED
  BY <1>1, <1>2, <1>3 DEF Sizes

LEMMA HalvesFit == ASSUME NEW n \in Nat, n <= 2 * AccessNum PROVE Halves(n) \in Sizes
<1>1. n \div 2 \in Nat /\ n % 2 \in 0..1
  OBVIOUS
<1>2. n = 2 * (n \div 2) + (n % 2)
  OBVIOUS
<1>3. n \div 2 \in 0..AccessNum /\ (n \div 2) + (n % 2) \in 0..AccessNum
  BY <1>1, <1>2, AccessAssumption
<1>4. QED
  BY <1>3 DEF Halves, Sizes

(* No switch gets more nodes than it has ports, however nodes are added.   *)
LEMMA SwitchesFit == ASSUME NEW n \in Nat PROVE SwitchSizes(n) \in Sizes
BY ChunksFit, HalvesFit, AccessAssumption DEF SwitchSizes, BuildRulesNode

LEMMA AheadFits ==
  ASSUME NEW s \in Sizes
  PROVE  /\ Ahead(s) \in Sizes
         /\ Ahead(s) # << >> => Ahead(s)[1] > 0
<1> DEFINE left == {i \in DOMAIN s : s[i] > 0}
           k == Least(left)
<1>1. Ahead(s) = IF left = {} THEN << >> ELSE SubSeq(s, k, Len(s))
  BY DEF Ahead
<1>2. CASE left = {}
  <2>1. << >> \in Sizes
    BY DEF Sizes
  <2>2. QED
    BY <1>1, <1>2, <2>1
<1>3. CASE left # {}
  <2>1. left \subseteq Nat
    BY DEF Sizes
  <2>2. k \in left
    BY <1>3, <2>1, LeastIsFirst
  <2> HIDE DEF k
  <2>3. k \in 1..Len(s) /\ s[k] > 0 /\ Len(s) \in Nat
    BY <2>2 DEF Sizes
  <2>4. \A i \in k..Len(s) : s[i] \in 0..AccessNum
    <3>1. \A i \in 1..Len(s) : s[i] \in 0..AccessNum
      BY AccessAssumption DEF Sizes
    <3>2. \A i \in k..Len(s) : i \in 1..Len(s)
      BY <2>3
    <3>3. QED
      BY <3>1, <3>2
  <2>5. SubSeq(s, k, Len(s)) \in Sizes /\ SubSeq(s, k, Len(s))[1] = s[k]
    BY <2>3, <2>4, SubSeqProperties DEF Sizes
  <2>6. QED
    BY <1>1, <1>3, <2>3, <2>4, <2>5
<1>4. QED
  BY <1>2, <1>3

(* The whole of the types.                                                 *)
ReqType == [op : {"add", "delete"}, count : Int, at : States, sizes : Sizes,
            doomed : SUBSET Nat]

Planned ==
  /\ req \in [Caller -> ReqType]
  /\ \A c \in Caller : req[c].at = "create" => req[c].sizes # << >> /\ req[c].sizes[1] > 0
  /\ DOMAIN nodePods \subseteq PodName
  /\ \A p \in DOMAIN nodePods : nodePods[p] \in Existing

FewerPods == /\ DOMAIN nodePods' \subseteq DOMAIN nodePods
             /\ \A p \in DOMAIN nodePods' : nodePods'[p] = nodePods[p]

LEMMA PutPlanned ==
  ASSUME Planned, NEW c \in Caller, NEW v \in ReqType,
         req' = [req EXCEPT ![c] = v],
         v.at = "create" => v.sizes # << >> /\ v.sizes[1] > 0,
         FewerPods
  PROVE  Planned'
<1>1. req' \in [Caller -> ReqType]
  BY DEF Planned
<1>2. \A d \in Caller : req'[d] = IF d = c THEN v ELSE req[d]
  BY DEF Planned
<1>3. QED
  BY <1>1, <1>2 DEF Planned, FewerPods

LEMMA GotoPlanned ==
  ASSUME Planned, NEW c \in Caller, NEW a \in States \ {"create"},
         Goto(c, a) \/ (\E S \in SUBSET Nat : Doom(c, a, S)),
         FewerPods
  PROVE  Planned'
<1>0. req \in [Caller -> ReqType] /\ req[c] \in ReqType
  BY DEF Planned
<1>1. CASE Goto(c, a)
  <2> DEFINE v == [req[c] EXCEPT !.at = a]
  <2>1. v \in ReqType /\ v.at = a
    BY <1>0 DEF ReqType
  <2>2. req' = [req EXCEPT ![c] = v]
    BY <1>1 DEF Goto
  <2> HIDE DEF v
  <2>3. QED
    BY <2>1, <2>2, PutPlanned
<1>2. ASSUME NEW S \in SUBSET Nat, Doom(c, a, S) PROVE Planned'
  <2> DEFINE v == [req[c] EXCEPT !.at = a, !.doomed = S]
  <2>1. v \in ReqType /\ v.at = a
    BY <1>0 DEF ReqType
  <2>2. req' = [req EXCEPT ![c] = v]
    BY <1>0, <1>2 DEF Doom
  <2> HIDE DEF v
  <2>3. QED
    BY <2>1, <2>2, PutPlanned
<1>3. QED
  BY <1>1, <1>2

(* A caller that is creating has a switch to create nodes in.              *)
LEMMA SizesPlanned ==
  ASSUME Planned, NEW c \in Caller, NEW s \in Sizes,
         req' = [req EXCEPT ![c].at = IF Ahead(s) = << >> THEN "list" ELSE "create",
                            ![c].sizes = Ahead(s)],
         nodePods' = nodePods
  PROVE  Planned'
<1> DEFINE z == Ahead(s)
           a == IF z = << >> THEN "list" ELSE "create"
           v == [req[c] EXCEPT !.at = a, !.sizes = z]
<1>1. z \in Sizes /\ (a = "create" => z # << >> /\ z[1] > 0)
  BY AheadFits
<1>2. a \in States
  BY DEF States
<1>3. req' = [req EXCEPT ![c].at = a, ![c].sizes = z]
  OBVIOUS
<1> HIDE DEF z, a
<1>4. req \in [Caller -> ReqType] /\ req[c] \in ReqType
  BY DEF Planned
<1>5. v \in ReqType /\ v.at = a /\ v.sizes = z
  BY <1>1, <1>2, <1>4 DEF ReqType
<1>6. req' = [req EXCEPT ![c] = v]
  BY <1>3, <1>4
<1> HIDE DEF v
<1>7. QED
  BY <1>1, <1>5, <1>6, PutPlanned DEF FewerPods

LEMMA InitPlanned == ASSUME Init PROVE Planned
<1>1. << >> \in Sizes
  BY DEF Sizes
<1>2. NoRequest \in ReqType
  BY <1>1 DEF NoRequest, ReqType, States
<1>3. QED
  BY <1>2 DEF Init, Planned, NoRequest

LEMMA StepPlanned ==
  ASSUME Typed, Planned, [Next]_vars PROVE Planned'
<1>1. CASE UNCHANGED vars
  BY <1>1 DEF vars, Planned
<1>2. ASSUME NEW c \in Caller, NEW r \in Requests, Call(c, r) PROVE Planned'
  <2> DEFINE n == [NoRequest EXCEPT !.op = r.op, !.count = r.count,
                                    !.at = IF r.op = "add" THEN "list" ELSE "listPods"]
  <2>1. << >> \in Sizes
    BY DEF Sizes
  <2>2. r.op \in {"add", "delete"} /\ r.count \in Int
    BY RequestAssumption
  <2>3. n \in ReqType /\ n.at # "create"
    BY <2>1, <2>2 DEF NoRequest, ReqType, States
  <2>4. req' = [req EXCEPT ![c] = n] /\ nodePods' = nodePods
    BY <1>2 DEF Call
  <2> HIDE DEF n
  <2>5. QED
    BY <2>3, <2>4 DEF Planned
<1>3. ASSUME NEW c \in Caller, AddMissing(c) PROVE Planned'
  <2>1. Missing(c) \in Nat
    <3>1. Cardinality(nodes) \in Nat
      BY FS_Subset, FS_CardinalityType DEF Typed
    <3>2. QED
      BY <1>3, <3>1 DEF AddMissing, Missing, Typed, GoodRequest
  <2>2. SwitchSizes(Missing(c)) \in Sizes
    BY <2>1, SwitchesFit
  <2>3. QED
    BY <1>3, <2>2, SizesPlanned DEF AddMissing
<1>4. ASSUME NEW c \in Caller, NEW x \in Name, CreateNode(c, x) PROVE Planned'
  <2> DEFINE s == req[c].sizes
             less == [s EXCEPT ![1] = @ - 1]
  <2>1. s \in Sizes /\ s # << >> /\ s[1] > 0
    BY <1>4 DEF CreateNode, Planned, ReqType
  <2> HIDE DEF s
  <2>2. less \in Sizes
    <3>1. Len(s) \in Nat /\ 1 \in 1..Len(s) /\ \A i \in 1..Len(s) : s[i] \in 0..AccessNum
      BY <2>1, AccessAssumption DEF Sizes
    <3>2. s[1] - 1 \in 0..AccessNum
      BY <2>1, <3>1, AccessAssumption
    <3>3. QED
      BY <2>1, <3>2 DEF Sizes
  <2>3. req' = [req EXCEPT ![c].at = IF Ahead(less) = << >> THEN "list" ELSE "create",
                           ![c].sizes = Ahead(less)]
        /\ nodePods' = nodePods
    BY <1>4 DEF CreateNode, OneLess, s
  <2> HIDE DEF less
  <2>4. QED
    BY <2>2, <2>3, SizesPlanned
<1>5. ASSUME NEW c \in Caller, AddExcess(c) \/ AddEnough(c) PROVE Planned'
  <2>1. First(nodes, -Missing(c)) \in SUBSET Nat
    BY NameAssumption DEF First, Typed
  <2>2. {"panicked", "drop", "done"} \subseteq States \ {"create"}
    BY DEF States
  <2>3. QED
    BY <1>5, <2>1, <2>2, GotoPlanned DEF AddExcess, AddEnough, FewerPods
<1>6. ASSUME NEW c \in Caller, DropNode(c) PROVE Planned'
  <2> DEFINE rest == req[c].doomed \ {Least(req[c].doomed)}
             a == CASE rest # {} -> req[c].at
                    [] rest = {} /\ req[c].at = "drop" -> "list"
                    [] OTHER -> "done"
  <2>1. rest \in SUBSET Nat
    BY DEF Typed, GoodRequest
  <2>2. Doom(c, a, rest) /\ req[c].at \in {"drop", "deleteAll"} /\ nodePods' = nodePods
    BY <1>6 DEF DropNode
  <2> HIDE DEF rest
  <2>3. a \in States \ {"create"}
    BY <2>2 DEF States
  <2> HIDE DEF a
  <2>4. QED
    BY <2>1, <2>2, <2>3, GotoPlanned DEF FewerPods
<1>7. ASSUME NEW c \in Caller, ListPods(c) \/ ListAll(c) PROVE Planned'
  <2>1. nodes \in SUBSET Nat /\ DOMAIN nodePods \in SUBSET Nat
    BY NameAssumption DEF Typed
  <2>2. {"listAll", "deletePods", "deleteAll", "done"} \subseteq States \ {"create"}
    BY DEF States
  <2>3. QED
    BY <1>7, <2>1, <2>2, GotoPlanned DEF ListPods, ListAll, FewerPods
<1>8. ASSUME NEW c \in Caller, DeletePod(c) PROVE Planned'
  <2> DEFINE p == Least(req[c].doomed)
             rest == req[c].doomed \ {p}
  <2>1. rest \in SUBSET Nat
    BY DEF Typed, GoodRequest
  <2>2. {"listAll", "listPods", "deletePods"} \subseteq States \ {"create"}
    BY DEF States
  <2>3. CASE p \in DOMAIN nodePods
    <3>1. nodePods' = [q \in DOMAIN nodePods \ {p} |-> nodePods[q]]
          /\ Doom(c, AfterPod(c, rest), rest)
      BY <1>8, <2>3 DEF DeletePod
    <3>2. AfterPod(c, rest) \in States \ {"create"}
      BY <2>2 DEF AfterPod
    <3> DEFINE a == AfterPod(c, rest)
    <3> HIDE DEF p, rest
    <3>3. Doom(c, a, rest) /\ a \in States \ {"create"}
      BY <3>1, <3>2
    <3> HIDE DEF a
    <3>4. QED
      BY <2>1, <3>1, <3>3, GotoPlanned DEF FewerPods
  <2>4. CASE p \notin DOMAIN nodePods
    <3>1. Doom(c, "listAll", {}) /\ nodePods' = nodePods
      BY <1>8, <2>4 DEF DeletePod
    <3>2. QED
      BY <2>2, <3>1, GotoPlanned DEF FewerPods
  <2>5. QED
    BY <2>3, <2>4
<1>9. QED
  BY <1>1, <1>2, <1>3, <1>4, <1>5, <1>6, <1>7, <1>8 DEF Next, Step

(* Types; for any number of missing nodes and any rule of spreading them   *)
(* no switch is planned with more nodes than accessNum.                    *)
THEOREM SwitchesTyped == Spec => []TypeOK
<1>1. Init => Typed /\ Planned
  BY TypedInit, InitPlanned
<1>2. Typed /\ Planned /\ [Next]_vars => (Typed /\ Planned)'
  BY TypedStep, StepPlanned
<1>3. Typed /\ Planned => TypeOK
  BY DEF Typed, Planned, TypeOK, ReqType, Sizes
<1>4. QED
  BY <1>1, <1>2, <1>3, PTL DEF Spec

=============================================================================
