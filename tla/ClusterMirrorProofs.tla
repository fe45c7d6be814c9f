------------------------ MODULE ClusterMirrorProofs ------------------------
(***************************************************************************)
(* Proofs about ClusterMirror, for any objects, changes and connection     *)
(* losses.                                                                 *)
(***************************************************************************)
EXTENDS ClusterMirror, SequenceTheorems, TLAPS

(* The informers do nothing before SyncWithClient is done.                 *)
Ordered ==
  /\ copied \in 0..3
  /\ copied < 3 => /\ watching = {}
                   /\ \A o \in Objects : known[o] = None /\ feed[o] = << >>

MirrorInv ==
  /\ DOMAIN mirror = Objects /\ DOMAIN known = Objects /\ DOMAIN feed = Objects
  /\ Ordered
  /\ CopiesArePlaced
  /\ KnownIsMirrored

(* What is selected exists; what is gone is not selected.                  *)
LEMMA SelectedIsHere == \A o, x : Selected(o, x) => Here(x)
BY DEF Selected, Placed, Here

LEMMA NoneIsNotSelected == \A o : ~Selected(o, None) /\ ~Here(None)
BY DEF Selected, Placed, Here, None

(* A handler leaves a copy of what its filter passes.                      *)
LEMMA HandlerMirrors ==
  ASSUME NEW o, NEW c, NEW old, NEW new, Selected(o, new), Selected(o, old) => Here(c)
  PROVE  Here(Handler(o, c, old, new))
<1>1. Here(new)
  BY SelectedIsHere
<1>2. Here(Added(c, new))
  BY <1>1 DEF Added
<1>3. Selected(o, old) => Here(Updated(c, new))
  BY <1>1 DEF Updated
<1>4. CASE o \in Pods
  <2>1. Placed(new) /\ (Placed(old) => Here(c))
    BY <1>4 DEF Selected
  <2>2. Handler(o, c, old, new) = PodHandler(c, old, new)
    BY <1>4, KindAssumption DEF Handler
  <2>3. CASE Placed(old)
    <3>1. PodHandler(c, old, new) = Updated(c, new)
      BY <2>1, <2>3 DEF PodHandler
    <3>2. Here(Updated(c, new))
      BY <1>1, <2>1, <2>3 DEF Updated
    <3>3. QED
      BY <2>2, <3>1, <3>2
  <2>4. CASE ~Placed(old)
    <3>1. PodHandler(c, old, new) = Added(c, new)
      BY <2>1, <2>4 DEF PodHandler
    <3>2. QED
      BY <1>2, <2>2, <3>1
  <2>5. QED
    BY <2>3, <2>4
<1>5. CASE o \notin Pods
  <2>1. StorageHandler(c, old, new) = IF Here(old) THEN c ELSE Added(c, new)
    BY <1>1 DEF StorageHandler
  <2>2. NodeHandler(c, old, new) = IF Here(old) THEN Updated(c, new) ELSE Added(c, new)
    BY <1>1, <2>1 DEF NodeHandler
  <2>3. Here(old) => Here(c)
    BY <1>5 DEF Selected
  <2>4. QED
    BY <1>2, <1>3, <1>5, <2>1, <2>2, <2>3 DEF Handler, Selected
<1>6. QED
  BY <1>4, <1>5

(* The handlers of PodWatch leave no copy of a pod that is not placed.     *)
LEMMA PodHandlerPlaces ==
  ASSUME NEW o \in Pods, NEW c, NEW old, NEW new, Here(c) => Placed(c),
         Here(Handler(o, c, old, new))
  PROVE  Placed(Handler(o, c, old, new))
<1>1. Placed(new) => /\ Here(Added(c, new)) => Placed(Added(c, new))
                     /\ Here(Updated(c, new)) => Placed(Updated(c, new))
  BY DEF Added, Updated
<1> DEFINE h == PodHandler(c, old, new)
<1>2. Handler(o, c, old, new) = h
  BY KindAssumption DEF Handler
<1>3. CASE Placed(old) /\ Placed(new)
  <2>1. h = Updated(c, new)
    BY <1>3 DEF PodHandler
  <2>2. QED
    BY <1>1, <1>2, <1>3, <2>1
<1>4. CASE ~Placed(old) /\ Placed(new)
  <2>1. h = Added(c, new)
    BY <1>4 DEF PodHandler
  <2>2. QED
    BY <1>1, <1>2, <1>4, <2>1
<1>5. CASE ~Placed(new)
  <2>1. h = None \/ h = c
    BY <1>5 DEF PodHandler
  <2>2. QED
    BY <1>2, <2>1, NoneIsNotSelected
<1>6. QED
  BY <1>3, <1>4, <1>5

LEMMA MirrorInit == Init => MirrorInv
<1> SUFFICES ASSUME Init PROVE MirrorInv
  OBVIOUS
<1>1. \A o \in Objects : mirror[o] = None /\ known[o] = None /\ feed[o] = << >>
  BY DEF Init
<1>2. CopiesArePlaced /\ KnownIsMirrored
  BY <1>1, NoneIsNotSelected DEF CopiesArePlaced, KnownIsMirrored, Objects
<1>3. Ordered
  BY <1>1 DEF Init, Ordered
<1>4. QED
  BY <1>2, <1>3 DEF Init, MirrorInv

(* Steps that handle no event and copy nothing.                            *)
LEMMA MirrorStays ==
  ASSUME MirrorInv, UNCHANGED <<mirror, known, copied>>, DOMAIN feed' = Objects,
         copied = 3 \/ UNCHANGED <<watching, feed>>
  PROVE  MirrorInv'
<1>1. Ordered'
  <2>1. CASE copied = 3
    BY <2>1 DEF Ordered
  <2>2. CASE UNCHANGED <<watching, feed>>
    BY <2>2 DEF Ordered, MirrorInv
  <2>3. QED
    BY <2>1, <2>2
<1>2. CopiesArePlaced'
  BY DEF MirrorInv, CopiesArePlaced
<1>3. KnownIsMirrored'
  BY DEF MirrorInv, KnownIsMirrored
<1>4. QED
  BY <1>1, <1>2, <1>3 DEF MirrorInv

LEMMA MirrorSync == MirrorInv /\ Sync => MirrorInv'
<1> SUFFICES ASSUME MirrorInv, Sync PROVE MirrorInv'
  OBVIOUS
<1>1. \A o \in Objects : known[o] = None /\ known'[o] = None
  BY DEF MirrorInv, Ordered, Sync
<1>2. KnownIsMirrored'
  BY <1>1, NoneIsNotSelected DEF KnownIsMirrored
<1>3. Ordered'
  <2>1. copied' \in 0..3
    BY DEF MirrorInv, Ordered, Sync
  <2>2. QED
    BY <2>1 DEF MirrorInv, Ordered, Sync
<1>4. CopiesArePlaced'
  <2> SUFFICES ASSUME NEW o \in Pods, Here(mirror'[o]) PROVE Placed(mirror'[o])
    BY DEF CopiesArePlaced
  <2>1. \/ mirror'[o] = mirror[o]
        \/ mirror'[o] = real[o] /\ Copies(o, real[o])
    BY DEF Sync, Objects
  <2>2. QED
    BY <2>1 DEF Copies, Placed, MirrorInv, CopiesArePlaced
<1>5. QED
  BY <1>2, <1>3, <1>4 DEF MirrorInv, Sync

LEMMA MirrorHandle ==
  ASSUME MirrorInv, NEW o \in Objects, Handle(o)
  PROVE  MirrorInv'
<1> DEFINE new == Head(feed[o])
           k == IF Here(new) THEN new ELSE None
<1>1. /\ feed[o] # << >> /\ known' = [known EXCEPT ![o] = k]
      /\ feed' = [feed EXCEPT ![o] = Tail(@)]
      /\ UNCHANGED <<copied, watching>>
  BY DEF Handle
<1>2. \E c : /\ mirror'[o] = c /\ DOMAIN mirror' = Objects
             /\ \A d \in Objects \ {o} : mirror'[d] = mirror[d]
             /\ \/ c = mirror[o] /\ ~Here(new)
                \/ c = Handler(o, mirror[o], known[o], new)
                \/ c = mirror[o] /\ new = known[o]
  <2>1. CASE mirror' = [mirror EXCEPT ![o] = IF new.at = "lost" THEN @
                                             ELSE Handler(o, @, known[o], new)]
    <3>1. CASE new.at = "lost"
      <4>1. mirror' = [mirror EXCEPT ![o] = mirror[o]] /\ ~Here(new)
        BY <2>1, <3>1 DEF Here
      <4>2. QED
        BY <4>1 DEF MirrorInv
    <3>2. CASE new.at # "lost"
      <4>1. mirror' = [mirror EXCEPT ![o] = Handler(o, mirror[o], known[o], new)]
        BY <2>1, <3>2
      <4>2. QED
        BY <4>1 DEF MirrorInv
    <3>3. QED
      BY <3>1, <3>2
  <2>2. CASE new = known[o] /\ mirror' = mirror
    BY <2>2 DEF MirrorInv
  <2>3. QED
    BY <2>1, <2>2 DEF Handle
<1>3. PICK c : /\ mirror'[o] = c /\ DOMAIN mirror' = Objects
               /\ \A d \in Objects \ {o} : mirror'[d] = mirror[d]
               /\ \/ c = mirror[o] /\ ~Here(new)
                  \/ c = Handler(o, mirror[o], known[o], new)
                  \/ c = mirror[o] /\ new = known[o]
  BY <1>2
<1>4. /\ known'[o] = k /\ mirror'[o] = c
      /\ \A d \in Objects \ {o} : known'[d] = known[d] /\ mirror'[d] = mirror[d]
      /\ DOMAIN known' = Objects /\ DOMAIN mirror' = Objects /\ DOMAIN feed' = Objects
  BY <1>1, <1>3 DEF MirrorInv
<1> HIDE DEF new
<1>5. Selected(o, known[o]) => Here(mirror[o])
  BY DEF MirrorInv, KnownIsMirrored
<1>6. Selected(o, k) => Here(c)
  <2> SUFFICES ASSUME Selected(o, k) PROVE Here(c)
    OBVIOUS
  <2>1. Here(new) /\ k = new
    BY NoneIsNotSelected
  <2>2. QED
    BY <1>3, <1>5, <2>1, HandlerMirrors
<1>7. o \in Pods /\ Here(c) => Placed(c)
  <2> SUFFICES ASSUME o \in Pods, Here(c) PROVE Placed(c)
    OBVIOUS
  <2>1. Here(mirror[o]) => Placed(mirror[o])
    BY DEF MirrorInv, CopiesArePlaced
  <2>2. QED
    BY <1>3, <2>1, PodHandlerPlaces
<1>8. KnownIsMirrored'
  BY <1>4, <1>6 DEF KnownIsMirrored, MirrorInv
<1>9. CopiesArePlaced'
  BY <1>4, <1>7 DEF CopiesArePlaced, MirrorInv, Objects
<1>10. Ordered'
  BY <1>1 DEF MirrorInv, Ordered
<1>11. QED
  BY <1>4, <1>8, <1>9, <1>10 DEF MirrorInv

LEMMA MirrorResync ==
  ASSUME MirrorInv, NEW o \in Objects, Resync(o)
  PROVE  MirrorInv'
<1>1. o \in Nodes /\ o \notin Pods /\ Here(known[o])
  BY KindAssumption DEF Resync
<1>2. Here(mirror[o])
  BY <1>1 DEF MirrorInv, KnownIsMirrored, Selected
<1>3. mirror' = [mirror EXCEPT ![o] = known[o]]
  BY <1>1, <1>2 DEF Resync, NodeHandler, Updated
<1>4. UNCHANGED <<copied, watching, feed, known>>
  BY DEF Resync
<1>5. DOMAIN mirror' = Objects /\ Here(mirror'[o])
      /\ \A d \in Objects \ {o} : mirror'[d] = mirror[d]
  BY <1>1, <1>3 DEF MirrorInv
<1>6. CopiesArePlaced'
  BY <1>1, <1>5 DEF MirrorInv, CopiesArePlaced, Objects
<1>7. KnownIsMirrored'
  BY <1>4, <1>5 DEF MirrorInv, KnownIsMirrored
<1>8. Ordered'
  BY <1>4 DEF MirrorInv, Ordered
<1>9. QED
  BY <1>4, <1>5, <1>6, <1>7, <1>8 DEF MirrorInv

LEMMA MirrorStep == MirrorInv /\ [Next]_vars => MirrorInv'
<1> SUFFICES ASSUME MirrorInv, [Next]_vars PROVE MirrorInv'
  OBVIOUS
<1>1. CASE UNCHANGED vars
  BY <1>1, MirrorStays DEF vars, MirrorInv
<1>2. CASE Sync
  BY <1>2, MirrorSync
<1>3. ASSUME NEW K \in Watches, Start(K) PROVE MirrorInv'
  <2>1. copied = 3 /\ UNCHANGED <<mirror, known, copied>> /\ DOMAIN feed' = Objects
    BY <1>3 DEF Start
  <2>2. QED
    BY <2>1, MirrorStays
<1>4. ASSUME NEW K \in Watches, Reconnect(K) PROVE MirrorInv'
  <2>1. UNCHANGED <<mirror, known, copied>> /\ DOMAIN feed' = Objects /\ watching # {}
    BY <1>4 DEF Reconnect
  <2>2. copied = 3
    BY <2>1 DEF MirrorInv, Ordered
  <2>3. QED
    BY <2>1, <2>2, MirrorStays
<1>5. ASSUME NEW o \in Objects, Change(o) PROVE MirrorInv'
  <2>1. UNCHANGED <<mirror, known, copied, watching>> /\ DOMAIN feed' = Objects
    BY <1>5 DEF Change, MirrorInv
  <2>2. CASE Watched(o)
    <3>1. copied = 3
      BY <2>2 DEF Watched, MirrorInv, Ordered
    <3>2. QED
      BY <2>1, <3>1, MirrorStays
  <2>3. CASE ~Watched(o)
    <3>1. feed' = feed
      BY <1>5, <2>3 DEF Change
    <3>2. QED
      BY <2>1, <3>1, MirrorStays
  <2>4. QED
    BY <2>2, <2>3
<1>6. ASSUME NEW o \in Objects, Handle(o) PROVE MirrorInv'
  BY <1>6, MirrorHandle
<1>7. ASSUME NEW o \in Objects, Resync(o) PROVE MirrorInv'
  BY <1>7, MirrorResync
<1>8. QED
  BY <1>1, <1>2, <1>3, <1>4, <1>5, <1>6, <1>7 DEF Next

(* Only pods that the real scheduler has placed are ever copied.           *)
THEOREM OnlyPlacedAreCopied == Spec => []CopiesArePlaced
<1>1. MirrorInv => CopiesArePlaced
  BY DEF MirrorInv
<1>2. QED
  BY <1>1, MirrorInit, MirrorStep, PTL DEF Spec

(* What an informer has handled and selected has a copy to update.         *)
THEOREM HandledIsMirrored == Spec => []KnownIsMirrored
<1>1. MirrorInv => KnownIsMirrored
  BY DEF MirrorInv
<1>2. QED
  BY <1>1, MirrorInit, MirrorStep, PTL DEF Spec

-----------------------------------------------------------------------------
(* Types.  A handler leaves the copy, removes it, or takes over an object  *)
(* that exists, never a lost deletion.                                     *)
LEMMA HandlerChoice ==
  ASSUME NEW o, NEW c, NEW old, NEW new
  PROVE  \/ Handler(o, c, old, new) = c
         \/ Handler(o, c, old, new) = None
         \/ Handler(o, c, old, new) = new /\ Here(new)
<1>1. Placed(new) => Here(new)
  BY DEF Placed, Here
<1>2. CASE o \in Pods
  <2>1. Handler(o, c, old, new) = PodHandler(c, old, new)
    BY <1>2, KindAssumption DEF Handler
  <2>2. CASE Placed(new)
    BY <1>1, <2>1, <2>2 DEF PodHandler, Updated, Added
  <2>3. CASE ~Placed(new)
    BY <2>1, <2>3 DEF PodHandler
  <2>4. QED
    BY <2>2, <2>3
<1>3. CASE o \notin Pods /\ o \in Nodes
  <2>1. Handler(o, c, old, new) = NodeHandler(c, old, new)
    BY <1>3 DEF Handler
  <2>2. QED
    BY <2>1 DEF NodeHandler, StorageHandler, Updated, Added
<1>4. CASE o \notin Pods /\ o \notin Nodes
  <2>1. Handler(o, c, old, new) = StorageHandler(c, old, new)
    BY <1>4 DEF Handler
  <2>2. QED
    BY <2>1 DEF StorageHandler, Added
<1>5. QED
  BY <1>2, <1>3, <1>4

LEMMA EventIsRecord ==
  ASSUME NEW x \in Event, Here(x) PROVE x \in Record
BY DEF Event, Here

LEMMA NoneIsRecord == None \in Record
BY DEF None, Record

LEMMA TypedInit == ASSUME Init PROVE TypeOK
<1>1. real \in [Objects -> Record]
  <2>1. \A o \in Objects : real[o] \in Record
    BY DEF Init, States, Record
  <2>2. QED
    BY <2>1 DEF Init
<1>2. QED
  BY <1>1, NoneIsRecord DEF Init, TypeOK

LEMMA ChangeTyped ==
  ASSUME TypeOK, NEW o \in Objects, Change(o) PROVE TypeOK'
<1>1. PICK s \in Follow(o, real[o].at) :
        LET x == [at |-> s, ver |-> real[o].ver + 1]
        IN  /\ real' = [real EXCEPT ![o] = x]
            /\ feed' = IF Watched(o) THEN [feed EXCEPT ![o] = Append(@, x)] ELSE feed
  BY DEF Change
<1> DEFINE x == [at |-> s, ver |-> real[o].ver + 1]
<1>2. x \in Record
  <2>1. s \in {"gone", "pending", "nominated", "bound", "running"}
    BY DEF Follow
  <2>2. real[o].ver \in Nat
    BY DEF TypeOK, Record
  <2>3. QED
    BY <2>1, <2>2 DEF Record
<1>3. real' = [real EXCEPT ![o] = x]
      /\ feed' = IF Watched(o) THEN [feed EXCEPT ![o] = Append(@, x)] ELSE feed
  BY <1>1
<1> HIDE DEF x
<1>4. Append(feed[o], x) \in Seq(Event)
  BY <1>2 DEF TypeOK, Event
<1>5. feed' \in [Objects -> Seq(Event)]
  BY <1>3, <1>4 DEF TypeOK
<1>6. real' \in [Objects -> Record]
  BY <1>2, <1>3 DEF TypeOK
<1>7. ASSUME NEW p \in Objects, ~Watched(p)' PROVE known'[p] = None /\ feed'[p] = << >>
  <2>1. ~Watched(p)
    BY <1>7 DEF Change, Watched
  <2>2. known'[p] = None /\ feed[p] = << >>
    BY <2>1 DEF TypeOK, Change
  <2>3. feed'[p] = feed[p]
    BY <1>3, <2>1 DEF TypeOK
  <2>4. QED
    BY <2>2, <2>3
<1>8. QED
  BY <1>5, <1>6, <1>7 DEF TypeOK, Change

LEMMA SyncTyped == ASSUME TypeOK, Sync PROVE TypeOK'
<1>1. mirror' \in [Objects -> Record]
  BY DEF TypeOK, Sync
<1>2. copied' \in 0..3 /\ watching = {}
  BY DEF TypeOK, Sync
<1>3. QED
  BY <1>1, <1>2 DEF TypeOK, Sync, Watched

LEMMA StartTyped ==
  ASSUME TypeOK, NEW K \in Watches, Start(K) PROVE TypeOK'
<1>1. \A o \in Objects : <<real[o]>> \in Seq(Event)
  BY DEF TypeOK, Event
<1>2. feed' \in [Objects -> Seq(Event)]
  BY <1>1 DEF TypeOK, Start
<1>3. watching' = watching \cup {K} /\ copied' = 3
  BY DEF Start
<1>4. ASSUME NEW o \in Objects, ~Watched(o)' PROVE known'[o] = None /\ feed'[o] = << >>
  <2>1. ~Watched(o) /\ o \notin K
    BY <1>3, <1>4 DEF Watched
  <2>2. QED
    BY <2>1 DEF TypeOK, Start
<1>5. QED
  BY <1>2, <1>3, <1>4 DEF TypeOK, Start

LEMMA HandleTyped ==
  ASSUME TypeOK, NEW o \in Objects, Handle(o) PROVE TypeOK'
<1> DEFINE new == Head(feed[o])
<1>1. /\ feed[o] \in Seq(Event) /\ feed[o] # << >>
      /\ new \in Event /\ Tail(feed[o]) \in Seq(Event)
  BY DEF TypeOK, Handle
<1>2. /\ known' = [known EXCEPT ![o] = IF Here(new) THEN new ELSE None]
      /\ \/ mirror' = [mirror EXCEPT ![o] = IF new.at = "lost" THEN @
                                            ELSE Handler(o, @, known[o], new)]
         \/ new = known[o] /\ mirror' = mirror
      /\ feed' = [feed EXCEPT ![o] = Tail(@)]
  BY DEF Handle
<1> HIDE DEF new
<1>3. known' \in [Objects -> Record]
  BY <1>1, <1>2, EventIsRecord, NoneIsRecord DEF TypeOK
<1>4. Handler(o, mirror[o], known[o], new) \in Record
  <2>1. mirror[o] \in Record
    BY DEF TypeOK
  <2>2. QED
    BY <1>1, <2>1, HandlerChoice, EventIsRecord, NoneIsRecord
<1>5. mirror' \in [Objects -> Record]
  BY <1>2, <1>4 DEF TypeOK
<1>6. feed' \in [Objects -> Seq(Event)]
  BY <1>1, <1>2 DEF TypeOK
<1>7. Watched(o)
  BY <1>1 DEF TypeOK
<1>8. ASSUME NEW p \in Objects, ~Watched(p)' PROVE known'[p] = None /\ feed'[p] = << >>
  <2>1. ~Watched(p) /\ p # o
    BY <1>7, <1>8 DEF Handle, Watched
  <2>2. QED
    BY <1>2, <2>1 DEF TypeOK
<1>9. QED
  BY <1>3, <1>5, <1>6, <1>8 DEF TypeOK, Handle

LEMMA ResyncTyped ==
  ASSUME TypeOK, NEW o \in Objects, Resync(o) PROVE TypeOK'
<1>1. NodeHandler(mirror[o], known[o], known[o]) \in Record
  BY DEF NodeHandler, Updated, StorageHandler, Added, TypeOK, Resync
<1>2. mirror' \in [Objects -> Record]
  BY <1>1 DEF Resync, TypeOK
<1>3. QED
  BY <1>2 DEF TypeOK, Resync, Watched

LEMMA UpToIsNat ==
  ASSUME NEW A, NEW m, NEW f \in [A -> 0..m], NEW a \in A PROVE f[a] \in Nat
OBVIOUS

LEMMA ReconnectTyped ==
  ASSUME TypeOK, NEW K \in Watches, Reconnect(K) PROVE TypeOK'
<1>1. PICK kept \in [K -> 0..Max({0} \cup {Len(feed[o]) : o \in K})], M \in SUBSET K :
        /\ \A o \in K : kept[o] <= Len(feed[o])
        /\ feed' = [o \in Objects |->
                      IF o \in K THEN Relisted(o, SubSeq(feed[o], 1, kept[o]), o \in M)
                                 ELSE feed[o]]
  BY DEF Reconnect
<1>2. K \subseteq Objects
  BY DEF Watches, Kinds, Objects
<1>3. ASSUME NEW o \in Objects, NEW s \in Seq(Event), NEW m
      PROVE  Relisted(o, s, m) \in Seq(Event)
  <2>1. real[o] \in Event /\ [at |-> "lost", ver |-> 0] \in Event
    BY DEF TypeOK, Event
  <2>2. QED
    BY <2>1 DEF Relisted
<1>4. ASSUME NEW o \in K PROVE SubSeq(feed[o], 1, kept[o]) \in Seq(Event)
  <2>1. kept[o] \in Nat
    BY UpToIsNat, Zenon
  <2>2. feed[o] \in Seq(Event) /\ kept[o] <= Len(feed[o])
    BY <1>1, <1>2 DEF TypeOK
  <2>3. \A i \in 1..kept[o] : feed[o][i] \in Event
    BY <2>1, <2>2
  <2>4. QED
    BY <2>1, <2>2, <2>3, SubSeqProperties
<1>5. feed' \in [Objects -> Seq(Event)]
  BY <1>1, <1>2, <1>3, <1>4 DEF TypeOK
<1>6. ASSUME NEW o \in Objects, ~Watched(o)' PROVE known'[o] = None /\ feed'[o] = << >>
  <2>1. ~Watched(o) /\ o \notin K
    BY <1>6 DEF Reconnect, Watched
  <2>2. QED
    BY <1>1, <2>1 DEF TypeOK, Reconnect
<1>7. QED
  BY <1>5, <1>6 DEF TypeOK, Reconnect

(* The types, and with them: no informer knows of anything before it has   *)
(* listed, and a lost deletion is never taken for an object (593-702).     *)
THEOREM MirrorTyped == Spec => []TypeOK
<1>1. Init => TypeOK
  BY TypedInit
<1>2. ASSUME TypeOK, [Next]_vars PROVE TypeOK'
  <2>1. CASE UNCHANGED vars
    BY <1>2, <2>1 DEF vars, TypeOK, Watched
  <2>2. QED
    BY <1>2, <2>1, ChangeTyped, SyncTyped, StartTyped, HandleTyped, ResyncTyped,
       ReconnectTyped DEF Next
<1>3. QED
  BY <1>1, <1>2, PTL DEF Spec

=============================================================================
