--------------------------- MODULE ClusterMirror ---------------------------
(***************************************************************************)
(* The copy of the real cluster that kubesim simulates on                  *)
(* (src/pkg/scheduler/simulator.go:174-702).  SyncWithClient lists each    *)
(* kind once and creates what it finds; the *Watch functions then start an *)
(* informer per kind on the real cluster, whose handlers repeat what       *)
(* happens there on the copy.  Every informer is a goroutine of its own,   *)
(* may be late, and may lose its connection and list again.                *)
(*                                                                         *)
(* An object is a name; what a name stands for has a state and a version.  *)
(* A node or a storage object that exists is "running".  Nobody else       *)
(* changes the copies here (NodePool has those who do).                    *)
(***************************************************************************)
EXTENDS Naturals, Sequences, FiniteSetsExt

CONSTANTS Pods, Nodes, Storage,  \* the objects of each kind
          MaxChanges,            \* bound on changes in the real cluster
          MaxLosses              \* bound on lost connections

Objects == Pods \cup Nodes \cup Storage

ASSUME KindAssumption ==
  Pods \cap Nodes = {} /\ Pods \cap Storage = {} /\ Nodes \cap Storage = {}

VARIABLES
  real,      \* objects in the real cluster
  mirror,    \* objects in kubesim's API store
  copied,    \* how many kinds SyncWithClient has copied
  watching,  \* kinds whose informer has made its first list
  feed,      \* events an informer has still to handle, per object
  known,     \* what the informer last handled, per object
  losses     \* connections lost

vars == <<real, mirror, copied, watching, feed, known, losses>>

Kinds == <<Pods, Nodes, Storage>>
Watches == {Kinds[i] : i \in 1..3}

None == [at |-> "gone", ver |-> 0]
Here(x) == x.at \notin {"gone", "lost"}

(* What can follow what in the real cluster.  A nominated pod waits for    *)
(* the pods it preempts; a pod is bound when its node is known, and        *)
(* leaves the phase Pending when it runs there.                            *)
Follow(o, at) ==
  CASE at = "gone" -> IF o \in Pods THEN {"pending", "bound"} ELSE {"running"}
    [] at = "pending" -> {"nominated", "bound", "gone"}
    [] at = "nominated" -> {"pending", "bound", "gone"}
    [] OTHER -> {"running", "gone"}

States(o) ==
  IF o \in Pods THEN {"gone", "pending", "nominated", "bound", "running"}
                ELSE {"gone", "running"}

Init ==
  /\ real \in [Objects -> [at : UNION {States(o) : o \in Objects}, ver : {1}]]
  /\ \A o \in Objects : real[o].at \in States(o)
  /\ mirror = [o \in Objects |-> None]
  /\ copied = 0
  /\ watching = {}
  /\ feed = [o \in Objects |-> << >>]
  /\ known = [o \in Objects |-> None]
  /\ losses = 0

-----------------------------------------------------------------------------
(* The real cluster.  A watch that has started hears of every change.      *)
Watched(o) == \E K \in watching : o \in K

Changes == MapThenSumSet(LAMBDA o : real[o].ver - 1, Objects)

Change(o) ==
  /\ Changes < MaxChanges
  /\ \E s \in Follow(o, real[o].at) :
       LET x == [at |-> s, ver |-> real[o].ver + 1]
       IN  /\ real' = [real EXCEPT ![o] = x]
           /\ feed' = IF Watched(o) THEN [feed EXCEPT ![o] = Append(@, x)] ELSE feed
  /\ UNCHANGED <<mirror, copied, watching, known, losses>>

-----------------------------------------------------------------------------
(* SyncWithClient: one kind after the other, pods first; of the pods those *)
(* that are not in phase Pending.                                          *)
Copies(o, x) == IF o \in Pods THEN x.at = "running" ELSE Here(x)

Sync ==
  /\ copied < 3
  /\ mirror' = [o \in Objects |->
                  IF o \in Kinds[copied + 1] /\ Copies(o, real[o]) THEN real[o] ELSE mirror[o]]
  /\ copied' = copied + 1
  /\ UNCHANGED <<real, watching, feed, known, losses>>

(* The first list of an informer: everything is new to it.                 *)
MutantStart(K) ==
  /\ K \in Watches \ watching
  /\ watching' = watching \cup {K}
  /\ feed' = [o \in Objects |->
                IF o \in K /\ Here(real[o]) THEN <<real[o]>> ELSE feed[o]]
  /\ UNCHANGED <<real, mirror, copied, known, losses>>

Start(K) ==
  /\ copied = 3
  /\ K \in Watches \ watching
  /\ watching' = watching \cup {K}
  /\ feed' = [o \in Objects |->
                IF o \in K /\ Here(real[o]) THEN <<real[o]>> ELSE feed[o]]
  /\ UNCHANGED <<real, mirror, copied, known, losses>>

-----------------------------------------------------------------------------
(* The handlers: the copy c after the informer's object has gone from old  *)
(* to new.  AddFunc leaves a copy that exists as it is; an update of one   *)
(* that does not exist is an error, which is logged.                       *)
MutantAdded(c, new) == IF Here(c) THEN new ELSE c
Added(c, new) == IF Here(c) THEN c ELSE new
Updated(c, new) == IF Here(c) THEN new ELSE c

(* The watches of volumes, claims, storage classes, CSI nodes, CSI drivers *)
(* and attachments have no UpdateFunc.                                     *)
MutantStorage(c, old, new) == IF ~Here(old) /\ Here(new) THEN Added(c, new) ELSE c
StorageHandler(c, old, new) ==
  CASE ~Here(old) /\ Here(new) -> Added(c, new)
    [] Here(old) /\ ~Here(new) -> None
    [] OTHER -> c

MutantNode(c, old, new) == StorageHandler(c, old, new)
NodeHandler(c, old, new) ==
  IF Here(old) /\ Here(new) THEN Updated(c, new) ELSE StorageHandler(c, old, new)

(* The filter of PodWatch: a pod with a node, or with a nomination.        *)
Placed(x) == x.at \in {"nominated", "bound", "running"}

MutantPod(c, old, new) ==
  CASE Placed(old) /\ ~Here(new) -> None
    [] Placed(old) /\ Here(new) -> Updated(c, new)
    [] ~Placed(old) /\ Placed(new) -> Added(c, new)
    [] OTHER -> c
PodHandler(c, old, new) ==
  CASE Placed(old) /\ Placed(new) -> Updated(c, new)
    [] ~Placed(old) /\ Placed(new) -> Added(c, new)
    [] Placed(old) /\ ~Placed(new) -> None
    [] OTHER -> c

Handler(o, c, old, new) ==
  CASE o \in Pods -> PodHandler(c, old, new)
    [] o \in Nodes -> NodeHandler(c, old, new)
    [] OTHER -> StorageHandler(c, old, new)

(* A deletion that was missed comes as DeletedFinalStateUnknown, which     *)
(* passes the filter and fails the type assertion in DeleteFunc.  An       *)
(* object that a later list shows unchanged may not be announced.          *)
Handle(o) ==
  /\ feed[o] # << >>
  /\ LET new == Head(feed[o])
     IN  /\ known' = [known EXCEPT ![o] = IF Here(new) THEN new ELSE None]
         /\ \/ mirror' = [mirror EXCEPT ![o] = IF new.at = "lost" THEN @
                                               ELSE Handler(o, @, known[o], new)]
            \/ new = known[o] /\ mirror' = mirror
  /\ feed' = [feed EXCEPT ![o] = Tail(@)]
  /\ UNCHANGED <<real, copied, watching, losses>>

(* Every resyncPeriod the informer announces what it knows as an update.   *)
(* PodWatch compares the addresses of the two specs, which are then the    *)
(* same, and does nothing.                                                 *)
Resync(o) ==
  /\ o \in Nodes
  /\ feed[o] = << >>
  /\ Here(known[o])
  /\ mirror' = [mirror EXCEPT ![o] = NodeHandler(@, known[o], known[o])]
  /\ UNCHANGED <<real, copied, watching, feed, known, losses>>

(* A watch breaks: what it has not delivered yet is lost, the informer     *)
(* lists again and compares.  It misses only what it has taken from its    *)
(* queue, of which the kept events may be the first few: the deletion of   *)
(* an object it has still to hear of goes unheard.                         *)
Latest(o, kept) == IF kept = << >> THEN known[o] ELSE kept[Len(kept)]
MayNotMiss(o, kept) == ~Here(known[o]) \/ \E i \in DOMAIN kept : ~Here(kept[i])

Relisted(o, kept, missed) ==
  CASE Here(real[o]) -> Append(kept, real[o])
    [] ~Here(real[o]) /\ Here(Latest(o, kept)) /\ (missed \/ ~MayNotMiss(o, kept)) ->
         Append(kept, [at |-> "lost", ver |-> 0])
    [] OTHER -> kept

Reconnect(K) ==
  /\ K \in watching
  /\ losses < MaxLosses
  /\ losses' = losses + 1
  /\ \E kept \in [K -> 0..Max({0} \cup {Len(feed[o]) : o \in K})], M \in SUBSET K :
       /\ \A o \in K : kept[o] <= Len(feed[o])
       /\ feed' = [o \in Objects |->
                     IF o \in K THEN Relisted(o, SubSeq(feed[o], 1, kept[o]), o \in M)
                                ELSE feed[o]]
  /\ UNCHANGED <<real, mirror, copied, watching, known>>

-----------------------------------------------------------------------------
Next ==
  \/ Sync
  \/ \E K \in Watches : Start(K) \/ Reconnect(K)
  \/ \E o \in Objects : Change(o) \/ Handle(o) \/ Resync(o)

Spec == Init /\ [][Next]_vars

(* Start-up goes on; an informer handles what has come and resynchronises. *)
Fairness ==
  /\ WF_vars(Sync)
  /\ \A K \in Watches : WF_vars(Start(K))
  /\ \A o \in Objects : WF_vars(Handle(o)) /\ WF_vars(Resync(o))
FairSpec == Spec /\ Fairness

-----------------------------------------------------------------------------
Record == [at : {"gone", "pending", "nominated", "bound", "running"}, ver : Nat]
Event == Record \cup {[at |-> "lost", ver |-> 0]}

(* Types; no informer knows of anything before it has made its list, and   *)
(* no lost deletion is taken for an object.                                *)
TypeOK ==
  /\ real \in [Objects -> Record] /\ mirror \in [Objects -> Record]
  /\ known \in [Objects -> Record] /\ feed \in [Objects -> Seq(Event)]
  /\ copied \in 0..3 /\ watching \subseteq Watches /\ losses \in Nat
  /\ watching # {} => copied = 3
  /\ \A o \in Objects : ~Watched(o) => known[o] = None /\ feed[o] = << >>

(* A pod for which the real scheduler has neither found nor cleared a node *)
(* never gets into the copy, where kubesim's scheduler would place it      *)
(* (filter at 651-657, phase test at 181); a nominated one does.           *)
CopiesArePlaced == \A o \in Pods : Here(mirror[o]) => Placed(mirror[o])

(* What an informer has handled and what its filter passes has a copy, so  *)
(* UpdateFunc, which does not create, always finds one.                    *)
Selected(o, x) == IF o \in Pods THEN Placed(x) ELSE Here(x)
KnownIsMirrored == \A o \in Objects : Selected(o, known[o]) => Here(mirror[o])

(* Whatever stays in the cluster is in the copy in the end, and nodes, on  *)
(* which all placements depend, with their latest version, though watches  *)
(* start late, break, and AddFunc does not refresh (613-635).              *)
WhatStaysIsMirrored ==
  \A o \in Objects :
    <>[](Selected(o, real[o]) => Here(mirror[o]) /\ (o \in Nodes => mirror[o] = real[o]))

(* For an object that does not change before its watch starts, and if no   *)
(* connection breaks, the copy ends as the cluster does: a pod or a node   *)
(* with its latest version, nothing that is gone or not placed (593-702).  *)
Undisturbed(o) == losses = 0 /\ (Watched(o) \/ real[o].ver = 1)

MirrorConverges ==
  \A o \in Objects :
    []Undisturbed(o) =>
      <>[](IF Selected(o, real[o])
             THEN Here(mirror[o]) /\ (o \notin Storage => mirror[o] = real[o])
             ELSE ~Here(mirror[o]))

=============================================================================
