--------------------------- MODULE PlacementProofs ---------------------------
(***************************************************************************)
(* Where the pods and the jobs are.                                        *)
(*                                                                         *)
(* No node is overcommitted, for any cluster and any jobs.  The scheduler  *)
(* decides from its cache, which may lag behind the API by any amount; it  *)
(* is safe because the cache lags on one side only: it holds every bound   *)
(* pod, and possibly pods that are gone.                                   *)
(*                                                                         *)
(* What is reported is true, and what a job leaves behind is nothing: the  *)
(* pods recorded are numbered in order, the pod in hand is the next one,   *)
(* and the engine is at work only while the worker waits for it.           *)
(*                                                                         *)
(* What a client is answered is the job: Kubesim implements JobService.    *)
(***************************************************************************)
EXTENDS AppsEmulatorProofs

CacheCovers ==
  /\ IsFiniteSet(cache) /\ IsFiniteSet(nominated)
  /\ bound \subseteq cache
  /\ \A x \in bound : x[1] \in store
  /\ \A b \in binding : b.at = "update" /\ b.pod \in store => <<b.pod, b.node>> \in cache

CacheFits == \A n \in Node : Cardinality(PlacedOn(cache, n)) <= Slots[n]

CacheInv == CacheCovers /\ CacheFits

(* A pod about to be created is not one that is being bound already.       *)
NextIsNew ==
  (caller.at = "create" \/ \E b \in binding : b.at = "decide")
    => \A b \in binding : b.at = "update" => b.pod # NextPod

-----------------------------------------------------------------------------
(* Fewer placements take fewer slots.                                      *)
LEMMA FewerPlaced ==
  ASSUME NEW S, NEW T \in SUBSET S, IsFiniteSet(S), NEW n
  PROVE  /\ IsFiniteSet(PlacedOn(S, n)) /\ IsFiniteSet(PlacedOn(T, n))
         /\ Cardinality(PlacedOn(T, n)) \in Nat /\ Cardinality(PlacedOn(S, n)) \in Nat
         /\ Cardinality(PlacedOn(T, n)) <= Cardinality(PlacedOn(S, n))
<1>1. PlacedOn(S, n) \subseteq S /\ PlacedOn(T, n) \subseteq PlacedOn(S, n)
  BY DEF PlacedOn
<1>2. IsFiniteSet(PlacedOn(S, n))
  BY <1>1, FS_Subset
<1>3. QED
  BY <1>1, <1>2, FS_Subset, FS_CardinalityType

LEMMA OneMoreElement ==
  ASSUME NEW S, IsFiniteSet(S), NEW x
  PROVE  Cardinality(S \cup {x}) \in Nat /\ Cardinality(S \cup {x}) <= Cardinality(S) + 1
<1>1. Cardinality(S) \in Nat
  BY FS_CardinalityType
<1>2. QED
  BY <1>1, FS_AddElement

(* A placement takes at most one slot, and only on its own node.           *)
LEMMA OneMorePlaced ==
  ASSUME NEW S, IsFiniteSet(S), NEW p, NEW m, NEW n
  PROVE  /\ n # m => PlacedOn(S \cup {<<p, m>>}, n) = PlacedOn(S, n)
         /\ Cardinality(PlacedOn(S \cup {<<p, m>>}, m)) <= Cardinality(PlacedOn(S, m)) + 1
<1>1. n # m => PlacedOn(S \cup {<<p, m>>}, n) = PlacedOn(S, n)
  BY DEF PlacedOn
<1>2. PlacedOn(S \cup {<<p, m>>}, m) = PlacedOn(S, m) \cup {<<p, m>>}
  BY DEF PlacedOn
<1>3. IsFiniteSet(PlacedOn(S, m)) /\ Cardinality(PlacedOn(S, m)) \in Nat
  BY FewerPlaced
<1>4. Cardinality(PlacedOn(S, m) \cup {<<p, m>>}) <= Cardinality(PlacedOn(S, m)) + 1
  BY <1>3, OneMoreElement
<1>5. QED
  BY <1>1, <1>2, <1>4

(* Fewer placements in the cache still fit.                                *)
LEMMA ShrunkCacheFits ==
  ASSUME CacheInv, cache' \subseteq cache PROVE CacheFits' /\ IsFiniteSet(cache')
<1>1. IsFiniteSet(cache')
  BY FS_Subset DEF CacheInv, CacheCovers
<1>2. ASSUME NEW n \in Node PROVE Cardinality(PlacedOn(cache', n)) <= Slots[n]
  <2>1. /\ Cardinality(PlacedOn(cache', n)) <= Cardinality(PlacedOn(cache, n))
        /\ Cardinality(PlacedOn(cache', n)) \in Nat /\ Cardinality(PlacedOn(cache, n)) \in Nat
    BY FewerPlaced DEF CacheInv, CacheCovers
  <2>2. Cardinality(PlacedOn(cache, n)) <= Slots[n] /\ Slots[n] \in Nat
    BY SlotsAssumption DEF CacheInv, CacheFits
  <2>3. QED
    BY <2>1, <2>2
<1>3. CacheFits'
  BY <1>2 DEF CacheFits, PlacedOn
<1>4. QED
  BY <1>1, <1>3

(* Steps that leave cache and bindings alone and delete or create pods.    *)
LEMMA FrameKeepsCache ==
  ASSUME CacheInv, UNCHANGED cache, IsFiniteSet(nominated) => IsFiniteSet(nominated'),
         \A b \in binding' : b.at = "update" => b \in binding,
         bound' \subseteq bound,
         \A x \in bound' : x[1] \in store => x[1] \in store',
         \A b \in binding : b.at = "update" /\ b.pod \in store' => b.pod \in store
  PROVE  CacheInv'
<1>1. CacheFits' /\ IsFiniteSet(cache')
  BY ShrunkCacheFits
<1>2. CacheCovers'
  BY <1>1 DEF CacheInv, CacheCovers
<1>3. QED
  BY <1>1, <1>2 DEF CacheInv

LEMMA InitCache == ASSUME Init PROVE CacheInv
<1>1. cache = Mirrored /\ bound = Mirrored /\ nominated = {} /\ binding = {}
      /\ store = PodsOf(Mirrored)
  BY DEF Init, EngineInit
<1>2. CacheFits
  BY <1>1, MirroredAssumption DEF CacheFits
<1>3. \A x \in Mirrored : x[1] \in PodsOf(Mirrored)
  BY DEF PodsOf
<1>4. IsFiniteSet(cache) /\ IsFiniteSet(nominated)
  BY <1>1, MirroredAssumption, FS_EmptySet
<1>5. QED
  BY <1>1, <1>2, <1>3, <1>4 DEF CacheInv, CacheCovers

(* Preemption nominates the rejected pod to one node at most.              *)
LEMMA PreemptNominates ==
  ASSUME NEW p, NEW N, Preempt(p, N), IsFiniteSet(nominated)
  PROVE  IsFiniteSet(nominated')
<1>1. nominated' = nominated \/ \E n : nominated' = nominated \cup {<<p, n>>}
  BY DEF Preempt, Evict
<1>2. QED
  BY <1>1, FS_AddElement

(* What counts against room for a pod holds the cache: where the scheduler *)
(* finds room, the cache has it.                                           *)
LEMMA RoomInCache ==
  ASSUME CacheCovers, NEW p, NEW m \in Node, m \in Feasible(Claims(p), p)
  PROVE  Cardinality(PlacedOn(cache, m)) < Slots[m]
<1> DEFINE claimed == {x \in nominated : x[1] # p /\ x[1].priority >= p.priority}
<1>1. IsFiniteSet(claimed)
  BY FS_Subset DEF CacheCovers
<1>2. IsFiniteSet(Claims(p)) /\ cache \subseteq Claims(p)
  BY <1>1, FS_Union DEF CacheCovers, Claims
<1>3. /\ Cardinality(PlacedOn(cache, m)) <= Cardinality(PlacedOn(Claims(p), m))
      /\ Cardinality(PlacedOn(cache, m)) \in Nat
      /\ Cardinality(PlacedOn(Claims(p), m)) \in Nat
  BY <1>2, FewerPlaced
<1>4. Cardinality(PlacedOn(Claims(p), m)) < Slots[m] /\ Slots[m] \in Nat
  BY SlotsAssumption DEF Feasible, HasRoom
<1>5. QED
  BY <1>3, <1>4

(* assume() adds a placement only where the cache shows room.              *)
LEMMA AssumeKeepsCache ==
  ASSUME CacheInv, NEW p \in activeQ, NEW m \in Node, ScheduleFit(p, m)
  PROVE  CacheInv'
<1>1. /\ cache' = cache \cup {<<p, m>>} /\ IsFiniteSet(cache)
      /\ Cardinality(PlacedOn(cache, m)) < Slots[m]
      /\ bound' = bound /\ store' = store
  BY RoomInCache DEF ScheduleFit, CacheInv, CacheCovers
<1>2. IsFiniteSet(cache') /\ IsFiniteSet(nominated')
  <2>1. nominated' \subseteq nominated
    BY DEF ScheduleFit
  <2>2. QED
    BY <1>1, <2>1, FS_AddElement, FS_Subset DEF CacheInv, CacheCovers
<1>3. ASSUME NEW n \in Node PROVE Cardinality(PlacedOn(cache', n)) <= Slots[n]
  <2>1. Slots[n] \in Nat /\ Cardinality(PlacedOn(cache', n)) \in Nat
    BY <1>2, SlotsAssumption, FewerPlaced
  <2>2. CASE n = m
    <3>1. Cardinality(PlacedOn(cache', m)) <= Cardinality(PlacedOn(cache, m)) + 1
      BY <1>1, OneMorePlaced
    <3>2. Cardinality(PlacedOn(cache, m)) \in Nat
      BY <1>1, FewerPlaced
    <3>3. QED
      BY <1>1, <2>1, <2>2, <3>1, <3>2
  <2>3. CASE n # m
    <3>1. PlacedOn(cache', n) = PlacedOn(cache, n)
      BY <1>1, <2>3 DEF PlacedOn
    <3>2. QED
      BY <3>1 DEF CacheInv, CacheFits
  <2>4. QED
    BY <2>2, <2>3
<1>4. CacheFits'
  BY <1>3 DEF CacheFits, PlacedOn
<1>5. \A b \in binding' : b.at = "update" /\ b.pod \in store' => <<b.pod, b.node>> \in cache'
  BY <1>1 DEF ScheduleFit, CacheInv, CacheCovers
<1>6. QED
  BY <1>1, <1>2, <1>4, <1>5 DEF CacheInv, CacheCovers

(* Bind makes an assumed placement real, or forgets it with its pod.       *)
LEMMA BindKeepsCache ==
  ASSUME binding \subseteq BindingStates, CacheInv, NEW b \in binding, BindUpdate(b)
  PROVE  CacheInv'
<1>1. b.at = "update" /\ b \in BindingStates
  BY DEF BindUpdate
<1>2. /\ store' = store /\ (\A x \in bound : x \in cache /\ x[1] \in store)
      /\ \A c \in binding : c.at = "update" /\ c.pod \in store => <<c.pod, c.node>> \in cache
  BY DEF BindUpdate, CacheInv, CacheCovers
<1>3. CASE b.pod \in store
  <2>1. /\ cache' = cache /\ nominated' = nominated
        /\ bound' = {x \in bound : x[1] # b.pod} \cup {<<b.pod, b.node>>}
    BY <1>3 DEF BindUpdate
  <2>2. \A c \in binding' : c.at = "update" => c \in binding
    BY <1>1, <1>3 DEF BindUpdate, AdvanceBinding, BindingStates
  <2>3. CacheFits' /\ IsFiniteSet(cache')
    BY <2>1, ShrunkCacheFits
  <2>4. QED
    BY <1>1, <1>2, <1>3, <2>1, <2>2, <2>3 DEF CacheInv, CacheCovers
<1>4. CASE b.pod \notin store
  <2>1. cache' = cache \ {<<b.pod, b.node>>} /\ bound' = bound /\ binding' \subseteq binding
        /\ nominated' = nominated
    BY <1>1, <1>4 DEF BindUpdate
  <2>2. CacheFits' /\ IsFiniteSet(cache')
    BY <2>1, ShrunkCacheFits
  <2>3. \A x : x[1] \in store => x # <<b.pod, b.node>>
    BY <1>4
  <2>4. \A c \in binding' : c.at = "update" /\ c.pod \in store => <<c.pod, c.node>> \in cache'
    BY <1>2, <1>4, <2>1
  <2>5. QED
    BY <1>2, <2>1, <2>2, <2>3, <2>4 DEF CacheInv, CacheCovers
<1>5. QED
  BY <1>3, <1>4

LEMMA WorkerKeepsCache ==
  ASSUME CacheInv, Worker PROVE CacheInv'
<1>1. ASSUME NEW i \in DOMAIN queue, PopJob(i) PROVE CacheInv'
  BY <1>1, FrameKeepsCache DEF PopJob, engineVars
<1>2. CASE StartApp
  BY <1>2, FrameKeepsCache DEF StartApp, UpdatePodRequest, clusterVars
<1>3. CASE DropJob \/ ReportApp \/ ResetStatus \/ Publish
  BY <1>3, FrameKeepsCache DEF DropJob, ReportApp, ResetStatus, Publish, clusterVars
<1>4. CASE ListPods
  BY <1>4, FrameKeepsCache DEF ListPods, engineVars
<1>5. ASSUME NEW p \in toClean, CleanPod(p) PROVE CacheInv'
  BY <1>5, FrameKeepsCache DEF CleanPod, DeletePod, DeletePods
<1>6. QED
  BY <1>1, <1>2, <1>3, <1>4, <1>5 DEF Worker

LEMMA CallerKeepsCache ==
  ASSUME CacheInv, NextIsNew, Caller PROVE CacheInv'
<1>1. ASSUME NEW ok \in CreateOutcomes, SchedulerPodStart(ok) PROVE CacheInv'
  BY <1>1, FrameKeepsCache DEF SchedulerPodStart, CreateNextPod, NextIsNew
<1>2. CASE SchedulerPodReturn
  BY <1>2, FrameKeepsCache DEF SchedulerPodReturn, clusterVars
<1>3. QED
  BY <1>1, <1>2 DEF Caller

LEMMA SchedulerKeepsCache ==
  ASSUME CacheInv, Cycle PROVE CacheInv'
<1>1. ASSUME NEW p \in activeQ, NEW N \in SUBSET Node, Reject(p, N) PROVE CacheInv'
  <2>1. Preempt(p, N) /\ UNCHANGED <<cache, binding>>
    BY <1>1 DEF Reject
  <2>2. IsFiniteSet(nominated) => IsFiniteSet(nominated')
    BY <2>1, PreemptNominates
  <2>3. PICK D : DeletePods(D)
    BY <2>1, PreemptDeletes
  <2>4. QED
    BY <2>1, <2>2, <2>3, FrameKeepsCache DEF DeletePods
<1>2. QED
  BY <1>1, AssumeKeepsCache DEF Cycle

LEMMA BinderKeepsCache ==
  ASSUME binding \subseteq BindingStates, CacheInv, NextIsNew, Binder PROVE CacheInv'
<1>0. ASSUME NEW b \in binding
      PROVE  b \in BindingStates
  OBVIOUS
<1>1. ASSUME NEW b \in binding, BindRecord(b) PROVE CacheInv'
  <2>1. [b EXCEPT !.at = "decide"].at = "decide"
    BY <1>0 DEF BindingStates
  <2>2. QED
    BY <1>1, <2>1, FrameKeepsCache DEF BindRecord, AdvanceBinding, clusterVars
<1>2. ASSUME NEW b \in binding, BindLast(b) PROVE CacheInv'
  <2>1. [b EXCEPT !.at = "send", !.ch = stop].at = "send"
    BY <1>0 DEF BindingStates
  <2>2. QED
    BY <1>2, <2>1, FrameKeepsCache DEF BindLast, clusterVars
<1>3. ASSUME NEW b \in binding, BindNext(b) PROVE CacheInv'
  BY <1>3, FrameKeepsCache DEF BindNext, CreateNextPod, NextIsNew
<1>4. ASSUME NEW b \in binding, BindSend(b) PROVE CacheInv'
  BY <1>4, FrameKeepsCache DEF BindSend, clusterVars
<1>5. QED
  BY <1>1, <1>2, <1>3, <1>4, BindKeepsCache DEF Binder

LEMMA HandlerKeepsCache ==
  ASSUME CacheInv, Handler PROVE CacheInv'
<1>1. CASE HandlerStop \/ HandlerSend
  BY <1>1, FrameKeepsCache DEF HandlerStop, HandlerSend, clusterVars
<1>2. CASE HandlerClean
  BY <1>2, FrameKeepsCache DEF HandlerClean, DeletePod, DeletePods
<1>3. QED
  BY <1>1, <1>2 DEF Handler

(* The informer forgets only pods that are gone.                           *)
LEMMA InformerKeepsCache ==
  ASSUME CacheInv, Informer PROVE CacheInv'
<1>1. ASSUME NEW x \in nominated, NominationForget(x) PROVE CacheInv'
  <2>1. nominated' \subseteq nominated
    BY <1>1 DEF NominationForget
  <2>2. QED
    BY <1>1, <2>1, FS_Subset, FrameKeepsCache DEF NominationForget
<1>2. ASSUME NEW x \in cache, CacheForget(x) PROVE CacheInv'
  <2>1. CacheFits' /\ IsFiniteSet(cache')
    BY <1>2, ShrunkCacheFits DEF CacheForget
  <2>2. UNCHANGED <<store, bound, binding, nominated>> /\ cache' = cache \ {x}
        /\ x[1] \notin store
    BY <1>2 DEF CacheForget
  <2>3. ASSUME NEW b \in binding, b.pod \in store PROVE <<b.pod, b.node>> # x
    BY <2>2, <2>3
  <2>4. CacheCovers'
    BY <2>1, <2>2, <2>3 DEF CacheInv, CacheCovers
  <2>5. QED
    BY <2>1, <2>4 DEF CacheInv
<1>3. QED
  BY <1>1, <1>2 DEF Informer

(* A single pod in hand is not yet bound when the next one is made.        *)
LEMMA BatonMakesNew == ASSUME BatonInv PROVE NextIsNew
<1>1. ASSUME caller.at = "create" PROVE binding = {}
  BY <1>1 DEF BatonInv, Baton, Quiet, NoBinding
<1>2. ASSUME NEW b \in binding, b.at = "decide" PROVE binding = {b}
  BY OnlyBinding
<1>3. QED
  BY <1>1, <1>2 DEF NextIsNew

LEMMA JobsKeepCache ==
  ASSUME CacheInv, Client \/ PollEmpty \/ Worker \/ UNCHANGED vars
  PROVE  CacheInv'
<1>1. CASE Client \/ PollEmpty \/ UNCHANGED vars
  <2>1. UNCHANGED engineVars
    BY <1>1 DEF Client, Submit, PollEmpty, vars
  <2>2. QED
    BY <2>1, FrameKeepsCache DEF engineVars
<1>2. QED
  BY <1>1, WorkerKeepsCache

LEMMA EngineKeepsCache ==
  ASSUME binding \subseteq BindingStates, CacheInv, NextIsNew, Engine
  PROVE  CacheInv'
BY CallerKeepsCache, SchedulerKeepsCache, SchedulerCycles, BinderKeepsCache,
   HandlerKeepsCache, InformerKeepsCache DEF Engine

LEMMA StepKeepsCache ==
  ASSUME BatonInv, CacheInv, [Next]_vars PROVE CacheInv'
<1>1. binding \subseteq BindingStates
  BY DEF BatonInv, Typed, TypeOK, EngineTypeOK
<1>2. QED
  BY <1>1, JobsKeepCache, EngineKeepsCache, BatonMakesNew DEF Next, EngineStep

LEMMA CacheIsEnough == ASSUME CacheInv PROVE NoOvercommit
<1>1. ASSUME NEW n \in Node PROVE Cardinality(PlacedOn(bound, n)) <= Slots[n]
  <2>1. /\ Cardinality(PlacedOn(bound, n)) <= Cardinality(PlacedOn(cache, n))
        /\ Cardinality(PlacedOn(bound, n)) \in Nat /\ Cardinality(PlacedOn(cache, n)) \in Nat
    BY FewerPlaced DEF CacheInv, CacheCovers
  <2>2. Cardinality(PlacedOn(cache, n)) <= Slots[n] /\ Slots[n] \in Nat
    BY SlotsAssumption DEF CacheInv, CacheFits
  <2>3. QED
    BY <2>1, <2>2
<1>2. QED
  BY <1>1 DEF NoOvercommit

(* No node ever holds more simulated pods than it has slots (Bind:704-734).*)
THEOREM NeverOvercommitted == Spec => []NoOvercommit
<1>1. Init => CacheInv
  BY InitCache
<1>2. BatonInv /\ CacheInv /\ [Next]_vars => CacheInv'
  BY StepKeepsCache
<1>3. CacheInv => NoOvercommit
  BY CacheIsEnough
<1>4. QED
  BY <1>1, <1>2, <1>3, BatonHolds, PTL DEF Spec

-----------------------------------------------------------------------------
(* What the client is told about.  The replicas recorded so far are        *)
(* numbered in order; the pod in hand, wherever it is, is the next one, so *)
(* neither the handler nor CleanPod deletes one that is being reported.    *)
Recorded ==
  \A i \in DOMAIN status.pods :
    /\ status.pods[i][1].run = stop
    /\ status.pods[i][1].index = i
    /\ status.pods[i][1].priority = simulatedPod.priority

IsCurrent(p) ==
  /\ p.run = stop
  /\ p.priority = simulatedPod.priority
  /\ p.index = Len(status.pods) + 1
  /\ simulated = Len(status.pods) + 1

InHand ==
  /\ \A p \in activeQ : IsCurrent(p)
  /\ \A b \in binding : /\ b.at \in {"update", "record"} => IsCurrent(b.pod)
                        /\ b.at = "decide" => simulated = Len(status.pods)
  /\ \A i \in DOMAIN events : IsCurrent(events[i])
  /\ handler.at = "clean" => IsCurrent(handler.pod)

(* The engine is at work only between StartApp and ReportApp, and what it  *)
(* has recorded is dropped before the next app or the clean-up.            *)
AtWork == caller.at = "idle" <=> pc # "schedule"

NothingRecorded ==
  /\ pc \notin {"schedule", "reset"} => status.pods = << >>
  /\ caller.at \in {"create", "failed"} => status.pods = << >>
  /\ caller.at = "create" => simulated = 0

OrderInv == Recorded /\ InHand /\ AtWork /\ NothingRecorded

(* While nobody else deletes pods, those recorded stay where they are.     *)
InPlace ==
  /\ \A i \in DOMAIN status.pods : status.pods[i] \in bound
  /\ \A b \in binding : b.at = "record" => <<b.pod, b.node>> \in bound

StatusInv == OrderInv /\ InPlace

(* While no Create fails, the worker leaves nothing behind.                *)
CleanInv ==
  /\ caller.at # "failed"
  /\ pc = "delete" => toClean \subseteq store
  /\ pc \in {"publish", "pop"} => Simulated = {}

-----------------------------------------------------------------------------
(* Types, and the sequence facts that BindRecord needs.                    *)
LEMMA EngineTypes ==
  ASSUME BatonInv
  PROVE  /\ status \in [pods : Seq(Placement), reason : Reason]
         /\ Len(status.pods) \in Nat /\ DOMAIN status.pods = 1..Len(status.pods)
         /\ caller \in CallerStates /\ binding \subseteq BindingStates
         /\ handler \in HandlerStates /\ stop \in Nat /\ simulated \in Nat
         /\ store \subseteq Pod /\ bound \subseteq Placement
BY DEF BatonInv, Typed, TypeOK, EngineTypeOK

(* Only a waiting caller leaves anybody something to do.                   *)
LEMMA IdleEngine ==
  ASSUME BatonInv, caller.at # "wait"
  PROVE  activeQ = {} /\ binding = {} /\ events = << >> /\ handler.at = "idle"
BY DEF BatonInv, Baton, Quiet, NoPending, NoBinding, NoEvent, HandlerIdle

(* Steps that leave the reports alone, and hand at most the same pod on.   *)
LEMMA FrameKeepsOrder ==
  ASSUME OrderInv, UNCHANGED <<requestVars, pc>>,
         status'.pods = status.pods,
         AtWork', caller'.at \in {"create", "failed"} => caller'.at = caller.at,
         InHand'
  PROVE  OrderInv'
BY DEF OrderInv, Recorded, NothingRecorded, requestVars

(* Steps that leave the pods in hand where they are.                       *)
LEMMA SameHands ==
  ASSUME InHand, UNCHANGED <<requestVars, activeQ, binding, events>>,
         status'.pods = status.pods,
         handler'.at = "clean" => handler' = handler
  PROVE  InHand'
BY DEF InHand, IsCurrent, requestVars

(* A cluster without pods in hand and without reports.                     *)
LEMMA NobodyInHand ==
  ASSUME activeQ = {}, binding = {}, events = << >>, handler.at = "idle"
  PROVE  InHand
BY DEF InHand

LEMMA NothingToReport == ASSUME status.pods = << >> PROVE Recorded
BY DEF Recorded

LEMMA InitOrder == ASSUME Init PROVE OrderInv
<1>1. \A r : [pods |-> << >>, reason |-> r].pods = << >>
  OBVIOUS
<1>2. status.pods = << >>
  BY <1>1, Zenon DEF Init, EngineInit
<1>3. /\ pc = "pop" /\ caller.at = "idle" /\ handler.at = "idle"
      /\ activeQ = {} /\ binding = {} /\ events = << >>
  BY DEF Init, EngineInit
<1>4. QED
  BY <1>2, <1>3, NobodyInHand, NothingToReport DEF OrderInv, AtWork, NothingRecorded

LEMMA CallerKeepsOrder ==
  ASSUME BatonInv, OrderInv, Caller, UNCHANGED pc PROVE OrderInv'
<1>0. /\ status \in [pods : Seq(Placement), reason : Reason] /\ caller \in CallerStates
      /\ caller.at # "idle" <=> pc = "schedule"
  BY EngineTypes DEF OrderInv, AtWork
<1>1. ASSUME NEW ok \in CreateOutcomes, SchedulerPodStart(ok) PROVE OrderInv'
  <2>1. /\ caller.at = "create" /\ pc = "schedule" /\ status.pods = << >> /\ simulated = 0
        /\ activeQ = {} /\ binding = {} /\ events = << >> /\ handler.at = "idle"
    BY <1>0, <1>1, IdleEngine DEF SchedulerPodStart, OrderInv, NothingRecorded
  <2>2. /\ status' = status /\ stop' = stop /\ simulated' = 1
        /\ simulatedPod' = simulatedPod /\ binding' = {} /\ events' = << >> /\ handler' = handler
        /\ caller'.at \in {"wait", "failed"}
        /\ activeQ' \subseteq {NextPod}
    BY <1>0, <1>1, <2>1 DEF SchedulerPodStart, CreateNextPod, AwaitStop, CallerStates
  <2>3. /\ NextPod.run = stop /\ NextPod.index = 1 /\ Len(<< >>) = 0
        /\ NextPod.priority = simulatedPod.priority
    BY <2>1 DEF NextPod
  <2>4. InHand'
    BY <2>1, <2>2, <2>3 DEF InHand, IsCurrent
  <2>5. AtWork' /\ NothingRecorded' /\ Recorded'
    BY <2>1, <2>2 DEF AtWork, NothingRecorded, Recorded
  <2>6. QED
    BY <2>4, <2>5 DEF OrderInv
<1>2. CASE SchedulerPodReturn
  <2>1. caller'.at = "done" /\ caller.at = "received"
    BY <1>0, <1>2 DEF SchedulerPodReturn, CallerStates
  <2>2. UNCHANGED <<requestVars, activeQ, binding, events, handler, status>>
    BY <1>2 DEF SchedulerPodReturn, clusterVars
  <2>3. AtWork'
    BY <1>0, <2>1 DEF AtWork
  <2>4. InHand'
    BY <2>2, SameHands DEF OrderInv
  <2>5. QED
    BY <2>1, <2>2, <2>3, <2>4, FrameKeepsOrder
<1>3. QED
  BY <1>1, <1>2 DEF Caller

LEMMA SchedulerKeepsOrder ==
  ASSUME BatonInv, OrderInv, Cycle, UNCHANGED pc PROVE OrderInv'
<1>1. PICK p \in activeQ : \/ \E n \in Node : ScheduleFit(p, n)
                          \/ \E N \in SUBSET Node : Reject(p, N)
  BY DEF Cycle
<1>2. /\ activeQ = {p} /\ binding = {} /\ events = << >> /\ handler.at = "idle"
      /\ IsCurrent(p)
  BY OnlyPending DEF NoBinding, NoEvent, HandlerIdle, OrderInv, InHand
<1>3. /\ UNCHANGED <<requestVars, caller, status, handler>>
      /\ activeQ' = {} /\ (IsCurrent(p))'
  BY <1>1, <1>2 DEF ScheduleFit, Reject, requestVars, IsCurrent
<1>4. AtWork'
  BY <1>3 DEF OrderInv, AtWork
<1>5. ASSUME NEW n \in Node, ScheduleFit(p, n) PROVE InHand'
  <2>1. binding' = {[pod |-> p, node |-> n, at |-> "update", ch |-> 0]} /\ events' = << >>
    BY <1>2, <1>5 DEF ScheduleFit
  <2>2. QED
    BY <1>2, <1>3, <2>1 DEF InHand
<1>6. CASE \E N \in SUBSET Node : Reject(p, N)
  <2>1. binding' = {} /\ (events' = << >> \/ events' = Append(<< >>, p))
    BY <1>2, <1>6 DEF Reject
  <2>2. Append(<< >>, p) = <<p>> /\ DOMAIN <<p>> = {1} /\ <<p>>[1] = p
    OBVIOUS
  <2>3. \A i \in DOMAIN events' : events'[i] = p
    BY <2>1, <2>2
  <2>4. QED
    BY <1>2, <1>3, <2>1, <2>3, FrameKeepsOrder, <1>4 DEF InHand
<1>7. QED
  BY <1>1, <1>3, <1>4, <1>5, <1>6, FrameKeepsOrder

(* Bind records the pod in hand and makes the next one.                    *)
LEMMA BinderKeepsOrder ==
  ASSUME BatonInv, OrderInv, Binder, UNCHANGED pc PROVE OrderInv'
<1>1. PICK b \in binding :
        \/ BindUpdate(b) \/ BindRecord(b) \/ BindLast(b) \/ BindSend(b)
        \/ BindNext(b)
  BY DEF Binder
<1>2. /\ caller.at = "wait" /\ binding = {b} /\ b \in BindingStates
      /\ activeQ = {} /\ events = << >> /\ handler.at = "idle"
  BY OnlyBinding, EngineTypes DEF NoPending, NoEvent, HandlerIdle
<1>3. /\ status \in [pods : Seq(Placement), reason : Reason] /\ caller \in CallerStates
      /\ Len(status.pods) \in Nat /\ DOMAIN status.pods = 1..Len(status.pods)
      /\ pc = "schedule" /\ Recorded
      /\ b.at \in {"update", "record"} => IsCurrent(b.pod)
      /\ b.at = "decide" => simulated = Len(status.pods)
  BY <1>2, EngineTypes DEF OrderInv, InHand, AtWork
<1>4. CASE BindUpdate(b)
  <2>1. /\ UNCHANGED <<requestVars, caller, status>>
        /\ activeQ' = {} /\ events' = << >> /\ handler' = handler
    BY <1>2, <1>4 DEF BindUpdate
  <2> DEFINE c == [b EXCEPT !.at = "record"]
  <2>2. \/ binding' = {}
        \/ binding' = {c}
    BY <1>2, <1>4 DEF BindUpdate, AdvanceBinding
  <2>3. c.pod = b.pod /\ c.node = b.node /\ c.at = "record"
    BY <1>2 DEF BindingStates
  <2> HIDE DEF c
  <2>4. IsCurrent(b.pod)
    BY <1>3, <1>4 DEF BindUpdate
  <2>5. InHand'
    BY <1>2, <2>1, <2>2, <2>3, <2>4 DEF InHand, IsCurrent, requestVars
  <2>6. QED
    BY <2>1, <2>5, FrameKeepsOrder DEF OrderInv, AtWork
<1>5. CASE BindRecord(b)
  <2>1. /\ UNCHANGED <<stop, simulated, simulatedPod, caller>>
        /\ activeQ' = {} /\ events' = << >> /\ handler' = handler
        /\ status'.pods = Append(status.pods, <<b.pod, b.node>>)
        /\ binding' = {[b EXCEPT !.at = "decide"]}
        /\ IsCurrent(b.pod)
    BY <1>2, <1>3, <1>5 DEF BindRecord, AdvanceBinding, requestVars, clusterVars
  <2>2. [b EXCEPT !.at = "decide"].at = "decide"
    BY <1>2 DEF BindingStates
  <2>3. <<b.pod, b.node>> \in Placement
    BY <1>2 DEF BindingStates, Placement
  <2>4. /\ Len(status'.pods) = Len(status.pods) + 1
        /\ DOMAIN status'.pods = 1..(Len(status.pods) + 1)
        /\ status'.pods[Len(status.pods) + 1] = <<b.pod, b.node>>
        /\ \A i \in 1..Len(status.pods) : status'.pods[i] = status.pods[i]
    BY <1>3, <2>1, <2>3, AppendProperties
  <2>5. InHand'
    BY <1>2, <2>1, <2>2, <2>4 DEF InHand, IsCurrent
  <2>6. ASSUME NEW i \in DOMAIN status'.pods
        PROVE  /\ status'.pods[i][1].run = stop
               /\ status'.pods[i][1].index = i
               /\ status'.pods[i][1].priority = simulatedPod.priority
    <3>1. CASE i \in 1..Len(status.pods)
      BY <1>3, <2>4, <3>1 DEF Recorded
    <3>2. CASE i = Len(status.pods) + 1
      BY <2>1, <2>4, <3>2 DEF IsCurrent
    <3>3. QED
      BY <1>3, <2>4, <3>1, <3>2
  <2>7. Recorded'
    BY <2>1, <2>6 DEF Recorded
  <2>8. AtWork' /\ NothingRecorded'
    BY <1>2, <1>3, <2>1 DEF AtWork, NothingRecorded
  <2>9. QED
    BY <2>5, <2>7, <2>8 DEF OrderInv
<1>6. CASE BindLast(b)
  <2>1. /\ UNCHANGED <<requestVars, caller>> /\ status'.pods = status.pods
        /\ activeQ' = {} /\ events' = << >> /\ handler' = handler
        /\ binding' = {[b EXCEPT !.at = "send", !.ch = stop]}
    BY <1>2, <1>3, <1>6 DEF BindLast, clusterVars
  <2>2. [b EXCEPT !.at = "send", !.ch = stop].at = "send"
    BY <1>2 DEF BindingStates
  <2>3. InHand'
    BY <1>2, <2>1, <2>2 DEF InHand
  <2>4. QED
    BY <2>1, <2>3, FrameKeepsOrder DEF OrderInv, AtWork
<1>7. CASE BindNext(b)
  <2>1. /\ UNCHANGED <<stop, simulatedPod, caller, status, handler>>
        /\ activeQ' \subseteq {NextPod} /\ binding' = {} /\ events' = << >>
        /\ simulated' = simulated + 1 /\ simulated = Len(status.pods)
    BY <1>2, <1>3, <1>7 DEF BindNext, CreateNextPod
  <2>2. /\ NextPod.run = stop /\ NextPod.index = Len(status.pods) + 1
        /\ NextPod.priority = simulatedPod.priority
    BY <2>1 DEF NextPod
  <2>3. InHand'
    BY <1>2, <2>1, <2>2 DEF InHand, IsCurrent
  <2>4. AtWork' /\ NothingRecorded' /\ Recorded'
    BY <1>2, <1>3, <2>1 DEF AtWork, NothingRecorded, Recorded
  <2>5. QED
    BY <2>3, <2>4 DEF OrderInv
<1>8. CASE BindSend(b)
  <2>1. /\ UNCHANGED <<requestVars, status, activeQ, events, handler>>
        /\ binding' = {}
    BY <1>2, <1>8 DEF BindSend, clusterVars
  <2>2. caller' = caller \/ caller'.at = "received"
    BY <1>3, <1>8 DEF BindSend, SendStop, CallerStates
  <2>3. InHand'
    BY <1>2, <2>1 DEF InHand
  <2>4. AtWork'
    BY <1>2, <1>3, <2>2 DEF AtWork
  <2>5. QED
    BY <2>1, <2>2, <2>3, <2>4, FrameKeepsOrder
<1>9. QED
  BY <1>1, <1>4, <1>5, <1>6, <1>7, <1>8

(* The handler deletes the pod in hand only, never a reported one.         *)
LEMMA HandlerKeepsOrder ==
  ASSUME BatonInv, OrderInv, Handler, UNCHANGED pc PROVE OrderInv'
<1>0. /\ status \in [pods : Seq(Placement), reason : Reason] /\ caller \in CallerStates
      /\ handler \in HandlerStates
      /\ Len(status.pods) \in Nat /\ DOMAIN status.pods = 1..Len(status.pods)
      /\ AtWork /\ InHand /\ Recorded
  BY EngineTypes DEF OrderInv
<1>1. CASE HandlerStop
  <2>1. /\ caller.at = "wait" /\ activeQ = {} /\ binding = {} /\ Tail(events) = << >>
        /\ events # << >>
    BY <1>1, OnlyEvent DEF HandlerStop, NoPending, NoBinding
  <2>2. IsCurrent(Head(events))
    <3>1. events \in Seq(Pod)
      BY DEF BatonInv, Typed, TypeOK, EngineTypeOK
    <3>2. 1 \in DOMAIN events /\ Head(events) = events[1]
      BY <2>1, <3>1, EmptySeq
    <3>3. QED
      BY <1>0, <3>2 DEF InHand
  <2>3. /\ UNCHANGED <<requestVars, caller>> /\ status'.pods = status.pods
        /\ activeQ' = {} /\ binding' = {} /\ events' = << >>
        /\ handler'.pod = Head(events)
    BY <1>0, <1>1, <2>1 DEF HandlerStop, HandlerStates, clusterVars
  <2>5. InHand'
    BY <2>2, <2>3 DEF InHand, IsCurrent, requestVars
  <2>6. QED
    BY <1>0, <2>3, <2>5, FrameKeepsOrder DEF AtWork
<1>2. CASE HandlerClean
  <2>1. /\ activeQ = {} /\ binding = {} /\ events = << >>
        /\ handler'.at = "send" /\ IsCurrent(handler.pod)
    BY <1>0, <1>2, OnlyHandler DEF HandlerClean, HandlerIdle, NoPending, NoBinding, NoEvent,
       InHand, HandlerStates
  <2>2. UNCHANGED <<requestVars, caller, status, activeQ, binding, events>>
    BY <1>2 DEF HandlerClean
  <2>3. InHand'
    BY <2>1, <2>2 DEF InHand
  <2>4. QED
    BY <1>0, <2>2, <2>3, FrameKeepsOrder DEF AtWork
<1>3. CASE HandlerSend
  <2>1. /\ caller.at = "wait" /\ activeQ = {} /\ binding = {} /\ events = << >>
        /\ handler'.at = "idle"
    BY <1>0, <1>3, OnlyHandler DEF HandlerSend, HandlerIdle, NoPending, NoBinding, NoEvent,
       HandlerStates
  <2>2. UNCHANGED <<requestVars, status, activeQ, binding, events>>
    BY <1>3 DEF HandlerSend, clusterVars
  <2>3. caller' = caller \/ caller'.at = "received"
    BY <1>0, <1>3 DEF HandlerSend, SendStop, CallerStates
  <2>4. InHand'
    BY <2>1, <2>2 DEF InHand
  <2>5. AtWork'
    BY <1>0, <2>1, <2>3 DEF AtWork
  <2>6. QED
    BY <2>2, <2>3, <2>4, <2>5, FrameKeepsOrder
<1>4. QED
  BY <1>1, <1>2, <1>3 DEF Handler

LEMMA WorkerKeepsOrder ==
  ASSUME BatonInv, OrderInv, Worker PROVE OrderInv'
<1>0. /\ status \in [pods : Seq(Placement), reason : Reason] /\ caller \in CallerStates
      /\ AtWork /\ InHand /\ Recorded /\ NothingRecorded
  BY EngineTypes DEF OrderInv
<1>1. ASSUME NEW i \in DOMAIN queue, PopJob(i) PROVE OrderInv'
  <2>1. UNCHANGED engineVars /\ pc = "pop" /\ pc' = "apps"
    BY <1>1 DEF PopJob
  <2>2. InHand'
    BY <1>0, <2>1, SameHands DEF engineVars, requestVars
  <2>3. QED
    BY <1>0, <2>1, <2>2 DEF engineVars, OrderInv, AtWork, Recorded, NothingRecorded
<1>2. CASE StartApp
  <2>1. /\ status.pods = << >> /\ status' = status /\ pc' = "schedule"
        /\ caller'.at = "create" /\ simulated' = 0 /\ caller.at = "idle"
    BY <1>0, <1>2 DEF StartApp, UpdatePodRequest, CallerStates, NothingRecorded
  <2>2. InHand'
    <3>1. activeQ = {} /\ binding = {} /\ events = << >> /\ handler.at = "idle"
      BY <2>1, IdleEngine
    <3>2. activeQ' = {} /\ binding' = {} /\ events' = << >> /\ handler'.at = "idle"
      BY <1>2, <3>1 DEF StartApp, UpdatePodRequest
    <3>3. QED
      BY <3>2 DEF InHand
  <2>3. QED
    BY <2>1, <2>2 DEF OrderInv, AtWork, Recorded, NothingRecorded
<1>3. CASE DropJob \/ ReportApp
  <2>1. /\ pc = "schedule" /\ caller'.at = "idle" /\ pc' \in {"pop", "reset"}
        /\ UNCHANGED <<requestVars, status, activeQ, binding, events, handler>>
        /\ pc' = "pop" => status.pods = << >>
    BY <1>0, <1>3 DEF DropJob, ReportApp, CallerStates, clusterVars, NothingRecorded
  <2>2. InHand'
    BY <1>0, <2>1, SameHands
  <2>3. QED
    BY <1>0, <2>1, <2>2 DEF OrderInv, AtWork, Recorded, NothingRecorded, requestVars
<1>4. CASE ResetStatus \/ Publish
  <2>1. /\ pc \in {"reset", "publish"} /\ pc' \in {"apps", "pop"} /\ caller' = caller
        /\ status'.pods = << >>
        /\ UNCHANGED <<activeQ, binding, events, handler>>
    BY <1>0, <1>4 DEF ResetStatus, Publish, CleanStatusPods
  <2>2. caller.at = "idle"
    BY <1>0, <2>1 DEF AtWork
  <2>3. InHand'
    BY <2>1, <2>2, IdleEngine DEF InHand
  <2>4. QED
    BY <2>1, <2>2, <2>3 DEF OrderInv, AtWork, Recorded, NothingRecorded
<1>5. CASE ListPods \/ \E p \in toClean : CleanPod(p)
  <2>1. /\ pc \in {"apps", "list", "delete"} /\ pc' \in {"list", "delete", "publish"}
        /\ UNCHANGED <<status, caller, activeQ, binding, events, handler>>
    BY <1>5, Zenon DEF ListPods, AfterList, CleanPod, engineVars
  <2>2. status.pods = << >> /\ caller.at = "idle"
    BY <1>0, <2>1 DEF NothingRecorded, AtWork
  <2>3. InHand'
    BY <2>1, <2>2, IdleEngine DEF InHand
  <2>4. QED
    BY <2>1, <2>2, <2>3 DEF OrderInv, AtWork, Recorded, NothingRecorded
<1>6. QED
  BY <1>1, <1>2, <1>3, <1>4, <1>5 DEF Worker

LEMMA SameOrder ==
  ASSUME OrderInv, UNCHANGED pc,
         UNCHANGED <<requestVars, status, caller, activeQ, binding, events, handler>>
  PROVE  OrderInv'
<1>1. InHand'
  BY SameHands DEF OrderInv
<1>2. QED
  BY <1>1 DEF OrderInv, AtWork, Recorded, NothingRecorded, requestVars

LEMMA StepKeepsOrder ==
  ASSUME BatonInv, OrderInv, [Next]_vars \/ CycleStep PROVE OrderInv'
<1>1. CASE Client \/ PollEmpty \/ UNCHANGED vars
  <2>1. UNCHANGED engineVars /\ UNCHANGED pc
    BY <1>1 DEF Client, Submit, PollEmpty, vars, workerVars
  <2>2. QED
    BY <2>1, SameOrder DEF engineVars, requestVars
<1>2. CASE Worker
  BY <1>2, WorkerKeepsOrder
<1>3. CASE EngineStep \/ CycleStep
  <2>1. UNCHANGED pc
    BY <1>3 DEF EngineStep, CycleStep, workerVars
  <2>2. CASE Informer
    BY <2>1, <2>2, SameOrder DEF Informer, CacheForget, NominationForget
  <2>3. QED
    BY <1>3, <2>1, <2>2, CallerKeepsOrder, SchedulerKeepsOrder, SchedulerCycles,
       BinderKeepsOrder, HandlerKeepsOrder DEF EngineStep, CycleStep, Engine
<1>4. QED
  BY <1>1, <1>2, <1>3 DEF Next

-----------------------------------------------------------------------------
(* Steps that unbind no recorded pod and record none.                      *)
LEMMA FrameKeepsPlace ==
  ASSUME InPlace, status'.pods = status.pods, bound \subseteq bound',
         \A b \in binding' : b.at = "record" => b \in binding
  PROVE  InPlace'
BY DEF InPlace

LEMMA NothingPlaced ==
  ASSUME status'.pods = << >>, binding' = {} PROVE InPlace'
BY DEF InPlace

LEMMA BinderKeepsPlace ==
  ASSUME BatonInv, StatusInv, Binder PROVE InPlace'
<1>1. PICK b \in binding :
        \/ BindUpdate(b) \/ BindRecord(b) \/ BindLast(b) \/ BindSend(b)
        \/ BindNext(b)
  BY DEF Binder
<1>2. /\ binding = {b} /\ b \in BindingStates
      /\ status \in [pods : Seq(Placement), reason : Reason]
      /\ Len(status.pods) \in Nat /\ DOMAIN status.pods = 1..Len(status.pods)
  BY OnlyBinding, EngineTypes
<1>3. /\ \A i \in DOMAIN status.pods : status.pods[i] \in bound
      /\ b.at = "record" => <<b.pod, b.node>> \in bound
  BY <1>2 DEF StatusInv, InPlace
<1>4. CASE BindUpdate(b)
  <2> DEFINE c == [b EXCEPT !.at = "record"]
  <2>1. \/ binding' = {} /\ bound' = bound
        \/ /\ binding' = {c}
           /\ bound' = {x \in bound : x[1] # b.pod} \cup {<<b.pod, b.node>>}
    BY <1>2, <1>4 DEF BindUpdate, AdvanceBinding
  <2>2. c.pod = b.pod /\ c.node = b.node
    BY <1>2 DEF BindingStates
  <2>3. status' = status
    BY <1>4 DEF BindUpdate
  <2> HIDE DEF c
  <2>4. \A i \in DOMAIN status.pods : status.pods[i][1] # b.pod
    <3>1. IsCurrent(b.pod)
      BY <1>4 DEF BindUpdate, StatusInv, OrderInv, InHand
    <3>2. QED
      BY <1>2, <3>1 DEF IsCurrent, StatusInv, OrderInv, Recorded
  <2>5. QED
    BY <1>3, <2>1, <2>2, <2>3, <2>4 DEF InPlace
<1>5. CASE BindRecord(b)
  <2>1. /\ bound' = bound /\ <<b.pod, b.node>> \in bound
        /\ status'.pods = Append(status.pods, <<b.pod, b.node>>)
        /\ binding' = {[b EXCEPT !.at = "decide"]}
    BY <1>2, <1>3, <1>5 DEF BindRecord, AdvanceBinding, clusterVars
  <2>2. [b EXCEPT !.at = "decide"].at = "decide"
    BY <1>2 DEF BindingStates
  <2>3. <<b.pod, b.node>> \in Placement
    BY <1>2 DEF BindingStates, Placement
  <2>4. /\ DOMAIN status'.pods = 1..(Len(status.pods) + 1)
        /\ status'.pods[Len(status.pods) + 1] = <<b.pod, b.node>>
        /\ \A i \in 1..Len(status.pods) : status'.pods[i] = status.pods[i]
    BY <1>2, <2>1, <2>3, AppendProperties
  <2>5. ASSUME NEW i \in DOMAIN status'.pods PROVE status'.pods[i] \in bound
    <3>1. i \in 1..Len(status.pods) \/ i = Len(status.pods) + 1
      BY <1>2, <2>4
    <3>2. QED
      BY <1>2, <1>3, <2>1, <2>4, <3>1
  <2>6. QED
    BY <2>1, <2>2, <2>5 DEF InPlace
<1>6. CASE BindLast(b)
  <2>1. [b EXCEPT !.at = "send", !.ch = stop].at = "send"
    BY <1>2 DEF BindingStates
  <2>2. status'.pods = status.pods
    BY <1>2, <1>6 DEF BindLast
  <2>3. QED
    BY <1>6, <2>1, <2>2, FrameKeepsPlace DEF BindLast, clusterVars, StatusInv
<1>7. CASE BindSend(b) \/ BindNext(b)
  BY <1>7, FrameKeepsPlace DEF BindSend, BindNext, clusterVars, StatusInv
<1>8. QED
  BY <1>1, <1>4, <1>5, <1>6, <1>7

(* The handler deletes the pod in hand only, never a reported one.         *)
LEMMA HandlerKeepsPlace ==
  ASSUME BatonInv, StatusInv, Handler PROVE InPlace'
<1>0. /\ status \in [pods : Seq(Placement), reason : Reason]
      /\ Len(status.pods) \in Nat /\ DOMAIN status.pods = 1..Len(status.pods)
  BY EngineTypes
<1>1. CASE HandlerStop
  <2>1. status'.pods = status.pods
    BY <1>0, <1>1 DEF HandlerStop
  <2>2. QED
    BY <1>1, <2>1, FrameKeepsPlace DEF HandlerStop, clusterVars, StatusInv
<1>2. CASE HandlerSend
  BY <1>2, FrameKeepsPlace DEF HandlerSend, clusterVars, StatusInv
<1>3. CASE HandlerClean
  <2>1. binding = {} /\ IsCurrent(handler.pod)
    BY <1>3, OnlyHandler DEF HandlerClean, HandlerIdle, NoBinding, StatusInv, OrderInv, InHand
  <2>2. /\ UNCHANGED <<status, binding>>
        /\ bound' = {x \in bound : x[1] # handler.pod}
    BY <1>3 DEF HandlerClean, DeletePod, DeletePods
  <2>3. ASSUME NEW i \in DOMAIN status.pods PROVE status.pods[i] \in bound'
    <3>1. status.pods[i] \in bound /\ status.pods[i][1].index = i /\ handler.pod.index # i
      BY <1>0, <2>1 DEF StatusInv, OrderInv, InPlace, Recorded, IsCurrent
    <3>2. QED
      BY <2>2, <3>1
  <2>4. QED
    BY <2>1, <2>2, <2>3 DEF InPlace
<1>4. QED
  BY <1>1, <1>2, <1>3 DEF Handler

(* Preemption takes pods of lower priority; those recorded have the same.  *)
LEMMA SchedulerKeepsPlace ==
  ASSUME BatonInv, StatusInv, Cycle PROVE InPlace'
<1>0. PICK p \in activeQ : \/ \E n \in Node : ScheduleFit(p, n)
                          \/ \E N \in SUBSET Node : Reject(p, N)
  BY DEF Cycle
<1>1. ASSUME NEW n \in Node, ScheduleFit(p, n) PROVE InPlace'
  <2>1. /\ UNCHANGED <<status, bound>>
        /\ \A b \in binding' : b.at = "record" => b \in binding
    BY <1>1 DEF ScheduleFit
  <2>2. QED
    BY <2>1, FrameKeepsPlace DEF StatusInv
<1>2. ASSUME NEW N \in SUBSET Node, Reject(p, N) PROVE InPlace'
  <2>1. Preempt(p, N) /\ UNCHANGED <<status, binding>>
    BY <1>2 DEF Reject
  <2>2. PICK D : DeletePods(D) /\ Inferiors(p, D)
    BY <2>1, PreemptDeletes
  <2>3. /\ binding = {} /\ p.priority = simulatedPod.priority /\ simulatedPod.priority \in Int
    BY OnlyPending DEF NoBinding, StatusInv, OrderInv, InHand, IsCurrent, BatonInv, Typed,
       TypeOK, EngineTypeOK, App
  <2>4. ASSUME NEW i \in DOMAIN status.pods PROVE status.pods[i] \in bound'
    <3>1. status.pods[i] \in bound /\ status.pods[i][1].priority = simulatedPod.priority
      BY DEF StatusInv, OrderInv, InPlace, Recorded
    <3>2. status.pods[i][1] \notin D
      BY <2>2, <2>3, <3>1 DEF Inferiors
    <3>3. QED
      BY <2>2, <3>1, <3>2 DEF DeletePods
  <2>5. QED
    BY <2>1, <2>3, <2>4 DEF InPlace
<1>3. QED
  BY <1>0, <1>1, <1>2

LEMMA WorkerKeepsPlace ==
  ASSUME BatonInv, StatusInv, Worker PROVE InPlace'
<1>0. /\ status \in [pods : Seq(Placement), reason : Reason]
      /\ caller.at = "idle" <=> pc # "schedule"
      /\ NothingRecorded /\ InPlace
  BY EngineTypes DEF StatusInv, OrderInv, AtWork
<1>1. CASE (\E i \in DOMAIN queue : PopJob(i)) \/ ListPods
  BY <1>0, <1>1, FrameKeepsPlace DEF PopJob, ListPods, engineVars
<1>2. CASE StartApp \/ DropJob \/ ReportApp
  BY <1>0, <1>2, FrameKeepsPlace
     DEF StartApp, UpdatePodRequest, DropJob, ReportApp, clusterVars
<1>3. CASE ResetStatus \/ Publish
  <2>1. pc \in {"reset", "publish"} /\ status'.pods = << >> /\ binding' = binding
    BY <1>0, <1>3 DEF ResetStatus, Publish, CleanStatusPods
  <2>2. binding = {}
    BY <1>0, <2>1, IdleEngine
  <2>3. QED
    BY <2>1, <2>2, NothingPlaced
<1>4. CASE \E p \in toClean : CleanPod(p)
  <2>1. pc = "delete" /\ status' = status /\ binding' = binding
    BY <1>4 DEF CleanPod
  <2>2. status.pods = << >> /\ binding = {}
    BY <1>0, <2>1, IdleEngine DEF NothingRecorded
  <2>3. QED
    BY <2>1, <2>2, NothingPlaced
<1>5. QED
  BY <1>1, <1>2, <1>3, <1>4 DEF Worker

LEMMA StepKeepsPlace ==
  ASSUME BatonInv, StatusInv, [Next]_vars \/ CycleStep PROVE InPlace'
<1>1. CASE Client \/ PollEmpty \/ UNCHANGED vars
  <2>1. UNCHANGED engineVars
    BY <1>1 DEF Client, Submit, PollEmpty, vars
  <2>2. QED
    BY <2>1, FrameKeepsPlace DEF engineVars, StatusInv
<1>2. CASE Informer
  <2>1. UNCHANGED <<status, bound, binding>>
    BY <1>2 DEF Informer, CacheForget, NominationForget
  <2>2. QED
    BY <2>1, FrameKeepsPlace DEF StatusInv
<1>3. CASE Caller
  BY <1>3, FrameKeepsPlace DEF Caller, SchedulerPodStart, SchedulerPodReturn, clusterVars,
     StatusInv
<1>4. CASE EngineStep \/ CycleStep
  BY <1>2, <1>3, <1>4, SchedulerCycles, SchedulerKeepsPlace, BinderKeepsPlace,
     HandlerKeepsPlace DEF EngineStep, CycleStep, Engine
<1>5. QED
  BY <1>1, <1>4, WorkerKeepsPlace DEF Next

LEMMA StepKeepsStatus ==
  ASSUME BatonInv, StatusInv, [Next]_vars PROVE StatusInv'
BY StepKeepsOrder, StepKeepsPlace DEF StatusInv

LEMMA InitStatus == ASSUME Init PROVE StatusInv
<1>1. OrderInv
  BY InitOrder
<1>2. binding = {} /\ pc = "pop" /\ status.pods = << >>
  BY <1>1 DEF OrderInv, NothingRecorded, Init, EngineInit
<1>3. InPlace
  BY <1>2 DEF InPlace
<1>4. QED
  BY <1>1, <1>3 DEF StatusInv

LEMMA StatusHolds == Spec => []StatusInv
<1>1. Init => StatusInv
  BY InitStatus
<1>2. BatonInv /\ StatusInv /\ [Next]_vars => StatusInv'
  BY StepKeepsStatus
<1>3. QED
  BY <1>1, <1>2, BatonHolds, PTL DEF Spec

(* Every pod that is reported was created for this app, is in the store on *)
(* the node it is reported on, and is reported once (Bind:715-718 against  *)
(* CleanPendingPod, CleanPod and preemption), in the runs of Spec, where   *)
(* the creates inside Bind succeed.                                        *)
THEOREM ReportsAreTrue == Spec => []StatusIsTrue
<1>1. StatusInv => StatusIsTrue
  BY DEF StatusInv, OrderInv, InPlace, Recorded, StatusIsTrue
<1>2. QED
  BY <1>1, StatusHolds, PTL

-----------------------------------------------------------------------------
(* With an app under way, pods are created and deleted.                    *)
LEMMA EngineIsAtWork ==
  ASSUME AtWork, UNCHANGED pc, caller.at # "idle", caller'.at # "failed"
  PROVE  CleanInv'
BY DEF AtWork, CleanInv

LEMMA EngineKeepsClean ==
  ASSUME CreateOutcomes \subseteq {TRUE}, BatonInv, CleanInv, AtWork, EngineStep
  PROVE  CleanInv'
<1>0. UNCHANGED <<pc, toClean>> /\ caller \in CallerStates
  BY EngineTypes DEF EngineStep, workerVars
<1>1. ASSUME NEW ok \in CreateOutcomes, SchedulerPodStart(ok) PROVE CleanInv'
  <2>1. ok = TRUE
    BY Zenon
  <2>2. caller.at = "create" /\ caller'.at = "wait"
    BY <1>1, <2>1 DEF SchedulerPodStart, AwaitStop
  <2>3. QED
    BY <1>0, <2>2, EngineIsAtWork
<1>2. CASE SchedulerPodReturn
  <2>1. caller.at = "received" /\ caller'.at = "done"
    BY <1>0, <1>2 DEF SchedulerPodReturn, CallerStates
  <2>2. QED
    BY <1>0, <2>1, EngineIsAtWork
<1>3. CASE Scheduler
  <2>1. caller.at = "wait"
    BY <1>3, OnlyPending DEF Scheduler
  <2>2. caller' = caller
    BY <1>3 DEF Scheduler, ScheduleFit, ScheduleFail, Reject
  <2>3. QED
    BY <1>0, <2>1, <2>2, EngineIsAtWork
<1>4. CASE Binder
  <2>1. PICK b \in binding : \/ BindUpdate(b) \/ BindRecord(b) \/ BindLast(b) \/ BindSend(b)
                             \/ BindNext(b)
    BY <1>4 DEF Binder
  <2>2. caller.at = "wait"
    BY OnlyBinding
  <2>3. caller'.at \in {"wait", "received"}
    BY <1>0, <2>1, <2>2 DEF BindUpdate, BindRecord, BindLast, BindSend, BindNext, SendStop,
       CallerStates
  <2>4. QED
    BY <1>0, <2>2, <2>3, EngineIsAtWork
<1>5. CASE Handler
  <2>1. caller.at = "wait"
    BY <1>5, OnlyEvent, OnlyHandler
       DEF Handler, HandlerStop, HandlerClean, HandlerSend, HandlerIdle
  <2>2. caller'.at \in {"wait", "received"}
    BY <1>0, <1>5, <2>1 DEF Handler, HandlerStop, HandlerClean, HandlerSend, SendStop,
       CallerStates
  <2>3. QED
    BY <1>0, <2>1, <2>2, EngineIsAtWork
<1>6. CASE Informer
  BY <1>0, <1>6 DEF Informer, CacheForget, NominationForget, CleanInv, Simulated
<1>7. QED
  BY <1>1, <1>2, <1>3, <1>4, <1>5, <1>6 DEF EngineStep, Engine, Caller

LEMMA WorkerKeepsClean ==
  ASSUME BatonInv, CleanInv, AtWork, Worker PROVE CleanInv'
<1>0. caller \in CallerStates
  BY EngineTypes
<1>1. ASSUME NEW i \in DOMAIN queue, PopJob(i) PROVE CleanInv'
  BY <1>1 DEF PopJob, engineVars, CleanInv
<1>2. CASE StartApp
  BY <1>0, <1>2 DEF StartApp, UpdatePodRequest, CallerStates, CleanInv
<1>3. CASE DropJob
  BY <1>3 DEF DropJob, CleanInv
<1>4. CASE ReportApp
  BY <1>0, <1>4 DEF ReportApp, CallerStates, CleanInv
<1>5. CASE ResetStatus \/ Publish
  BY <1>5 DEF ResetStatus, Publish, clusterVars, CleanInv, Simulated
<1>6. CASE ListPods
  BY <1>6 DEF ListPods, AfterList, engineVars, CleanInv, Simulated
<1>7. ASSUME NEW p \in toClean, CleanPod(p) PROVE CleanInv'
  <2>1. /\ pc = "delete" /\ p \in store /\ toClean \subseteq store
        /\ store' = store \ {p} /\ toClean' = toClean \ {p}
        /\ pc' \in {"list", "delete"}
        /\ UNCHANGED caller
    BY <1>7 DEF CleanPod, DeletePod, DeletePods, CleanInv
  <2>2. QED
    BY <2>1 DEF CleanInv
<1>8. QED
  BY <1>1, <1>2, <1>3, <1>4, <1>5, <1>6, <1>7 DEF Worker

LEMMA StepKeepsClean ==
  ASSUME CreateOutcomes \subseteq {TRUE}, BatonInv, CleanInv, AtWork, [Next]_vars
  PROVE  CleanInv'
<1>1. CASE Client \/ PollEmpty \/ UNCHANGED vars
  <2>1. UNCHANGED engineVars /\ UNCHANGED workerVars
    BY <1>1 DEF Client, Submit, PollEmpty, vars
  <2>2. QED
    BY <2>1 DEF engineVars, workerVars, CleanInv, Simulated
<1>2. QED
  BY <1>1, WorkerKeepsClean, EngineKeepsClean DEF Next

(* The pods, the reports and the goroutines of a job are gone when it has  *)
(* been published.                                                         *)
LEMMA CleanIsEnough ==
  ASSUME BatonInv, CacheInv, StatusInv, CleanInv PROVE JobStartsClean
<1>1. SUFFICES ASSUME pc = "pop"
      PROVE  /\ Simulated = {} /\ \A x \in bound : x[1].run = 0
             /\ status.pods = << >> /\ Tokens = 0
  BY DEF JobStartsClean
<1>2. Simulated = {} /\ status.pods = << >> /\ caller.at = "idle"
  BY <1>1 DEF CleanInv, StatusInv, OrderInv, NothingRecorded, AtWork
<1>3. ASSUME NEW x \in bound PROVE x[1].run = 0
  <2>1. x[1] \in store /\ x[1] \in Pod
    BY EngineTypes DEF CacheInv, CacheCovers
  <2>2. ~(x[1].run > 0) /\ x[1].run \in Nat
    BY <1>2, <2>1 DEF Simulated, Pod
  <2>3. QED
    BY <2>2
<1>4. Tokens = 0
  <2>1. activeQ = {} /\ binding = {} /\ events = << >> /\ handler.at = "idle"
    BY <1>2, IdleEngine
  <2>2. Cardinality({}) = 0 /\ Len(<< >>) = 0
    BY FS_EmptySet
  <2>3. QED
    BY <2>1, <2>2 DEF Tokens
<1>5. QED
  BY <1>2, <1>3, <1>4

LEMMA CleanHolds ==
  ASSUME CreateOutcomes \subseteq {TRUE}
  PROVE  Spec => []CleanInv
<1>1. Init => CleanInv
  <2>1. ASSUME Init PROVE caller.at = "idle" /\ store = PodsOf(Mirrored) /\ pc = "pop"
    BY <2>1 DEF Init, EngineInit
  <2>2. \A p \in PodsOf(Mirrored) : ~(p.run > 0)
    BY MirroredAssumption DEF PodsOf
  <2>3. QED
    BY <2>1, <2>2 DEF CleanInv, Simulated
<1>2. BatonInv /\ StatusInv /\ CleanInv /\ [Next]_vars => CleanInv'
  BY StepKeepsClean DEF StatusInv, OrderInv
<1>3. QED
  BY <1>1, <1>2, BatonHolds, StatusHolds, PTL DEF Spec

(* While no create of SchedulerPod fails, every job starts on a cluster    *)
(* free of simulated pods (CleanPod:1315-1332 before the result, 892-899). *)
THEOREM EachStartIsClean ==
  ASSUME CreateOutcomes \subseteq {TRUE}
  PROVE  Spec => []JobStartsClean
<1>1. Init => CacheInv
  BY InitCache
<1>2. BatonInv /\ CacheInv /\ [Next]_vars => CacheInv'
  BY StepKeepsCache
<1>3. BatonInv /\ CacheInv /\ StatusInv /\ CleanInv => JobStartsClean
  BY CleanIsEnough
<1>4. QED
  BY <1>1, <1>2, <1>3, BatonHolds, StatusHolds, CleanHolds, PTL DEF Spec

-----------------------------------------------------------------------------
(* Where a job is: nowhere twice, and never nowhere.                       *)
JobInv == OnePlace /\ QueueMatches /\ NoneLost

LEMMA InitJobs == ASSUME Init PROVE JobInv
<1>1. queue = << >> /\ used = {} /\ emulatorResult = {} /\ pc = "pop"
      /\ appGroup = [k \in Key |-> NoGroup]
  BY DEF Init, FifoInit
<1>2. DOMAIN << >> = {}
  OBVIOUS
<1>3. OnePlace
  BY <1>1 DEF OnePlace, Present
<1>4. QueueMatches /\ NoneLost
  BY <1>1, <1>2 DEF QueueMatches, NoneLost, Present
<1>5. QED
  BY <1>3, <1>4 DEF JobInv

LEMMA StepKeepsJobs ==
  ASSUME BatonInv, CleanInv, JobInv, [Next]_vars PROVE JobInv'
<1>1. ~DropJob /\ Typed
  BY DEF DropJob, CleanInv, BatonInv
<1>2. QED
  BY <1>1, OnePlaceStep, QueueMatchesStep, NoneLostStep DEF JobInv

LEMMA JobsAreEnough ==
  ASSUME BatonInv, JobInv PROVE StatusIsRight
<1>0. used \subseteq Key /\ DOMAIN queue = 1..Len(queue) /\ queue \in Seq(Key)
  BY DEF BatonInv, Typed, TypeOK, FifoTypeOK
<1>1. ASSUME NEW k \in used
      PROVE  /\ JobStatus(k) = "queuing" <=> \E i \in DOMAIN queue : queue[i] = k
             /\ JobStatus(k) = "processing" <=> pc # "pop" /\ key = k
  <2>1. /\ k \in Key
        /\ JobStatus(k) = "queuing" <=> Present(k)
        /\ JobStatus(k) = "processing" <=> Result(k) = {} /\ ~Present(k)
    BY <1>0, StatusOf DEF JobInv
  <2>2. Present(k) <=> \E i \in DOMAIN queue : queue[i] = k
    BY <2>1 DEF JobInv, QueueMatches
  <2>3. (Result(k) = {} /\ ~Present(k)) <=> (pc # "pop" /\ key = k)
    BY DEF JobInv, OnePlace, NoneLost
  <2>4. QED
    BY <2>1, <2>2, <2>3
<1>2. QED
  BY <1>1 DEF StatusIsRight

(* While no create of SchedulerPod fails no job is dropped, so the answer  *)
(* of EmulatorReport (203-253) says where the job is.                      *)
THEOREM StatusTellsWhere ==
  ASSUME CreateOutcomes \subseteq {TRUE}
  PROVE  Spec => []StatusIsRight
<1>1. Init => JobInv
  BY InitJobs
<1>2. BatonInv /\ CleanInv /\ JobInv /\ [Next]_vars => JobInv'
  BY StepKeepsJobs
<1>3. BatonInv /\ JobInv => StatusIsRight
  BY JobsAreEnough
<1>4. QED
  BY <1>1, <1>2, <1>3, BatonHolds, CleanHolds, PTL DEF Spec

-----------------------------------------------------------------------------
(* A job's answers.  The worker counts through the apps of its job, one    *)
(* review for each.                                                        *)
CreateMayFail == FALSE \in CreateOutcomes

Counting ==
  /\ next <= Len(group) + 1
  /\ Len(reportlist) = next - 1
  /\ pc \in {"list", "delete", "publish"} => next = Len(group) + 1
  /\ pc = "schedule" => next <= Len(group)
  /\ caller.at = "failed" => CreateMayFail

(* While an app is simulated: never more replicas than it wants, each on a *)
(* node it may use, and a verdict that fits the number placed.             *)
AllPlaced == simulatedPod.replicas > 0 /\ Len(status.pods) = simulatedPod.replicas

Progress ==
  /\ simulatedPod = group[next]
  /\ Len(status.pods) <= simulated
  /\ simulatedPod.replicas > 0 => simulated <= simulatedPod.replicas

OnItsNodes ==
  /\ \A i \in DOMAIN status.pods : status.pods[i][2] \in simulatedPod.nodes
  /\ \A p \in activeQ : p.nodes = simulatedPod.nodes
  /\ \A b \in binding : b.node \in simulatedPod.nodes

RightVerdict ==
  /\ \A b \in binding : b.at = "send" => status.reason = "Schedulable" /\ AllPlaced
  /\ handler.at # "idle" => status.reason = "Unschedulable" /\ ~AllPlaced
  /\ caller.at \in {"received", "done"} =>
       /\ status.reason \in {"Schedulable", "Unschedulable"}
       /\ status.reason = "Schedulable" <=> AllPlaced

Judged == Progress /\ OnItsNodes /\ RightVerdict
VerdictInv == pc = "schedule" => Judged

(* The reviews so far are true, and until CleanPod the pods they count are *)
(* still there, unless a later app has outranked theirs: each app runs     *)
(* under a number of its own, and its pods have its priority.              *)
InFront == IF pc = "schedule" THEN next ELSE next - 1
RunOf(i) == stop - InFront + i
RunOn(r, n) == {x \in bound : x[1].run = r /\ x[2] = n}

Ranked == \A i \in 1..InFront : \A x \in bound :
            x[1].run = RunOf(i) => x[1].priority = group[i].priority

Covered ==
  \A i \in Service!Standing(group, InFront) \cap DOMAIN reportlist : \A n \in Node :
    reportlist[i].onNode[n] <= Cardinality(RunOn(RunOf(i), n))

StillThere == Ranked /\ Covered

RunsCounted == \A x \in bound : x[1].run <= stop

Fitting ==
  \A j \in DOMAIN reportlist : \A n \in Node :
    Service!Total(Service!OnNode(reportlist, Service!Standing(group, j), n)) <= Slots[n]

Reviewed == \A i \in DOMAIN reportlist : Service!Truthful(group[i], reportlist[i])

ReviewsInv ==
  /\ Reviewed /\ Fitting /\ RunsCounted
  /\ pc \in {"apps", "schedule", "reset"} => StillThere

-----------------------------------------------------------------------------
(* Sums.  Counts that the parts of a finite set cover stay below its size, *)
(* and reach it when the parts are the whole set and each is used up.      *)
LEMMA InCounted ==
  ASSUME NEW D, NEW c \in [D -> Nat]
  PROVE  /\ \A z \in Service!Counted(c) :
              z = <<z[1], z[2]>> /\ z[1] \in D /\ z[2] \in 1..c[z[1]]
         /\ \A x \in D : \A j \in 1..c[x] : <<x, j>> \in Service!Counted(c)
BY DEF Service!Counted

LEMMA PartsBound ==
  ASSUME NEW D, NEW c \in [D -> Nat], NEW T, IsFiniteSet(T), NEW m \in [D -> SUBSET T],
         \A x, y \in D : \A t \in m[x] \cap m[y] : x = y,
         \A x \in D : c[x] <= Cardinality(m[x])
  PROVE  /\ Service!Total(c) <= Cardinality(T)
         /\ Service!Total(c) \in Nat /\ Cardinality(T) \in Nat
         /\ (\A x \in D : c[x] = Cardinality(m[x])) /\ (\A t \in T : \E x \in D : t \in m[x])
              => Service!Total(c) = Cardinality(T)
<1> DEFINE f == [x \in D |-> CHOOSE h : h \in Bijection(1..Cardinality(m[x]), m[x])]
           U == Service!Counted(c)
           F == [z \in U |-> f[z[1]][z[2]]]
<1>1. ASSUME NEW x \in D
      PROVE  /\ f[x] \in [1..Cardinality(m[x]) -> m[x]]
             /\ \A i, j \in 1..Cardinality(m[x]) : f[x][i] = f[x][j] => i = j
             /\ \A t \in m[x] : \E i \in 1..Cardinality(m[x]) : f[x][i] = t
             /\ Cardinality(m[x]) \in Nat
  <2>1. IsFiniteSet(m[x])
    BY FS_Subset
  <2>2. \E h : h \in Bijection(1..Cardinality(m[x]), m[x])
    BY <2>1, FS_CardinalityType DEF ExistsBijection
  <2>3. f[x] \in Bijection(1..Cardinality(m[x]), m[x])
    BY <2>2
  <2>4. QED
    BY <2>1, <2>3, FS_CardinalityType DEF Bijection, Injection, Surjection, IsInjective
<1>2. ASSUME NEW z \in U
      PROVE  z = <<z[1], z[2]>> /\ z[1] \in D /\ z[2] \in 1..c[z[1]]
             /\ z[2] \in 1..Cardinality(m[z[1]])
  <2>1. z = <<z[1], z[2]>> /\ z[1] \in D /\ z[2] \in 1..c[z[1]]
    BY InCounted
  <2>2. c[z[1]] <= Cardinality(m[z[1]]) /\ Cardinality(m[z[1]]) \in Nat /\ c[z[1]] \in Nat
    BY <1>1, <2>1
  <2>3. QED
    BY <2>1, <2>2
<1> HIDE DEF f, U
<1>3. ASSUME NEW z \in U PROVE F[z] = f[z[1]][z[2]] /\ F[z] \in m[z[1]] /\ F[z] \in T
  BY <1>1, <1>2
<1>4. ASSUME NEW y \in U, NEW z \in U, F[y] = F[z] PROVE y = z
  <2>1. y[1] = z[1]
    BY <1>2, <1>3, <1>4
  <2>2. y[2] = z[2]
    BY <1>1, <1>2, <1>3, <1>4, <2>1
  <2>3. QED
    BY <1>2, <2>1, <2>2
<1>5. F \in Injection(U, T)
  BY <1>3, <1>4 DEF Injection, IsInjective
<1>6. ASSUME \A x \in D : c[x] = Cardinality(m[x]), \A t \in T : \E x \in D : t \in m[x]
      PROVE  F \in Surjection(U, T)
  <2>1. ASSUME NEW t \in T PROVE \E z \in U : F[z] = t
    <3>1. PICK x \in D : t \in m[x]
      BY <1>6
    <3>2. PICK i \in 1..c[x] : f[x][i] = t
      BY <1>1, <1>6, <3>1
    <3>3. <<x, i>> \in U /\ <<x, i>>[1] = x /\ <<x, i>>[2] = i
      BY <3>2, InCounted DEF U
    <3>4. F[<<x, i>>] = t
      BY <1>3, <3>2, <3>3
    <3>5. QED
      BY <3>3, <3>4
  <2>2. QED
    BY <1>5, <2>1 DEF Surjection, Injection
<1> HIDE DEF F
<1>7. Cardinality(U) <= Cardinality(T) /\ IsFiniteSet(U)
  BY <1>5, FS_Injection
<1>8. F \in Surjection(U, T) => Cardinality(U) = Cardinality(T)
  BY <1>5, FS_Injection
<1>9. Cardinality(U) \in Nat /\ Cardinality(T) \in Nat
  BY <1>7, FS_CardinalityType
<1>10. Service!Total(c) = Cardinality(U)
  BY Zenon DEF Service!Total, Service!Cardinality, Cardinality, U
<1>11. QED
  BY <1>6, <1>7, <1>8, <1>9, <1>10

-----------------------------------------------------------------------------
(* The queue as the service sees it.                                       *)
Waiting == [i \in 1..Len(queue) |-> <<queue[i], appGroup[queue[i]]>>]

LEMMA FunctionIsSeq ==
  ASSUME NEW T, NEW n \in Nat, NEW c \in [1..n -> T]
  PROVE  c \in Seq(T) /\ Len(c) = n
OBVIOUS

LEMMA PairsAreSeq ==
  ASSUME NEW S, NEW q \in Seq(Key), NEW m \in [Key -> S],
         NEW w, w = [i \in 1..Len(q) |-> <<q[i], m[q[i]]>>]
  PROVE  /\ w \in Seq(Key \X S) /\ Len(w) = Len(q)
         /\ \A i \in 1..Len(q) : w[i] = <<q[i], m[q[i]]>>
<1> DEFINE T == Key \X S
           n == Len(q)
<1>1. n \in Nat /\ \A i \in 1..n : q[i] \in Key /\ m[q[i]] \in S
  OBVIOUS
<1> HIDE DEF n
<1>2. w = [i \in 1..n |-> <<q[i], m[q[i]]>>]
  BY DEF n
<1>3. w \in [1..n -> T]
  <2>1. \A i \in 1..n : w[i] = <<q[i], m[q[i]]>>
    BY <1>2
  <2>2. ASSUME NEW i \in 1..n PROVE w[i] \in T
    <3>1. w[i] = <<q[i], m[q[i]]>> /\ q[i] \in Key /\ m[q[i]] \in S
      BY <1>1, <2>1
    <3>2. <<q[i], m[q[i]]>> \in T
      BY <3>1
    <3>3. QED
      BY <3>1, <3>2
  <2>3. QED
    BY <1>2, <2>2
<1> HIDE DEF T
<1>4. w \in Seq(T) /\ Len(w) = n
  BY <1>1, <1>3, FunctionIsSeq
<1>5. QED
  BY <1>2, <1>4 DEF T, n

LEMMA WaitingIsSeq ==
  ASSUME FifoTypeOK
  PROVE  /\ Waiting \in Seq(Key \X (Group \cup {NoGroup})) /\ Len(Waiting) = Len(queue)
         /\ \A i \in 1..Len(queue) : Waiting[i] = <<queue[i], appGroup[queue[i]]>>
<1> DEFINE S == Group \cup {NoGroup}
<1>1. /\ Len(queue) \in Nat
      /\ \A i \in 1..Len(queue) : queue[i] \in Key /\ appGroup[queue[i]] \in S
  BY DEF FifoTypeOK
<1>2. \A i \in 1..Len(queue) : Waiting[i] = <<queue[i], appGroup[queue[i]]>>
  BY DEF Waiting
<1> HIDE DEF S
<1>3. \A i \in 1..Len(queue) : <<queue[i], appGroup[queue[i]]>> \in Key \X S
  BY <1>1
<1>4. Waiting \in [1..Len(queue) -> Key \X S]
  BY <1>3, Zenon DEF Waiting
<1>5. QED
  BY <1>1, <1>2, <1>4, FunctionIsSeq DEF S

(* A submission joins the end.                                             *)
LEMMA SubmitWaits ==
  ASSUME Typed, OnePlace, QueueMatches, NEW k \in Key, NEW g \in Group, Submit(k, g)
  PROVE  Waiting' = Append(Waiting, <<k, g>>)
<1> DEFINE S == Group \cup {NoGroup}
           T == Key \X S
           n == Len(queue)
<1>1. FifoTypeOK /\ FifoTypeOK' /\ n \in Nat /\ DOMAIN queue = 1..n
  BY PushTyped DEF Typed, TypeOK, Submit, FifoTypeOK
<1>2. /\ Len(queue') = n + 1 /\ queue'[n + 1] = k
      /\ \A j \in 1..n : queue'[j] = queue[j]
      /\ appGroup' = [appGroup EXCEPT ![k] = g] /\ k \in DOMAIN appGroup
  BY <1>1, AppendProperties DEF Submit, Push, FifoTypeOK
<1>3. \A j \in 1..n : queue[j] # k /\ queue[j] \in Key
  BY <1>1 DEF Submit, OnePlace, QueueMatches, FifoTypeOK
<1>4. /\ Waiting \in Seq(T) /\ Len(Waiting) = n
      /\ \A j \in 1..n : Waiting[j] = <<queue[j], appGroup[queue[j]]>>
  BY <1>1, WaitingIsSeq
<1>5. /\ Waiting' \in Seq(T) /\ Len(Waiting') = n + 1
      /\ \A j \in 1..(n + 1) : Waiting'[j] = <<queue'[j], appGroup'[queue'[j]]>>
  <2>1. queue' \in Seq(Key) /\ appGroup' \in [Key -> S]
    BY <1>1 DEF FifoTypeOK
  <2>2. Waiting' = [i \in 1..Len(queue') |-> <<queue'[i], appGroup'[queue'[i]]>>]
    BY DEF Waiting
  <2>3. /\ Waiting' \in Seq(T) /\ Len(Waiting') = Len(queue')
        /\ \A j \in 1..Len(queue') : Waiting'[j] = <<queue'[j], appGroup'[queue'[j]]>>
    <3> HIDE DEF S
    <3>1. QED
      BY <2>1, <2>2, PairsAreSeq
  <2>4. QED
    BY <1>2, <2>3
<1>6. <<k, g>> \in T
  OBVIOUS
<1> HIDE DEF T
<1>7. /\ Append(Waiting, <<k, g>>) \in Seq(T) /\ Len(Append(Waiting, <<k, g>>)) = n + 1
      /\ \A j \in 1..n : Append(Waiting, <<k, g>>)[j] = Waiting[j]
      /\ Append(Waiting, <<k, g>>)[n + 1] = <<k, g>>
  BY <1>4, <1>6, AppendProperties
<1>8. ASSUME NEW j \in 1..(n + 1) PROVE Waiting'[j] = Append(Waiting, <<k, g>>)[j]
  <2>1. CASE j \in 1..n
    <3>1. appGroup'[queue[j]] = appGroup[queue[j]]
      BY <1>2, <1>3, <2>1
    <3>2. Waiting'[j] = <<queue[j], appGroup[queue[j]]>>
      BY <1>1, <1>2, <1>5, <2>1, <3>1
    <3>3. QED
      BY <1>4, <1>7, <2>1, <3>2
  <2>2. CASE j = n + 1
    BY <1>2, <1>5, <1>7, <2>2
  <2>3. j \in 1..n \/ j = n + 1
    BY <1>1
  <2>4. QED
    BY <2>1, <2>2, <2>3
<1>9. QED
  BY <1>5, <1>7, <1>8, SeqEqual

(* The worker takes the first job, and polling an empty queue changes      *)
(* nothing the service could see.                                          *)
LEMMA PopTakes ==
  ASSUME Typed, QueueMatches, NEW i \in DOMAIN queue, PopJob(i)
  PROVE  /\ Waiting # << >> /\ Head(Waiting) = <<key', group'>>
         /\ Waiting' = Tail(Waiting)
<1> DEFINE S == Group \cup {NoGroup}
           T == Key \X S
           n == Len(queue) - 1
<1>1. /\ queue \in Seq(Key) /\ DOMAIN queue = 1..Len(queue) /\ Len(queue) \in Nat
      /\ FifoTypeOK /\ FifoTypeOK'
  BY PopTyped DEF Typed, TypeOK, FifoTypeOK, PopJob
<1>2. i = 1 /\ n \in Nat /\ Len(queue) = n + 1
  <2>1. 1 \in DOMAIN queue
    BY <1>1
  <2>2. QED
    BY <1>1, <2>1 DEF PopJob, Pop, IsFront, QueueMatches
<1>3. \A j \in 1..n : queue[j + 1] \in Key /\ queue[j + 1] # queue[1]
  BY <1>1, <1>2 DEF QueueMatches
<1>4. Len(queue') = n /\ \A j \in 1..n : queue'[j] = queue[j + 1]
  <2>1. queue' = SubSeq(queue, 2, Len(queue))
    BY <1>2 DEF PopJob, Pop
  <2>2. QED
    BY <1>1, <1>2, <2>1
<1>5. appGroup' = [appGroup EXCEPT ![queue[1]] = NoGroup] /\ DOMAIN appGroup = Key
  BY <1>1, <1>2 DEF PopJob, Pop, FifoTypeOK
<1>6. /\ Waiting \in Seq(T) /\ Len(Waiting) = n + 1
      /\ \A j \in 1..(n + 1) : Waiting[j] = <<queue[j], appGroup[queue[j]]>>
  BY <1>1, <1>2, WaitingIsSeq
<1>7. /\ Waiting' \in Seq(T) /\ Len(Waiting') = n
      /\ \A j \in 1..n : Waiting'[j] = <<queue'[j], appGroup'[queue'[j]]>>
  <2>1. queue' \in Seq(Key) /\ appGroup' \in [Key -> S]
    BY <1>1 DEF FifoTypeOK
  <2>2. Waiting' = [j \in 1..Len(queue') |-> <<queue'[j], appGroup'[queue'[j]]>>]
    BY DEF Waiting
  <2>3. /\ Waiting' \in Seq(T) /\ Len(Waiting') = Len(queue')
        /\ \A j \in 1..Len(queue') : Waiting'[j] = <<queue'[j], appGroup'[queue'[j]]>>
    <3> HIDE DEF S
    <3>1. QED
      BY <2>1, <2>2, PairsAreSeq
  <2>4. QED
    BY <1>4, <2>3
<1> HIDE DEF T
<1>8. Waiting # << >>
  BY <1>2, <1>6
<1>9. /\ Head(Waiting) = Waiting[1]
      /\ Tail(Waiting) \in Seq(T) /\ Len(Tail(Waiting)) = n
      /\ \A j \in 1..n : Tail(Waiting)[j] = Waiting[j + 1]
  <2>1. Head(Waiting) = Waiting[1]
    BY <1>6, <1>8, HeadTailProperties
  <2>2. /\ Tail(Waiting) \in Seq(T) /\ Len(Tail(Waiting)) = Len(Waiting) - 1
        /\ \A j \in 1..(Len(Waiting) - 1) : Tail(Waiting)[j] = Waiting[j + 1]
    BY <1>6, <1>8, HeadTailProperties
  <2>3. QED
    BY <1>2, <1>6, <2>1, <2>2
<1>10. ASSUME NEW j \in 1..n PROVE Waiting'[j] = Tail(Waiting)[j]
  <2>1. j + 1 \in 1..(n + 1)
    BY <1>2
  <2>2. appGroup'[queue[j + 1]] = appGroup[queue[j + 1]]
    BY <1>3, <1>5
  <2>3. Waiting'[j] = <<queue[j + 1], appGroup[queue[j + 1]]>>
    BY <1>4, <1>7, <2>2
  <2>4. Waiting[j + 1] = <<queue[j + 1], appGroup[queue[j + 1]]>>
    BY <1>6, <2>1
  <2>5. QED
    BY <1>9, <2>3, <2>4
<1>11. Waiting' = Tail(Waiting)
  BY <1>7, <1>9, <1>10, SeqEqual
<1>12. Head(Waiting) = <<key', group'>>
  <2>1. 1 \in 1..(n + 1)
    BY <1>2
  <2>2. key' = queue[1] /\ group' = appGroup[queue[1]]
    BY <1>2 DEF PopJob
  <2>3. QED
    BY <1>6, <1>9, <2>1, <2>2
<1>13. QED
  BY <1>8, <1>11, <1>12

LEMMA PollTakesNothing ==
  ASSUME Typed, QueueMatches, PollEmpty PROVE UNCHANGED queue
<1>1. queue \in Seq(Key) /\ DOMAIN queue = {} /\ queue' = << >>
  BY DEF Typed, TypeOK, FifoTypeOK, PollEmpty, PopEmpty, NothingQueued, QueueMatches
<1>2. queue = << >>
  BY <1>1
<1>3. QED
  BY <1>1, <1>2

(* A publication adds one answer, under an id that had none.               *)
LEMMA PublishFinishes ==
  ASSUME OnePlace, Publish
  PROVE  /\ emulatorResult' = emulatorResult \cup {<<key, reportlist>>}
         /\ <<key, reportlist>> \notin emulatorResult
<1>1. pc # "pop" /\ emulatorResult' = {x \in emulatorResult : x[1] # key} \cup {<<key, reportlist>>}
  BY DEF Publish, StoreResult
<1>2. \A x \in emulatorResult : x[1] # key
  BY <1>1, ResultOf DEF OnePlace
<1>3. QED
  BY <1>1, <1>2

-----------------------------------------------------------------------------
(* The worker counts right, whoever else acts.                             *)
LEMMA CountingRests ==
  ASSUME Counting, UNCHANGED workerVars,
         caller'.at = "failed" => caller.at = "failed" \/ CreateMayFail
  PROVE  Counting'
BY DEF Counting, workerVars

LEMMA GroupTyped ==
  ASSUME Typed
  PROVE  /\ group \in Seq(App) /\ Len(group) \in Nat
         /\ next <= Len(group) => group[next] \in App
<1>1. << >> \in Seq(App)
  OBVIOUS
<1>2. group \in Seq(App) /\ next \in Nat \ {0}
  BY <1>1, GroupAssumption DEF Typed, TypeOK
<1>3. QED
  BY <1>2

LEMMA WorkerKeepsCounting ==
  ASSUME Typed, Counting, Worker PROVE Counting'
<1>0. /\ next \in Nat \ {0} /\ reportlist \in Seq(ReviewType) /\ caller \in CallerStates
      /\ Len(group) \in Nat
  BY GroupTyped DEF Typed, TypeOK, EngineTypeOK
<1>1. ASSUME NEW i \in DOMAIN queue, PopJob(i) PROVE Counting'
  <2>1. FifoTypeOK /\ appGroup[queue[i]] \in Group
    BY <1>1, PopTyped DEF PopJob, Typed, TypeOK
  <2>2. group' \in Seq(App) /\ next' = 1 /\ reportlist' = << >> /\ pc' = "apps"
    BY <1>1, <2>1, GroupAssumption DEF PopJob
  <2>3. Len(group') \in Nat /\ Len(reportlist') = next' - 1
    BY <2>2
  <2>4. caller' = caller
    BY <1>1 DEF PopJob, engineVars
  <2>5. QED
    BY <2>2, <2>3, <2>4 DEF Counting
<1>2. CASE StartApp
  <2>1. /\ next <= Len(group) /\ UNCHANGED <<group, next, reportlist>> /\ pc' = "schedule"
        /\ caller'.at = "create"
    BY <1>0, <1>2 DEF StartApp, UpdatePodRequest, CallerStates
  <2>2. QED
    BY <2>1 DEF Counting
<1>3. CASE ReportApp
  <2>1. /\ pc = "schedule" /\ pc' = "reset" /\ next' = next + 1 /\ group' = group
        /\ reportlist' = Append(reportlist, Review) /\ caller'.at = "idle"
    BY <1>0, <1>3 DEF ReportApp, CallerStates
  <2>2. Len(reportlist') = Len(reportlist) + 1
    <3>1. Review \in ReviewType
      BY ReviewTyped DEF Typed, TypeOK
    <3>2. QED
      BY <1>0, <2>1, <3>1, AppendProperties
  <2>3. QED
    BY <1>0, <2>1, <2>2 DEF Counting
<1>4. CASE DropJob
  <2>1. pc' = "pop" /\ UNCHANGED <<group, next, reportlist>> /\ caller'.at = "idle"
    BY <1>0, <1>4 DEF DropJob, CallerStates
  <2>2. QED
    BY <2>1 DEF Counting
<1>5. CASE ResetStatus \/ Publish
  BY <1>5 DEF ResetStatus, Publish, Counting
<1>6. CASE ListPods
  <2>1. /\ pc' \in {"publish", "delete"} /\ UNCHANGED <<group, next, reportlist, caller>>
        /\ next > Len(group) \/ pc = "list"
    BY <1>6, Zenon DEF ListPods, AfterList, engineVars
  <2>2. QED
    BY <1>0, <2>1 DEF Counting
<1>7. ASSUME NEW p \in toClean, CleanPod(p) PROVE Counting'
  <2>1. /\ pc = "delete" /\ pc' \in {"publish", "list", "delete"}
        /\ UNCHANGED <<group, next, reportlist, caller>>
    BY <1>7, Zenon DEF CleanPod
  <2>2. QED
    BY <2>1 DEF Counting
<1>8. QED
  BY <1>1, <1>2, <1>3, <1>4, <1>5, <1>6, <1>7 DEF Worker

(* Only the worker's own failed create ends a job without an answer.       *)
LEMMA EngineFails ==
  ASSUME Engine, caller \in CallerStates
  PROVE  caller'.at = "failed" => caller.at = "failed" \/ CreateMayFail
<1>1. ASSUME NEW ok \in CreateOutcomes, SchedulerPodStart(ok)
      PROVE  caller'.at = "failed" => CreateMayFail
  <2>1. CASE ok
    BY <1>1, <2>1 DEF SchedulerPodStart, AwaitStop
  <2>2. CASE ~ok
    <3>1. ok = FALSE
      BY <2>2, CreateAssumption
    <3>2. QED
      BY <3>1, Zenon DEF CreateMayFail
  <2>3. QED
    BY <2>1, <2>2
<1>2. CASE SchedulerPodReturn
  BY <1>2 DEF SchedulerPodReturn, CallerStates
<1>3. CASE Scheduler \/ Informer
  BY <1>3 DEF Scheduler, ScheduleFit, ScheduleFail, Reject, Informer, CacheForget,
     NominationForget
<1>4. CASE Binder
  BY <1>4 DEF Binder, BindUpdate, BindRecord, BindLast, BindNext, BindSend, SendStop,
     CallerStates
<1>5. CASE Handler
  BY <1>5 DEF Handler, HandlerStop, HandlerClean, HandlerSend, SendStop, CallerStates
<1>6. QED
  BY <1>1, <1>2, <1>3, <1>4, <1>5 DEF Engine, Caller

LEMMA CountingStep ==
  ASSUME Typed, Counting, [Next]_vars PROVE Counting'
<1>1. CASE Client \/ PollEmpty \/ UNCHANGED vars
  <2>1. UNCHANGED workerVars /\ UNCHANGED caller
    BY <1>1 DEF Client, Submit, PollEmpty, vars, engineVars
  <2>2. QED
    BY <2>1, CountingRests
<1>2. CASE EngineStep
  <2>1. caller \in CallerStates
    BY DEF Typed, TypeOK, EngineTypeOK
  <2>2. QED
    BY <1>2, <2>1, EngineFails, CountingRests DEF EngineStep
<1>3. QED
  BY <1>1, <1>2, WorkerKeepsCounting DEF Next

-----------------------------------------------------------------------------
(* The verdict.  Steps that neither record, create nor judge.              *)
LEMMA FrameKeepsVerdict ==
  ASSUME Judged, UNCHANGED <<simulatedPod, simulated, group, next, status>>,
         activeQ' \subseteq activeQ,
         \A b \in binding' : \E c \in binding : b.node = c.node /\ (b.at = "send" => c.at = "send"),
         handler'.at # "idle" => handler.at # "idle",
         caller'.at \in {"received", "done"} => caller.at \in {"received", "done"}
  PROVE  Judged'
BY DEF Judged, Progress, OnItsNodes, RightVerdict, AllPlaced

(* Steps between two replicas: nobody has judged yet.                      *)
LEMMA NotYetJudged ==
  ASSUME Progress', OnItsNodes', handler'.at = "idle",
         \A b \in binding' : b.at # "send",
         caller'.at \notin {"received", "done"}
  PROVE  Judged'
BY DEF Judged, RightVerdict

LEMMA StartJudges ==
  ASSUME BatonInv, OrderInv, StartApp PROVE Judged'
<1>1. /\ caller \in CallerStates /\ caller.at = "idle" /\ pc = "apps"
      /\ Len(status.pods) = 0 /\ DOMAIN status.pods = {}
  <2>1. status.pods = << >>
    BY DEF StartApp, OrderInv, NothingRecorded
  <2>2. QED
    BY <2>1, EngineTypes DEF StartApp, UpdatePodRequest
<1>2. activeQ = {} /\ binding = {} /\ handler.at = "idle"
  BY <1>1, IdleEngine
<1>3. /\ simulatedPod' = group[next] /\ simulated' = 0 /\ caller'.at = "create"
      /\ UNCHANGED <<group, next, status, activeQ, binding, handler>>
  BY <1>1 DEF StartApp, UpdatePodRequest, CallerStates
<1>4. Progress'
  <2>1. group[next] \in App
    BY GroupTyped DEF StartApp, BatonInv
  <2>2. QED
    BY <1>1, <1>3, <2>1 DEF Progress, App
<1>5. OnItsNodes'
  BY <1>1, <1>2, <1>3 DEF OnItsNodes
<1>6. QED
  BY <1>2, <1>3, <1>4, <1>5, NotYetJudged

LEMMA CallerKeepsVerdict ==
  ASSUME BatonInv, OrderInv, Judged, Caller, UNCHANGED <<group, next>> PROVE Judged'
<1>0. /\ status \in [pods : Seq(Placement), reason : Reason] /\ caller \in CallerStates
      /\ simulatedPod \in App
  BY EngineTypes DEF BatonInv, Typed, TypeOK, EngineTypeOK
<1>1. ASSUME NEW ok \in CreateOutcomes, SchedulerPodStart(ok) PROVE Judged'
  <2>1. /\ caller.at = "create" /\ simulated = 0 /\ status.pods = << >>
        /\ activeQ = {} /\ binding = {} /\ handler.at = "idle"
    BY <1>1, IdleEngine DEF SchedulerPodStart, OrderInv, NothingRecorded
  <2>2. /\ UNCHANGED <<simulatedPod, status, handler>> /\ simulated' = 1 /\ binding' = {}
        /\ caller'.at \in {"wait", "failed"} /\ activeQ' \subseteq {NextPod}
    BY <1>0, <1>1, <2>1 DEF SchedulerPodStart, CreateNextPod, AwaitStop, CallerStates
  <2>3. Len(<< >>) = 0 /\ DOMAIN << >> = {} /\ NextPod.nodes = simulatedPod.nodes
    BY DEF NextPod
  <2>4. Progress'
    BY <1>0, <2>1, <2>2, <2>3 DEF Judged, Progress, App
  <2>5. OnItsNodes'
    BY <2>1, <2>2, <2>3 DEF OnItsNodes
  <2>6. QED
    BY <2>1, <2>2, <2>4, <2>5, NotYetJudged
<1>2. CASE SchedulerPodReturn
  BY <1>0, <1>2, FrameKeepsVerdict DEF SchedulerPodReturn, requestVars, clusterVars, CallerStates
<1>3. QED
  BY <1>1, <1>2 DEF Caller

LEMMA SchedulerKeepsVerdict ==
  ASSUME BatonInv, Judged, Cycle, UNCHANGED <<group, next>> PROVE Judged'
<1>1. PICK p \in activeQ : \/ \E n \in Node : ScheduleFit(p, n)
                          \/ \E N \in SUBSET Node : Reject(p, N)
  BY DEF Cycle
<1>2. activeQ = {p} /\ binding = {} /\ handler.at = "idle" /\ caller.at = "wait"
  BY OnlyPending DEF NoBinding, HandlerIdle
<1>3. UNCHANGED <<simulatedPod, simulated, status, handler, caller>> /\ activeQ' = {}
  BY <1>1, <1>2 DEF ScheduleFit, Reject, requestVars
<1>4. Progress'
  BY <1>3 DEF Judged, Progress
<1>5. \A b \in binding' : b.at # "send" /\ b.node \in simulatedPod.nodes
  <2>1. p.nodes = simulatedPod.nodes
    BY DEF Judged, OnItsNodes
  <2>2. QED
    BY <1>1, <1>2, <2>1 DEF ScheduleFit, Feasible, Reject
<1>6. OnItsNodes'
  BY <1>3, <1>5 DEF Judged, OnItsNodes
<1>7. QED
  BY <1>2, <1>3, <1>4, <1>5, <1>6, NotYetJudged

LEMMA BinderKeepsVerdict ==
  ASSUME BatonInv, OrderInv, Judged, Binder, UNCHANGED <<group, next>> PROVE Judged'
<1>1. PICK b \in binding :
        \/ BindUpdate(b) \/ BindRecord(b) \/ BindLast(b) \/ BindSend(b)
        \/ BindNext(b)
  BY DEF Binder
<1>2. /\ caller.at = "wait" /\ binding = {b} /\ b \in BindingStates
      /\ activeQ = {} /\ handler.at = "idle"
  BY OnlyBinding, EngineTypes DEF NoPending, HandlerIdle
<1>3. /\ status \in [pods : Seq(Placement), reason : Reason] /\ caller \in CallerStates
      /\ Len(status.pods) \in Nat /\ DOMAIN status.pods = 1..Len(status.pods)
      /\ simulated \in Nat /\ simulatedPod \in App
  BY EngineTypes DEF BatonInv, Typed, TypeOK, EngineTypeOK
<1>4. /\ b.at \in {"update", "record"} => simulated = Len(status.pods) + 1
      /\ b.at = "decide" => simulated = Len(status.pods)
      /\ b.node \in simulatedPod.nodes
  BY <1>2 DEF OrderInv, InHand, IsCurrent, Judged, OnItsNodes
<1>5. CASE BindUpdate(b)
  <2>1. binding' = {} \/ binding' = {[b EXCEPT !.at = "record"]}
    BY <1>2, <1>5 DEF BindUpdate, AdvanceBinding
  <2>2. \A c \in binding' : c.node = b.node /\ c.at # "send"
    BY <1>2, <2>1 DEF BindingStates
  <2>3. QED
    BY <1>5, <2>2, FrameKeepsVerdict DEF BindUpdate, requestVars
<1>6. CASE BindRecord(b)
  <2>1. /\ UNCHANGED <<simulatedPod, simulated, caller, handler, activeQ>>
        /\ status'.pods = Append(status.pods, <<b.pod, b.node>>)
        /\ binding' = {[b EXCEPT !.at = "decide"]}
        /\ simulated = Len(status.pods) + 1
    BY <1>2, <1>3, <1>4, <1>6 DEF BindRecord, AdvanceBinding, requestVars, clusterVars
  <2>2. \A c \in binding' : c.at = "decide" /\ c.node = b.node
    BY <1>2, <2>1 DEF BindingStates
  <2>3. <<b.pod, b.node>> \in Placement
    BY <1>2 DEF BindingStates, Placement
  <2>4. /\ Len(status'.pods) = Len(status.pods) + 1
        /\ DOMAIN status'.pods = 1..(Len(status.pods) + 1)
        /\ status'.pods[Len(status.pods) + 1] = <<b.pod, b.node>>
        /\ \A i \in 1..Len(status.pods) : status'.pods[i] = status.pods[i]
    BY <1>3, <2>1, <2>3, AppendProperties
  <2>5. Progress'
    BY <1>3, <2>1, <2>4 DEF Judged, Progress
  <2>6. ASSUME NEW i \in DOMAIN status'.pods PROVE status'.pods[i][2] \in simulatedPod.nodes
    <3>1. i \in 1..Len(status.pods) \/ i = Len(status.pods) + 1
      BY <1>3, <2>4
    <3>2. QED
      BY <1>3, <1>4, <2>4, <3>1 DEF Judged, OnItsNodes
  <2>7. OnItsNodes'
    BY <1>2, <1>4, <2>1, <2>2, <2>6 DEF OnItsNodes
  <2>8. QED
    BY <1>2, <2>1, <2>2, <2>5, <2>7, NotYetJudged
<1>7. CASE BindLast(b)
  <2>1. /\ UNCHANGED <<simulatedPod, simulated, caller, handler, activeQ>>
        /\ status'.pods = status.pods /\ status'.reason = "Schedulable"
        /\ binding' = {[b EXCEPT !.at = "send", !.ch = stop]}
        /\ simulated = Len(status.pods)
        /\ simulatedPod.replicas > 0 /\ simulated >= simulatedPod.replicas
    BY <1>2, <1>3, <1>4, <1>7 DEF BindLast, LimitReached, requestVars, clusterVars
  <2>2. \A c \in binding' : c.node = b.node
    BY <1>2, <2>1 DEF BindingStates
  <2>3. Len(status.pods) = simulatedPod.replicas
    BY <1>3, <2>1 DEF Judged, Progress, App
  <2>4. Progress' /\ OnItsNodes'
    BY <1>2, <1>4, <2>1, <2>2 DEF Judged, Progress, OnItsNodes
  <2>5. RightVerdict'
    BY <1>2, <2>1, <2>3 DEF RightVerdict, AllPlaced
  <2>6. QED
    BY <2>4, <2>5 DEF Judged
<1>8. CASE BindNext(b)
  <2>1. /\ UNCHANGED <<simulatedPod, caller, status, handler>>
        /\ activeQ' \subseteq {NextPod} /\ binding' = {}
        /\ simulated' = simulated + 1
        /\ simulatedPod.replicas > 0 => simulated < simulatedPod.replicas
    BY <1>2, <1>3, <1>8 DEF BindNext, CreateNextPod, LimitReached, App
  <2>2. NextPod.nodes = simulatedPod.nodes
    BY DEF NextPod
  <2>3. Progress'
    BY <1>3, <2>1 DEF Judged, Progress, App
  <2>4. OnItsNodes'
    BY <2>1, <2>2 DEF Judged, OnItsNodes
  <2>5. QED
    BY <1>2, <2>1, <2>3, <2>4, NotYetJudged
<1>9. CASE BindSend(b)
  <2>1. /\ UNCHANGED <<simulatedPod, simulated, status, activeQ, handler>>
        /\ binding' = {} /\ b.at = "send"
    BY <1>2, <1>9 DEF BindSend, requestVars, clusterVars
  <2>2. status.reason = "Schedulable" /\ AllPlaced
    BY <2>1 DEF Judged, RightVerdict
  <2>3. Progress' /\ OnItsNodes' /\ (AllPlaced' <=> AllPlaced)
    BY <1>2, <2>1 DEF Judged, Progress, OnItsNodes, AllPlaced
  <2>4. RightVerdict'
    BY <1>2, <2>1, <2>2, <2>3 DEF RightVerdict
  <2>5. QED
    BY <2>3, <2>4 DEF Judged
<1>10. QED
  BY <1>1, <1>5, <1>6, <1>7, <1>8, <1>9

LEMMA HandlerKeepsVerdict ==
  ASSUME BatonInv, OrderInv, Judged, Handler, UNCHANGED <<group, next>> PROVE Judged'
<1>0. /\ status \in [pods : Seq(Placement), reason : Reason] /\ handler \in HandlerStates
      /\ Len(status.pods) \in Nat /\ simulated \in Nat /\ simulatedPod \in App
      /\ caller \in CallerStates
  BY EngineTypes DEF BatonInv, Typed, TypeOK, EngineTypeOK
<1>1. CASE HandlerStop
  <2>1. caller.at = "wait" /\ activeQ = {} /\ binding = {} /\ events # << >>
    BY <1>1, OnlyEvent DEF HandlerStop, NoPending, NoBinding
  <2>2. simulated = Len(status.pods) + 1
    <3>1. events \in Seq(Pod)
      BY DEF BatonInv, Typed, TypeOK, EngineTypeOK
    <3>2. 1 \in DOMAIN events
      BY <2>1, <3>1, EmptySeq
    <3>3. QED
      BY <3>2 DEF OrderInv, InHand, IsCurrent
  <2>3. /\ UNCHANGED <<simulatedPod, simulated, caller, activeQ, binding>>
        /\ status'.pods = status.pods /\ status'.reason = "Unschedulable"
    BY <1>0, <1>1 DEF HandlerStop, requestVars, clusterVars
  <2>4. ~AllPlaced
    BY <1>0, <2>2 DEF Judged, Progress, AllPlaced, App
  <2>5. Progress' /\ OnItsNodes' /\ (AllPlaced' <=> AllPlaced)
    BY <2>1, <2>3 DEF Judged, Progress, OnItsNodes, AllPlaced
  <2>6. RightVerdict'
    BY <2>1, <2>3, <2>4, <2>5 DEF RightVerdict
  <2>7. QED
    BY <2>5, <2>6 DEF Judged
<1>2. CASE HandlerClean
  BY <1>2, FrameKeepsVerdict DEF HandlerClean, requestVars
<1>3. CASE HandlerSend
  <2>1. /\ UNCHANGED <<simulatedPod, simulated, status, activeQ, binding>>
        /\ handler.at = "send" /\ handler'.at = "idle"
    BY <1>0, <1>3 DEF HandlerSend, HandlerStates, requestVars, clusterVars
  <2>2. binding = {} /\ status.reason = "Unschedulable" /\ ~AllPlaced
    BY <2>1, OnlyHandler DEF HandlerIdle, NoBinding, Judged, RightVerdict
  <2>3. Progress' /\ OnItsNodes' /\ (AllPlaced' <=> AllPlaced)
    BY <2>1 DEF Judged, Progress, OnItsNodes, AllPlaced
  <2>4. RightVerdict'
    BY <2>1, <2>2, <2>3 DEF RightVerdict
  <2>5. QED
    BY <2>3, <2>4 DEF Judged
<1>4. QED
  BY <1>1, <1>2, <1>3 DEF Handler

LEMMA StepKeepsVerdict ==
  ASSUME BatonInv, OrderInv, VerdictInv, [Next]_vars \/ CycleStep PROVE VerdictInv'
<1>1. SUFFICES ASSUME pc' = "schedule" PROVE Judged'
  BY DEF VerdictInv
<1>2. ASSUME UNCHANGED workerVars, Engine \/ Cycle PROVE Judged'
  <2>1. Judged /\ UNCHANGED <<group, next>>
    BY <1>1, <1>2 DEF workerVars, VerdictInv
  <2>2. CASE Informer
    BY <2>1, <2>2, FrameKeepsVerdict DEF Informer, CacheForget, NominationForget, requestVars
  <2>3. QED
    BY <1>2, <2>1, <2>2, CallerKeepsVerdict, SchedulerKeepsVerdict, SchedulerCycles,
       BinderKeepsVerdict, HandlerKeepsVerdict DEF Engine
<1>3. CASE EngineStep \/ CycleStep
  BY <1>2, <1>3 DEF EngineStep, CycleStep
<1>4. CASE Worker
  <2>1. StartApp
    BY <1>1, <1>4, Zenon DEF Worker, PopJob, DropJob, ReportApp, ResetStatus, ListPods,
       AfterList, CleanPod, Publish
  <2>2. QED
    BY <2>1, StartJudges
<1>5. CASE Client \/ PollEmpty \/ UNCHANGED vars
  <2>1. UNCHANGED workerVars /\ UNCHANGED engineVars
    BY <1>5 DEF Client, Submit, PollEmpty, vars
  <2>2. Judged
    BY <1>1, <2>1 DEF workerVars, VerdictInv
  <2>3. QED
    BY <2>1, <2>2, FrameKeepsVerdict DEF workerVars, engineVars
<1>6. QED
  BY <1>3, <1>4, <1>5 DEF Next

-----------------------------------------------------------------------------
(* The reviews.  Report counts each recorded pod once, on its node.        *)
LEMMA ReviewIsTrue ==
  ASSUME BatonInv, Judged, caller.at = "done"
  PROVE  Service!Truthful(group[next], Review)
<1> DEFINE D == 1..Len(status.pods)
           c == [n \in Node |-> Cardinality({i \in D : status.pods[i][2] = n})]
           m == [n \in Node |-> {i \in D : status.pods[i][2] = n}]
<1>1. /\ status.pods \in Seq(Placement) /\ Len(status.pods) \in Nat
      /\ DOMAIN status.pods = D /\ simulatedPod \in App
  BY EngineTypes DEF BatonInv, Typed, TypeOK, EngineTypeOK
<1>2. IsFiniteSet(D) /\ Cardinality(D) = Len(status.pods)
  BY <1>1, FS_Interval
<1>3. /\ Review.desired = simulatedPod.replicas /\ Review.replicas = Len(status.pods)
      /\ Review.reason = status.reason /\ Review.onNode = c
  BY <1>1 DEF Review
<1>4. \A i \in D : status.pods[i][2] \in Node
  BY <1>1 DEF Placement
<1>5. ASSUME NEW n \in Node
      PROVE  c[n] = Cardinality(m[n]) /\ c[n] \in Nat /\ m[n] \in SUBSET D
  BY <1>2, FS_Subset, FS_CardinalityType
<1>6. Service!Total(c) = Cardinality(D)
  <2>1. c \in [Node -> Nat] /\ m \in [Node -> SUBSET D]
    BY <1>5
  <2>2. \A x, y \in Node : \A t \in m[x] \cap m[y] : x = y
    OBVIOUS
  <2>3. \A x \in Node : c[x] = Cardinality(m[x]) /\ c[x] <= Cardinality(m[x])
    BY <1>5
  <2>4. \A t \in D : \E x \in Node : t \in m[x]
    BY <1>4
  <2> HIDE DEF c, m, D
  <2>5. QED
    BY <1>2, <2>1, <2>2, <2>3, <2>4, PartsBound
<1>7. ASSUME NEW n \in Node \ simulatedPod.nodes PROVE c[n] = 0
  <2>1. {i \in D : status.pods[i][2] = n} = {}
    BY <1>1 DEF Judged, OnItsNodes
  <2>2. QED
    BY <2>1, FS_EmptySet
<1>8. /\ status.reason \in {"Schedulable", "Unschedulable"}
      /\ status.reason = "Schedulable" <=>
           simulatedPod.replicas > 0 /\ Len(status.pods) = simulatedPod.replicas
      /\ group[next] = simulatedPod
  BY DEF Judged, RightVerdict, AllPlaced, Progress
<1>9. simulatedPod.replicas > 0 => Len(status.pods) <= simulatedPod.replicas
  <2>1. simulated \in Nat
    BY EngineTypes
  <2>2. QED
    BY <1>1, <2>1 DEF Judged, Progress, App
<1> HIDE DEF c, m, D
<1>10. QED
  BY <1>2, <1>3, <1>6, <1>7, <1>8, <1>9 DEF Service!Truthful

(* The pods of a review are on the node it counts them on.                 *)
LEMMA ReviewIsCovered ==
  ASSUME BatonInv, StatusInv, IsFiniteSet(bound), NEW n \in Node
  PROVE  Review.onNode[n] <= Cardinality(RunOn(stop, n))
<1> DEFINE I == {i \in DOMAIN status.pods : status.pods[i][2] = n}
           F == [i \in I |-> status.pods[i]]
           R == RunOn(stop, n)
<1>1. IsFiniteSet(R)
  BY FS_Subset DEF RunOn
<1>2. \A i \in I : F[i] \in R /\ F[i][1].index = i
  BY DEF StatusInv, OrderInv, Recorded, InPlace, RunOn
<1>3. F \in [I -> R] /\ \A i, j \in I : F[i] = F[j] => i = j
  <2>1. \A i, j \in I : F[i] = F[j] => i = j
    BY <1>2
  <2> HIDE DEF R, I
  <2>2. QED
    BY <1>2, <2>1
<1> HIDE DEF F, R, I
<1>4. F \in Injection(I, R)
  BY <1>3 DEF Injection, IsInjective
<1>5. Cardinality(I) <= Cardinality(R)
  BY <1>1, <1>4, FS_Injection
<1>6. QED
  BY <1>5 DEF Review, R, I

LEMMA PartsFit ==
  ASSUME NEW D, NEW c \in [D -> Nat], NEW T, IsFiniteSet(T), NEW m,
         \A x \in D : m[x] \subseteq T,
         \A x, y \in D : \A t \in m[x] \cap m[y] : x = y,
         \A x \in D : c[x] <= Cardinality(m[x])
  PROVE  Service!Total(c) <= Cardinality(T) /\ Service!Total(c) \in Nat
<1> DEFINE p == [x \in D |-> m[x]]
<1>1. p \in [D -> SUBSET T] /\ \A x \in D : p[x] = m[x]
  OBVIOUS
<1> HIDE DEF p
<1>2. /\ \A x, y \in D : \A t \in p[x] \cap p[y] : x = y
      /\ \A x \in D : c[x] <= Cardinality(p[x])
  BY <1>1
<1>3. QED
  BY <1>1, <1>2, PartsBound

(* Apps run one after the other and each has pods of its own, so counts    *)
(* that some of them cover on a node are covered there together.           *)
LEMMA PlacedFits ==
  ASSUME Typed, IsFiniteSet(bound), NoOvercommit, NEW n \in Node,
         NEW S \in SUBSET Nat, NEW c \in [S -> Nat],
         \A i \in S : c[i] <= Cardinality(RunOn(stop - next + i, n))
  PROVE  Service!Total(c) <= Slots[n]
<1> DEFINE T == PlacedOn(bound, n)
           m == [i \in S |-> RunOn(stop - next + i, n)]
<1>1. stop \in Nat /\ next \in Nat
  BY DEF Typed, TypeOK, EngineTypeOK
<1>2. IsFiniteSet(T)
  BY FS_Subset DEF PlacedOn
<1>3. m \in [S -> SUBSET T] /\ \A i \in S : m[i] = RunOn(stop - next + i, n)
  BY DEF RunOn, PlacedOn
<1>4. ASSUME NEW x \in S, NEW y \in S, NEW t \in m[x] \cap m[y] PROVE x = y
  <2>1. t[1].run = stop - next + x /\ t[1].run = stop - next + y
    BY <1>3 DEF RunOn
  <2>2. QED
    BY <1>1, <2>1
<1>5. \A i \in S : c[i] <= Cardinality(m[i])
  BY <1>3
<1> HIDE DEF T, m
<1>6. Service!Total(c) <= Cardinality(T) /\ Service!Total(c) \in Nat
  <2>1. \A x, y \in S : \A t \in m[x] \cap m[y] : x = y
    BY <1>4
  <2>2. \A x \in S : m[x] \subseteq T
    BY <1>3
  <2>3. QED
    BY <1>2, <1>5, <2>1, <2>2, PartsFit
<1>7. Cardinality(T) <= Slots[n] /\ Slots[n] \in Nat /\ Cardinality(T) \in Nat
  BY <1>2, FS_CardinalityType, SlotsAssumption DEF NoOvercommit, T
<1>8. QED
  BY <1>6, <1>7

(* An app that stands after the next one stood before it.                  *)
LEMMA StandingShrinks ==
  ASSUME NEW apps, NEW j \in Nat
  PROVE  /\ Service!Standing(apps, j) \subseteq 1..j
         /\ Service!Standing(apps, j + 1) \subseteq Service!Standing(apps, j) \cup {j + 1}
BY DEF Service!Standing

(* Nobody but CleanPod, and the preemption of a pod that outranks them,    *)
(* takes pods away that have been reviewed.                                *)
LEMMA FrameKeepsCovered ==
  ASSUME Typed, Covered, IsFiniteSet(bound'), UNCHANGED <<reportlist, group>>,
         Service!Standing(group, InFront') \cap DOMAIN reportlist
           \subseteq Service!Standing(group, InFront),
         \A i \in DOMAIN reportlist : RunOf(i)' = RunOf(i),
         \A i \in Service!Standing(group, InFront') \cap DOMAIN reportlist : \A x \in bound :
           x[1].run = RunOf(i) => x \in bound'
  PROVE  Covered'
<1> DEFINE I == Service!Standing(group, InFront') \cap DOMAIN reportlist
<1>1. ASSUME NEW i \in I, NEW n \in Node
      PROVE  reportlist[i].onNode[n] <= Cardinality(RunOn(RunOf(i), n)')
  <2> DEFINE S == RunOn(RunOf(i), n)
             T == RunOn(RunOf(i), n)'
  <2>1. S \subseteq T /\ IsFiniteSet(T)
    <3>1. RunOn(RunOf(i), n)' = {x \in bound' : x[1].run = RunOf(i) /\ x[2] = n}
      BY DEF RunOn
    <3>2. T \subseteq bound' /\ S \subseteq T
      BY <3>1 DEF RunOn
    <3>3. QED
      BY <3>2, FS_Subset
  <2> HIDE DEF S, T
  <2>2. Cardinality(S) <= Cardinality(T) /\ Cardinality(S) \in Nat /\ Cardinality(T) \in Nat
    BY <2>1, FS_Subset, FS_CardinalityType
  <2>3. reportlist[i].onNode[n] \in Nat
    <3>1. reportlist[i] \in ReviewType
      BY DEF Typed, TypeOK
    <3>2. QED
      BY <3>1 DEF ReviewType
  <2>4. reportlist[i].onNode[n] <= Cardinality(S)
    BY DEF Covered, S
  <2>5. QED
    BY <2>2, <2>3, <2>4 DEF T
<1>2. Service!Standing(group, InFront)' = Service!Standing(group, InFront')
  BY DEF Service!Standing
<1>3. QED
  BY <1>1, <1>2 DEF Covered

LEMMA FrameKeepsRanked ==
  ASSUME Ranked, bound' \subseteq bound, UNCHANGED <<group, InFront, stop>>
  PROVE  Ranked'
BY DEF Ranked, RunOf

LEMMA SameReviews ==
  ASSUME ReviewsInv, UNCHANGED <<group, reportlist>>,
         RunsCounted', pc' \in {"apps", "schedule", "reset"} => StillThere'
  PROVE  ReviewsInv'
<1>1. Reviewed' /\ Fitting'
  BY DEF ReviewsInv, Reviewed, Fitting, Service!Standing
<1>2. QED
  BY <1>1 DEF ReviewsInv

(* The review of the app just simulated joins the others.                  *)
LEMMA ReportKeepsReviews ==
  ASSUME BatonInv, StatusInv, Counting, VerdictInv, ReviewsInv, NoOvercommit,
         IsFiniteSet(bound), ReportApp
  PROVE  ReviewsInv'
<1>1. /\ pc = "schedule" /\ pc' = "reset" /\ caller.at = "done" /\ next' = next + 1
      /\ reportlist' = Append(reportlist, Review)
      /\ UNCHANGED <<group, stop, bound>>
  BY DEF ReportApp, requestVars, clusterVars
<1>2. /\ reportlist \in Seq(ReviewType) /\ Review \in ReviewType /\ next \in Nat /\ stop \in Nat
      /\ DOMAIN reportlist = 1..Len(reportlist) /\ Len(reportlist) = next - 1
  BY ReviewTyped DEF BatonInv, Typed, TypeOK, EngineTypeOK, Counting
<1>3. /\ DOMAIN reportlist' = 1..next /\ reportlist'[next] = Review
      /\ \A i \in DOMAIN reportlist : reportlist'[i] = reportlist[i]
  <2>1. Len(reportlist) + 1 = next
    BY <1>2
  <2>2. /\ DOMAIN reportlist' = 1..(Len(reportlist) + 1)
        /\ reportlist'[Len(reportlist) + 1] = Review
        /\ \A i \in 1..Len(reportlist) : reportlist'[i] = reportlist[i]
    BY <1>1, <1>2, AppendProperties
  <2>3. QED
    BY <1>2, <2>1, <2>2
<1>4. \A i \in DOMAIN reportlist' : i = next \/ i \in DOMAIN reportlist
  BY <1>2, <1>3
<1>5. Judged /\ Ranked /\ Covered /\ Reviewed /\ Fitting /\ RunsCounted
  BY <1>1 DEF VerdictInv, ReviewsInv, StillThere
<1>6. Reviewed'
  <2>1. Service!Truthful(group[next], Review)
    BY <1>1, <1>5, ReviewIsTrue
  <2>2. \A i \in DOMAIN reportlist' : Service!Truthful(group[i], reportlist'[i])
    BY <1>3, <1>4, <1>5, <2>1 DEF Reviewed
  <2>3. QED
    BY <1>1, <2>2 DEF Reviewed, Service!Truthful
<1>7. InFront = next /\ InFront' = next
  BY <1>1, <1>2 DEF InFront
<1> DEFINE S == Service!Standing(group, next)
<1>8. S \subseteq 1..next
  BY <1>2, StandingShrinks
<1>9. ASSUME NEW i \in S, NEW n \in Node
      PROVE  reportlist'[i].onNode[n] <= Cardinality(RunOn(stop - next + i, n))
  <2>1. CASE i = next
    <3>1. Review.onNode[n] <= Cardinality(RunOn(stop, n))
      BY ReviewIsCovered
    <3>2. stop - next + i = stop
      BY <1>2, <2>1
    <3>3. QED
      BY <1>3, <2>1, <3>1, <3>2
  <2>2. CASE i # next
    <3>1. i \in DOMAIN reportlist
      BY <1>2, <1>8, <2>2
    <3>2. RunOf(i) = stop - next + i
      BY <1>7 DEF RunOf
    <3>3. QED
      BY <1>3, <1>5, <1>7, <3>1, <3>2 DEF Covered
  <2>3. QED
    BY <2>1, <2>2
<1>10. StillThere'
  <2>1. \A i : RunOf(i)' = stop - next + i
    BY <1>1, <1>7 DEF RunOf
  <2>2. ASSUME NEW i \in S, NEW n \in Node
        PROVE  reportlist'[i].onNode[n] <= Cardinality(RunOn(RunOf(i), n)')
    <3>1. RunOn(RunOf(i), n)' = RunOn(stop - next + i, n)
      BY <1>1, <2>1 DEF RunOn
    <3>2. QED
      BY <1>9, <3>1
  <2>3. Service!Standing(group, InFront)' = S
    BY <1>1, <1>7 DEF Service!Standing
  <2>4. Covered'
    BY <2>2, <2>3 DEF Covered
  <2>5. Ranked'
    BY <1>1, <1>5, <1>7, FrameKeepsRanked
  <2>6. QED
    BY <2>4, <2>5 DEF StillThere
<1>11. ASSUME NEW n \in Node
       PROVE  Service!Total(Service!OnNode(reportlist', S, n)) <= Slots[n]
  <2> DEFINE c == Service!OnNode(reportlist', S, n)
  <2>1. \A i \in S : reportlist'[i] \in ReviewType
    BY <1>2, <1>3, <1>8
  <2>2. c \in [S -> Nat] /\ \A i \in S : c[i] = reportlist'[i].onNode[n]
    BY <2>1 DEF Service!OnNode, ReviewType
  <2>3. \A i \in S : c[i] <= Cardinality(RunOn(stop - next + i, n))
    BY <1>9, <2>2
  <2>4. S \in SUBSET Nat /\ Typed /\ NoOvercommit
    BY <1>8 DEF BatonInv
  <2> HIDE DEF c, S
  <2>5. QED
    BY <2>2, <2>3, <2>4, PlacedFits DEF c
<1>12. Fitting'
  <2>1. ASSUME NEW j \in DOMAIN reportlist, NEW n \in Node
        PROVE  Service!OnNode(reportlist', Service!Standing(group, j), n)
                 = Service!OnNode(reportlist, Service!Standing(group, j), n)
    <3>1. Service!Standing(group, j) \subseteq DOMAIN reportlist
      BY <1>2 DEF Service!Standing
    <3>2. QED
      BY <1>3, <3>1 DEF Service!OnNode
  <2>2. ASSUME NEW j \in DOMAIN reportlist', NEW n \in Node
        PROVE  Service!Total(Service!OnNode(reportlist', Service!Standing(group, j), n))
                 <= Slots[n]
    <3>1. CASE j = next
      BY <1>11, <3>1
    <3>2. CASE j \in DOMAIN reportlist
      BY <1>5, <2>1, <3>2 DEF Fitting
    <3>3. QED
      BY <1>4, <3>1, <3>2
  <2>3. \A j, n : Service!Total(Service!OnNode(reportlist, Service!Standing(group, j), n))'
                 = Service!Total(Service!OnNode(reportlist', Service!Standing(group, j), n))
    BY <1>1 DEF Service!Total, Service!OnNode, Service!Counted, Service!Standing
  <2>4. QED
    BY <2>2, <2>3 DEF Fitting
<1>13. RunsCounted'
  BY <1>1, <1>5 DEF RunsCounted
<1>14. QED
  BY <1>6, <1>10, <1>12, <1>13 DEF ReviewsInv

(* The next app has a run of its own.                                      *)
LEMMA StartKeepsReviews ==
  ASSUME Typed, Counting, ReviewsInv, IsFiniteSet(bound), StartApp
  PROVE  ReviewsInv'
<1>1. /\ pc = "apps" /\ pc' = "schedule" /\ stop' = stop + 1
      /\ UNCHANGED <<group, reportlist, next, bound>>
  BY DEF StartApp, UpdatePodRequest, MakeStopChannel, clusterVars
<1>2. /\ next \in Nat \ {0} /\ stop \in Nat /\ DOMAIN reportlist = 1..(next - 1)
      /\ InFront = next - 1 /\ InFront' = next /\ bound \subseteq Placement
  BY <1>1 DEF Typed, TypeOK, EngineTypeOK, Counting, InFront
<1>3. \A i \in 1..next : RunOf(i)' = stop + 1 - next + i
  BY <1>1, <1>2 DEF RunOf
<1>4. \A i \in 1..(next - 1) : RunOf(i)' = RunOf(i)
  BY <1>1, <1>2 DEF RunOf
<1>5. Ranked /\ Covered /\ RunsCounted
  BY <1>1 DEF ReviewsInv, StillThere
<1>6. RunsCounted' /\ \A x \in bound : x[1].run # stop + 1
  BY <1>1, <1>2, <1>5 DEF RunsCounted, Placement, Pod
<1>7. Ranked'
  <2>1. ASSUME NEW i \in 1..next, NEW x \in bound, x[1].run = RunOf(i)'
        PROVE  x[1].priority = group[i].priority
    <3>1. i # next
      BY <1>2, <1>3, <1>6, <2>1
    <3>2. QED
      BY <1>2, <1>4, <1>5, <2>1, <3>1 DEF Ranked
  <2>2. QED
    BY <1>1, <1>2, <2>1 DEF Ranked
<1>8. Covered'
  <2>1. Service!Standing(group, next) \subseteq Service!Standing(group, next - 1) \cup {next}
    <3>1. Service!Standing(group, (next - 1) + 1)
            \subseteq Service!Standing(group, next - 1) \cup {(next - 1) + 1}
      BY <1>2, StandingShrinks
    <3>2. (next - 1) + 1 = next
      BY <1>2
    <3>3. QED
      BY <3>1, <3>2
  <2>2. Service!Standing(group, InFront') \cap DOMAIN reportlist
          \subseteq Service!Standing(group, InFront)
    BY <1>2, <2>1
  <2>3. QED
    BY <1>1, <1>2, <1>4, <1>5, <2>2, FrameKeepsCovered
<1>9. QED
  BY <1>1, <1>6, <1>7, <1>8, SameReviews DEF StillThere

(* Steps that leave the count of apps and the pods alone.                  *)
LEMMA FrameKeepsReviews ==
  ASSUME Typed, ReviewsInv, IsFiniteSet(bound),
         UNCHANGED <<group, reportlist, stop, bound, InFront>>,
         pc' \in {"apps", "schedule", "reset"} => pc \in {"apps", "schedule", "reset"}
  PROVE  ReviewsInv'
<1>1. RunsCounted'
  BY DEF ReviewsInv, RunsCounted
<1>2. ASSUME StillThere PROVE StillThere'
  <2>1. Ranked'
    BY <1>2, FrameKeepsRanked DEF StillThere
  <2>2. \A i : RunOf(i)' = RunOf(i)
    BY DEF RunOf
  <2>3. Covered'
    BY <1>2, <2>2, FrameKeepsCovered DEF StillThere
  <2>4. QED
    BY <2>1, <2>3 DEF StillThere
<1>3. QED
  BY <1>1, <1>2, SameReviews DEF ReviewsInv

LEMMA WorkerKeepsReviews ==
  ASSUME BatonInv, StatusInv, Counting, VerdictInv, ReviewsInv,
         NoOvercommit, IsFiniteSet(bound), IsFiniteSet(bound'), Worker
  PROVE  ReviewsInv'
<1>0. Typed /\ Fitting /\ Reviewed /\ RunsCounted
  BY DEF BatonInv, ReviewsInv
<1>1. ASSUME NEW i \in DOMAIN queue, PopJob(i) PROVE ReviewsInv'
  <2>1. /\ reportlist' = << >> /\ pc' = "apps" /\ DOMAIN << >> = {} /\ next' = 1
        /\ UNCHANGED <<bound, stop>>
    BY <1>1 DEF PopJob, engineVars
  <2>2. InFront' = 0 /\ 1..0 = {}
    BY <2>1 DEF InFront
  <2>3. RunsCounted'
    BY <1>0, <2>1 DEF RunsCounted
  <2>4. QED
    BY <2>1, <2>2, <2>3 DEF ReviewsInv, Reviewed, Fitting, StillThere, Ranked, Covered
<1>2. CASE ResetStatus
  <2>1. /\ pc = "reset" /\ pc' = "apps" /\ UNCHANGED <<group, reportlist, next, stop, bound>>
    BY <1>2 DEF ResetStatus, requestVars, clusterVars
  <2>2. InFront' = InFront
    BY <2>1 DEF InFront
  <2>3. QED
    BY <1>0, <2>1, <2>2, FrameKeepsReviews
<1>3. CASE DropJob \/ Publish
  <2>1. pc' = "pop" /\ UNCHANGED <<group, reportlist, stop, bound>>
    BY <1>3 DEF DropJob, Publish, requestVars, clusterVars
  <2>2. RunsCounted'
    BY <1>0, <2>1 DEF RunsCounted
  <2>3. QED
    BY <2>1, <2>2, SameReviews
<1>4. CASE StartApp
  BY <1>0, <1>4, StartKeepsReviews
<1>5. CASE ListPods
  <2>1. /\ pc' \in {"publish", "delete"} /\ UNCHANGED <<group, reportlist, stop, bound>>
    BY <1>5, Zenon DEF ListPods, AfterList, engineVars
  <2>2. RunsCounted'
    BY <1>0, <2>1 DEF RunsCounted
  <2>3. QED
    BY <2>1, <2>2, SameReviews
<1>6. ASSUME NEW p \in toClean, CleanPod(p) PROVE ReviewsInv'
  <2>1. /\ pc' \in {"publish", "list", "delete"} /\ UNCHANGED <<group, reportlist, stop>>
    BY <1>6, Zenon DEF CleanPod, requestVars
  <2>2. bound' \subseteq bound
    BY <1>6 DEF CleanPod, DeletePod, DeletePods
  <2>3. RunsCounted'
    BY <1>0, <2>1, <2>2 DEF RunsCounted
  <2>4. QED
    BY <2>1, <2>3, SameReviews
<1>7. CASE ReportApp
  BY <1>7, ReportKeepsReviews
<1>8. QED
  BY <1>1, <1>2, <1>3, <1>4, <1>5, <1>6, <1>7 DEF Worker

(* The engine places pods of the running app only ...                      *)
LEMMA BindKeepsReviews ==
  ASSUME BatonInv, OrderInv, Counting, VerdictInv, ReviewsInv, IsFiniteSet(bound'),
         UNCHANGED <<group, next, pc, reportlist, stop>>, NEW b \in binding, BindUpdate(b)
  PROVE  ReviewsInv'
<1>1. caller.at = "wait" /\ pc = "schedule" /\ IsCurrent(b.pod)
  BY OnlyBinding DEF BindUpdate, OrderInv, InHand, AtWork
<1>2. /\ simulatedPod = group[next] /\ Ranked /\ Covered /\ RunsCounted
  BY <1>1 DEF VerdictInv, Judged, Progress, ReviewsInv, StillThere
<1>3. /\ Typed /\ next \in Nat /\ stop \in Nat /\ DOMAIN reportlist = 1..(next - 1)
  BY DEF BatonInv, Typed, TypeOK, EngineTypeOK, Counting
<1>4. InFront = next /\ InFront' = next /\ \A i : RunOf(i)' = RunOf(i)
  BY <1>1 DEF InFront, RunOf
<1>5. /\ b.pod.run = stop /\ b.pod.priority = group[next].priority
      /\ \A i \in 1..next : RunOf(i) = stop => i = next
  BY <1>1, <1>2, <1>3, <1>4 DEF IsCurrent, RunOf
<1>6. /\ \A x \in bound' : x \in bound \/ x[1] = b.pod
      /\ \A x \in bound : x[1] # b.pod => x \in bound'
  BY DEF BindUpdate
<1>7. RunsCounted'
  BY <1>2, <1>3, <1>5, <1>6 DEF RunsCounted
<1>8. Ranked'
  <2>1. ASSUME NEW i \in 1..next, NEW x \in bound', x[1].run = RunOf(i)
        PROVE  x[1].priority = group[i].priority
    BY <1>2, <1>4, <1>5, <1>6, <2>1 DEF Ranked
  <2>2. QED
    BY <1>4, <2>1 DEF Ranked
<1>9. Covered'
  <2>1. \A i \in 1..(next - 1) : \A x \in bound : x[1].run = RunOf(i) => x \in bound'
    BY <1>3, <1>5, <1>6
  <2>2. QED
    BY <1>2, <1>3, <1>4, <2>1, FrameKeepsCovered
<1>10. QED
  BY <1>7, <1>8, <1>9, SameReviews DEF StillThere

(* ... and deletes pods of that app, or of apps that it outranks.          *)
LEMMA DeletesKeepReviews ==
  ASSUME BatonInv, OrderInv, Counting, VerdictInv, ReviewsInv, IsFiniteSet(bound),
         UNCHANGED <<group, next, pc, reportlist, stop>>, caller.at = "wait",
         NEW p, IsCurrent(p), NEW D, DeletePods(D),
         D = {p} \/ \A q \in D : q.priority < p.priority
  PROVE  ReviewsInv'
<1>1. pc = "schedule" /\ p.run = stop /\ p.priority = simulatedPod.priority
  BY DEF OrderInv, AtWork, IsCurrent
<1>2. /\ simulatedPod = group[next] /\ Ranked /\ Covered /\ RunsCounted
  BY <1>1 DEF VerdictInv, Judged, Progress, ReviewsInv, StillThere
<1>3. /\ Typed /\ next \in Nat /\ stop \in Nat /\ DOMAIN reportlist = 1..(next - 1)
      /\ simulatedPod.priority \in Int
  BY DEF BatonInv, Typed, TypeOK, EngineTypeOK, Counting, App
<1>4. InFront = next /\ InFront' = next /\ \A i : RunOf(i)' = RunOf(i)
  BY <1>1 DEF InFront, RunOf
<1>5. bound' \subseteq bound /\ \A x \in bound : x[1] \notin D => x \in bound'
  BY DEF DeletePods
<1>6. RunsCounted' /\ Ranked'
  BY <1>2, <1>4, <1>5, FrameKeepsRanked DEF RunsCounted
<1>7. ASSUME NEW i \in Service!Standing(group, next) \cap 1..(next - 1), NEW x \in bound,
             x[1].run = RunOf(i)
      PROVE  x[1] \notin D
  <2>1. x[1].run # p.run
    BY <1>1, <1>3, <1>4, <1>7 DEF RunOf
  <2>2. group[next].priority <= group[i].priority
    BY <1>3 DEF Service!Standing
  <2>3. x[1].priority = group[i].priority
    BY <1>2, <1>3, <1>4, <1>7 DEF Ranked
  <2>4. p.priority <= x[1].priority
    BY <1>1, <1>2, <2>2, <2>3
  <2>5. \A q \in D : q = p \/ q.priority < p.priority
    OBVIOUS
  <2>6. x[1].priority \in Int /\ p.priority \in Int
    <3>1. x \in Placement
      BY DEF BatonInv, Typed, TypeOK, EngineTypeOK
    <3>2. QED
      BY <1>1, <1>3, <3>1 DEF Placement, Pod
  <2>7. QED
    BY <2>1, <2>4, <2>5, <2>6
<1>8. Covered'
  <2>1. IsFiniteSet(bound')
    BY <1>5, FS_Subset
  <2>2. QED
    BY <1>2, <1>3, <1>4, <1>5, <1>7, <2>1, FrameKeepsCovered
<1>9. QED
  BY <1>6, <1>8, SameReviews DEF StillThere

LEMMA EngineKeepsReviews ==
  ASSUME BatonInv, OrderInv, Counting, VerdictInv, ReviewsInv,
         IsFiniteSet(bound), IsFiniteSet(bound'), Engine \/ Cycle, UNCHANGED workerVars
  PROVE  ReviewsInv'
<1>0. Typed /\ UNCHANGED <<pc, group, next, reportlist>>
  BY DEF BatonInv, workerVars
<1>1. UNCHANGED stop
  BY DEF Engine, Caller, SchedulerPodStart, SchedulerPodReturn, Scheduler, ScheduleFail, Cycle,
     ScheduleFit, Reject, Binder, BindUpdate, BindRecord, BindLast, BindNext, BindSend, Handler,
     HandlerStop, HandlerClean, HandlerSend, Informer, CacheForget, NominationForget, requestVars
<1>2. CASE UNCHANGED bound
  <2>1. UNCHANGED InFront
    BY <1>0 DEF InFront
  <2>2. QED
    BY <1>0, <1>1, <1>2, <2>1, FrameKeepsReviews
<1>3. CASE HandlerClean
  <2>1. caller.at = "wait" /\ IsCurrent(handler.pod)
    BY <1>3, OnlyHandler DEF HandlerClean, HandlerIdle, OrderInv, InHand
  <2>2. DeletePods({handler.pod})
    BY <1>3 DEF HandlerClean, DeletePod
  <2>3. QED
    BY <1>0, <1>1, <2>1, <2>2, DeletesKeepReviews
<1>4. ASSUME NEW p \in activeQ, NEW N \in SUBSET Node, Reject(p, N) PROVE ReviewsInv'
  <2>1. caller.at = "wait" /\ IsCurrent(p)
    BY OnlyPending DEF OrderInv, InHand
  <2>2. PICK D : DeletePods(D) /\ Inferiors(p, D)
    BY <1>4, PreemptDeletes DEF Reject
  <2>3. QED
    BY <1>0, <1>1, <2>1, <2>2, DeletesKeepReviews DEF Inferiors
<1>5. ASSUME NEW b \in binding, BindUpdate(b) PROVE ReviewsInv'
  BY <1>0, <1>1, <1>5, BindKeepsReviews
<1>6. CASE Cycle
  BY <1>2, <1>4, <1>6 DEF Cycle, ScheduleFit
<1>7. CASE Binder
  BY <1>2, <1>5, <1>7 DEF Binder, BindRecord, BindLast, BindNext, BindSend, clusterVars
<1>8. CASE Handler
  BY <1>2, <1>3, <1>8 DEF Handler, HandlerStop, HandlerSend, clusterVars
<1>9. CASE Caller \/ Informer
  BY <1>2, <1>9 DEF Caller, SchedulerPodStart, SchedulerPodReturn, Informer, CacheForget,
     NominationForget, clusterVars
<1>10. QED
  BY <1>6, <1>7, <1>8, <1>9, SchedulerCycles DEF Engine

LEMMA StepKeepsReviews ==
  ASSUME BatonInv, StatusInv, Counting, VerdictInv, ReviewsInv, NoOvercommit,
         IsFiniteSet(bound), IsFiniteSet(bound'), [Next]_vars \/ CycleStep
  PROVE  ReviewsInv'
<1>1. CASE Client \/ PollEmpty \/ UNCHANGED vars
  <2>1. /\ UNCHANGED <<pc, group, next, reportlist, stop, bound>> /\ Typed
    BY <1>1 DEF Client, Submit, PollEmpty, vars, workerVars, engineVars, BatonInv
  <2>2. UNCHANGED InFront
    BY <2>1 DEF InFront
  <2>3. QED
    BY <2>1, <2>2, FrameKeepsReviews
<1>2. CASE EngineStep \/ CycleStep
  BY <1>2, EngineKeepsReviews DEF EngineStep, CycleStep, StatusInv
<1>3. QED
  BY <1>1, <1>2, WorkerKeepsReviews DEF Next

-----------------------------------------------------------------------------
(* The service.  What each step of the worker is to a client.              *)
Active == IF pc = "pop" THEN {} ELSE {<<key, group>>}
Unfinished == UNCHANGED <<Waiting, Active, emulatorResult>>

LEMMA QueueRests ==
  ASSUME UNCHANGED fifoVars PROVE UNCHANGED Waiting
BY DEF Waiting, fifoVars

LEMMA JobSteps ==
  ASSUME Typed, OnePlace, QueueMatches, [Next]_vars
  PROVE  \/ \E k \in Key, g \in Group :
              /\ Waiting' = Append(Waiting, <<k, g>>) /\ UNCHANGED <<Active, emulatorResult>>
         \/ /\ Waiting # << >> /\ Active = {} /\ Active' = {Head(Waiting)}
            /\ Waiting' = Tail(Waiting) /\ UNCHANGED emulatorResult
         \/ Publish \/ DropJob
         \/ Unfinished
<1>1. ASSUME NEW k \in Key, NEW g \in Group, Submit(k, g)
      PROVE  Waiting' = Append(Waiting, <<k, g>>) /\ UNCHANGED <<Active, emulatorResult>>
  BY <1>1, SubmitWaits DEF Submit, Active, workerVars
<1>2. ASSUME NEW i \in DOMAIN queue, PopJob(i)
      PROVE  /\ Waiting # << >> /\ Active = {} /\ Active' = {Head(Waiting)}
             /\ Waiting' = Tail(Waiting) /\ UNCHANGED emulatorResult
  BY <1>2, PopTakes DEF PopJob, Active
<1>3. CASE PollEmpty
  <2>1. UNCHANGED fifoVars
    BY <1>3, PollTakesNothing DEF PollEmpty, PopEmpty, fifoVars
  <2>2. QED
    BY <1>3, <2>1, QueueRests DEF PollEmpty, Unfinished, Active, workerVars
<1>4. CASE StartApp \/ ReportApp \/ ResetStatus \/ ListPods
  BY <1>4, QueueRests, Zenon
     DEF StartApp, ReportApp, ResetStatus, ListPods, AfterList, Unfinished, Active
<1>5. ASSUME NEW p \in toClean, CleanPod(p) PROVE Unfinished
  <2>1. pc = "delete" /\ pc' \in {"publish", "list", "delete"}
    BY <1>5, Zenon DEF CleanPod
  <2>2. QED
    BY <1>5, <2>1, QueueRests DEF CleanPod, Unfinished, Active
<1>6. CASE EngineStep \/ UNCHANGED vars
  BY <1>6, QueueRests DEF EngineStep, vars, workerVars, Unfinished, Active
<1>7. QED
  BY <1>1, <1>2, <1>3, <1>4, <1>5, <1>6 DEF Next, Client, Worker

(* A dropped job is one whose first create failed.                         *)
LEMMA DropDrops ==
  ASSUME Counting, DropJob
  PROVE  /\ CreateMayFail /\ Active # {} /\ Active' = {}
         /\ UNCHANGED <<Waiting, emulatorResult>>
BY QueueRests DEF Counting, DropJob, Active

(* A job that is answered has a review for each of its apps, all true, and *)
(* all of them fit together.                                               *)
LEMMA PublishAnswers ==
  ASSUME Typed, OnePlace, Counting, Publish
  PROVE  /\ Active = {<<key, group>>} /\ Active' = {}
         /\ Len(reportlist) = Len(group)
         /\ emulatorResult' = emulatorResult \cup {<<key, reportlist>>}
         /\ <<key, reportlist>> \notin emulatorResult
         /\ UNCHANGED Waiting
         /\ ReviewsInv => Service!Honest(group, reportlist)
<1>1. pc = "publish" /\ pc' = "pop" /\ UNCHANGED fifoVars
  BY DEF Publish
<1>2. Len(reportlist) = Len(group) /\ DOMAIN group = DOMAIN reportlist
  <2>1. Len(reportlist) = Len(group)
    BY <1>1, GroupTyped DEF Counting
  <2>2. group \in Seq(App) /\ reportlist \in Seq(ReviewType)
    BY GroupTyped DEF Typed, TypeOK
  <2>3. QED
    BY <2>1, <2>2
<1>3. ReviewsInv => Service!Honest(group, reportlist)
  BY <1>1, <1>2 DEF ReviewsInv, Reviewed, Fitting, Service!Honest
<1>4. QED
  BY <1>1, <1>2, <1>3, PublishFinishes, QueueRests DEF Active

ServiceInv ==
  /\ BatonInv /\ CacheInv /\ StatusInv
  /\ OnePlace /\ QueueMatches /\ Counting /\ VerdictInv /\ ReviewsInv

LEMMA InitServes == ASSUME Init PROVE ServiceInv /\ Service!ServiceInit
<1>1. /\ pc = "pop" /\ next = 1 /\ reportlist = << >> /\ group = << >> /\ caller.at = "idle"
      /\ queue = << >> /\ emulatorResult = {}
  BY DEF Init, FifoInit, EngineInit
<1>2. Len(<< >>) = 0 /\ DOMAIN << >> = {}
  OBVIOUS
<1>3. Counting /\ VerdictInv /\ ReviewsInv
  <2>1. RunsCounted
    <3>1. \A x \in Mirrored : x[1].run = 0
      BY MirroredAssumption
    <3>2. bound = Mirrored /\ stop = 0
      BY DEF Init, EngineInit
    <3>3. QED
      BY <3>1, <3>2 DEF RunsCounted
  <2>2. QED
    BY <1>1, <1>2, <2>1 DEF Counting, VerdictInv, ReviewsInv, Reviewed, Fitting
<1>4. OnePlace /\ QueueMatches
  BY InitJobs DEF JobInv
<1>5. Waiting = << >>
  BY <1>1, <1>2 DEF Waiting
<1>6. Service!ServiceInit
  BY <1>1, <1>5 DEF Service!ServiceInit, Waiting
<1>7. StatusInv
  BY InitStatus
<1>8. QED
  BY <1>3, <1>4, <1>6, <1>7, InitBaton, InitCache DEF ServiceInv

LEMMA StepKeepsService ==
  ASSUME ServiceInv, [Next]_vars PROVE ServiceInv'
<1>1. BatonInv' /\ CacheInv' /\ StatusInv'
  BY StepKeepsBaton, StepKeepsCache, StepKeepsStatus DEF ServiceInv
<1>2. OnePlace' /\ QueueMatches' /\ Counting'
  BY OnePlaceStep, QueueMatchesStep, CountingStep DEF ServiceInv, BatonInv
<1>3. VerdictInv'
  BY StepKeepsVerdict DEF ServiceInv, StatusInv
<1>4. IsFiniteSet(bound) /\ IsFiniteSet(bound') /\ NoOvercommit
  BY <1>1, FS_Subset, CacheIsEnough DEF ServiceInv, CacheInv, CacheCovers
<1>5. ReviewsInv'
  BY <1>4, StepKeepsReviews DEF ServiceInv
<1>6. QED
  BY <1>1, <1>2, <1>3, <1>5 DEF ServiceInv

LEMMA StepServes ==
  ASSUME ServiceInv, [Next]_vars PROVE [Service!ServiceNext]_(Service!serviceVars)
<1>0. Typed /\ OnePlace /\ QueueMatches /\ Counting /\ ReviewsInv
  BY DEF ServiceInv, BatonInv
<1>1. ASSUME NEW k \in Key, NEW g \in Group,
             Waiting' = Append(Waiting, <<k, g>>), UNCHANGED <<Active, emulatorResult>>
      PROVE  Service!ServiceNext
  <2>1. Service!SubmitJob(k, g)
    BY <1>1 DEF Service!SubmitJob, Waiting, Active
  <2>2. QED
    BY <2>1 DEF Service!ServiceNext
<1>2. CASE /\ Waiting # << >> /\ Active = {} /\ Active' = {Head(Waiting)}
           /\ Waiting' = Tail(Waiting) /\ UNCHANGED emulatorResult
  <2>1. Service!StartJob
    BY <1>2 DEF Service!StartJob, Waiting, Active
  <2>2. QED
    BY <2>1 DEF Service!ServiceNext
<1>3. CASE Publish
  <2> DEFINE job == <<key, group>>
             done == <<key, reportlist>>
  <2>1. /\ Active = {job} /\ Active' = {} /\ Len(reportlist) = Len(group)
        /\ emulatorResult' = emulatorResult \cup {done} /\ done \notin emulatorResult
        /\ UNCHANGED Waiting /\ Service!Honest(group, reportlist)
    BY <1>0, <1>3, PublishAnswers
  <2>2. job[1] = key /\ job[2] = group /\ done[1] = key /\ done[2] = reportlist
    OBVIOUS
  <2> HIDE DEF job, done
  <2>3. Service!FinishJob
    BY <2>1, <2>2 DEF Service!FinishJob, Waiting, Active
  <2>4. QED
    BY <2>3 DEF Service!ServiceNext
<1>4. CASE DropJob
  <2>1. Service!DropJob
    BY <1>0, <1>4, DropDrops DEF Service!DropJob, CreateMayFail, Waiting, Active
  <2>2. QED
    BY <2>1 DEF Service!ServiceNext
<1>5. CASE Unfinished
  BY <1>5 DEF Unfinished, Waiting, Active, Service!serviceVars
<1>6. QED
  BY <1>0, <1>1, <1>2, <1>3, <1>4, <1>5, JobSteps

(* Kubesim implements the service its endpoints promise (JobService), for  *)
(* any cluster, jobs and preemptions, and any failures of SchedulerPod's   *)
(* create; those of the creates inside Bind are module Interference's.     *)
THEOREM ServiceImplemented == Spec => ImplementsJobService
<1>1. Init => ServiceInv /\ Service!ServiceInit
  BY InitServes
<1>2. ServiceInv /\ [Next]_vars => ServiceInv'
  BY StepKeepsService
<1>3. ServiceInv /\ [Next]_vars => [Service!ServiceNext]_(Service!serviceVars)
  BY StepServes
<1>4. QED
  BY <1>1, <1>2, <1>3, PTL DEF Spec, ImplementsJobService, Service!ServiceSpec

=============================================================================
