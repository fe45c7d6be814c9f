------------------------- MODULE AppsEmulatorProofs -------------------------
(***************************************************************************)
(* For any cluster, any jobs, any preemption and any outcome of the create *)
(* that starts an app: the types are right, the status of a job never goes *)
(* back, the queue holds exactly the jobs that nobody has taken, and one   *)
(* pod at a time is in hand.                                               *)
(***************************************************************************)
EXTENDS AppsEmulatorProperties, FiniteSetTheorems, SequenceTheorems, TLAPS

WorkerTypeOK ==
  /\ pc \in {"pop", "apps", "schedule", "reset", "list", "delete", "publish"}
  /\ key \in Key \cup {NoKey}
  /\ group \in Group \cup {<< >>}
  /\ next \in Nat \ {0}
  /\ reportlist \in Seq(ReviewType)
  /\ toClean \in SUBSET Pod
  /\ emulatorResult \in SUBSET (Key \X Seq(ReviewType))
  /\ used \in SUBSET Key

(* A worker with a job in hand knows its id.                               *)
HasKey == pc # "pop" => key \in Key

Typed == TypeOK /\ HasKey

-----------------------------------------------------------------------------
(* The queue's operations keep its type.                                   *)
LEMMA PushTyped ==
  ASSUME FifoTypeOK, NEW k \in Key, NEW g \in Group, Push(k, g)
  PROVE  FifoTypeOK'
BY AppendProperties DEF FifoTypeOK, Push

LEMMA PopTyped ==
  ASSUME FifoTypeOK, NEW i \in DOMAIN queue, Pop(i)
  PROVE  FifoTypeOK' /\ queue[i] \in Key /\ appGroup[queue[i]] \in Group
<1>1. queue \in Seq(Key) /\ i \in 1..Len(queue) /\ queue[i] \in Key
  BY DEF FifoTypeOK
<1>2. appGroup[queue[i]] \in Group
  BY <1>1 DEF FifoTypeOK, Pop, IsFront, Present
<1>3. queue' \in Seq(Key)
  <2>1. \A j \in (i + 1)..Len(queue) : queue[j] \in Key
    BY <1>1
  <2>2. QED
    BY <1>1, <2>1, SubSeqProperties DEF Pop
<1>4. appGroup' \in [Key -> Group \cup {NoGroup}]
  BY DEF FifoTypeOK, Pop
<1>5. QED
  BY <1>1, <1>2, <1>3, <1>4 DEF FifoTypeOK

-----------------------------------------------------------------------------
(* The engine's steps.                                                     *)
LEMMA NextPodTyped ==
  ASSUME EngineTypeOK PROVE NextPod \in Pod
BY DEF EngineTypeOK, NextPod, Pod, App

LEMMA CallerTyped ==
  ASSUME EngineTypeOK, Caller PROVE EngineTypeOK'
<1> USE DEF EngineTypeOK
<1>1. ASSUME NEW ok \in CreateOutcomes, SchedulerPodStart(ok) PROVE EngineTypeOK'
  <2>1. store' \in SUBSET Pod /\ activeQ' \in SUBSET Pod /\ simulated' \in Nat
    BY <1>1, NextPodTyped DEF SchedulerPodStart, CreateNextPod
  <2>2. CASE ok
    BY <1>1, <2>1, <2>2 DEF SchedulerPodStart, AwaitStop, CallerStates, clusterVars
  <2>3. CASE ~ok
    <3>1. panicked' \in BOOLEAN
      BY <1>1, <2>3 DEF SchedulerPodStart
    <3>2. QED
      BY <1>1, <2>1, <2>3, <3>1 DEF SchedulerPodStart, Close, CallerStates, clusterVars
  <2>4. QED
    BY <2>2, <2>3
<1>2. CASE SchedulerPodReturn
  <2>1. panicked' \in BOOLEAN
    BY <1>2 DEF SchedulerPodReturn
  <2>2. QED
    BY <1>2, <2>1 DEF SchedulerPodReturn, CallerStates, requestVars, clusterVars
<1>3. QED
  BY <1>1, <1>2 DEF Caller

(* A scheduling cycle that may look at any of the nodes and reject a pod   *)
(* for any reason: Scheduler's, and that of a cluster losing its nodes.    *)
Cycle == \E p \in activeQ : \/ \E n \in Node : ScheduleFit(p, n)
                            \/ \E N \in SUBSET Node : Reject(p, N)

CycleStep == Cycle /\ UNCHANGED <<fifoVars, workerVars, emulatorResult, used>>

LEMMA SchedulerCycles == ASSUME Scheduler PROVE Cycle
<1>1. Node \in SUBSET Node
  OBVIOUS
<1>2. QED
  BY <1>1 DEF Scheduler, ScheduleFail, Cycle

(* Preemption deletes pods the cache knows and the rejected pod outranks.  *)
Inferiors(p, D) == \A q \in D : q.priority < p.priority /\ q \in PodsOf(cache)

LEMMA PreemptDeletes ==
  ASSUME NEW p, NEW N, Preempt(p, N)
  PROVE  /\ \E D : DeletePods(D) /\ Inferiors(p, D)
         /\ \A x \in nominated' : x \in nominated \/ \E n \in p.nodes \cap N : x = <<p, n>>
<1>1. CASE UNCHANGED <<store, bound, nominated>>
  <2>1. DeletePods({}) /\ Inferiors(p, {})
    BY <1>1 DEF DeletePods, Inferiors
  <2>2. QED
    BY <1>1, <2>1
<1>2. ASSUME NEW n \in p.nodes \cap N, NEW V \in Victims(p, n), Evict(p, n, PodsOf(V))
      PROVE  /\ \E D : DeletePods(D) /\ Inferiors(p, D)
             /\ \A x \in nominated' : x \in nominated \/ x = <<p, n>>
  <2>1. Inferiors(p, PodsOf(V))
    BY DEF Inferiors, Victims, Outranked, PlacedOn, PodsOf
  <2>2. \A D \in SUBSET (PodsOf(V) \cap store) : Inferiors(p, D)
    BY <2>1 DEF Inferiors
  <2>3. QED
    BY <1>2, <2>1, <2>2 DEF Evict
<1>3. QED
  BY <1>1, <1>2 DEF Preempt

LEMMA SchedulerTyped ==
  ASSUME EngineTypeOK, Cycle PROVE EngineTypeOK'
<1> USE DEF EngineTypeOK
<1>1. ASSUME NEW p \in activeQ, NEW n \in Node, ScheduleFit(p, n) PROVE EngineTypeOK'
  <2>1. <<p, n>> \in Placement /\ [pod |-> p, node |-> n, at |-> "update", ch |-> 0] \in BindingStates
    BY <1>1 DEF Placement, BindingStates
  <2>2. QED
    BY <1>1, <2>1 DEF ScheduleFit, requestVars
<1>2. ASSUME NEW p \in activeQ, NEW N \in SUBSET Node, Reject(p, N) PROVE EngineTypeOK'
  <2>1. events' \in Seq(Pod)
    BY <1>2, AppendProperties DEF Reject
  <2>2. Preempt(p, N)
    BY <1>2 DEF Reject
  <2>3. store' \in SUBSET Pod /\ bound' \in SUBSET Placement
    BY <2>2, PreemptDeletes DEF DeletePods
  <2>4. \A n \in N : <<p, n>> \in Placement
    BY DEF Placement
  <2>5. nominated' \in SUBSET Placement
    BY <2>2, <2>4, PreemptDeletes
  <2>6. QED
    BY <1>2, <2>1, <2>3, <2>5 DEF Reject, requestVars
<1>3. QED
  BY <1>1, <1>2 DEF Cycle

LEMMA BinderTyped ==
  ASSUME EngineTypeOK, Binder PROVE EngineTypeOK'
<1> USE DEF EngineTypeOK
<1>0. ASSUME NEW b \in BindingStates, NEW at \in {"update", "record", "decide", "send", "forget"}
      PROVE  [b EXCEPT !.at = at] \in BindingStates
  BY DEF BindingStates
<1>1. ASSUME NEW b \in binding, BindUpdate(b) PROVE EngineTypeOK'
  <2>1. <<b.pod, b.node>> \in Placement
    BY DEF Placement, BindingStates
  <2>2. binding' \in SUBSET BindingStates
    <3>1. [b EXCEPT !.at = "record"] \in BindingStates
      BY <1>0
    <3>2. binding' \in {(binding \ {b}) \cup {[b EXCEPT !.at = "record"]}, binding \ {b}}
      BY <1>1, Zenon DEF BindUpdate, AdvanceBinding
    <3>3. QED
      BY <3>1, <3>2
  <2>3. QED
    BY <1>1, <2>1, <2>2 DEF BindUpdate, requestVars
<1>2. ASSUME NEW b \in binding, BindRecord(b) PROVE EngineTypeOK'
  <2>1. <<b.pod, b.node>> \in Placement
    BY DEF Placement, BindingStates
  <2>2. binding' \in SUBSET BindingStates
    BY <1>0, <1>2 DEF BindRecord, AdvanceBinding
  <2>3. status' \in [pods : Seq(Placement), reason : Reason]
    BY <1>2, <2>1, AppendProperties DEF BindRecord
  <2>4. QED
    BY <1>2, <2>2, <2>3 DEF BindRecord, requestVars, clusterVars
<1>3. ASSUME NEW b \in binding, BindLast(b) PROVE EngineTypeOK'
  <2>1. [b EXCEPT !.at = "send", !.ch = stop] \in BindingStates
    BY DEF BindingStates
  <2>2. status' \in [pods : Seq(Placement), reason : Reason]
    BY <1>3 DEF BindLast, Reason
  <2>3. QED
    BY <1>3, <2>1, <2>2 DEF BindLast, Close, requestVars, clusterVars
<1>4. ASSUME NEW b \in binding, BindNext(b) PROVE EngineTypeOK'
  <2>1. store' \in SUBSET Pod /\ activeQ' \in SUBSET Pod /\ simulated' \in Nat
    BY <1>4, NextPodTyped DEF BindNext, CreateNextPod
  <2>2. QED
    BY <1>4, <2>1 DEF BindNext
<1>5. ASSUME NEW b \in binding, BindSend(b) PROVE EngineTypeOK'
  <2>1. caller' \in CallerStates
    BY <1>5 DEF BindSend, SendStop, CallerStates
  <2>2. panicked' \in BOOLEAN
    BY <1>5 DEF BindSend, SendStop
  <2>3. QED
    BY <1>5, <2>1, <2>2 DEF BindSend, requestVars, clusterVars
<1>6. QED
  BY <1>1, <1>2, <1>3, <1>4, <1>5 DEF Binder

LEMMA HandlerTyped ==
  ASSUME EngineTypeOK, Handler PROVE EngineTypeOK'
<1> USE DEF EngineTypeOK
<1>1. CASE HandlerStop
  <2>1. Head(events) \in Pod /\ events' \in Seq(Pod)
    BY <1>1, HeadTailProperties DEF HandlerStop
  <2>2. handler' \in HandlerStates
    BY <1>1, <2>1 DEF HandlerStop, HandlerStates
  <2>3. status' \in [pods : Seq(Placement), reason : Reason]
    BY <1>1 DEF HandlerStop, Reason
  <2>4. QED
    BY <1>1, <2>1, <2>2, <2>3 DEF HandlerStop, Close, requestVars, clusterVars
<1>2. CASE HandlerClean
  <2>1. handler' \in HandlerStates
    BY <1>2 DEF HandlerClean, HandlerStates
  <2>2. QED
    BY <1>2, <2>1 DEF HandlerClean, DeletePod, DeletePods, requestVars
<1>3. CASE HandlerSend
  <2>1. handler' \in HandlerStates
    BY <1>3 DEF HandlerSend, HandlerStates
  <2>2. caller' \in CallerStates
    BY <1>3 DEF HandlerSend, SendStop, CallerStates
  <2>3. panicked' \in BOOLEAN
    BY <1>3 DEF HandlerSend, SendStop
  <2>4. QED
    BY <1>3, <2>1, <2>2, <2>3 DEF HandlerSend, requestVars, clusterVars
<1>4. QED
  BY <1>1, <1>2, <1>3 DEF Handler

LEMMA EngineTyped ==
  ASSUME EngineTypeOK, Engine \/ Cycle PROVE EngineTypeOK'
<1>1. CASE Informer
  BY <1>1 DEF Informer, CacheForget, NominationForget, EngineTypeOK, requestVars
<1>2. QED
  BY <1>1, CallerTyped, SchedulerTyped, SchedulerCycles, BinderTyped, HandlerTyped DEF Engine

-----------------------------------------------------------------------------
(* The worker's steps.  A review counts pods of a finite sequence.         *)
LEMMA ReviewTyped ==
  ASSUME EngineTypeOK PROVE Review \in ReviewType
<1>1. status.pods \in Seq(Placement) /\ status.reason \in Reason /\ simulatedPod.replicas \in Int
  BY DEF EngineTypeOK, App
<1>2. ASSUME NEW n \in Node
      PROVE  Cardinality({i \in DOMAIN status.pods : status.pods[i][2] = n}) \in Nat
  <2>1. IsFiniteSet(1..Len(status.pods))
    BY <1>1, FS_Interval
  <2>2. {i \in DOMAIN status.pods : status.pods[i][2] = n} \subseteq 1..Len(status.pods)
    BY <1>1
  <2>3. QED
    BY <2>1, <2>2, FS_Subset, FS_CardinalityType
<1>3. Len(status.pods) \in Nat
  BY <1>1
<1>4. [n \in Node |-> Cardinality({i \in DOMAIN status.pods : status.pods[i][2] = n})]
        \in [Node -> Nat]
  BY <1>2
<1>5. QED
  BY <1>1, <1>3, <1>4 DEF Review, ReviewType

LEMMA EmptiedTyped ==
  ASSUME EngineTypeOK, CleanStatusPods
  PROVE  status' \in [pods : Seq(Placement), reason : Reason]
<1>1. << >> \in Seq(Placement)
  OBVIOUS
<1>2. QED
  BY <1>1 DEF CleanStatusPods, EngineTypeOK

LEMMA WorkerTyped ==
  ASSUME TypeOK, HasKey, Worker PROVE TypeOK'
<1> USE DEF WorkerTypeOK
<1>0. FifoTypeOK /\ EngineTypeOK /\ WorkerTypeOK
  BY DEF TypeOK
<1>1. ASSUME NEW i \in DOMAIN queue, PopJob(i) PROVE TypeOK'
  <2>1. FifoTypeOK' /\ queue[i] \in Key /\ appGroup[queue[i]] \in Group
    BY <1>0, <1>1, PopTyped DEF PopJob
  <2>2. EngineTypeOK'
    BY <1>0, <1>1 DEF PopJob, EngineTypeOK, engineVars
  <2>3. WorkerTypeOK'
    BY <1>0, <1>1, <2>1 DEF PopJob
  <2>4. QED
    BY <2>1, <2>2, <2>3 DEF TypeOK
<1>2. CASE StartApp
  <2>1. group[next] \in App
    <3>1. group \in Seq(App) /\ next \in 1..Len(group)
      BY <1>0, <1>2, GroupAssumption DEF StartApp
    <3>2. QED
      BY <3>1, ElementOfSeq
  <2>2. EngineTypeOK'
    <3>1. simulatedPod' \in App /\ simulated' \in Nat
      BY <1>2, <2>1 DEF StartApp, UpdatePodRequest
    <3>2. stop' \in Nat /\ caller' \in CallerStates
      BY <1>0, <1>2 DEF StartApp, UpdatePodRequest, MakeStopChannel, EngineTypeOK, CallerStates
    <3>3. QED
      BY <1>0, <1>2, <3>1, <3>2 DEF StartApp, UpdatePodRequest, EngineTypeOK, clusterVars
  <2>3. FifoTypeOK' /\ WorkerTypeOK'
    BY <1>0, <1>2 DEF StartApp, FifoTypeOK, fifoVars
  <2>4. QED
    BY <2>2, <2>3 DEF TypeOK
<1>3. CASE DropJob
  <2>1. EngineTypeOK'
    BY <1>0, <1>3 DEF DropJob, EngineTypeOK, CallerStates, requestVars, clusterVars
  <2>2. FifoTypeOK' /\ WorkerTypeOK'
    BY <1>0, <1>3 DEF DropJob, FifoTypeOK, fifoVars
  <2>3. QED
    BY <2>1, <2>2 DEF TypeOK
<1>4. CASE ReportApp
  <2>1. panicked' \in BOOLEAN
    BY <1>4 DEF ReportApp, ReportPanics
  <2>2. EngineTypeOK'
    BY <1>0, <1>4, <2>1 DEF ReportApp, EngineTypeOK, CallerStates, requestVars, clusterVars
  <2>3. reportlist' \in Seq(ReviewType)
    BY <1>0, <1>4, ReviewTyped, AppendProperties DEF ReportApp
  <2>4. FifoTypeOK' /\ WorkerTypeOK'
    BY <1>0, <1>4, <2>3 DEF ReportApp, FifoTypeOK, fifoVars
  <2>5. QED
    BY <2>2, <2>4 DEF TypeOK
<1>5. CASE ResetStatus
  <2>0. status' \in [pods : Seq(Placement), reason : Reason]
    BY <1>0, <1>5, EmptiedTyped DEF ResetStatus
  <2>1. EngineTypeOK'
    BY <1>0, <1>5, <2>0 DEF ResetStatus, EngineTypeOK, requestVars, clusterVars
  <2>2. FifoTypeOK' /\ WorkerTypeOK'
    BY <1>0, <1>5 DEF ResetStatus, FifoTypeOK, fifoVars
  <2>3. QED
    BY <2>1, <2>2 DEF TypeOK
<1>6. CASE ListPods
  <2>1. EngineTypeOK'
    BY <1>0, <1>6 DEF ListPods, Simulated, EngineTypeOK, engineVars
  <2>2. toClean' \in SUBSET Pod
    BY <1>0, <1>6 DEF ListPods, Simulated, EngineTypeOK
  <2>3. FifoTypeOK' /\ WorkerTypeOK'
    BY <1>0, <1>6, <2>2 DEF ListPods, Simulated, AfterList, FifoTypeOK, fifoVars
  <2>4. QED
    BY <2>1, <2>3 DEF TypeOK
<1>7. ASSUME NEW p \in toClean, CleanPod(p) PROVE TypeOK'
  <2>1. EngineTypeOK'
    BY <1>0, <1>7 DEF CleanPod, DeletePod, DeletePods, EngineTypeOK, requestVars
  <2>2. pc' \in {"publish", "list", "delete"} /\ toClean' \in SUBSET Pod
    BY <1>0, <1>7 DEF CleanPod
  <2>3. FifoTypeOK' /\ WorkerTypeOK'
    BY <1>0, <1>7, <2>2 DEF CleanPod, FifoTypeOK, fifoVars
  <2>4. QED
    BY <2>1, <2>3 DEF TypeOK
<1>8. CASE Publish
  <2>0. status' \in [pods : Seq(Placement), reason : Reason]
    BY <1>0, <1>8, EmptiedTyped DEF Publish
  <2>1. EngineTypeOK'
    BY <1>0, <1>8, <2>0 DEF Publish, EngineTypeOK, requestVars, clusterVars
  <2>2. emulatorResult' \in SUBSET (Key \X Seq(ReviewType))
    <3>1. <<key, reportlist>> \in Key \X Seq(ReviewType)
      BY <1>0, <1>8 DEF Publish, HasKey
    <3>2. QED
      BY <1>0, <1>8, <3>1 DEF Publish, StoreResult
  <2>3. FifoTypeOK' /\ WorkerTypeOK'
    BY <1>0, <1>8, <2>2 DEF Publish, FifoTypeOK, fifoVars
  <2>4. QED
    BY <2>1, <2>3 DEF TypeOK
<1>9. QED
  BY <1>1, <1>2, <1>3, <1>4, <1>5, <1>6, <1>7, <1>8 DEF Worker

LEMMA InitTyped == ASSUME Init PROVE Typed
<1>1. FifoTypeOK
  BY DEF Init, FifoInit, FifoTypeOK
<1>2. EngineTypeOK
  <2>1. NoApp \in App /\ NoPod \in Pod
    BY DEF NoApp, App, NoPod, Pod
  <2>2. << >> \in Seq(Placement) /\ << >> \in Seq(Pod)
    OBVIOUS
  <2>3. /\ status \in [pods : Seq(Placement), reason : Reason]
        /\ caller \in CallerStates /\ handler \in HandlerStates
    BY <2>1, <2>2 DEF Init, EngineInit, Reason, CallerStates, HandlerStates
  <2>4. closed \in BOOLEAN /\ panicked \in BOOLEAN
    BY Zenon DEF Init, EngineInit
  <2>5. store \in SUBSET Pod /\ bound \in SUBSET Placement /\ cache \in SUBSET Placement
    BY MirroredAssumption DEF Init, EngineInit, PodsOf, Placement
  <2>6. QED
    BY <2>1, <2>2, <2>3, <2>4, <2>5 DEF Init, EngineInit, EngineTypeOK
<1>3. << >> \in Seq(ReviewType)
  OBVIOUS
<1>4. WorkerTypeOK /\ HasKey
  BY <1>3 DEF Init, WorkerTypeOK, HasKey
<1>5. QED
  BY <1>1, <1>2, <1>4 DEF Typed, TypeOK, WorkerTypeOK

LEMMA StepTyped == ASSUME Typed, [Next]_vars \/ CycleStep PROVE Typed'
<1> USE DEF Typed
<1>0. FifoTypeOK /\ EngineTypeOK /\ WorkerTypeOK /\ HasKey
  BY DEF TypeOK, WorkerTypeOK
<1>1. ASSUME NEW k \in Key, NEW g \in Group, Submit(k, g) PROVE Typed'
  <2>1. FifoTypeOK'
    BY <1>0, <1>1, PushTyped DEF Submit
  <2>2. EngineTypeOK'
    BY <1>0, <1>1 DEF Submit, EngineTypeOK, engineVars
  <2>3. WorkerTypeOK' /\ HasKey'
    BY <1>0, <1>1 DEF Submit, WorkerTypeOK, HasKey, workerVars
  <2>4. QED
    BY <2>1, <2>2, <2>3 DEF TypeOK, WorkerTypeOK
<1>2. CASE PollEmpty
  <2>1. FifoTypeOK'
    BY <1>0, <1>2 DEF PollEmpty, PopEmpty, FifoTypeOK
  <2>2. EngineTypeOK'
    BY <1>0, <1>2 DEF PollEmpty, EngineTypeOK, engineVars
  <2>3. WorkerTypeOK' /\ HasKey'
    BY <1>0, <1>2 DEF PollEmpty, WorkerTypeOK, HasKey, workerVars
  <2>4. QED
    BY <2>1, <2>2, <2>3 DEF TypeOK, WorkerTypeOK
<1>3. CASE Worker
  <2>1. TypeOK'
    BY <1>3, WorkerTyped
  <2>2. ASSUME NEW i \in DOMAIN queue, PopJob(i) PROVE HasKey'
    BY <1>0, <2>2, PopTyped DEF PopJob, HasKey
  <2>3. ASSUME pc # "pop", key' = key PROVE HasKey'
    BY <1>0, <2>3 DEF HasKey
  <2>4. ASSUME StartApp \/ DropJob \/ ReportApp \/ ResetStatus \/ ListPods \/ Publish
        PROVE  HasKey'
    <3>1. pc # "pop"
      BY <2>4 DEF StartApp, DropJob, ReportApp, ResetStatus, ListPods, Publish
    <3>2. key' = key
      BY <2>4 DEF StartApp, DropJob, ReportApp, ResetStatus, ListPods, Publish
    <3>3. QED
      BY <2>3, <3>1, <3>2
  <2>5. ASSUME NEW p \in toClean, CleanPod(p) PROVE HasKey'
    BY <2>3, <2>5 DEF CleanPod
  <2>6. QED
    BY <1>3, <2>1, <2>2, <2>4, <2>5 DEF Worker
<1>4. CASE EngineStep \/ CycleStep
  <2>1. EngineTypeOK'
    BY <1>0, <1>4, EngineTyped DEF EngineStep, CycleStep
  <2>2. FifoTypeOK' /\ WorkerTypeOK' /\ HasKey'
    BY <1>0, <1>4 DEF EngineStep, CycleStep, FifoTypeOK, WorkerTypeOK, HasKey, fifoVars,
       workerVars
  <2>3. QED
    BY <2>1, <2>2 DEF TypeOK, WorkerTypeOK
<1>5. CASE UNCHANGED vars
  BY <1>0, <1>5 DEF TypeOK, FifoTypeOK, EngineTypeOK, WorkerTypeOK, HasKey, vars, fifoVars,
     engineVars, workerVars
<1>6. QED
  BY <1>1, <1>2, <1>3, <1>4, <1>5 DEF Next, Client

(* Every reachable state is well typed, whatever the cluster and the jobs. *)
THEOREM TypeCorrect == Spec => []TypeOK
<1>1. Init => Typed
  BY InitTyped
<1>2. Typed /\ [Next]_vars => Typed'
  BY StepTyped
<1>3. Typed => TypeOK
  BY DEF Typed
<1>4. QED
  BY <1>1, <1>2, <1>3, PTL DEF Spec

-----------------------------------------------------------------------------
(* A job id is in one place: the queue's map, the worker's hands or the    *)
(* results; ids that were not handed out are nowhere.                      *)
OnePlace ==
  /\ \A k \in Key : Present(k) => k \in used /\ Result(k) = {}
  /\ pc # "pop" => ~Present(key) /\ Result(key) = {} /\ key \in used
  /\ \A x \in emulatorResult : x[1] \in used

LEMMA ResultOf ==
  \A k : Result(k) = {} <=> \A x \in emulatorResult : x[1] # k
BY DEF Result

(* What neither the client, the worker's pop nor its publication does      *)
(* leaves map, results and hands as they were.                             *)
Unmoved == UNCHANGED <<appGroup, emulatorResult, used>> /\ key' = key
           /\ (pc' # "pop" => pc # "pop")

LEMMA OtherStepsQuiet ==
  ASSUME Next \/ UNCHANGED vars
  PROVE  \/ \E k \in Key, g \in Group : Submit(k, g)
         \/ \E i \in DOMAIN queue : PopJob(i)
         \/ Publish
         \/ Unmoved
<1>1. CASE PollEmpty
  BY <1>1 DEF PollEmpty, PopEmpty, Unmoved, workerVars
<1>2. CASE StartApp \/ DropJob \/ ReportApp \/ ResetStatus \/ ListPods
  BY <1>2 DEF StartApp, DropJob, ReportApp, ResetStatus, ListPods, Unmoved, fifoVars
<1>3. CASE \E p \in toClean : CleanPod(p)
  BY <1>3 DEF CleanPod, Unmoved, fifoVars
<1>4. CASE EngineStep
  BY <1>4 DEF EngineStep, Unmoved, fifoVars, workerVars
<1>5. CASE UNCHANGED vars
  BY <1>5 DEF vars, Unmoved, fifoVars, workerVars
<1>6. QED
  BY <1>1, <1>2, <1>3, <1>4, <1>5 DEF Next, Client, Worker

(* A published list joins the results under the id in hand, which had none.*)
LEMMA PublishResult ==
  ASSUME Publish
  PROVE  /\ UNCHANGED <<appGroup, used>> /\ pc' = "pop" /\ pc # "pop"
         /\ \A k : k # key => Result(k)' = Result(k)
         /\ Result(key)' # {}
         /\ \A x \in emulatorResult' : x \in emulatorResult \/ x[1] = key
<1>1. UNCHANGED <<appGroup, used, key>> /\ pc' = "pop" /\ pc # "pop"
  BY DEF Publish, fifoVars
<1>2. emulatorResult' = {x \in emulatorResult : x[1] # key} \cup {<<key, reportlist>>}
  BY DEF Publish, StoreResult
<1>3. \A k : k # key => Result(k)' = Result(k)
  BY <1>2 DEF Result
<1>4. <<key, reportlist>> \in Result(key)'
  BY <1>1, <1>2 DEF Result
<1>5. \A x \in emulatorResult' : x \in emulatorResult \/ x[1] = key
  BY <1>2
<1>6. QED
  BY <1>1, <1>3, <1>4, <1>5

LEMMA OnePlaceStep ==
  ASSUME Typed, OnePlace, [Next]_vars PROVE OnePlace'
<1>0. FifoTypeOK /\ (pc # "pop" => key \in Key)
  BY DEF Typed, TypeOK, HasKey
<1>1. ASSUME NEW k \in Key, NEW g \in Group, Submit(k, g) PROVE OnePlace'
  <2>1. /\ appGroup' = [appGroup EXCEPT ![k] = g] /\ used' = used \cup {k}
        /\ k \notin used
        /\ UNCHANGED <<emulatorResult, pc, key>>
    BY <1>1 DEF Submit, Push, workerVars
  <2>2. \A x \in emulatorResult : x[1] # k
    BY <2>1 DEF OnePlace
  <2>3. \A j \in Key \ {k} : Present(j)' <=> Present(j)
    BY <1>0, <2>1 DEF Present, FifoTypeOK
  <2>4. \A j : Result(j)' = Result(j)
    BY <2>1 DEF Result
  <2>5. Result(k)' = {}
    BY <2>2, <2>4, ResultOf
  <2>6. \A j \in Key : Present(j)' => j \in used' /\ Result(j)' = {}
    BY <2>1, <2>3, <2>4, <2>5 DEF OnePlace
  <2>7. pc' # "pop" => ~Present(key)' /\ Result(key)' = {} /\ key' \in used'
    <3>1. pc # "pop" => key \in Key \ {k}
      BY <1>0, <2>1 DEF OnePlace
    <3>2. key' = key
      BY <2>1
    <3>3. QED
      BY <2>1, <2>3, <2>4, <3>1, <3>2 DEF OnePlace, Present, Result
  <2>8. QED
    BY <2>1, <2>6, <2>7 DEF OnePlace
<1>2. ASSUME NEW i \in DOMAIN queue, PopJob(i) PROVE OnePlace'
  <2>1. /\ queue[i] \in Key /\ Present(queue[i])
        /\ appGroup' = [appGroup EXCEPT ![queue[i]] = NoGroup]
        /\ key' = queue[i] /\ UNCHANGED <<emulatorResult, used>>
    BY <1>0, <1>2 DEF PopJob, Pop, IsFront, FifoTypeOK
  <2>2. \A k \in Key : Present(k)' => Present(k)
    BY <1>0, <2>1 DEF Present, FifoTypeOK
  <2>3. ~(appGroup'[key'] # NoGroup)
    BY <1>0, <2>1 DEF FifoTypeOK
  <2>4. \A k : Result(k)' = Result(k)
    BY <2>1 DEF Result
  <2>5. \A x \in emulatorResult : x[1] # key'
    BY <2>1, ResultOf DEF OnePlace
  <2>6. Result(key)' = {}
    BY <2>1, <2>5 DEF Result
  <2>7. key' \in used'
    BY <2>1 DEF OnePlace
  <2>8. QED
    BY <2>1, <2>2, <2>3, <2>4, <2>6, <2>7 DEF OnePlace, Present
<1>3. CASE Publish
  <2>1. \A k \in Key : Present(k)' => Present(k) /\ k # key
    BY <1>3, PublishResult DEF OnePlace, Present
  <2>2. QED
    BY <1>3, <2>1, PublishResult DEF OnePlace
<1>4. CASE Unmoved
  BY <1>4 DEF Unmoved, OnePlace, Present, Result
<1>5. QED
  BY <1>1, <1>2, <1>3, <1>4, OtherStepsQuiet

LEMMA RankOf ==
  ASSUME NEW k
  PROVE  Rank(JobStatus(k)) = IF Result(k) # {} THEN 2 ELSE IF Present(k) THEN 0 ELSE 1
<1>1. \A list : Verdict(list) \in {"failed", "", "succeed"}
  BY DEF Verdict
<1>2. QED
  BY <1>1 DEF Rank, JobStatus

LEMMA SameStatus ==
  ASSUME NEW k, Result(k)' = Result(k), Present(k)' <=> Present(k)
  PROVE  JobStatus(k)' = JobStatus(k)
BY DEF JobStatus

(* What a client is told never goes back: for any jobs, cluster and        *)
(* failures of the create in SchedulerPod (EmulatorReport, 203-253).       *)
Forward(k) == /\ Rank(JobStatus(k)) <= Rank(JobStatus(k)')
              /\ Rank(JobStatus(k)) = 2 => JobStatus(k)' = JobStatus(k)

LEMMA SameIsForward ==
  ASSUME NEW k, JobStatus(k)' = JobStatus(k) PROVE Forward(k)
<1>1. Rank(JobStatus(k)) \in Nat
  BY RankOf
<1>2. QED
  BY <1>1 DEF Forward

LEMMA StepForward ==
  ASSUME Typed, OnePlace, [Next]_vars, NEW k \in used PROVE Forward(k)
<1>0. FifoTypeOK /\ (pc # "pop" => key \in Key) /\ k \in Key
  BY DEF Typed, TypeOK, HasKey
<1>1. ASSUME NEW j \in Key, NEW g \in Group, Submit(j, g) PROVE Forward(k)
  <2>1. appGroup' = [appGroup EXCEPT ![j] = g] /\ j # k /\ UNCHANGED emulatorResult
    BY <1>1 DEF Submit, Push
  <2>2. Result(k)' = Result(k) /\ (Present(k)' <=> Present(k))
    BY <1>0, <2>1 DEF Result, Present, FifoTypeOK
  <2>3. QED
    BY <2>2, SameStatus, SameIsForward
<1>2. ASSUME NEW i \in DOMAIN queue, PopJob(i) PROVE Forward(k)
  <2>1. /\ queue[i] \in Key /\ Present(queue[i])
        /\ appGroup' = [appGroup EXCEPT ![queue[i]] = NoGroup]
        /\ UNCHANGED emulatorResult
    BY <1>0, <1>2 DEF PopJob, Pop, IsFront, FifoTypeOK
  <2>2. Result(k)' = Result(k)
    BY <2>1 DEF Result
  <2>3. CASE k # queue[i]
    <3>1. Present(k)' <=> Present(k)
      BY <1>0, <2>1, <2>3 DEF Present, FifoTypeOK
    <3>2. QED
      BY <2>2, <3>1, SameStatus, SameIsForward
  <2>4. CASE k = queue[i]
    <3>1. Result(k) = {} /\ Present(k)
      BY <2>1, <2>4, <1>0 DEF OnePlace
    <3>2. JobStatus(k) = "queuing"
      BY <3>1 DEF JobStatus
    <3>3. ~Present(k)'
      BY <1>0, <2>1, <2>4 DEF Present, FifoTypeOK
    <3>4. JobStatus(k)' = "processing"
      BY <2>2, <3>1, <3>3 DEF JobStatus
    <3>5. QED
      BY <3>2, <3>4 DEF Forward, Rank
  <2>5. QED
    BY <2>3, <2>4
<1>3. CASE Publish
  <2>1. Present(k)' <=> Present(k)
    BY <1>3, PublishResult DEF Present
  <2>2. CASE k # key
    BY <1>3, <2>1, <2>2, PublishResult, SameStatus, SameIsForward
  <2>3. CASE k = key
    <3>1. Result(k) = {} /\ ~Present(k)
      BY <1>3, <2>3, PublishResult DEF OnePlace
    <3>2. JobStatus(k) = "processing"
      BY <3>1 DEF JobStatus
    <3>3. \A list : Verdict(list) \in {"failed", "", "succeed"}
      BY DEF Verdict
    <3>4. Result(k)' # {}
      BY <1>3, <2>3, PublishResult DEF Result, Publish
    <3>5. JobStatus(k)' \in {"failed", "", "succeed"}
      BY <3>3, <3>4 DEF JobStatus, Verdict
    <3>6. Rank(JobStatus(k)) = 1
      BY <3>2 DEF Rank
    <3>7. JobStatus(k)' # "queuing" /\ JobStatus(k)' # "processing"
      BY <3>5
    <3>8. Rank(JobStatus(k)') = 2
      BY <3>7 DEF Rank
    <3>9. QED
      BY <3>6, <3>8 DEF Forward
  <2>4. QED
    BY <2>2, <2>3
<1>4. CASE Unmoved
  BY <1>4, SameStatus, SameIsForward DEF Unmoved, Result, Present
<1>5. QED
  BY <1>1, <1>2, <1>3, <1>4, OtherStepsQuiet

THEOREM StatusForward == Spec => StatusMovesForward
<1>1. Init => Typed /\ OnePlace
  BY InitTyped DEF Init, FifoInit, OnePlace, Present
<1>2. Typed /\ OnePlace /\ [Next]_vars => Typed' /\ OnePlace'
  BY StepTyped, OnePlaceStep
<1>3. Typed /\ OnePlace /\ [Next]_vars =>
        [\A k \in used : /\ Rank(JobStatus(k)) <= Rank(JobStatus(k)')
                         /\ Rank(JobStatus(k)) = 2 => JobStatus(k)' = JobStatus(k)]_vars
  BY StepForward DEF Forward
<1>4. QED
  BY <1>1, <1>2, <1>3, PTL DEF Spec, StatusMovesForward

-----------------------------------------------------------------------------
(* The queue's two structures agree, and no job falls between the queue,   *)
(* the worker and the results unless the worker drops it.                  *)
QueueMatches ==
  /\ \A i \in DOMAIN queue : Present(queue[i])
  /\ \A k \in Key : Present(k) => \E i \in DOMAIN queue : queue[i] = k
  /\ \A i, j \in DOMAIN queue : queue[i] = queue[j] => i = j

NoneLost == \A k \in used : Present(k) \/ Result(k) # {} \/ (pc # "pop" /\ key = k)

LEMMA SubmitMatches ==
  ASSUME Typed, OnePlace, QueueMatches, NEW k \in Key, NEW g \in Group, Submit(k, g)
  PROVE  QueueMatches'
<1>1. /\ queue \in Seq(Key) /\ DOMAIN queue = 1..Len(queue) /\ Len(queue) \in Nat
      /\ appGroup \in [Key -> Group \cup {NoGroup}]
  BY DEF Typed, TypeOK, FifoTypeOK
<1>2. /\ DOMAIN queue' = 1..(Len(queue) + 1)
      /\ queue'[Len(queue) + 1] = k
      /\ \A j \in 1..Len(queue) : queue'[j] = queue[j]
      /\ appGroup' = [appGroup EXCEPT ![k] = g]
  BY <1>1, AppendProperties DEF Submit, Push
<1>3. \A j \in 1..Len(queue) : queue[j] # k /\ queue[j] \in Key
  BY <1>1 DEF Submit, OnePlace, QueueMatches
<1>4. g # NoGroup
  BY NoGroupAssumption
<1>5. \A j \in Key : Present(j)' <=> (j = k \/ Present(j))
  BY <1>1, <1>2, <1>4 DEF Present
<1>6. (\A i \in DOMAIN queue : Present(queue[i]))'
  <2>1. ASSUME NEW i \in 1..(Len(queue) + 1) PROVE Present(queue[i])'
    <3>1. queue'[i] \in Key /\ (queue'[i] = k \/ Present(queue'[i]))
      BY <1>1, <1>2, <1>3 DEF QueueMatches
    <3>2. Present(queue[i])' <=> appGroup'[queue'[i]] # NoGroup
      BY DEF Present
    <3>3. QED
      BY <1>1, <1>2, <1>4, <3>1, <3>2 DEF Present
  <2>2. QED
    BY <1>2, <2>1
<1>7. (\A m \in Key : Present(m) => \E i \in DOMAIN queue : queue[i] = m)'
  BY <1>1, <1>2, <1>5 DEF QueueMatches
<1>8. (\A i, j \in DOMAIN queue : queue[i] = queue[j] => i = j)'
  BY <1>1, <1>2, <1>3 DEF QueueMatches
<1>9. QED
  BY <1>6, <1>7, <1>8 DEF QueueMatches

LEMMA PopMatches ==
  ASSUME Typed, QueueMatches, NEW i \in DOMAIN queue, PopJob(i)
  PROVE  QueueMatches'
<1>1. /\ queue \in Seq(Key) /\ DOMAIN queue = 1..Len(queue) /\ Len(queue) \in Nat
      /\ appGroup \in [Key -> Group \cup {NoGroup}]
  BY DEF Typed, TypeOK, FifoTypeOK
<1>2. i = 1
  <2>1. 1 \in DOMAIN queue
    BY <1>1
  <2>2. QED
    BY <1>1, <2>1 DEF PopJob, Pop, IsFront, QueueMatches
<1> DEFINE n == Len(queue) - 1
<1>3. n \in Nat /\ \A j \in 1..n : queue[j + 1] \in Key /\ queue[j + 1] # queue[1]
  BY <1>1, <1>2 DEF QueueMatches
<1>4. DOMAIN queue' = 1..n /\ \A j \in 1..n : queue'[j] = queue[j + 1]
  <2>1. queue' = SubSeq(queue, 2, Len(queue))
    BY <1>2 DEF PopJob, Pop
  <2>2. QED
    BY <1>1, <1>3, <2>1
<1>5. queue[1] \in Key /\ appGroup' = [appGroup EXCEPT ![queue[1]] = NoGroup]
  BY <1>1, <1>2 DEF PopJob, Pop
<1>6. \A k \in Key : Present(k)' <=> (k # queue[1] /\ Present(k))
  BY <1>1, <1>5 DEF Present
<1>7. (\A j \in DOMAIN queue : Present(queue[j]))'
  <2>1. ASSUME NEW j \in 1..n PROVE Present(queue[j])'
    <3>1. /\ queue'[j] \in Key /\ queue'[j] # queue[1] /\ Present(queue[j + 1])
          /\ queue'[j] = queue[j + 1]
      BY <1>1, <1>3, <1>4 DEF QueueMatches
    <3>2. Present(queue[j])' <=> appGroup'[queue'[j]] # NoGroup
      BY DEF Present
    <3>3. QED
      BY <1>1, <1>5, <3>1, <3>2 DEF Present
  <2>2. QED
    BY <1>4, <2>1
<1>8. ASSUME NEW k \in Key, Present(k)' PROVE \E j \in DOMAIN queue' : queue'[j] = k
  <2>1. k # queue[1] /\ Present(k)
    BY <1>6, <1>8
  <2>2. PICK j \in DOMAIN queue : queue[j] = k
    BY <2>1 DEF QueueMatches
  <2>3. j - 1 \in 1..n /\ queue'[j - 1] = k
    BY <1>1, <1>4, <2>1, <2>2
  <2>4. QED
    BY <1>4, <2>3
<1>9. (\A j, m \in DOMAIN queue : queue[j] = queue[m] => j = m)'
  <2>1. ASSUME NEW j \in 1..n, NEW m \in 1..n, queue[j + 1] = queue[m + 1] PROVE j = m
    <3>1. j + 1 \in DOMAIN queue /\ m + 1 \in DOMAIN queue
      BY <1>1
    <3>2. j + 1 = m + 1
      BY <2>1, <3>1 DEF QueueMatches
    <3>3. QED
      BY <3>2
  <2>2. QED
    BY <1>4, <2>1
<1>10. QED
  BY <1>7, <1>8, <1>9 DEF QueueMatches

LEMMA QueueMatchesStep ==
  ASSUME Typed, OnePlace, QueueMatches, [Next]_vars PROVE QueueMatches'
<1>1. ASSUME UNCHANGED fifoVars PROVE QueueMatches'
  BY <1>1 DEF fifoVars, QueueMatches, Present
<1>2. CASE PollEmpty
  <2>1. DOMAIN queue = {} /\ queue' = << >> /\ appGroup' = appGroup
    BY <1>2 DEF PollEmpty, PopEmpty, NothingQueued, QueueMatches
  <2>2. DOMAIN << >> = {}
    OBVIOUS
  <2>3. QED
    BY <2>1, <2>2 DEF QueueMatches, Present
<1>3. CASE Client
  BY <1>3, SubmitMatches DEF Client
<1>4. CASE \E i \in DOMAIN queue : PopJob(i)
  BY <1>4, PopMatches
<1>5. CASE StartApp \/ DropJob \/ ReportApp \/ ResetStatus \/ ListPods \/ Publish
  BY <1>1, <1>5 DEF StartApp, DropJob, ReportApp, ResetStatus, ListPods, Publish
<1>6. CASE \E p \in toClean : CleanPod(p)
  BY <1>1, <1>6 DEF CleanPod
<1>7. CASE EngineStep \/ UNCHANGED vars
  BY <1>1, <1>7 DEF EngineStep, vars
<1>8. QED
  BY <1>2, <1>3, <1>4, <1>5, <1>6, <1>7 DEF Next, Worker

LEMMA NoneLostStep ==
  ASSUME Typed, OnePlace, NoneLost, [Next]_vars, ~DropJob PROVE NoneLost'
<1>0. FifoTypeOK /\ used \subseteq Key /\ (pc # "pop" => key \in Key)
  BY DEF Typed, TypeOK, HasKey
<1>1. ASSUME NEW k \in Key, NEW g \in Group, Submit(k, g) PROVE NoneLost'
  <2>1. /\ appGroup' = [appGroup EXCEPT ![k] = g] /\ used' = used \cup {k}
        /\ UNCHANGED <<emulatorResult, pc, key>> /\ g # NoGroup
    BY <1>1, NoGroupAssumption DEF Submit, Push, workerVars
  <2>2. ASSUME NEW j \in used' PROVE (Present(j) \/ Result(j) # {} \/ (pc # "pop" /\ key = j))'
    <3>1. CASE j = k
      BY <1>0, <2>1, <3>1 DEF Present, FifoTypeOK
    <3>2. CASE j # k
      BY <1>0, <2>1, <3>2 DEF NoneLost, Present, FifoTypeOK, Result
    <3>3. QED
      BY <3>1, <3>2
  <2>3. QED
    BY <2>2 DEF NoneLost
<1>2. ASSUME NEW i \in DOMAIN queue, PopJob(i) PROVE NoneLost'
  <2>1. /\ queue[i] \in Key /\ appGroup' = [appGroup EXCEPT ![queue[i]] = NoGroup]
        /\ pc = "pop" /\ pc' = "apps" /\ key' = queue[i]
        /\ UNCHANGED <<emulatorResult, used>>
    BY <1>0, <1>2 DEF PopJob, Pop, FifoTypeOK
  <2>2. ASSUME NEW j \in used PROVE (Present(j) \/ Result(j) # {} \/ (pc # "pop" /\ key = j))'
    <3>1. CASE j = queue[i]
      BY <2>1, <3>1
    <3>2. CASE j # queue[i]
      BY <1>0, <2>1, <3>2 DEF NoneLost, Present, FifoTypeOK, Result
    <3>3. QED
      BY <3>1, <3>2
  <2>3. QED
    BY <2>1, <2>2 DEF NoneLost
<1>3. CASE Publish
  <2>1. ASSUME NEW j \in used PROVE Present(j)' \/ Result(j)' # {}
    <3>1. Present(j)' <=> Present(j)
      BY <1>3, PublishResult DEF Present
    <3>2. CASE j = key
      <4>1. key' = key /\ Result(key)' # {}
        BY <1>3, PublishResult DEF Publish
      <4>2. QED
        BY <3>2, <4>1 DEF Result
    <3>3. CASE j # key
      <4>1. Result(j)' = Result(j)
        BY <1>3, <3>3, PublishResult
      <4>2. QED
        BY <3>1, <3>3, <4>1 DEF NoneLost
    <3>4. QED
      BY <3>2, <3>3
  <2>2. QED
    BY <1>3, <2>1, PublishResult DEF NoneLost
<1>4. CASE Unmoved /\ (pc # "pop" => pc' # "pop")
  BY <1>4 DEF Unmoved, NoneLost, Present, Result
<1>5. CASE PollEmpty \/ UNCHANGED vars \/ EngineStep
  <2>1. Unmoved /\ pc' = pc
    BY <1>5 DEF PollEmpty, PopEmpty, EngineStep, vars, fifoVars, workerVars, Unmoved
  <2>2. QED
    BY <1>4, <2>1
<1>6. CASE StartApp \/ ReportApp \/ ResetStatus \/ ListPods
  <2>1. pc' # "pop" /\ Unmoved
    BY <1>6 DEF StartApp, ReportApp, ResetStatus, ListPods, AfterList, Unmoved, fifoVars
  <2>2. QED
    BY <1>4, <2>1
<1>7. ASSUME NEW p \in toClean, CleanPod(p) PROVE NoneLost'
  <2>1. pc' # "pop" /\ Unmoved
    BY <1>7 DEF CleanPod, Unmoved, fifoVars
  <2>2. QED
    BY <1>4, <2>1
<1>8. QED
  BY <1>1, <1>2, <1>3, <1>5, <1>6, <1>7 DEF Next, Client, Worker

(* What a client is told, in these terms.                                  *)
LEMMA StatusOf ==
  ASSUME OnePlace, NEW k \in Key
  PROVE  /\ JobStatus(k) = "queuing" <=> Present(k)
         /\ JobStatus(k) = "processing" <=> Result(k) = {} /\ ~Present(k)
<1>1. \A list : Verdict(list) \in {"failed", "", "succeed"}
  BY DEF Verdict
<1>2. \A list : Verdict(list) # "queuing" /\ Verdict(list) # "processing"
  BY <1>1
<1>3. Present(k) => Result(k) = {}
  BY DEF OnePlace
<1>4. QED
  BY <1>2, <1>3 DEF JobStatus

-----------------------------------------------------------------------------
(* One pod at a time.  For any cluster, any jobs and any failures of the   *)
(* create in SchedulerPod, while an app is being simulated its one current *)
(* pod is either waiting for a scheduling cycle, in a binding goroutine, in*)
(* an undelivered rejection, in the handler, or lost; and the stop channel *)
(* that the caller waits on is the engine's present one, still open.  From *)
(* this follow the absence of panics and, with what the scheduler's cache  *)
(* knows, that no node is overcommitted.                                   *)
NoPending == activeQ = {}
NoBinding == binding = {}
NoEvent == events = << >>
HandlerIdle == handler.at = "idle"

AtQueue == (\E p : activeQ = {p}) /\ NoBinding /\ NoEvent /\ HandlerIdle

AtBinding == /\ NoPending /\ NoEvent /\ HandlerIdle
             /\ \E b : /\ binding = {b}
                       /\ b.at = "send" => b.ch = stop /\ status.reason # ""

AtEvent == NoPending /\ NoBinding /\ HandlerIdle /\ (\E p : events = <<p>>)

AtHandler == /\ NoPending /\ NoBinding /\ NoEvent /\ ~HandlerIdle
             /\ status.reason # ""
             /\ handler.at = "send" => handler.ch = stop

Quiet == NoPending /\ NoBinding /\ NoEvent /\ HandlerIdle

Baton ==
  IF caller.at = "wait"
    THEN caller.ch = stop /\ (AtQueue \/ AtBinding \/ AtEvent \/ AtHandler \/ Quiet)
    ELSE Quiet

(* The channel of an app under way is open; an app that was stopped has a  *)
(* reason.                                                                 *)
Channel ==
  /\ closedStop \subseteq 0..stop
  /\ caller.at \in {"create", "wait", "received"} => stop \notin closedStop
  /\ caller.at \in {"received", "done"} => status.reason # ""

BatonInv == Typed /\ Baton /\ Channel /\ NoPanic

-----------------------------------------------------------------------------
(* What each party may conclude from finding itself at work.               *)
LEMMA OnlyPending ==
  ASSUME BatonInv, NEW p \in activeQ
  PROVE  /\ caller.at = "wait" /\ caller.ch = stop
         /\ activeQ = {p} /\ NoBinding /\ NoEvent /\ HandlerIdle
BY DEF BatonInv, Baton, AtQueue, AtBinding, AtEvent, AtHandler, Quiet, NoPending

LEMMA OnlyBinding ==
  ASSUME BatonInv, NEW b \in binding
  PROVE  /\ caller.at = "wait" /\ caller.ch = stop
         /\ binding = {b} /\ NoPending /\ NoEvent /\ HandlerIdle
         /\ b.at = "send" => b.ch = stop /\ status.reason # ""
BY DEF BatonInv, Baton, AtQueue, AtBinding, AtEvent, AtHandler, Quiet, NoBinding

LEMMA OnlyEvent ==
  ASSUME BatonInv, events # << >>
  PROVE  /\ caller.at = "wait" /\ caller.ch = stop
         /\ NoPending /\ NoBinding /\ HandlerIdle
         /\ Tail(events) = << >>
<1>1. AtEvent /\ caller.at = "wait" /\ caller.ch = stop
  BY DEF BatonInv, Baton, AtQueue, AtBinding, AtEvent, AtHandler, Quiet, NoEvent
<1>2. PICK p : events = <<p>>
  BY <1>1 DEF AtEvent
<1>3. Tail(<<p>>) = << >>
  OBVIOUS
<1>4. QED
  BY <1>1, <1>2, <1>3 DEF AtEvent

LEMMA OnlyHandler ==
  ASSUME BatonInv, ~HandlerIdle
  PROVE  /\ caller.at = "wait" /\ caller.ch = stop
         /\ NoPending /\ NoBinding /\ NoEvent
         /\ status.reason # ""
         /\ handler.at = "send" => handler.ch = stop
BY DEF BatonInv, Baton, AtQueue, AtBinding, AtEvent, AtHandler, Quiet

(* A send on the caller's channel is received, and never panics.           *)
LEMMA SendIsReceived ==
  ASSUME BatonInv, SendStop(stop), caller.at = "wait"
  PROVE  ~panicked' /\ caller' = [caller EXCEPT !.at = "received"]
<1>1. stop \notin closedStop
  BY DEF BatonInv, Channel
<1>2. ~panicked'
  BY <1>1, Zenon DEF SendStop
<1>3. caller' = [caller EXCEPT !.at = "received"]
  BY <1>1, Zenon DEF SendStop
<1>4. QED
  BY <1>2, <1>3

-----------------------------------------------------------------------------
(* Steps that touch none of it.                                            *)
LEMMA FrameKeepsBaton ==
  ASSUME BatonInv, Typed',
         UNCHANGED <<stop, caller, closedStop, activeQ, binding, events, handler, panicked>>,
         status'.reason = status.reason
  PROVE  BatonInv'
BY DEF BatonInv, Baton, AtQueue, AtBinding, AtEvent, AtHandler, Quiet, NoPending, NoBinding,
   NoEvent, HandlerIdle, Channel, NoPanic

LEMMA InitBaton == ASSUME Init PROVE BatonInv
<1>1. Typed
  BY InitTyped
<1>2. Baton
  BY DEF Init, EngineInit, Baton, Quiet, NoPending, NoBinding, NoEvent, HandlerIdle
<1>3. Channel
  BY DEF Init, EngineInit, Channel
<1>4. NoPanic
  BY Zenon DEF Init, EngineInit, NoPanic
<1>5. QED
  BY <1>1, <1>2, <1>3, <1>4 DEF BatonInv

(* The caller's own steps happen while everything else is quiet.           *)
LEMMA CallerKeepsBaton ==
  ASSUME BatonInv, Typed', Caller PROVE BatonInv'
<1>0. /\ caller \in CallerStates /\ stop \in Nat /\ closedStop \subseteq 0..stop
      /\ status \in [pods : Seq(Placement), reason : Reason]
  BY DEF BatonInv, Typed, TypeOK, EngineTypeOK, Channel
<1>1. ASSUME NEW ok \in CreateOutcomes, SchedulerPodStart(ok) PROVE BatonInv'
  <2>1. /\ caller.at = "create" /\ stop \notin closedStop
        /\ NoPending /\ NoBinding /\ NoEvent /\ HandlerIdle
    BY <1>1 DEF SchedulerPodStart, BatonInv, Baton, Quiet, Channel
  <2>2. /\ stop' = stop /\ binding' = {} /\ events' = << >> /\ handler'.at = "idle"
        /\ status' = status
    BY <1>1, <2>1 DEF SchedulerPodStart, NoBinding, NoEvent, HandlerIdle
  <2>3. CASE ok
    <3>1. /\ caller'.at = "wait" /\ caller'.ch = stop /\ closedStop' = closedStop
          /\ activeQ' = {NextPod}
      BY <1>1, <2>1, <2>3 DEF SchedulerPodStart, AwaitStop, CreateNextPod, NoPending
    <3>2. ~panicked'
      BY <1>1, <2>3 DEF SchedulerPodStart, BatonInv, NoPanic
    <3>3. Baton'
      BY <2>2, <3>1 DEF Baton, AtQueue, NoBinding, NoEvent, HandlerIdle
    <3>4. Channel'
      BY <1>0, <2>1, <2>2, <3>1 DEF Channel
    <3>5. QED
      BY <3>2, <3>3, <3>4 DEF BatonInv, NoPanic
  <2>4. CASE ~ok
    <3>1. caller'.at = "failed" /\ closedStop' = closedStop \cup {stop} /\ activeQ' = {}
      BY <1>0, <1>1, <2>1, <2>4 DEF SchedulerPodStart, CreateNextPod, NoPending, CallerStates
    <3>2. ~panicked'
      BY <1>1, <2>1, <2>4, Zenon DEF SchedulerPodStart
    <3>3. Baton'
      BY <2>2, <3>1 DEF Baton, Quiet, NoPending, NoBinding, NoEvent, HandlerIdle
    <3>4. Channel'
      BY <1>0, <2>2, <3>1 DEF Channel
    <3>5. QED
      BY <3>2, <3>3, <3>4 DEF BatonInv, NoPanic
  <2>5. QED
    BY <2>3, <2>4
<1>2. CASE SchedulerPodReturn
  <2>1. /\ caller.at = "received" /\ stop \notin closedStop /\ status.reason # ""
        /\ NoPending /\ NoBinding /\ NoEvent /\ HandlerIdle
    BY <1>2 DEF SchedulerPodReturn, BatonInv, Baton, Quiet, Channel
  <2>2. /\ caller'.at = "done" /\ stop' = stop /\ closedStop' = closedStop \cup {stop}
        /\ status'.reason = status.reason
        /\ UNCHANGED <<activeQ, binding, events, handler>>
    BY <1>0, <1>2 DEF SchedulerPodReturn, requestVars, CallerStates
  <2>3. ~panicked'
    BY <1>2, <2>1, Zenon DEF SchedulerPodReturn
  <2>4. Baton'
    BY <2>1, <2>2 DEF Baton, Quiet, NoPending, NoBinding, NoEvent, HandlerIdle
  <2>5. Channel'
    <3>1. closedStop' \subseteq 0..stop'
      BY <1>0, <2>2
    <3>2. status'.reason # ""
      BY <2>1, <2>2
    <3>3. QED
      BY <2>2, <3>1, <3>2 DEF Channel
  <2>6. QED
    BY <2>3, <2>4, <2>5 DEF BatonInv, NoPanic
<1>3. QED
  BY <1>1, <1>2 DEF Caller

(* A waiting caller: the parts of BatonInv that most engine steps keep.    *)
LEMMA WaitKeepsBaton ==
  ASSUME BatonInv, Typed', caller.at = "wait",
         UNCHANGED <<stop, caller, closedStop, panicked>>,
         AtQueue' \/ AtBinding' \/ AtEvent' \/ AtHandler' \/ Quiet'
  PROVE  BatonInv'
<1>1. Baton'
  BY DEF BatonInv, Baton
<1>2. Channel'
  BY DEF BatonInv, Channel
<1>3. QED
  BY <1>1, <1>2 DEF BatonInv, NoPanic

(* The send that ends the wait.                                            *)
LEMMA SendKeepsBaton ==
  ASSUME BatonInv, Typed', SendStop(stop), caller.at = "wait", status.reason # "",
         UNCHANGED <<stop, closedStop, status>>, Quiet'
  PROVE  BatonInv'
<1>1. ~panicked' /\ caller' = [caller EXCEPT !.at = "received"]
  BY SendIsReceived
<1>2. caller \in CallerStates
  BY DEF BatonInv, Typed, TypeOK, EngineTypeOK
<1>3. caller'.at = "received"
  BY <1>1, <1>2 DEF CallerStates
<1>4. Baton'
  BY <1>3 DEF Baton
<1>5. Channel'
  BY <1>3 DEF BatonInv, Channel
<1>6. QED
  BY <1>1, <1>4, <1>5 DEF BatonInv, NoPanic

LEMMA SchedulerKeepsBaton ==
  ASSUME BatonInv, Typed', Cycle PROVE BatonInv'
<1>1. ASSUME NEW p \in activeQ, NEW n \in Node, ScheduleFit(p, n) PROVE BatonInv'
  <2>1. /\ caller.at = "wait" /\ activeQ = {p} /\ NoBinding /\ NoEvent /\ HandlerIdle
    BY OnlyPending
  <2> DEFINE b == [pod |-> p, node |-> n, at |-> "update", ch |-> 0]
  <2>2. binding' = {b} /\ b.at # "send"
    BY <1>1, <2>1 DEF ScheduleFit, NoBinding
  <2> HIDE DEF b
  <2>3. AtBinding'
    BY <1>1, <2>1, <2>2 DEF ScheduleFit, AtBinding, NoPending, NoBinding, NoEvent, HandlerIdle
  <2>4. QED
    BY <1>1, <2>1, <2>3, WaitKeepsBaton DEF ScheduleFit, requestVars
<1>2. ASSUME NEW p \in activeQ, NEW N \in SUBSET Node, Reject(p, N) PROVE BatonInv'
  <2>1. /\ caller.at = "wait" /\ activeQ = {p} /\ NoBinding /\ NoEvent /\ HandlerIdle
    BY OnlyPending
  <2>2. AtEvent' \/ Quiet'
    <3>1. activeQ' = {} /\ binding' = {} /\ handler'.at = "idle"
      BY <1>2, <2>1 DEF Reject, NoBinding, HandlerIdle
    <3>2. events' = << >> \/ events' = Append(<< >>, p)
      BY <1>2, <2>1 DEF Reject, NoEvent
    <3>3. Append(<< >>, p) = <<p>>
      OBVIOUS
    <3>4. QED
      BY <3>1, <3>2, <3>3 DEF AtEvent, Quiet, NoPending, NoBinding, NoEvent, HandlerIdle
  <2>3. QED
    BY <1>2, <2>1, <2>2, WaitKeepsBaton DEF Reject, requestVars
<1>3. QED
  BY <1>1, <1>2 DEF Cycle

LEMMA BinderKeepsBaton ==
  ASSUME BatonInv, Typed', Binder PROVE BatonInv'
<1>0. ASSUME NEW b \in binding
      PROVE  /\ caller.at = "wait" /\ binding = {b} /\ NoPending /\ NoEvent /\ HandlerIdle
             /\ b \in BindingStates
             /\ b.at = "send" => b.ch = stop /\ status.reason # ""
  BY OnlyBinding DEF BatonInv, Typed, TypeOK, EngineTypeOK
<1>1. ASSUME NEW b \in binding, BindUpdate(b) PROVE BatonInv'
  <2>1. activeQ' = {} /\ events' = << >> /\ handler'.at = "idle"
    BY <1>0, <1>1 DEF BindUpdate, NoPending, NoEvent, HandlerIdle
  <2>2. binding' = {} \/ binding' = {[b EXCEPT !.at = "record"]}
    BY <1>0, <1>1 DEF BindUpdate, AdvanceBinding
  <2>3. [b EXCEPT !.at = "record"].at = "record"
    BY <1>0 DEF BindingStates
  <2>4. AtBinding' \/ Quiet'
    BY <2>1, <2>2, <2>3 DEF AtBinding, Quiet, NoPending, NoBinding, NoEvent, HandlerIdle
  <2>5. QED
    BY <1>0, <1>1, <2>4, WaitKeepsBaton DEF BindUpdate, requestVars
<1>2. ASSUME NEW b \in binding, BindRecord(b) PROVE BatonInv'
  <2>1. activeQ' = {} /\ events' = << >> /\ handler'.at = "idle"
    BY <1>0, <1>2 DEF BindRecord, NoPending, NoEvent, HandlerIdle
  <2>2. binding' = {[b EXCEPT !.at = "decide"]}
    BY <1>0, <1>2 DEF BindRecord, AdvanceBinding
  <2>3. [b EXCEPT !.at = "decide"].at = "decide"
    BY <1>0 DEF BindingStates
  <2>4. AtBinding'
    BY <2>1, <2>2, <2>3 DEF AtBinding, NoPending, NoBinding, NoEvent, HandlerIdle
  <2>5. QED
    BY <1>0, <1>2, <2>4, WaitKeepsBaton DEF BindRecord, requestVars
<1>3. ASSUME NEW b \in binding, BindLast(b) PROVE BatonInv'
  <2>1. activeQ' = {} /\ events' = << >> /\ handler'.at = "idle"
    BY <1>0, <1>3 DEF BindLast, NoPending, NoEvent, HandlerIdle
  <2>2. binding' = {[b EXCEPT !.at = "send", !.ch = stop]}
    BY <1>0, <1>3 DEF BindLast
  <2>3. [b EXCEPT !.at = "send", !.ch = stop].ch = stop
    BY <1>0 DEF BindingStates
  <2>4. status'.reason = "Schedulable" /\ stop' = stop
    BY <1>3 DEF BindLast, requestVars, BatonInv, Typed, TypeOK, EngineTypeOK
  <2>5. AtBinding'
    BY <2>1, <2>2, <2>3, <2>4 DEF AtBinding, NoPending, NoBinding, NoEvent, HandlerIdle
  <2>6. QED
    BY <1>0, <1>3, <2>5, WaitKeepsBaton DEF BindLast, requestVars
<1>4. ASSUME NEW b \in binding, BindNext(b) PROVE BatonInv'
  <2>1. binding' = {} /\ events' = << >> /\ handler'.at = "idle"
    BY <1>0, <1>4 DEF BindNext, NoEvent, HandlerIdle
  <2>2. activeQ' = {} \/ activeQ' = {NextPod}
    BY <1>0, <1>4 DEF BindNext, CreateNextPod, NoPending
  <2>3. AtQueue' \/ Quiet'
    BY <2>1, <2>2 DEF AtQueue, Quiet, NoPending, NoBinding, NoEvent, HandlerIdle
  <2>4. QED
    BY <1>0, <1>4, <2>3, WaitKeepsBaton DEF BindNext
<1>5. ASSUME NEW b \in binding, BindSend(b) PROVE BatonInv'
  <2>1. b.ch = stop /\ status.reason # ""
    BY <1>0, <1>5 DEF BindSend
  <2>2. Quiet'
    BY <1>0, <1>5 DEF BindSend, Quiet, NoPending, NoBinding, NoEvent, HandlerIdle
  <2>3. QED
    BY <1>0, <1>5, <2>1, <2>2, SendKeepsBaton DEF BindSend, requestVars
<1>6. QED
  BY <1>1, <1>2, <1>3, <1>4, <1>5 DEF Binder

LEMMA HandlerKeepsBaton ==
  ASSUME BatonInv, Typed', Handler PROVE BatonInv'
<1>0. handler \in HandlerStates /\ status \in [pods : Seq(Placement), reason : Reason]
  BY DEF BatonInv, Typed, TypeOK, EngineTypeOK
<1>1. CASE HandlerStop
  <2>1. caller.at = "wait" /\ NoPending /\ NoBinding /\ Tail(events) = << >>
    BY <1>1, OnlyEvent DEF HandlerStop
  <2>2. handler'.at = "clean" /\ status'.reason = "Unschedulable"
    BY <1>0, <1>1 DEF HandlerStop, HandlerStates
  <2>3. AtHandler'
    BY <1>1, <2>1, <2>2 DEF HandlerStop, AtHandler, NoPending, NoBinding, NoEvent, HandlerIdle
  <2>4. QED
    BY <1>1, <2>1, <2>3, WaitKeepsBaton DEF HandlerStop, requestVars
<1>2. CASE HandlerClean
  <2>1. /\ caller.at = "wait" /\ NoPending /\ NoBinding /\ NoEvent /\ status.reason # ""
    BY <1>2, OnlyHandler DEF HandlerClean, HandlerIdle
  <2>2. handler'.at = "send" /\ handler'.ch = stop
    BY <1>0, <1>2 DEF HandlerClean, HandlerStates
  <2>3. AtHandler'
    BY <1>2, <2>1, <2>2 DEF HandlerClean, AtHandler, NoPending, NoBinding, NoEvent,
       HandlerIdle, requestVars
  <2>4. QED
    BY <1>2, <2>1, <2>3, WaitKeepsBaton DEF HandlerClean, requestVars
<1>3. CASE HandlerSend
  <2>1. /\ caller.at = "wait" /\ NoPending /\ NoBinding /\ NoEvent /\ status.reason # ""
        /\ handler.ch = stop
    BY <1>3, OnlyHandler DEF HandlerSend, HandlerIdle
  <2>2. handler'.at = "idle"
    BY <1>0, <1>3 DEF HandlerSend, HandlerStates
  <2>3. Quiet'
    BY <1>3, <2>1, <2>2 DEF HandlerSend, Quiet, NoPending, NoBinding, NoEvent, HandlerIdle
  <2>4. QED
    BY <1>3, <2>1, <2>3, SendKeepsBaton DEF HandlerSend, requestVars
<1>4. QED
  BY <1>1, <1>2, <1>3 DEF Handler

LEMMA WorkerKeepsBaton ==
  ASSUME BatonInv, Typed', Worker PROVE BatonInv'
<1>0. /\ caller \in CallerStates /\ stop \in Nat /\ closedStop \subseteq 0..stop
      /\ status \in [pods : Seq(Placement), reason : Reason]
  BY DEF BatonInv, Typed, TypeOK, EngineTypeOK, Channel
<1>1. ASSUME NEW i \in DOMAIN queue, PopJob(i) PROVE BatonInv'
  BY <1>1, FrameKeepsBaton DEF PopJob, engineVars
<1>2. CASE StartApp
  <2>1. Quiet /\ stop' = stop + 1 /\ caller'.at = "create"
    BY <1>0, <1>2 DEF StartApp, UpdatePodRequest, MakeStopChannel, CallerStates, BatonInv, Baton
  <2>2. UNCHANGED <<closedStop, activeQ, binding, events, handler, panicked>>
    BY <1>2 DEF StartApp, UpdatePodRequest
  <2>3. Baton'
    BY <2>1, <2>2 DEF Baton, Quiet, NoPending, NoBinding, NoEvent, HandlerIdle
  <2>4. Channel'
    BY <1>0, <2>1, <2>2 DEF Channel
  <2>5. QED
    BY <2>2, <2>3, <2>4 DEF BatonInv, NoPanic
<1>3. CASE DropJob
  <2>1. Quiet /\ stop' = stop /\ caller'.at = "idle"
    BY <1>0, <1>3 DEF DropJob, requestVars, CallerStates, BatonInv, Baton
  <2>2. UNCHANGED <<closedStop, activeQ, binding, events, handler, panicked>>
    BY <1>3 DEF DropJob
  <2>3. Baton'
    BY <2>1, <2>2 DEF Baton, Quiet, NoPending, NoBinding, NoEvent, HandlerIdle
  <2>4. Channel'
    BY <1>0, <2>1, <2>2 DEF Channel
  <2>5. QED
    BY <2>2, <2>3, <2>4 DEF BatonInv, NoPanic
<1>4. CASE ReportApp
  <2>1. Quiet /\ stop' = stop /\ caller'.at = "idle" /\ status.reason # ""
    BY <1>0, <1>4 DEF ReportApp, requestVars, CallerStates, BatonInv, Baton, Channel
  <2>2. UNCHANGED <<closedStop, activeQ, binding, events, handler>>
    BY <1>4 DEF ReportApp
  <2>3. ~panicked'
    BY <1>4, <2>1, Zenon DEF ReportApp, ReportPanics
  <2>4. Baton'
    BY <2>1, <2>2 DEF Baton, Quiet, NoPending, NoBinding, NoEvent, HandlerIdle
  <2>5. Channel'
    BY <1>0, <2>1, <2>2 DEF Channel
  <2>6. QED
    BY <2>3, <2>4, <2>5 DEF BatonInv, NoPanic
<1>5. CASE ResetStatus
  <2>1. status'.reason = status.reason
    BY <1>0, <1>5 DEF ResetStatus, CleanStatusPods
  <2>2. QED
    BY <1>5, <2>1, FrameKeepsBaton DEF ResetStatus, requestVars
<1>6. CASE ListPods
  BY <1>6, FrameKeepsBaton DEF ListPods, engineVars
<1>7. ASSUME NEW p \in toClean, CleanPod(p) PROVE BatonInv'
  BY <1>7, FrameKeepsBaton DEF CleanPod, requestVars
<1>8. CASE Publish
  <2>1. status'.reason = status.reason
    BY <1>0, <1>8 DEF Publish, CleanStatusPods
  <2>2. QED
    BY <1>8, <2>1, FrameKeepsBaton DEF Publish, requestVars
<1>9. QED
  BY <1>1, <1>2, <1>3, <1>4, <1>5, <1>6, <1>7, <1>8 DEF Worker

LEMMA StepKeepsBaton ==
  ASSUME BatonInv, [Next]_vars \/ CycleStep PROVE BatonInv'
<1>0. Typed'
  BY StepTyped DEF BatonInv
<1>1. CASE Client \/ PollEmpty \/ UNCHANGED vars
  <2>1. UNCHANGED engineVars
    BY <1>1 DEF Client, Submit, PollEmpty, vars
  <2>2. QED
    BY <1>0, <2>1, FrameKeepsBaton DEF engineVars
<1>2. CASE Worker
  BY <1>0, <1>2, WorkerKeepsBaton
<1>3. CASE EngineStep \/ CycleStep
  <2>1. CASE Informer
    BY <1>0, <2>1, FrameKeepsBaton DEF Informer, CacheForget, NominationForget, requestVars
  <2>2. QED
    BY <1>0, <1>3, <2>1, CallerKeepsBaton, SchedulerKeepsBaton, SchedulerCycles,
       BinderKeepsBaton, HandlerKeepsBaton DEF EngineStep, CycleStep, Engine
<1>4. QED
  BY <1>1, <1>2, <1>3 DEF Next

(* The single baton, as an invariant of the whole system.                  *)
THEOREM BatonHolds == Spec => []BatonInv
<1>1. Init => BatonInv
  BY InitBaton
<1>2. BatonInv /\ [Next]_vars => BatonInv'
  BY StepKeepsBaton
<1>3. QED
  BY <1>1, <1>2, PTL DEF Spec

(* No send on a closed stop channel, no double close, no report without a  *)
(* reason (Bind:725, Update:762, SchedulerPod:166-170, report.go:157).     *)
THEOREM NeverPanics == Spec => []NoPanic
<1>1. BatonInv => NoPanic
  BY DEF BatonInv
<1>2. QED
  BY <1>1, BatonHolds, PTL

(* The party at work is alone (the unlocked fields of Kubesim, :76-123).   *)
LEMMA BatonIsOne == ASSUME Baton PROVE OneBaton
<1>1. Cardinality({}) = 0 /\ \A x : Cardinality({x}) = 1
  BY FS_EmptySet, FS_Singleton
<1>2. Len(<< >>) = 0 /\ \A x : Len(<<x>>) = 1
  OBVIOUS
<1>3. CASE Quiet
  BY <1>1, <1>2, <1>3 DEF Quiet, NoPending, NoBinding, NoEvent, HandlerIdle, OneBaton, Tokens
<1>4. CASE caller.at = "wait" /\ AtQueue
  <2>1. /\ Cardinality(activeQ) = 1 /\ Cardinality(binding) = 0
        /\ Len(events) = 0 /\ handler.at = "idle"
    BY <1>1, <1>2, <1>4 DEF AtQueue, NoBinding, NoEvent, HandlerIdle
  <2>2. QED
    BY <1>4, <2>1 DEF OneBaton, Tokens
<1>5. CASE caller.at = "wait" /\ AtBinding
  <2>1. /\ Cardinality(activeQ) = 0 /\ Cardinality(binding) = 1
        /\ Len(events) = 0 /\ handler.at = "idle"
    BY <1>1, <1>2, <1>5 DEF AtBinding, NoPending, NoEvent, HandlerIdle
  <2>2. QED
    BY <1>5, <2>1 DEF OneBaton, Tokens
<1>6. CASE caller.at = "wait" /\ AtEvent
  <2>1. /\ Cardinality(activeQ) = 0 /\ Cardinality(binding) = 0
        /\ Len(events) = 1 /\ handler.at = "idle"
    BY <1>1, <1>2, <1>6 DEF AtEvent, NoPending, NoBinding, HandlerIdle
  <2>2. QED
    BY <1>6, <2>1 DEF OneBaton, Tokens
<1>7. CASE caller.at = "wait" /\ AtHandler
  <2>1. /\ Cardinality(activeQ) = 0 /\ Cardinality(binding) = 0
        /\ Len(events) = 0 /\ handler.at # "idle"
    BY <1>1, <1>2, <1>7 DEF AtHandler, NoPending, NoBinding, NoEvent, HandlerIdle
  <2>2. QED
    BY <1>7, <2>1 DEF OneBaton, Tokens
<1>8. QED
  BY <1>3, <1>4, <1>5, <1>6, <1>7 DEF Baton

(* At most one party ever acts for an app: its emulator, Bind, Update or   *)
(* SchedulerPod (simulator.go:161-172, 704-765).                           *)
THEOREM BatonIsUnique == Spec => []OneBaton
<1>1. BatonInv => OneBaton
  BY BatonIsOne DEF BatonInv
<1>2. QED
  BY <1>1, BatonHolds, PTL

=============================================================================
