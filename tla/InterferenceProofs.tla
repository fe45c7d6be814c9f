-------------------------- MODULE InterferenceProofs --------------------------
(***************************************************************************)
(* What survives company, for any cluster, any jobs and any number of the  *)
(* disturbances of module Interference.                                    *)
(*                                                                         *)
(* That no node is overfull owes nothing to the single baton: it holds     *)
(* with everybody at work, because a placement enters the cache before it  *)
(* is bound and a pod that is created has a name nobody is binding yet.    *)
(* The baton itself survives the requests that only delete.  And the       *)
(* worker serves its jobs in order whoever acts, because what it counts    *)
(* with is out of everybody else's reach.                                  *)
(***************************************************************************)
EXTENDS Interference, PlacementProofs

VisitorTypeOK == struck \subseteq Kinds /\ nodes \subseteq Node /\ visitor \in VisitorStates

SafelyTyped == Typed /\ VisitorTypeOK

-----------------------------------------------------------------------------
(* Types.  What the worker holds is out of everybody else's reach.         *)
LEMMA WorkStaysTyped ==
  ASSUME Typed, EngineTypeOK', UNCHANGED <<fifoVars, workerVars, emulatorResult, used>>
  PROVE  Typed'
BY DEF Typed, TypeOK, HasKey, FifoTypeOK, fifoVars, workerVars

LEMMA SameTyped == ASSUME Typed, UNCHANGED vars PROVE Typed'
BY StepTyped

LEMMA UndisturbedSteps ==
  ASSUME ~panicked, nodes \subseteq Node, Undisturbed
  PROVE  [Next]_vars \/ CycleStep
<1>1. CASE Client \/ PollEmpty \/ Worker
  BY <1>1 DEF Next
<1>2. CASE (Caller \/ Binder \/ Handler \/ Informer) /\ UNCHANGED workVars
  BY <1>2 DEF Next, EngineStep, Engine, workVars
<1>3. CASE SchedulerLeft
  <2>1. nodes \in SUBSET Node /\ \A n : nodes \cap {n} \in SUBSET Node
    OBVIOUS
  <2>2. Cycle
    BY <1>3, <2>1 DEF SchedulerLeft, Cycle
  <2>3. QED
    BY <1>3, <2>2 DEF SchedulerLeft, CycleStep, workVars
<1>4. QED
  BY <1>1, <1>2, <1>3 DEF Undisturbed

LEMMA AwayTyped == Away \in VisitorStates
<1>1. << >> \in Seq(App)
  OBVIOUS
<1>2. QED
  BY <1>1 DEF Away, VisitorStates

LEMMA StrikeTyped ==
  ASSUME VisitorTypeOK, NEW kind, Strike(kind) PROVE struck' \subseteq Kinds
BY DEF VisitorTypeOK, Strike

LEMMA PodsTyped == ASSUME Typed PROVE Simulated \in SUBSET Pod
BY DEF Typed, TypeOK, EngineTypeOK, Simulated

(* A request begins, and moves without touching anything but itself.       *)
LEMMA VisitorAloneTyped ==
  ASSUME SafelyTyped,
         \/ VisitNodes \/ VisitorAwait \/ VisitorList \/ VisitorFindsClosed
         \/ \E kind \in Kinds, apps \in VisitorApps : VisitApps(kind, apps)
         \/ \E n \in nodes : NodeGoes(n)
  PROVE  SafelyTyped'
<1>0. /\ Typed /\ VisitorTypeOK /\ stop \in Nat /\ visitor \in VisitorStates
      /\ struck \subseteq Kinds /\ nodes \subseteq Node
  BY DEF SafelyTyped, VisitorTypeOK, Typed, TypeOK, EngineTypeOK
<1>1. UNCHANGED vars
  BY DEF VisitNodes, VisitorAwait, VisitorList, VisitorFindsClosed, VisitApps, NodeGoes
<1>2. SUFFICES VisitorTypeOK'
  BY <1>0, <1>1, SameTyped DEF SafelyTyped
<1>3. CASE VisitNodes
  <2>1. visitor' = [Away EXCEPT !.kind = "nodes", !.at = "list"] /\ Strike("nodes") /\ nodes' = nodes
    BY <1>3 DEF VisitNodes
  <2>2. visitor' \in VisitorStates
    BY <2>1, AwayTyped DEF VisitorStates
  <2>3. QED
    BY <1>0, <2>1, <2>2, StrikeTyped DEF VisitorTypeOK
<1>4. ASSUME NEW kind \in Kinds, NEW apps \in VisitorApps, VisitApps(kind, apps)
      PROVE  VisitorTypeOK'
  <2>1. apps \in Seq(App)
    BY VisitorAppsAssumption
  <2>2. /\ visitor' = [Away EXCEPT !.kind = kind, !.apps = apps, !.at = "next"]
        /\ kind \in {"prediction", "apps"} /\ Strike(kind) /\ nodes' = nodes
    BY <1>4 DEF VisitApps
  <2>3. visitor' \in VisitorStates
    BY <2>1, <2>2, AwayTyped DEF VisitorStates
  <2>4. QED
    BY <1>0, <2>2, <2>3, StrikeTyped DEF VisitorTypeOK
<1>5. CASE VisitorAwait
  <2>1. UNCHANGED <<struck, nodes>> /\ visitor' = [visitor EXCEPT !.at = "wait", !.ch = stop]
    BY <1>5 DEF VisitorAwait
  <2>2. QED
    BY <1>0, <2>1 DEF VisitorTypeOK, VisitorStates
<1>6. CASE VisitorList
  <2>1. /\ UNCHANGED <<struck, nodes>>
        /\ visitor' = [visitor EXCEPT !.pods = Simulated,
                                      !.at = IF Simulated = {} THEN "cleaned" ELSE "delete"]
    BY <1>6 DEF VisitorList
  <2>2. QED
    BY <1>0, <2>1, PodsTyped DEF VisitorTypeOK, VisitorStates
<1>7. CASE VisitorFindsClosed
  <2>1. UNCHANGED <<struck, nodes>> /\ visitor' = [visitor EXCEPT !.at = "received"]
    BY <1>7 DEF VisitorFindsClosed
  <2>2. QED
    BY <1>0, <2>1 DEF VisitorTypeOK, VisitorStates
<1>8. CASE \E n \in nodes : NodeGoes(n)
  BY <1>0, <1>8 DEF NodeGoes, VisitorTypeOK
<1>9. QED
  BY <1>3, <1>4, <1>5, <1>6, <1>7, <1>8

(* A deprecated request drives the engine, and cleans up.                  *)
LEMMA VisitorActsTyped ==
  ASSUME SafelyTyped,
         \/ VisitorUpdate \/ VisitorReturn \/ VisitorReport \/ VisitorLeaves
         \/ \E ok \in CreateOutcomes : VisitorCreate(ok)
  PROVE  SafelyTyped'
<1>0. /\ Typed /\ EngineTypeOK /\ VisitorTypeOK /\ visitor \in VisitorStates
      /\ struck \subseteq Kinds /\ nodes \subseteq Node
  BY DEF SafelyTyped, VisitorTypeOK, Typed, TypeOK
<1>1. UNCHANGED workVars /\ struck' = struck
  BY DEF VisitorUpdate, VisitorReturn, VisitorReport, VisitorLeaves, VisitorCreate
<1>2. SUFFICES EngineTypeOK' /\ visitor' \in VisitorStates
  BY <1>0, <1>1, WorkStaysTyped DEF SafelyTyped, VisitorTypeOK, workVars
<1>3. CASE VisitorUpdate
  <2>1. /\ visitor.apps \in Seq(App) /\ visitor.apps # << >>
        /\ visitor' = [visitor EXCEPT !.at = "create", !.apps = Tail(visitor.apps)]
    BY <1>0, <1>3 DEF VisitorUpdate, VisitorStates
  <2>2. Head(visitor.apps) \in App /\ Tail(visitor.apps) \in Seq(App)
    BY <2>1, HeadTailProperties
  <2>3. visitor' \in VisitorStates
    BY <1>0, <2>1, <2>2 DEF VisitorStates
  <2>4. caller' \in CallerStates
    BY <1>0, <1>3 DEF VisitorUpdate, EngineTypeOK, CallerStates
  <2>5. EngineTypeOK'
    BY <1>0, <1>3, <2>2, <2>4 DEF VisitorUpdate, MakeStopChannel, EngineTypeOK, clusterVars
  <2>6. QED
    BY <2>3, <2>5
<1>4. ASSUME NEW ok \in CreateOutcomes, VisitorCreate(ok)
      PROVE  EngineTypeOK' /\ visitor' \in VisitorStates
  <2>1. store' \in SUBSET Pod /\ activeQ' \in SUBSET Pod /\ simulated' \in Nat
    BY <1>0, <1>4, NextPodTyped DEF VisitorCreate, CreateNextPod, EngineTypeOK
  <2>2. visitor' \in VisitorStates
    <3>1. visitor' = [visitor EXCEPT !.at = "created"] \/ visitor' = Away
      BY <1>4 DEF VisitorCreate
    <3>2. QED
      BY <1>0, <3>1, AwayTyped DEF VisitorStates
  <2>3. panicked' \in BOOLEAN /\ closed' \in BOOLEAN
    <3>1. CASE ok
      BY <1>0, <1>4, <3>1 DEF VisitorCreate, EngineTypeOK
    <3>2. CASE ~ok
      <4>1. panicked' \in BOOLEAN
        BY <1>4, <3>2 DEF VisitorCreate
      <4>2. closed' \in BOOLEAN
        BY <1>4, <3>2 DEF VisitorCreate, Close
      <4>3. QED
        BY <4>1, <4>2
    <3>3. QED
      BY <3>1, <3>2
  <2>4. closedStop' \in SUBSET Nat
    BY <1>0, <1>4 DEF VisitorCreate, EngineTypeOK
  <2>5. QED
    BY <1>0, <1>4, <2>1, <2>2, <2>3, <2>4 DEF VisitorCreate, EngineTypeOK
<1>5. CASE VisitorReturn
  <2>1. panicked' \in BOOLEAN
    BY <1>5 DEF VisitorReturn
  <2>2. visitor' \in VisitorStates
    BY <1>0, <1>5 DEF VisitorReturn, VisitorStates
  <2>3. QED
    BY <1>0, <1>5, <2>1, <2>2 DEF VisitorReturn, EngineTypeOK, requestVars, clusterVars
<1>6. CASE VisitorReport
  <2>1. panicked' \in BOOLEAN
    BY <1>6 DEF VisitorReport, ReportPanics
  <2>2. visitor' \in VisitorStates
    <3>1. << >> \in Seq(App)
      OBVIOUS
    <3>2. QED
      BY <1>0, <1>6, <3>1 DEF VisitorReport, VisitorStates
  <2>3. status' \in [pods : Seq(Placement), reason : Reason]
    BY <1>0, <1>6, EmptiedTyped DEF VisitorReport
  <2>4. QED
    BY <1>0, <1>6, <2>1, <2>2, <2>3 DEF VisitorReport, EngineTypeOK, requestVars, clusterVars
<1>7. CASE VisitorLeaves
  <2>1. visitor' \in VisitorStates
    BY <1>7, AwayTyped, Zenon DEF VisitorLeaves
  <2>2. status' \in [pods : Seq(Placement), reason : Reason]
    BY <1>0, <1>7, EmptiedTyped, Zenon DEF VisitorLeaves, EngineTypeOK
  <2>3. QED
    BY <1>0, <1>7, <2>1, <2>2 DEF VisitorLeaves, EngineTypeOK, requestVars, clusterVars
<1>8. QED
  BY <1>3, <1>4, <1>5, <1>6, <1>7

LEMMA DeleteTyped ==
  ASSUME SafelyTyped, NEW p \in visitor.pods, VisitorDelete(p) PROVE SafelyTyped'
<1>0. /\ Typed /\ EngineTypeOK /\ VisitorTypeOK /\ visitor \in VisitorStates
      /\ struck \subseteq Kinds /\ nodes \subseteq Node
  BY DEF SafelyTyped, VisitorTypeOK, Typed, TypeOK
<1>1. /\ UNCHANGED <<workVars, struck>>
      /\ UNCHANGED <<requestVars, closed, status, caller, closedStop, cache, nominated,
                     activeQ, binding, events, handler, panicked>>
  BY DEF VisitorDelete
<1>2. store' \subseteq store /\ bound' \subseteq bound
  BY DEF VisitorDelete, DeletePod, DeletePods
<1>3. EngineTypeOK'
  BY <1>0, <1>1, <1>2 DEF EngineTypeOK, requestVars
<1>4. visitor' \in VisitorStates
  BY <1>0 DEF VisitorDelete, VisitorStates
<1>5. QED
  BY <1>0, <1>1, <1>3, <1>4, WorkStaysTyped DEF SafelyTyped, VisitorTypeOK, workVars

LEMMA MeetingTyped ==
  ASSUME SafelyTyped,
         \/ \E b \in binding : BinderMeetsVisitor(b)
         \/ HandlerMeetsVisitor
         \/ CallerFindsClosed
  PROVE  SafelyTyped'
<1>0. /\ Typed /\ EngineTypeOK /\ VisitorTypeOK /\ visitor \in VisitorStates
      /\ struck \subseteq Kinds /\ nodes \subseteq Node
  BY DEF SafelyTyped, VisitorTypeOK, Typed, TypeOK
<1>1. UNCHANGED workVars /\ struck' = struck
  BY DEF BinderMeetsVisitor, HandlerMeetsVisitor, CallerFindsClosed
<1>2. visitor' \in VisitorStates
  BY <1>0 DEF BinderMeetsVisitor, HandlerMeetsVisitor, CallerFindsClosed, VisitorStates
<1>3. handler' \in HandlerStates /\ caller' \in CallerStates /\ binding' \in SUBSET BindingStates
  BY <1>0 DEF BinderMeetsVisitor, HandlerMeetsVisitor, CallerFindsClosed, EngineTypeOK,
     HandlerStates, CallerStates
<1>4. EngineTypeOK'
  BY <1>0, <1>3 DEF BinderMeetsVisitor, HandlerMeetsVisitor, CallerFindsClosed, EngineTypeOK,
     requestVars, clusterVars
<1>5. QED
  BY <1>0, <1>1, <1>2, <1>4, WorkStaysTyped DEF SafelyTyped, VisitorTypeOK, workVars

LEMMA EnvironmentTyped ==
  ASSUME SafelyTyped, Environment PROVE SafelyTyped'
<1>0. /\ Typed /\ EngineTypeOK /\ VisitorTypeOK /\ visitor \in VisitorStates
      /\ struck \subseteq Kinds /\ nodes \subseteq Node
  BY DEF SafelyTyped, VisitorTypeOK, Typed, TypeOK
<1>1. UNCHANGED workVars /\ visitor' = visitor
  BY DEF Environment, QueueForget, RejectUnchanged, Retry, ForeignArrives, NextPodPanics,
     BindFails, BindForget, Confirm, SchedulerDies
<1>2. struck' \subseteq Kinds
  BY <1>0, StrikeTyped DEF Environment, QueueForget, RejectUnchanged, Retry, ForeignArrives,
     NextPodPanics, BindFails, BindForget, Confirm, SchedulerDies
<1>3. EngineTypeOK'
  <2>1. CASE \E p \in activeQ : QueueForget(p)
    BY <1>0, <2>1 DEF QueueForget, EngineTypeOK, requestVars, clusterVars
  <2>2. ASSUME NEW p \in activeQ, RejectUnchanged(p) PROVE EngineTypeOK'
    <3>1. Preempt(p, nodes)
      BY <2>2 DEF RejectUnchanged
    <3>2. store' \subseteq store /\ bound' \subseteq bound
      BY <3>1, PreemptDeletes DEF DeletePods
    <3>3. p \in Pod /\ \A n \in nodes : <<p, n>> \in Placement
      BY <1>0 DEF Placement, EngineTypeOK
    <3>4. nominated' \in SUBSET Placement
      BY <1>0, <3>1, <3>3, PreemptDeletes DEF EngineTypeOK
    <3>5. QED
      BY <1>0, <2>2, <3>2, <3>4 DEF RejectUnchanged, EngineTypeOK, requestVars
  <2>3. CASE \E p \in Undeleted : Retry(p)
    BY <1>0, <2>3 DEF Retry, Undeleted, Simulated, EngineTypeOK, requestVars, clusterVars
  <2>4. CASE ForeignArrives
    <3>1. ForeignPod \in Pod
      BY DEF ForeignPod, Pod
    <3>2. QED
      BY <1>0, <2>4, <3>1 DEF ForeignArrives, EngineTypeOK, requestVars
  <2>5. CASE NextPodPanics \/ SchedulerDies
    <3>1. panicked' \in BOOLEAN
      BY <2>5, Zenon DEF NextPodPanics, SchedulerDies
    <3>2. QED
      BY <1>0, <2>5, <3>1 DEF NextPodPanics, SchedulerDies, EngineTypeOK, requestVars,
         clusterVars
  <2>6. ASSUME NEW b \in binding, BindFails(b) PROVE EngineTypeOK'
    <3>1. [b EXCEPT !.at = "forget"] \in BindingStates
      BY <1>0 DEF EngineTypeOK, BindingStates
    <3>2. binding' \in SUBSET BindingStates
      BY <1>0, <2>6, <3>1 DEF BindFails, AdvanceBinding, EngineTypeOK
    <3>3. simulated' \in Nat
      BY <1>0, <2>6 DEF BindFails, EngineTypeOK
    <3>4. QED
      BY <1>0, <2>6, <3>2, <3>3 DEF BindFails, EngineTypeOK, clusterVars
  <2>7. ASSUME NEW b \in binding, NEW seen, BindForget(b, seen) PROVE EngineTypeOK'
    <3>1. b.pod \in Pod
      BY <1>0 DEF EngineTypeOK, BindingStates
    <3>2. cache' \subseteq cache
      BY <2>7 DEF BindForget
    <3>3. QED
      BY <1>0, <2>7, <3>1, <3>2 DEF BindForget, EngineTypeOK, requestVars
  <2>8. CASE \E x \in bound : Confirm(x)
    BY <1>0, <2>8 DEF Confirm, EngineTypeOK, requestVars
  <2>9. QED
    BY <2>1, <2>2, <2>3, <2>4, <2>5, <2>6, <2>7, <2>8 DEF Environment
<1>4. QED
  BY <1>0, <1>1, <1>2, <1>3, WorkStaysTyped DEF SafelyTyped, VisitorTypeOK, workVars

LEMMA InterferenceTyped ==
  ASSUME SafelyTyped, [InterferenceNext]_allVars PROVE SafelyTyped'
<1>1. CASE UNCHANGED allVars
  BY <1>1, SameTyped DEF allVars, SafelyTyped, VisitorTypeOK
<1>2. CASE ~panicked /\ Undisturbed
  <2>1. Typed'
    BY <1>2, UndisturbedSteps, StepTyped DEF SafelyTyped, VisitorTypeOK
  <2>2. QED
    BY <1>2, <2>1 DEF Undisturbed, SafelyTyped, VisitorTypeOK
<1>3. CASE Visitor \/ Rendezvous
  BY <1>3, VisitorAloneTyped, VisitorActsTyped, DeleteTyped, MeetingTyped DEF Visitor, Rendezvous
<1>4. CASE Environment
  BY <1>4, EnvironmentTyped
<1>5. QED
  BY <1>1, <1>2, <1>3, <1>4 DEF InterferenceNext

LEMMA InterferenceInitTyped == ASSUME InterferenceInit PROVE SafelyTyped
<1>1. Typed /\ struck = {} /\ nodes = Node /\ visitor = Away
  BY InitTyped DEF InterferenceInit
<1>2. QED
  BY <1>1, AwayTyped DEF SafelyTyped, VisitorTypeOK

-----------------------------------------------------------------------------
(* Every pod but those mirrored from the start was made by a request that  *)
(* has been counted; kubesim's own are numbered.  A pod without a number   *)
(* is somebody else's.                                                     *)
Made(p) ==
  IF p.run = 0 THEN "foreign" \in struck
  ELSE p.run < stop \/ (p.run = stop /\ p.index <= simulated)

MadeInv ==
  /\ \A p \in (store \ PodsOf(Mirrored)) \cup activeQ : Made(p)
  /\ \A b \in binding : Made(b.pod)
  /\ caller.at = "create" => stop > 0
  /\ visitor.at = "create" => stop > 0

LEMMA SafeTypes ==
  ASSUME SafelyTyped
  PROVE  /\ stop \in Nat /\ simulated \in Nat /\ caller \in CallerStates
         /\ store \subseteq Pod /\ activeQ \subseteq Pod /\ binding \subseteq BindingStates
         /\ handler \in HandlerStates /\ events \in Seq(Pod) /\ bound \subseteq Placement
         /\ visitor \in VisitorStates /\ nodes \subseteq Node /\ visitor.pods \subseteq Pod
         /\ \A b \in binding : b.pod \in Pod
BY DEF SafelyTyped, VisitorTypeOK, VisitorStates, Typed, TypeOK, EngineTypeOK, BindingStates

(* The counters move on, and what is counted stays counted.                *)
Later ==
  /\ struck \subseteq struck'
  /\ stop' = stop + 1 \/ (stop' = stop /\ simulated' \in {simulated, simulated + 1})

LEMMA MadeStays ==
  ASSUME SafelyTyped, Later, NEW p \in Pod, Made(p) PROVE (Made(p))'
<1>1. stop \in Nat /\ simulated \in Nat /\ p.run \in Nat /\ p.index \in Nat
  BY SafeTypes DEF Pod
<1>2. QED
  BY <1>1 DEF Later, Made

LEMMA NextIsMade ==
  ASSUME SafelyTyped, stop > 0, stop' = stop, simulated' = simulated + 1
  PROVE  /\ NextPod \in Pod
         /\ \A p \in {NextPod} : (Made(p))'
         /\ \A p \in Pod : Made(p) => p # NextPod
<1>1. stop \in Nat /\ simulated \in Nat /\ NextPod \in Pod
  BY NextPodTyped, SafeTypes DEF SafelyTyped, Typed, TypeOK
<1>2. \A p \in Pod : p.run \in Nat /\ p.index \in Nat
  BY DEF Pod
<1>3. NextPod.run = stop /\ NextPod.index = simulated + 1
  BY DEF NextPod
<1>4. \A p : p = NextPod => (p.run > 0 /\ p.run = stop' /\ p.index <= simulated')
  BY <1>1, <1>3
<1>5. \A p \in Pod : Made(p) => p # NextPod
  BY <1>1, <1>2, <1>3 DEF Made
<1>6. QED
  BY <1>1, <1>4, <1>5 DEF Made

(* Steps that bring in no pod.                                             *)
LEMMA FrameKeepsMade ==
  ASSUME SafelyTyped, MadeInv, Later,
         store' \subseteq store,
         \A p \in activeQ' : p \in activeQ \cup Simulated \/ \E b \in binding : b.pod = p,
         \A b \in binding' : b.pod \in activeQ \/ \E c \in binding : c.pod = b.pod,
         caller'.at = "create" => caller.at = "create" \/ stop' > 0,
         visitor'.at = "create" => visitor.at = "create" \/ stop' > 0
  PROVE  MadeInv'
<1>0. /\ stop \in Nat /\ stop' \in Nat /\ stop' >= stop /\ store \subseteq Pod /\ activeQ \subseteq Pod
      /\ \A b \in binding : b.pod \in Pod
  BY SafeTypes DEF Later
<1>1. ASSUME NEW p \in (store' \ PodsOf(Mirrored)) \cup activeQ' PROVE (Made(p))'
  <2>1. p \in Simulated => p \in store \ PodsOf(Mirrored)
    BY MirroredAssumption DEF Simulated, PodsOf
  <2>2. p \in Pod /\ Made(p)
    BY <1>0, <2>1 DEF MadeInv
  <2>3. QED
    BY <2>2, MadeStays
<1>2. ASSUME NEW b \in binding' PROVE (Made(b.pod))'
  <2>1. b.pod \in Pod /\ Made(b.pod)
    BY <1>0 DEF MadeInv
  <2>2. \A p : p = b.pod => (Made(p))'
    BY <2>1, MadeStays
  <2>3. QED
    BY <2>2 DEF Made
<1>3. QED
  BY <1>0, <1>1, <1>2 DEF MadeInv

(* Steps that create the next pod.                                         *)
LEMMA CreateKeepsMade ==
  ASSUME SafelyTyped, MadeInv, struck' = struck, stop' = stop, stop > 0,
         NEW ok, CreateNextPod(ok), binding' \subseteq binding
  PROVE  MadeInv'
<1>0. /\ stop \in Nat /\ store \subseteq Pod /\ activeQ \subseteq Pod
      /\ \A b \in binding : b.pod \in Pod
      /\ simulated' = simulated + 1 /\ Later
      /\ store' \subseteq store \cup {NextPod} /\ activeQ' \subseteq activeQ \cup {NextPod}
  BY SafeTypes DEF CreateNextPod, Later
<1>1. ASSUME NEW p \in (store' \ PodsOf(Mirrored)) \cup activeQ' PROVE (Made(p))'
  BY <1>0, MadeStays, NextIsMade DEF MadeInv
<1>2. ASSUME NEW b \in binding' PROVE (Made(b.pod))'
  <2>1. b.pod \in Pod /\ Made(b.pod)
    BY <1>0 DEF MadeInv
  <2>2. \A p : p = b.pod => (Made(p))'
    BY <1>0, <2>1, MadeStays
  <2>3. QED
    BY <2>2 DEF Made
<1>3. QED
  BY <1>0, <1>1, <1>2 DEF MadeInv

LEMMA MadeIsNew ==
  ASSUME SafelyTyped, MadeInv, stop > 0 PROVE NextIsNew
<1>1. stop \in Nat /\ simulated \in Nat /\ \A b \in binding : b.pod \in Pod
  BY SafeTypes
<1>2. \A p \in Pod : p.run \in Nat /\ p.index \in Nat
  BY DEF Pod
<1>3. NextPod.run = stop /\ NextPod.index = simulated + 1
  BY DEF NextPod
<1>4. \A p \in Pod : Made(p) => p # NextPod
  BY <1>1, <1>2, <1>3 DEF Made
<1>5. QED
  BY <1>1, <1>4 DEF NextIsNew, MadeInv

(* Whoever creates a pod does so for a request.                            *)
LEMMA OnlyRequested ==
  ASSUME SafelyTyped, MadeInv, ~NoRequestYet,
         caller.at = "create" \/ visitor.at = "create" \/ \E b \in binding : b.at = "decide"
  PROVE  stop > 0
BY SafeTypes DEF MadeInv, NoRequestYet

LEMMA UndisturbedKeepsMade ==
  ASSUME SafelyTyped, MadeInv, Undisturbed PROVE MadeInv'
<1>0. /\ UNCHANGED <<struck, visitor>>
      /\ stop \in Nat /\ simulated \in Nat /\ caller \in CallerStates
      /\ binding \subseteq BindingStates
  BY SafeTypes DEF Undisturbed
<1>1. CASE Client \/ PollEmpty
  BY <1>0, <1>1, FrameKeepsMade DEF Client, Submit, PollEmpty, engineVars, Later
<1>2. CASE Worker
  <2>1. CASE StartApp
    <3>1. stop' = stop + 1 /\ UNCHANGED <<store, activeQ, binding>>
      BY <2>1 DEF StartApp, UpdatePodRequest, MakeStopChannel, clusterVars
    <3>2. QED
      BY <1>0, <3>1, FrameKeepsMade DEF Later
  <2>2. CASE (\E i \in DOMAIN queue : PopJob(i)) \/ ListPods
    BY <1>0, <2>2, FrameKeepsMade DEF PopJob, ListPods, engineVars, Later
  <2>3. CASE DropJob \/ ReportApp \/ ResetStatus \/ Publish
    <3>1. UNCHANGED <<stop, simulated, store, activeQ, binding>>
      BY <2>3 DEF DropJob, ReportApp, ResetStatus, Publish, requestVars, clusterVars
    <3>2. caller' = caller \/ caller'.at = "idle"
      BY <1>0, <2>3 DEF DropJob, ReportApp, ResetStatus, Publish, CallerStates
    <3>3. QED
      BY <1>0, <3>1, <3>2, FrameKeepsMade DEF Later
  <2>4. CASE \E p \in toClean : CleanPod(p)
    BY <1>0, <2>4, FrameKeepsMade DEF CleanPod, DeletePod, DeletePods, requestVars, Later
  <2>5. QED
    BY <1>2, <2>1, <2>2, <2>3, <2>4 DEF Worker
<1>3. CASE SchedulerLeft
  <2>1. PICK p \in activeQ : (\E n \in nodes : ScheduleFit(p, n)) \/ \E N : Reject(p, N)
    BY <1>3 DEF SchedulerLeft
  <2>2. /\ UNCHANGED <<stop, simulated, caller>> /\ activeQ' \subseteq activeQ
        /\ \A b \in binding' : b \in binding \/ b.pod = p
    BY <2>1 DEF ScheduleFit, Reject, requestVars
  <2>4. store' \subseteq store
    BY <2>1, PreemptDeletes DEF ScheduleFit, Reject, DeletePods
  <2>3. QED
    BY <1>0, <2>2, <2>4, FrameKeepsMade DEF Later
<1>4. ASSUME ~NoRequestYet, Caller PROVE MadeInv'
  <2>1. ASSUME NEW ok \in CreateOutcomes, SchedulerPodStart(ok) PROVE MadeInv'
    <3>1. stop > 0 /\ stop' = stop /\ binding' = binding /\ CreateNextPod(ok)
      BY <1>4, <2>1, OnlyRequested DEF SchedulerPodStart
    <3>2. QED
      BY <1>0, <3>1, CreateKeepsMade
  <2>2. CASE SchedulerPodReturn
    <3>1. UNCHANGED <<stop, simulated, store, activeQ, binding>> /\ caller'.at = "done"
      BY <1>0, <2>2 DEF SchedulerPodReturn, requestVars, clusterVars, CallerStates
    <3>2. QED
      BY <1>0, <3>1, FrameKeepsMade DEF Later
  <2>3. QED
    BY <1>4, <2>1, <2>2 DEF Caller
<1>5. ASSUME ~NoRequestYet, NEW b \in binding, BindNext(b) PROVE MadeInv'
  <2>1. stop > 0 /\ stop' = stop /\ binding' \subseteq binding /\ CreateNextPod(TRUE)
    BY <1>5, OnlyRequested DEF BindNext
  <2>2. QED
    BY <1>0, <2>1, CreateKeepsMade
<1>6. ASSUME NEW b \in binding, BindUpdate(b) \/ BindRecord(b) \/ BindLast(b) \/ BindSend(b)
      PROVE  MadeInv'
  <2>1. /\ UNCHANGED <<stop, simulated, store, activeQ>>
        /\ caller' = caller \/ caller'.at = "received"
    BY <1>0, <1>6 DEF BindUpdate, BindRecord, BindLast, BindSend, SendStop, requestVars,
       clusterVars, CallerStates
  <2>2. b \in BindingStates
    BY <1>0
  <2>3. \/ binding' = binding \ {b}
        \/ binding' = (binding \ {b}) \cup {[b EXCEPT !.at = "record"]}
        \/ binding' = (binding \ {b}) \cup {[b EXCEPT !.at = "decide"]}
        \/ binding' = (binding \ {b}) \cup {[b EXCEPT !.at = "send", !.ch = stop]}
    BY <1>6, Zenon DEF BindUpdate, BindRecord, BindLast, BindSend, AdvanceBinding
  <2>4. \A c \in binding' : c \in binding \/ c.pod = b.pod
    BY <2>2, <2>3 DEF BindingStates
  <2>5. QED
    BY <1>0, <2>1, <2>4, FrameKeepsMade DEF Later
<1>7. CASE Handler
  <2>1. /\ UNCHANGED <<stop, simulated, activeQ, binding>> /\ store' \subseteq store
        /\ caller' = caller \/ caller'.at = "received"
    BY <1>0, <1>7 DEF Handler, HandlerStop, HandlerClean, HandlerSend, SendStop, DeletePod,
       DeletePods, requestVars, clusterVars, CallerStates
  <2>2. QED
    BY <1>0, <2>1, FrameKeepsMade DEF Later
<1>8. CASE Informer
  BY <1>0, <1>8, FrameKeepsMade DEF Informer, CacheForget, NominationForget, requestVars, Later
<1>9. QED
  BY <1>1, <1>2, <1>3, <1>4, <1>5, <1>6, <1>7, <1>8 DEF Undisturbed, Binder

LEMMA VisitorKeepsMade ==
  ASSUME SafelyTyped, MadeInv, Visitor PROVE MadeInv'
<1>0. stop \in Nat /\ simulated \in Nat /\ caller \in CallerStates /\ visitor \in VisitorStates
  BY SafeTypes
<1>1. CASE \/ VisitNodes \/ VisitorAwait \/ VisitorList
           \/ \E kind \in Kinds, apps \in VisitorApps : VisitApps(kind, apps)
           \/ \E n \in nodes : NodeGoes(n)
  <2>1. UNCHANGED vars /\ struck \subseteq struck'
    BY <1>1 DEF VisitNodes, VisitorAwait, VisitorList, VisitApps, NodeGoes, Strike
  <2>2. UNCHANGED <<stop, simulated, store, activeQ, binding, caller>>
    BY <2>1 DEF vars, engineVars
  <2>3. visitor' = visitor \/ visitor'.at \in {"list", "wait", "cleaned", "delete", "next"}
    BY <1>0, <1>1 DEF VisitNodes, VisitorAwait, VisitorList, VisitApps, NodeGoes, Away,
       VisitorStates
  <2>4. QED
    BY <2>1, <2>2, <2>3, FrameKeepsMade DEF Later
<1>2. CASE VisitorUpdate
  <2>1. stop' = stop + 1 /\ stop' > 0 /\ UNCHANGED <<struck, store, activeQ, binding>>
    BY <1>0, <1>2 DEF VisitorUpdate, MakeStopChannel, clusterVars
  <2>2. QED
    BY <1>0, <2>1, FrameKeepsMade DEF Later
<1>3. ASSUME NEW ok \in CreateOutcomes, VisitorCreate(ok) PROVE MadeInv'
  <2>1. stop > 0 /\ stop' = stop /\ UNCHANGED <<struck, binding>> /\ CreateNextPod(ok)
    BY <1>3 DEF VisitorCreate, MadeInv
  <2>2. QED
    BY <2>1, CreateKeepsMade
<1>4. CASE VisitorReturn \/ VisitorReport \/ VisitorLeaves
  <2>1. UNCHANGED <<struck, stop, simulated, store, activeQ, binding, caller>>
    BY <1>4 DEF VisitorReturn, VisitorReport, VisitorLeaves, requestVars, clusterVars
  <2>2. visitor'.at \in {"report", "next", "away"}
    <3>1. CASE VisitorReturn \/ VisitorReport
      BY <1>0, <3>1 DEF VisitorReturn, VisitorReport, VisitorStates
    <3>2. CASE VisitorLeaves
      BY <3>2 DEF VisitorLeaves, Away
    <3>3. QED
      BY <1>4, <3>1, <3>2
  <2>3. QED
    BY <2>1, <2>2, FrameKeepsMade DEF Later
<1>5. ASSUME NEW p \in visitor.pods, VisitorDelete(p) PROVE MadeInv'
  <2>1. UNCHANGED <<struck, stop, simulated, activeQ, binding, caller>> /\ store' \subseteq store
    BY <1>5 DEF VisitorDelete, DeletePod, DeletePods, requestVars
  <2>2. visitor'.at \in {"cleaned", "list", "delete"}
    BY <1>0, <1>5 DEF VisitorDelete, VisitorStates
  <2>3. QED
    BY <2>1, <2>2, FrameKeepsMade DEF Later
<1>6. QED
  BY <1>1, <1>2, <1>3, <1>4, <1>5 DEF Visitor

LEMMA RestKeepsMade ==
  ASSUME SafelyTyped, MadeInv, Rendezvous \/ Environment PROVE MadeInv'
<1>0. stop \in Nat /\ simulated \in Nat /\ caller \in CallerStates /\ visitor \in VisitorStates
  BY SafeTypes
<1>1. CASE Rendezvous
  <2>1. UNCHANGED <<struck, stop, simulated, store, activeQ>> /\ binding' \subseteq binding
    BY <1>1 DEF Rendezvous, BinderMeetsVisitor, HandlerMeetsVisitor, VisitorFindsClosed,
       CallerFindsClosed, vars, engineVars, requestVars, clusterVars
  <2>2. /\ caller' = caller \/ caller'.at = "received"
        /\ visitor' = visitor \/ visitor'.at = "received"
    BY <1>0, <1>1 DEF Rendezvous, BinderMeetsVisitor, HandlerMeetsVisitor, VisitorFindsClosed,
       CallerFindsClosed, vars, engineVars, CallerStates, VisitorStates
  <2>3. QED
    BY <2>1, <2>2, FrameKeepsMade DEF Later
<1>2. CASE NextPodPanics \/ SchedulerDies \/ (\E x \in bound : Confirm(x))
           \/ \E p \in activeQ : QueueForget(p) \/ RejectUnchanged(p)
  <2>1. /\ UNCHANGED <<struck, stop, simulated, binding, caller, visitor>>
        /\ activeQ' \subseteq activeQ
    BY <1>2 DEF QueueForget, RejectUnchanged, NextPodPanics, SchedulerDies, Confirm, requestVars
  <2>2. store' \subseteq store
    BY <1>2, PreemptDeletes DEF QueueForget, RejectUnchanged, NextPodPanics, SchedulerDies,
       Confirm, DeletePods, clusterVars
  <2>3. QED
    BY <2>1, <2>2, FrameKeepsMade DEF Later
<1>3. CASE \E p \in Undeleted : Retry(p)
  <2>1. /\ UNCHANGED <<stop, simulated, store, binding, caller, visitor>>
        /\ activeQ' \subseteq activeQ \cup Simulated /\ struck \subseteq struck'
    BY <1>3 DEF Retry, Undeleted, Strike, requestVars, clusterVars
  <2>2. QED
    BY <2>1, FrameKeepsMade DEF Later
<1>4. CASE ForeignArrives
  <2>1. /\ UNCHANGED <<stop, simulated, binding, caller, visitor>>
        /\ store' = store \cup {ForeignPod} /\ activeQ' = activeQ \cup {ForeignPod}
        /\ "foreign" \in struck' /\ struck \subseteq struck' /\ Later
    BY <1>4 DEF ForeignArrives, Strike, requestVars, Later
  <2>2. /\ store \subseteq Pod /\ activeQ \subseteq Pod /\ \A b \in binding : b.pod \in Pod
    BY SafeTypes
  <2>3. ASSUME NEW p \in (store' \ PodsOf(Mirrored)) \cup activeQ' PROVE (Made(p))'
    <3>1. CASE p \in (store \ PodsOf(Mirrored)) \cup activeQ
      BY <2>1, <2>2, <3>1, MadeStays DEF MadeInv
    <3>2. CASE p = ForeignPod
      <4>1. p.run = 0
        BY <3>2 DEF ForeignPod
      <4>2. QED
        BY <2>1, <4>1 DEF Made
    <3>3. QED
      BY <2>1, <3>1, <3>2
  <2>4. ASSUME NEW b \in binding' PROVE (Made(b.pod))'
    <3>1. b.pod \in Pod /\ Made(b.pod)
      BY <2>1, <2>2 DEF MadeInv
    <3>2. \A p : p = b.pod => (Made(p))'
      BY <2>1, <3>1, MadeStays
    <3>3. QED
      BY <3>2 DEF Made
  <2>5. QED
    BY <2>1, <2>3, <2>4 DEF MadeInv
<1>5. ASSUME NEW b \in binding, BindFails(b) PROVE MadeInv'
  <2>1. /\ UNCHANGED <<stop, store, activeQ, caller, visitor>> /\ simulated' = simulated + 1
        /\ struck \subseteq struck'
        /\ binding' = (binding \ {b}) \cup {[b EXCEPT !.at = "forget"]}
    BY <1>5 DEF BindFails, AdvanceBinding, Strike, clusterVars
  <2>2. b \in BindingStates
    BY SafeTypes
  <2>3. \A c \in binding' : c \in binding \/ c.pod = b.pod
    BY <2>1, <2>2 DEF BindingStates
  <2>4. QED
    BY <2>1, <2>3, FrameKeepsMade DEF Later
<1>6. ASSUME NEW b \in binding, NEW seen, BindForget(b, seen) PROVE MadeInv'
  BY <1>6, FrameKeepsMade DEF BindForget, requestVars, Later
<1>7. QED
  BY <1>1, <1>2, <1>3, <1>4, <1>5, <1>6 DEF Environment

LEMMA StepKeepsMade ==
  ASSUME SafelyTyped, MadeInv, [InterferenceNext]_allVars PROVE MadeInv'
<1>1. CASE UNCHANGED allVars
  BY <1>1, FrameKeepsMade, SafeTypes DEF allVars, vars, engineVars, Later
<1>2. QED
  BY <1>1, UndisturbedKeepsMade, VisitorKeepsMade, RestKeepsMade DEF InterferenceNext

-----------------------------------------------------------------------------
(* Until a create fails in Bind, no bound pod is put back in the queue.    *)
Fails == \E b \in binding : BindFails(b)
Forgotten == {b \in binding : b.at = "forget"}

LEMMA OnlyFailsForget ==
  ASSUME SafelyTyped, [InterferenceNext]_allVars, ~Fails PROVE Forgotten' \subseteq Forgotten
<1>0. binding \subseteq BindingStates
  BY SafeTypes
<1>1. CASE UNCHANGED binding
  BY <1>1 DEF Forgotten
<1>2. CASE Undisturbed
  <2>1. CASE Client \/ PollEmpty \/ Caller \/ Handler \/ Informer
    BY <1>1, <2>1 DEF Client, Submit, PollEmpty, Caller, SchedulerPodStart, SchedulerPodReturn,
       Handler, HandlerStop, HandlerClean, HandlerSend, Informer, CacheForget,
       NominationForget, engineVars
  <2>2. CASE Worker
    BY <1>1, <2>2 DEF Worker, PopJob, StartApp, UpdatePodRequest, DropJob, ReportApp,
       ResetStatus, ListPods, CleanPod, Publish, engineVars
  <2>3. CASE SchedulerLeft
    <3>1. binding' = binding \/ \E p, n :
            binding' = binding \cup {[pod |-> p, node |-> n, at |-> "update", ch |-> 0]}
      BY <2>3 DEF SchedulerLeft, ScheduleFit, Reject
    <3>2. \A c \in binding' : c \in binding \/ c.at # "forget"
      BY <3>1
    <3>3. QED
      BY <3>2 DEF Forgotten
  <2>4. ASSUME NEW b \in binding,
               BindUpdate(b) \/ BindRecord(b) \/ BindLast(b) \/ BindNext(b) \/ BindSend(b)
        PROVE  Forgotten' \subseteq Forgotten
    <3>1. b \in BindingStates
      BY <1>0
    <3>2. \/ binding' = binding \ {b}
          \/ binding' = (binding \ {b}) \cup {[b EXCEPT !.at = "record"]}
          \/ binding' = (binding \ {b}) \cup {[b EXCEPT !.at = "decide"]}
          \/ binding' = (binding \ {b}) \cup {[b EXCEPT !.at = "send", !.ch = stop]}
      BY <2>4, Zenon DEF BindUpdate, BindRecord, BindLast, BindNext, BindSend, AdvanceBinding
    <3>3. \A c \in binding' : c \in binding \/ c.at # "forget"
      BY <3>1, <3>2 DEF BindingStates
    <3>4. QED
      BY <3>3 DEF Forgotten
  <2>5. QED
    BY <1>2, <2>1, <2>2, <2>3, <2>4 DEF Undisturbed, Binder
<1>3. CASE Visitor
  BY <1>1, <1>3 DEF Visitor, VisitNodes, VisitApps, VisitorUpdate, VisitorCreate,
     VisitorAwait, VisitorReturn, VisitorReport, VisitorList, VisitorDelete, VisitorLeaves,
     NodeGoes, vars, engineVars
<1>4. CASE Rendezvous \/ Environment
  <2>1. binding' \subseteq binding
    BY <1>4 DEF Fails, Rendezvous, BinderMeetsVisitor, HandlerMeetsVisitor,
       VisitorFindsClosed, CallerFindsClosed, Environment, QueueForget, RejectUnchanged,
       Retry, ForeignArrives, NextPodPanics, BindForget, Confirm, SchedulerDies, vars,
       engineVars
  <2>2. QED
    BY <2>1 DEF Forgotten
<1>5. CASE UNCHANGED allVars
  BY <1>1, <1>5 DEF allVars, vars, engineVars
<1>6. QED
  BY <1>2, <1>3, <1>4, <1>5 DEF InterferenceNext

(* Until then the cache covers what is bound, whoever is at work.          *)
NoFailure == "create" \notin struck

LEMMA UndisturbedKeepsCache ==
  ASSUME SafelyTyped, MadeInv, CacheInv, Undisturbed PROVE CacheInv'
<1>0. binding \subseteq BindingStates /\ nodes \subseteq Node
  BY SafeTypes
<1>1. CASE Client \/ PollEmpty \/ Worker
  BY <1>1, JobsKeepCache
<1>2. CASE SchedulerLeft
  <2>1. \A n : nodes \cap {n} \in SUBSET Node
    BY <1>0
  <2>2. QED
    BY <1>0, <1>2, <2>1, SchedulerKeepsCache DEF SchedulerLeft, Cycle
<1>3. ASSUME ~NoRequestYet, Caller \/ Binder \/ Handler \/ Informer PROVE CacheInv'
  <2>1. NextIsNew
    BY <1>3, OnlyRequested, MadeIsNew DEF NextIsNew
  <2>2. QED
    BY <1>0, <1>3, <2>1, EngineKeepsCache DEF Engine
<1>4. QED
  BY <1>1, <1>2, <1>3 DEF Undisturbed

LEMMA VisitorKeepsCache ==
  ASSUME SafelyTyped, MadeInv, CacheInv, Visitor \/ Rendezvous PROVE CacheInv'
<1>1. CASE \/ VisitNodes \/ VisitorAwait \/ VisitorList \/ VisitorFindsClosed
           \/ \E kind \in Kinds, apps \in VisitorApps : VisitApps(kind, apps)
           \/ \E n \in nodes : NodeGoes(n)
  <2>1. UNCHANGED vars
    BY <1>1 DEF VisitNodes, VisitorAwait, VisitorList, VisitorFindsClosed, VisitApps, NodeGoes
  <2>2. QED
    BY <2>1, JobsKeepCache
<1>2. CASE VisitorUpdate \/ VisitorReturn \/ VisitorReport \/ VisitorLeaves
  BY <1>2, FrameKeepsCache DEF VisitorUpdate, VisitorReturn, VisitorReport, VisitorLeaves,
     clusterVars
<1>3. ASSUME NEW ok \in CreateOutcomes, VisitorCreate(ok) PROVE CacheInv'
  <2>1. /\ UNCHANGED <<bound, cache, nominated, binding, stop>>
        /\ CreateNextPod(ok) /\ stop > 0
    BY <1>3 DEF VisitorCreate, MadeInv
  <2>2. /\ simulated' = simulated + 1 /\ store' \subseteq store \cup {NextPod}
        /\ \A p \in store : p \in store'
    BY <2>1 DEF CreateNextPod
  <2>3. \A b \in binding : b.pod # NextPod
    BY <2>1, <2>2, NextIsMade, SafeTypes DEF MadeInv
  <2>4. QED
    BY <2>1, <2>2, <2>3, FrameKeepsCache
<1>4. ASSUME NEW p \in visitor.pods, VisitorDelete(p) PROVE CacheInv'
  BY <1>4, FrameKeepsCache DEF VisitorDelete, DeletePod, DeletePods
<1>5. CASE (\E b \in binding : BinderMeetsVisitor(b)) \/ HandlerMeetsVisitor \/ CallerFindsClosed
  BY <1>5, FrameKeepsCache DEF BinderMeetsVisitor, HandlerMeetsVisitor, CallerFindsClosed,
     clusterVars
<1>6. QED
  BY <1>1, <1>2, <1>3, <1>4, <1>5 DEF Visitor, Rendezvous

(* The foreign pod is nobody's yet when it arrives.                        *)
LEMMA EnvironmentKeepsCache ==
  ASSUME SafelyTyped, MadeInv, CacheInv, Forgotten = {}, ~Fails, Environment
  PROVE  CacheInv'
<1>1. CASE ForeignArrives
  <2>1. /\ "foreign" \notin struck /\ store' = store \cup {ForeignPod}
        /\ UNCHANGED <<bound, cache, nominated, binding>>
    BY <1>1 DEF ForeignArrives, Strike
  <2>2. \A b \in binding : b.pod # ForeignPod
    BY <2>1 DEF MadeInv, Made, ForeignPod
  <2>3. QED
    BY <2>1, <2>2, FrameKeepsCache
<1>2. CASE NextPodPanics \/ SchedulerDies \/ (\E p \in activeQ : QueueForget(p))
           \/ \E p \in Undeleted : Retry(p)
  BY <1>2, FrameKeepsCache DEF QueueForget, Retry, NextPodPanics, SchedulerDies, clusterVars
<1>3. ASSUME NEW p \in activeQ, RejectUnchanged(p) PROVE CacheInv'
  <2>1. Preempt(p, nodes) /\ UNCHANGED <<cache, binding>>
    BY <1>3 DEF RejectUnchanged
  <2>2. IsFiniteSet(nominated) => IsFiniteSet(nominated')
    BY <2>1, PreemptNominates
  <2>3. PICK D : DeletePods(D)
    BY <2>1, PreemptDeletes
  <2>4. QED
    BY <2>1, <2>2, <2>3, FrameKeepsCache DEF DeletePods
<1>4. /\ \A b \in binding : \A seen : ~BindForget(b, seen)
      /\ \A x \in bound : ~Confirm(x)
  BY DEF Forgotten, BindForget, Confirm, CacheInv, CacheCovers
<1>5. QED
  BY <1>1, <1>2, <1>3, <1>4 DEF Environment, Fails

LEMMA CompanyKeepsCache ==
  ASSUME SafelyTyped, MadeInv, CacheInv, Forgotten = {}, ~Fails, [InterferenceNext]_allVars
  PROVE  CacheInv' /\ Forgotten' = {}
<1>1. ASSUME UNCHANGED allVars PROVE CacheInv'
  BY <1>1, JobsKeepCache DEF allVars
<1>2. CacheInv'
  BY <1>1, UndisturbedKeepsCache, VisitorKeepsCache, EnvironmentKeepsCache
     DEF InterferenceNext
<1>3. QED
  BY <1>2, OnlyFailsForget

-----------------------------------------------------------------------------
(* Nobody but DeleteNodes has come, and perhaps a create has failed: one   *)
(* pod at a time is in hand, or none.                                      *)
Few == struck \subseteq {"nodes", "create"}

OnlyDeletes ==
  visitor.kind \in {"none", "nodes"} /\ visitor.at \in {"away", "list", "delete", "cleaned"}

HandInv == Typed /\ Baton /\ Channel /\ OnlyDeletes

LEMMA HandsHold == ASSUME HandInv, ~panicked PROVE BatonInv
BY DEF HandInv, BatonInv, NoPanic

LEMMA HandsRest ==
  ASSUME HandInv, Typed', OnlyDeletes', status'.reason = status.reason,
         UNCHANGED <<stop, caller, closedStop, activeQ, binding, events, handler>>
  PROVE  HandInv'
BY DEF HandInv, Baton, AtQueue, AtBinding, AtEvent, AtHandler, Quiet, NoPending, NoBinding,
   NoEvent, HandlerIdle, Channel

LEMMA VisitorKeepsHands ==
  ASSUME SafelyTyped, HandInv, Typed', Few', Visitor
  PROVE  /\ HandInv' /\ bound' \subseteq bound
         /\ UNCHANGED <<requestVars, status, caller, activeQ, binding, events, handler,
                        panicked, pc>>
         /\ struck' = {} => visitor.at # "away"
<1>0. visitor \in VisitorStates /\ OnlyDeletes /\ struck' \subseteq {"nodes", "create"}
  BY SafeTypes DEF HandInv, Few
<1>1. \A kind, apps : ~VisitApps(kind, apps)
  BY <1>0 DEF VisitApps, Strike
<1>2. /\ ~VisitorUpdate /\ ~VisitorAwait /\ ~VisitorReturn /\ ~VisitorReport /\ ~VisitorLeaves
      /\ \A ok : ~VisitorCreate(ok)
  BY <1>0 DEF OnlyDeletes, VisitorUpdate, VisitorAwait, VisitorReturn, VisitorReport,
     VisitorLeaves, VisitorCreate
<1>3. PICK p : \/ VisitNodes \/ VisitorList \/ (\E n \in nodes : NodeGoes(n))
               \/ VisitorDelete(p)
  BY <1>1, <1>2 DEF Visitor
<1>4. /\ UNCHANGED <<requestVars, status, caller, closedStop, activeQ, binding, events,
                     handler, panicked, pc>>
      /\ bound' \subseteq bound
  BY <1>3 DEF VisitNodes, VisitorList, NodeGoes, VisitorDelete, DeletePod, DeletePods, vars,
     engineVars, workVars, workerVars, requestVars
<1>5. OnlyDeletes'
  BY <1>0, <1>3 DEF VisitNodes, VisitorList, NodeGoes, VisitorDelete, OnlyDeletes,
     VisitorStates, Away
<1>6. HandInv'
  BY <1>4, <1>5, HandsRest DEF requestVars
<1>7. struck' = {} => visitor.at # "away"
  BY <1>3 DEF VisitNodes, VisitorList, NodeGoes, VisitorDelete, Strike
<1>8. QED
  BY <1>4, <1>6, <1>7

(* Nobody else waits on a stop channel, and the caller's is open.          *)
LEMMA NoRendezvous == ASSUME HandInv PROVE ~Rendezvous
<1>1. visitor.at # "wait"
  BY DEF HandInv, OnlyDeletes
<1>2. caller.at = "wait" => caller.ch \notin closedStop
  BY DEF HandInv, Baton, Channel
<1>3. QED
  BY <1>1, <1>2 DEF Rendezvous, BinderMeetsVisitor, HandlerMeetsVisitor, VisitorFindsClosed,
     CallerFindsClosed, Waits

(* What can still happen to the scheduler's queue, and to its process.     *)
LEMMA FewEvents ==
  ASSUME SafelyTyped, MadeInv, BatonInv, Few', Environment
  PROVE  \/ \E p \in activeQ : QueueForget(p)
         \/ \E b \in binding : BindFails(b) \/ \E seen \in BOOLEAN : BindForget(b, seen)
         \/ \E x \in bound : Confirm(x)
         \/ SchedulerDies
<1>1. ~ForeignArrives /\ (\A p : ~Retry(p)) /\ "foreign" \notin struck
  BY DEF ForeignArrives, Retry, Strike, Few, Environment, QueueForget, RejectUnchanged,
     NextPodPanics, BindFails, BindForget, Confirm, SchedulerDies
<1>2. ~NextPodPanics
  <2>1. SUFFICES ASSUME NextPodPanics PROVE FALSE
    OBVIOUS
  <2>2. PICK b \in binding : b.at = "decide"
    BY <2>1 DEF NextPodPanics, NoRequestYet
  <2>3. stop = 0
    BY <2>1 DEF NextPodPanics, NoRequestYet
  <2>4. Made(b.pod) /\ b.pod.run \in Nat
    BY SafeTypes DEF MadeInv, Pod
  <2>5. QED
    BY <1>1, <2>3, <2>4 DEF Made
<1>3. ASSUME NEW p \in activeQ PROVE ~RejectUnchanged(p)
  <2>1. events = << >> /\ handler.at = "idle"
    BY OnlyPending DEF NoEvent, HandlerIdle
  <2>2. Undeleted = {}
    BY <2>1 DEF Undeleted
  <2>3. QED
    BY <2>2 DEF RejectUnchanged
<1>4. QED
  BY <1>1, <1>2, <1>3 DEF Environment

LEMMA EnvironmentKeepsHands ==
  ASSUME SafelyTyped, MadeInv, BatonInv, HandInv, Typed', Few', Environment
  PROVE  HandInv' /\ (panicked' => SchedulerDies)
<1>0. /\ ~panicked /\ binding \subseteq BindingStates
      /\ OnlyDeletes /\ visitor' = visitor
  BY SafeTypes DEF BatonInv, NoPanic, HandInv, Environment, QueueForget, RejectUnchanged, Retry,
     ForeignArrives, NextPodPanics, BindFails, BindForget, Confirm, SchedulerDies
<1>1. OnlyDeletes'
  BY <1>0 DEF OnlyDeletes
<1>2. CASE SchedulerDies
  BY <1>1, <1>2, HandsRest DEF SchedulerDies, requestVars
<1>3. ASSUME NEW p \in activeQ, activeQ' = activeQ \ {p},
             UNCHANGED <<requestVars, status, caller, closedStop, binding, events, handler,
                         panicked>>
      PROVE  HandInv' /\ ~panicked'
  <2>1. caller.at = "wait" /\ activeQ = {p} /\ NoBinding /\ NoEvent /\ HandlerIdle
    BY OnlyPending
  <2>2. Quiet'
    BY <1>3, <2>1 DEF Quiet, NoPending, NoBinding, NoEvent, HandlerIdle
  <2>3. BatonInv'
    BY <1>3, <2>1, <2>2, WaitKeepsBaton DEF requestVars
  <2>4. QED
    BY <1>1, <2>3 DEF HandInv, BatonInv, NoPanic
<1>4. CASE \E p \in activeQ : QueueForget(p)
  BY <1>3, <1>4 DEF QueueForget
<1>5. ASSUME NEW x \in bound, Confirm(x) PROVE HandInv' /\ ~panicked'
  <2>1. /\ activeQ' = activeQ \ {x[1]}
        /\ UNCHANGED <<requestVars, status, caller, closedStop, binding, events, handler,
                       panicked>>
    BY <1>5 DEF Confirm
  <2>2. CASE x[1] \in activeQ
    BY <1>3, <2>1, <2>2
  <2>3. CASE x[1] \notin activeQ
    <3>1. activeQ' = activeQ
      BY <2>1, <2>3
    <3>2. QED
      BY <1>0, <1>1, <2>1, <3>1, HandsRest DEF requestVars
  <2>4. QED
    BY <2>2, <2>3
<1>6. ASSUME NEW b \in binding, BindFails(b) PROVE HandInv' /\ ~panicked'
  <2>1. /\ caller.at = "wait" /\ binding = {b} /\ NoPending /\ NoEvent /\ HandlerIdle
        /\ b \in BindingStates
    BY <1>0, OnlyBinding
  <2>2. /\ binding' = {[b EXCEPT !.at = "forget"]}
        /\ UNCHANGED <<stop, status, caller, closedStop, activeQ, events, handler, panicked>>
    BY <1>6, <2>1 DEF BindFails, AdvanceBinding
  <2>3. [b EXCEPT !.at = "forget"].at = "forget"
    BY <2>1 DEF BindingStates
  <2>4. AtBinding'
    BY <2>1, <2>2, <2>3 DEF AtBinding, NoPending, NoEvent, HandlerIdle
  <2>5. BatonInv'
    BY <2>1, <2>2, <2>4, WaitKeepsBaton
  <2>6. QED
    BY <1>1, <2>5 DEF HandInv, BatonInv, NoPanic
<1>7. ASSUME NEW b \in binding, NEW seen, BindForget(b, seen) PROVE HandInv' /\ ~panicked'
  <2>1. /\ caller.at = "wait" /\ binding = {b} /\ NoPending /\ NoEvent /\ HandlerIdle
    BY OnlyBinding
  <2>2. /\ binding' = {} /\ activeQ' = {b.pod}
        /\ UNCHANGED <<stop, status, caller, closedStop, events, handler, panicked>>
    BY <1>7, <2>1 DEF BindForget, NoPending, requestVars
  <2>3. AtQueue'
    BY <2>1, <2>2 DEF AtQueue, NoBinding, NoEvent, HandlerIdle
  <2>4. BatonInv'
    BY <2>1, <2>2, <2>3, WaitKeepsBaton
  <2>5. QED
    BY <1>1, <2>4 DEF HandInv, BatonInv, NoPanic
<1>8. QED
  BY <1>2, <1>4, <1>5, <1>6, <1>7, FewEvents

LEMMA StepKeepsHands ==
  ASSUME SafelyTyped, MadeInv, HandInv, Typed', Few', InterferenceNext
  PROVE  HandInv' /\ (panicked' => SchedulerDies)
<1>0. BatonInv /\ nodes \subseteq Node /\ ~panicked
  BY HandsHold DEF InterferenceNext, SafelyTyped, VisitorTypeOK
<1>1. CASE Undisturbed
  <2>1. BatonInv'
    BY <1>0, <1>1, UndisturbedSteps, StepKeepsBaton
  <2>2. OnlyDeletes'
    BY <1>1 DEF HandInv, OnlyDeletes, Undisturbed
  <2>3. QED
    BY <2>1, <2>2 DEF HandInv, BatonInv, NoPanic
<1>2. CASE Visitor
  BY <1>0, <1>2, VisitorKeepsHands
<1>3. QED
  BY <1>0, <1>1, <1>2, NoRendezvous, EnvironmentKeepsHands DEF InterferenceNext

-----------------------------------------------------------------------------
(* While no create has failed either, the process lives, each pod is bound *)
(* once, and what is recorded is this app's.                               *)
Calm == struck \subseteq {"nodes"}

OnceBound ==
  /\ \A x, y \in bound : x[1] = y[1] => x = y
  /\ \A b \in binding : b.at = "update" => b.pod \notin PodsOf(bound)

CalmInv == OrderInv /\ OnceBound /\ ~panicked /\ ~torn

LEMMA FrameKeepsOnce ==
  ASSUME OnceBound, bound' \subseteq bound,
         \A b \in binding' : b.at = "update" => b \in binding
  PROVE  OnceBound' /\ ~Rebound
BY DEF OnceBound, Rebound, PodsOf

LEMMA BinderKeepsOnce ==
  ASSUME BatonInv, OnceBound, Binder PROVE OnceBound' /\ ~Rebound
<1>1. PICK b \in binding :
        \/ BindUpdate(b) \/ BindRecord(b) \/ BindLast(b) \/ BindSend(b)
        \/ BindNext(b)
  BY DEF Binder
<1>2. binding = {b} /\ b \in BindingStates
  BY OnlyBinding, EngineTypes
<1>3. CASE BindUpdate(b)
  <2>1. b.at = "update" /\ \A x \in bound : x[1] # b.pod
    BY <1>3 DEF BindUpdate, OnceBound, PodsOf
  <2>2. \A x \in bound' : x \in bound \/ x = <<b.pod, b.node>>
    BY <1>3 DEF BindUpdate
  <2>3. \A c \in binding' : c.at # "update"
    BY <1>2, <1>3 DEF BindUpdate, AdvanceBinding, BindingStates
  <2>4. QED
    BY <2>1, <2>2, <2>3 DEF OnceBound, Rebound
<1>4. CASE BindRecord(b) \/ BindLast(b) \/ BindNext(b) \/ BindSend(b)
  <2>1. bound' = bound
    BY <1>4 DEF BindRecord, BindLast, BindNext, BindSend, clusterVars
  <2>2. \A c \in binding' : c.at # "update"
    BY <1>2, <1>4 DEF BindRecord, BindLast, BindNext, BindSend, AdvanceBinding, BindingStates
  <2>3. QED
    BY <2>1, <2>2, FrameKeepsOnce
<1>5. QED
  BY <1>1, <1>3, <1>4

(* A pod the cache knows is not assumed again; what is bound, it knows.    *)
LEMMA StepKeepsOnce ==
  ASSUME BatonInv, CacheInv, OnceBound, [Next]_vars \/ CycleStep PROVE OnceBound' /\ ~Rebound
<1>1. CASE Client \/ PollEmpty \/ UNCHANGED vars
  <2>1. UNCHANGED engineVars
    BY <1>1 DEF Client, Submit, PollEmpty, vars
  <2>2. QED
    BY <2>1, FrameKeepsOnce DEF engineVars
<1>2. CASE Worker
  <2>1. CASE \E p \in toClean : CleanPod(p)
    BY <2>1, FrameKeepsOnce DEF CleanPod, DeletePod, DeletePods
  <2>2. CASE ~\E p \in toClean : CleanPod(p)
    <3>1. UNCHANGED <<bound, binding>>
      BY <1>2, <2>2 DEF Worker, PopJob, StartApp, UpdatePodRequest, DropJob, ReportApp,
         ResetStatus, ListPods, Publish, engineVars, clusterVars
    <3>2. QED
      BY <3>1, FrameKeepsOnce
  <2>3. QED
    BY <2>1, <2>2
<1>3. CASE Caller \/ Handler \/ Informer
  <2>1. bound' \subseteq bound /\ binding' = binding
    BY <1>3 DEF Caller, SchedulerPodStart, SchedulerPodReturn, Handler, HandlerStop,
       HandlerClean, HandlerSend, DeletePod, DeletePods, Informer, CacheForget,
       NominationForget, clusterVars
  <2>2. QED
    BY <2>1, FrameKeepsOnce
<1>4. CASE Cycle
  <2>1. ASSUME NEW p, NEW N, Reject(p, N) PROVE OnceBound' /\ ~Rebound
    <3>1. bound' \subseteq bound /\ binding' = binding
      BY <2>1, PreemptDeletes DEF Reject, DeletePods
    <3>2. QED
      BY <3>1, FrameKeepsOnce
  <2>2. ASSUME NEW p \in activeQ, NEW n \in Node, ScheduleFit(p, n)
        PROVE  OnceBound' /\ ~Rebound
    <3>1. /\ p \notin PodsOf(cache) /\ UNCHANGED bound
          /\ binding' = binding \cup {[pod |-> p, node |-> n, at |-> "update", ch |-> 0]}
      BY <2>2 DEF ScheduleFit
    <3>2. p \notin PodsOf(bound)
      BY <3>1 DEF PodsOf, CacheInv, CacheCovers
    <3>3. \A b \in binding' : b \in binding \/ b.pod = p
      BY <3>1
    <3>4. QED
      BY <3>1, <3>2, <3>3 DEF OnceBound, Rebound, PodsOf
  <2>3. QED
    BY <1>4, <2>1, <2>2 DEF Cycle
<1>5. QED
  BY <1>1, <1>2, <1>3, <1>4, SchedulerCycles, BinderKeepsOnce
     DEF Next, EngineStep, Engine, CycleStep

(* Then only this is left of the environment: pods that somebody deleted   *)
(* leave the queue, and are lost.                                          *)
LEMMA OnlyLosses ==
  ASSUME SafelyTyped, MadeInv, CacheInv, Forgotten = {}, BatonInv, CalmInv, Calm', Environment
  PROVE  \E p \in activeQ : QueueForget(p)
<1>1. Few' /\ \A b : ~BindFails(b)
  BY DEF Calm, Few, BindFails, Strike
<1>2. ~SchedulerDies
  BY DEF SchedulerDies, CalmInv
<1>3. /\ \A b \in binding : \A seen : ~BindForget(b, seen)
      /\ \A x \in bound : ~Confirm(x)
  BY DEF Forgotten, BindForget, Confirm, CacheInv, CacheCovers
<1>4. QED
  BY <1>1, <1>2, <1>3, FewEvents

LEMMA LostKeepsOrder ==
  ASSUME BatonInv, OrderInv, NEW p \in activeQ, activeQ' = activeQ \ {p},
         UNCHANGED <<requestVars, status, caller, binding, events, handler, pc>>
  PROVE  OrderInv'
<1>1. activeQ = {p} /\ NoBinding /\ NoEvent /\ HandlerIdle
  BY OnlyPending
<1>2. InHand'
  BY <1>1 DEF NoBinding, NoEvent, HandlerIdle, InHand
<1>3. QED
  BY <1>2 DEF OrderInv, AtWork, Recorded, NothingRecorded, requestVars

LEMMA StepKeepsCalm ==
  ASSUME SafelyTyped, MadeInv, CacheInv, Forgotten = {}, HandInv, CalmInv,
         Typed', Calm', InterferenceNext
  PROVE  CalmInv'
<1>0. /\ BatonInv /\ nodes \subseteq Node /\ ~panicked /\ ~SchedulerDies /\ Few'
      /\ torn' = (torn \/ Rebound)
  BY HandsHold DEF InterferenceNext, SafelyTyped, VisitorTypeOK, CalmInv, SchedulerDies, Calm,
     Few
<1>1. ~panicked'
  BY <1>0, StepKeepsHands
<1>2. OrderInv' /\ OnceBound' /\ ~Rebound
  <2>1. CASE Undisturbed
    BY <1>0, <2>1, UndisturbedSteps, StepKeepsOrder, StepKeepsOnce DEF CalmInv
  <2>2. CASE Visitor
    <3>1. /\ bound' \subseteq bound
          /\ UNCHANGED <<requestVars, status, caller, activeQ, binding, events, handler, pc>>
      BY <1>0, <2>2, VisitorKeepsHands
    <3>2. QED
      BY <3>1, SameOrder, FrameKeepsOnce DEF CalmInv
  <2>3. CASE Environment
    <3>1. PICK p \in activeQ : QueueForget(p)
      BY <1>0, <2>3, OnlyLosses
    <3>2. /\ activeQ' = activeQ \ {p} /\ UNCHANGED bound
          /\ UNCHANGED <<requestVars, status, caller, binding, events, handler, pc>>
      BY <3>1 DEF QueueForget, clusterVars, workVars, workerVars
    <3>3. QED
      BY <1>0, <3>2, LostKeepsOrder, FrameKeepsOnce DEF CalmInv
  <2>4. QED
    BY <2>1, <2>2, <2>3, NoRendezvous DEF InterferenceNext
<1>3. ~torn'
  BY <1>0, <1>2 DEF CalmInv
<1>4. QED
  BY <1>1, <1>2, <1>3 DEF CalmInv

LEMMA StruckStays == ASSUME [InterferenceNext]_allVars PROVE struck \subseteq struck'
BY DEF InterferenceNext, Undisturbed, Visitor, Rendezvous, Environment, VisitNodes, VisitApps,
   VisitorUpdate, VisitorCreate, VisitorAwait, VisitorReturn, VisitorReport, VisitorList,
   VisitorDelete, VisitorLeaves, NodeGoes, BinderMeetsVisitor, HandlerMeetsVisitor,
   VisitorFindsClosed, CallerFindsClosed, QueueForget, RejectUnchanged, Retry,
   ForeignArrives, NextPodPanics, BindFails, BindForget, Confirm, SchedulerDies, Strike,
   allVars

-----------------------------------------------------------------------------
(* The inductive invariant of the system in company.                       *)
CompanyInv ==
  /\ SafelyTyped /\ MadeInv /\ torn \in BOOLEAN
  /\ NoFailure => CacheInv /\ Forgotten = {}
  /\ Few => HandInv
  /\ Calm => CalmInv
  /\ struck = {} => InPlace /\ visitor.at = "away"

(* While nobody has come, all of it holds, and a step is of the system of  *)
(* AppsEmulator, or a pod leaves the scheduler's queue.                    *)
LEMMA Alone ==
  ASSUME CompanyInv, struck = {}, ~panicked
  PROVE  /\ BatonInv /\ OrderInv /\ StatusInv /\ CacheInv /\ HandInv /\ CalmInv
         /\ Forgotten = {} /\ visitor.at = "away" /\ nodes \subseteq Node
<1>1. NoFailure /\ Few /\ Calm
  BY DEF NoFailure, Few, Calm
<1>2. HandInv /\ CalmInv /\ InPlace /\ visitor.at = "away"
  BY <1>1 DEF CompanyInv
<1>3. QED
  BY <1>1, <1>2, HandsHold, SafeTypes DEF CompanyInv, CalmInv, StatusInv

LEMMA AloneSteps ==
  ASSUME CompanyInv, Typed', struck = {}, struck' = {}, InterferenceNext
  PROVE  \/ [Next]_vars \/ CycleStep
         \/ /\ activeQ' \subseteq activeQ
            /\ UNCHANGED <<workVars, requestVars, status, caller, bound, binding, handler>>
<1>0. ~panicked /\ SafelyTyped /\ MadeInv
  BY DEF InterferenceNext, CompanyInv
<1>1. BatonInv /\ CacheInv /\ HandInv /\ CalmInv /\ visitor.at = "away" /\ nodes \subseteq Node
      /\ Forgotten = {}
  BY <1>0, Alone
<1>2. ~Visitor
  BY <1>0, <1>1, VisitorKeepsHands DEF Few
<1>3. ASSUME Environment
      PROVE  /\ activeQ' \subseteq activeQ
             /\ UNCHANGED <<workVars, requestVars, status, caller, bound, binding, handler>>
  <2>1. PICK p \in activeQ : QueueForget(p)
    BY <1>0, <1>1, <1>3, OnlyLosses DEF Calm
  <2>2. QED
    BY <2>1 DEF QueueForget, clusterVars
<1>4. QED
  BY <1>0, <1>1, <1>2, <1>3, UndisturbedSteps, NoRendezvous DEF InterferenceNext

LEMMA StepKeepsPlaceAlone ==
  ASSUME CompanyInv, Typed', struck = {}, struck' = {}, InterferenceNext
  PROVE  InPlace' /\ visitor'.at = "away"
<1>0. ~panicked /\ BatonInv /\ StatusInv /\ HandInv /\ visitor.at = "away" /\ SafelyTyped
  BY Alone DEF InterferenceNext, CompanyInv
<1>1. InPlace'
  <2>1. CASE [Next]_vars \/ CycleStep
    BY <1>0, <2>1, StepKeepsPlace
  <2>2. CASE UNCHANGED <<status, bound, binding>>
    BY <1>0, <2>2, FrameKeepsPlace DEF StatusInv
  <2>3. QED
    BY <2>1, <2>2, AloneSteps
<1>2. visitor' = visitor
  <2>1. ~Visitor
    BY <1>0, VisitorKeepsHands DEF Few
  <2>2. QED
    BY <1>0, <2>1, NoRendezvous DEF InterferenceNext, Undisturbed, Environment, QueueForget,
       RejectUnchanged, Retry, ForeignArrives, NextPodPanics, BindFails, BindForget, Confirm,
       SchedulerDies
<1>3. QED
  BY <1>0, <1>1, <1>2

LEMMA InitCompany == ASSUME InterferenceInit PROVE CompanyInv
<1>1. /\ Init /\ struck = {} /\ visitor = Away /\ Away.at = "away" /\ Away.kind = "none"
      /\ torn = FALSE
  BY DEF InterferenceInit, Away
<1>2. SafelyTyped /\ CacheInv /\ BatonInv /\ OrderInv
  BY <1>1, InterferenceInitTyped, InitCache, InitBaton, InitOrder
<1>3. /\ store = PodsOf(Mirrored) /\ bound = Mirrored /\ activeQ = {} /\ binding = {}
      /\ caller.at = "idle" /\ pc = "pop"
  BY <1>1 DEF Init, EngineInit
<1>4. MadeInv
  BY <1>1, <1>3 DEF MadeInv
<1>5. InPlace
  BY <1>2, <1>3 DEF InPlace, OrderInv, NothingRecorded
<1>6. OnceBound /\ Forgotten = {}
  <2>1. \A x, y \in bound : x[1] = y[1] => x = y
    BY <1>3, MirroredAssumption
  <2>2. QED
    BY <1>3, <2>1 DEF OnceBound, Forgotten
<1>7. HandInv /\ ~panicked
  BY <1>1, <1>2 DEF HandInv, BatonInv, OnlyDeletes, NoPanic
<1>8. ~torn /\ torn \in BOOLEAN
  BY <1>1, Zenon
<1>9. QED
  BY <1>1, <1>2, <1>4, <1>5, <1>6, <1>7, <1>8 DEF CompanyInv, CalmInv

LEMMA RestKeepsCompany ==
  ASSUME CompanyInv, SafelyTyped', MadeInv', UNCHANGED allVars PROVE CompanyInv'
<1>1. /\ UNCHANGED <<stop, caller, closedStop, status, activeQ, binding, events, handler, bound,
                     panicked, torn, struck, visitor, pc, requestVars>>
  BY DEF allVars, vars, engineVars, workerVars, requestVars
<1>2. NoFailure' => CacheInv' /\ Forgotten' = {}
  BY <1>1, JobsKeepCache DEF CompanyInv, NoFailure, Forgotten, allVars
<1>3. Few' => HandInv'
  BY <1>1, HandsRest DEF CompanyInv, Few, OnlyDeletes, HandInv, SafelyTyped
<1>4. Calm' => CalmInv'
  BY <1>1, SameOrder DEF CompanyInv, Calm, CalmInv, OnceBound, PodsOf
<1>5. struck' = {} => InPlace' /\ visitor'.at = "away"
  BY <1>1, FrameKeepsPlace DEF CompanyInv
<1>6. QED
  BY <1>1, <1>2, <1>3, <1>4, <1>5 DEF CompanyInv

LEMMA StepKeepsCompany ==
  ASSUME CompanyInv, [InterferenceNext]_allVars PROVE CompanyInv'
<1>0. SafelyTyped' /\ MadeInv' /\ Typed' /\ struck \subseteq struck'
  BY InterferenceTyped, StepKeepsMade, StruckStays DEF CompanyInv, SafelyTyped
<1>1. CASE UNCHANGED allVars
  BY <1>0, <1>1, RestKeepsCompany
<1>2. CASE InterferenceNext
  <2>1. NoFailure' => CacheInv' /\ Forgotten' = {}
    <3>1. NoFailure' => NoFailure /\ ~Fails
      BY <1>0 DEF NoFailure, Fails, BindFails, Strike
    <3>2. QED
      BY <1>2, <3>1, CompanyKeepsCache DEF CompanyInv
  <2>2. Few' => HandInv'
    BY <1>0, <1>2, StepKeepsHands DEF CompanyInv, Few
  <2>3. Calm' => CalmInv'
    <3>1. Calm' => Calm /\ Few /\ NoFailure
      BY <1>0 DEF Calm, Few, NoFailure
    <3>2. QED
      BY <1>0, <1>2, <3>1, StepKeepsCalm DEF CompanyInv
  <2>4. struck' = {} => InPlace' /\ visitor'.at = "away"
    BY <1>0, <1>2, StepKeepsPlaceAlone
  <2>5. torn' \in BOOLEAN
    <3>1. torn' = (torn \/ Rebound)
      BY <1>2 DEF InterferenceNext
    <3>2. QED
      BY <3>1, Zenon
  <2>6. QED
    BY <1>0, <2>1, <2>2, <2>3, <2>4, <2>5 DEF CompanyInv
<1>3. QED
  BY <1>1, <1>2

LEMMA CompanyHolds == InterferenceSpec => []CompanyInv
<1>1. InterferenceInit => CompanyInv
  BY InitCompany
<1>2. CompanyInv /\ [InterferenceNext]_allVars => CompanyInv'
  BY StepKeepsCompany
<1>3. QED
  BY <1>1, <1>2, PTL DEF InterferenceSpec

(* Types, whoever acts: requests, retries and foreign pods included.       *)
THEOREM CompanyTyped == InterferenceSpec => []InterferenceTypeOK
<1>1. CompanyInv => InterferenceTypeOK
  BY DEF CompanyInv, SafelyTyped, VisitorTypeOK, Typed, InterferenceTypeOK
<1>2. QED
  BY <1>1, CompanyHolds, PTL

(* Until a create fails in Bind, no node ever has more pods than slots,    *)
(* with the worker, a deprecated request, a retried pod and a foreign one  *)
(* all placing pods at once (simulator.go:704-734), on any cluster.        *)
THEOREM NeverOverfullInCompany == InterferenceSpec => []NeverOverfull
<1>1. CompanyInv => NeverOverfull
  BY CacheIsEnough DEF CompanyInv, NeverOverfull, NoFailure
<1>2. QED
  BY <1>1, CompanyHolds, PTL

(* DeleteNodes may take pods and nodes from under a running job at any     *)
(* moment (1509-1527): nobody panics and the baton is never doubled.       *)
(* Neither is it by a pod that Bind's error puts back (730-732).           *)
THEOREM BatonSurvives == InterferenceSpec => []BatonSurvivesDeletes
<1>1. CompanyInv => BatonSurvivesDeletes
  BY BatonIsOne
     DEF CompanyInv, Few, HandInv, Calm, CalmInv, NoPanic, BatonSurvivesDeletes
<1>2. QED
  BY <1>1, CompanyHolds, PTL

(* What a job reports is its own pods, each once, even while they are      *)
(* being deleted (Bind:715-718); left alone, they are where it says.       *)
THEOREM StatusSurvivesDeletes == InterferenceSpec => []StatusSurvives
<1>1. CompanyInv => StatusSurvives
  <2>1. ASSUME CompanyInv, Calm PROVE OnlyOwnPods
    <3>1. Recorded
      BY <2>1 DEF CompanyInv, CalmInv, OrderInv
    <3>2. QED
      BY <3>1 DEF Recorded, OnlyOwnPods
  <2>2. ASSUME CompanyInv, struck = {} PROVE StatusIsTrue
    <3>1. Recorded /\ InPlace
      BY <2>2 DEF CompanyInv, CalmInv, OrderInv, Calm
    <3>2. QED
      BY <3>1 DEF Recorded, InPlace, StatusIsTrue
  <2>3. QED
    BY <2>1, <2>2 DEF StatusSurvives, Calm
<1>2. QED
  BY <1>1, CompanyHolds, PTL

-----------------------------------------------------------------------------
(* The service in company.  A step is the worker's or a client's, or it    *)
(* leaves the job and the queue alone.                                     *)
AtRest == UNCHANGED <<fifoVars, workerVars, emulatorResult, used>>
JobStep == ~panicked /\ (Client \/ PollEmpty \/ Worker)

LEMMA WorkOrRest ==
  ASSUME [InterferenceNext]_allVars
  PROVE  AtRest \/ (JobStep /\ UNCHANGED struck)
<1>1. CASE UNCHANGED allVars
  BY <1>1 DEF allVars, vars, AtRest
<1>2. CASE ~panicked /\ Undisturbed
  BY <1>2 DEF Undisturbed, SchedulerLeft, workVars, AtRest, JobStep
<1>3. CASE Visitor
  BY <1>3 DEF Visitor, VisitNodes, VisitApps, VisitorUpdate, VisitorCreate, VisitorAwait,
     VisitorReturn, VisitorReport, VisitorList, VisitorDelete, VisitorLeaves, NodeGoes,
     vars, workVars, AtRest
<1>4. CASE Rendezvous
  BY <1>4 DEF Rendezvous, BinderMeetsVisitor, HandlerMeetsVisitor, VisitorFindsClosed,
     CallerFindsClosed, vars, workVars, AtRest
<1>5. CASE Environment
  BY <1>5 DEF Environment, QueueForget, RejectUnchanged, Retry, ForeignArrives, NextPodPanics,
     BindFails, BindForget, Confirm, SchedulerDies, workVars, AtRest
<1>6. QED
  BY <1>1, <1>2, <1>3, <1>4, <1>5 DEF InterferenceNext

(* Nobody but the worker's own create lets its caller fail.                *)
LEMMA FailsAlone ==
  ASSUME SafelyTyped, [InterferenceNext]_allVars, ~JobStep
  PROVE  caller'.at = "failed" => caller.at = "failed" \/ CreateMayFail
<1>0. caller \in CallerStates /\ nodes \subseteq Node
  BY SafeTypes
<1>1. CASE UNCHANGED caller
  BY <1>1
<1>2. CASE ~panicked /\ Undisturbed
  <2>1. CASE Caller \/ Binder \/ Handler \/ Informer
    BY <1>0, <2>1, EngineFails DEF Engine
  <2>2. CASE SchedulerLeft
    BY <1>0, <2>2 DEF SchedulerLeft, ScheduleFit, Reject
  <2>3. QED
    BY <1>2, <2>1, <2>2 DEF Undisturbed, JobStep
<1>3. CASE Visitor
  <2>1. CASE VisitorUpdate
    BY <1>0, <2>1 DEF VisitorUpdate, CallerStates
  <2>2. CASE ~VisitorUpdate
    BY <1>1, <1>3, <2>2 DEF Visitor, VisitNodes, VisitApps, VisitorCreate, VisitorAwait,
       VisitorReturn, VisitorReport, VisitorList, VisitorDelete, VisitorLeaves, NodeGoes,
       vars, engineVars
  <2>3. QED
    BY <2>1, <2>2
<1>4. CASE Rendezvous
  <2>1. CASE CallerFindsClosed
    BY <1>0, <2>1 DEF CallerFindsClosed, CallerStates
  <2>2. CASE ~CallerFindsClosed
    BY <1>1, <1>4, <2>2 DEF Rendezvous, BinderMeetsVisitor, HandlerMeetsVisitor,
       VisitorFindsClosed, vars, engineVars
  <2>3. QED
    BY <2>1, <2>2
<1>5. CASE Environment
  BY <1>1, <1>5 DEF Environment, QueueForget, RejectUnchanged, Retry, ForeignArrives,
     NextPodPanics, BindFails, BindForget, Confirm, SchedulerDies
<1>6. CASE UNCHANGED allVars
  BY <1>1, <1>6 DEF allVars, vars, engineVars
<1>7. QED
  BY <1>2, <1>3, <1>4, <1>5, <1>6 DEF InterferenceNext

LEMMA CompanyKeepsJobs ==
  ASSUME SafelyTyped, OnePlace, QueueMatches, Counting, [InterferenceNext]_allVars
  PROVE  OnePlace' /\ QueueMatches' /\ Counting'
<1>0. Typed
  BY DEF SafelyTyped
<1>1. CASE JobStep
  BY <1>0, <1>1, OnePlaceStep, QueueMatchesStep, CountingStep DEF Next, JobStep
<1>2. CASE AtRest /\ ~JobStep
  <2>1. Counting'
    BY <1>2, FailsAlone, CountingRests DEF AtRest
  <2>2. Unmoved /\ UNCHANGED <<fifoVars, pc>>
    BY <1>2 DEF AtRest, Unmoved, fifoVars, workerVars
  <2>3. OnePlace' /\ QueueMatches'
    BY <2>2 DEF Unmoved, OnePlace, Present, Result, QueueMatches, fifoVars
  <2>4. QED
    BY <2>1, <2>3
<1>3. QED
  BY <1>1, <1>2, WorkOrRest

(* Until anybody comes, verdicts and reviews are right.                     *)
LEMMA AloneKeepsReviews ==
  ASSUME CompanyInv, CompanyInv', Counting, VerdictInv, ReviewsInv, struck = {}, struck' = {},
         [InterferenceNext]_allVars
  PROVE  VerdictInv' /\ ReviewsInv'
<1>0. ~panicked
  BY DEF CompanyInv, CalmInv, Calm
<1>1. /\ BatonInv /\ OrderInv /\ StatusInv /\ NoOvercommit /\ Typed /\ Typed'
      /\ IsFiniteSet(bound) /\ IsFiniteSet(bound')
  <2>1. BatonInv /\ OrderInv /\ StatusInv /\ CacheInv
    BY <1>0, Alone
  <2>2. CacheInv' /\ Typed /\ Typed'
    BY DEF CompanyInv, NoFailure, SafelyTyped
  <2>3. NoOvercommit /\ IsFiniteSet(bound) /\ IsFiniteSet(bound')
    BY <2>1, <2>2, FS_Subset, CacheIsEnough DEF CacheInv, CacheCovers
  <2>4. QED
    BY <2>1, <2>2, <2>3
<1>2. CASE [Next]_vars \/ CycleStep
  BY <1>1, <1>2, StepKeepsVerdict, StepKeepsReviews
<1>3. CASE /\ activeQ' \subseteq activeQ
           /\ UNCHANGED <<workVars, requestVars, status, caller, bound, binding, handler>>
  <2>1. /\ UNCHANGED <<stop, next, pc, group, reportlist, bound, simulatedPod, simulated,
                       status, caller, binding, handler>>
    BY <1>3 DEF workVars, workerVars, requestVars
  <2>2. VerdictInv'
    BY <1>3, <2>1, FrameKeepsVerdict DEF VerdictInv
  <2>3. UNCHANGED InFront
    BY <2>1 DEF InFront
  <2>4. ReviewsInv'
    BY <1>1, <2>1, <2>3, FrameKeepsReviews
  <2>5. QED
    BY <2>2, <2>4
<1>4. CASE UNCHANGED allVars
  BY <1>2, <1>4 DEF allVars
<1>5. QED
  BY <1>1, <1>2, <1>3, <1>4, AloneSteps

CompanyServes ==
  /\ CompanyInv
  /\ OnePlace /\ QueueMatches /\ Counting
  /\ struck = {} => VerdictInv /\ ReviewsInv

LEMMA StepKeepsServing ==
  ASSUME CompanyServes, [InterferenceNext]_allVars PROVE CompanyServes'
<1>1. CompanyInv'
  BY StepKeepsCompany DEF CompanyServes
<1>2. OnePlace' /\ QueueMatches' /\ Counting'
  BY CompanyKeepsJobs DEF CompanyServes, CompanyInv
<1>3. struck \subseteq struck'
  BY StruckStays
<1>4. ASSUME struck' = {} PROVE VerdictInv' /\ ReviewsInv'
  BY <1>1, <1>3, <1>4, AloneKeepsReviews DEF CompanyServes
<1>5. QED
  BY <1>1, <1>2, <1>4 DEF CompanyServes

LEMMA InitServesInCompany ==
  ASSUME InterferenceInit PROVE CompanyServes /\ DisturbedService!ServiceInit
<1>1. Init /\ struck = {}
  BY DEF InterferenceInit
<1>2. ServiceInv /\ Service!ServiceInit
  BY <1>1, InitServes
<1>3. DisturbedService!ServiceInit
  BY <1>1, <1>2 DEF Service!ServiceInit, DisturbedService!ServiceInit
<1>4. QED
  BY <1>2, <1>3, InitCompany DEF CompanyServes, ServiceInv

(* One service, seen with and without a say in what disturbs it.           *)
LEMMA SameHonesty ==
  ASSUME NEW apps, NEW list, Service!Honest(apps, list)
  PROVE  DisturbedService!Honest(apps, list)
<1>1. \A c : DisturbedService!Total(c) = Service!Total(c)
  BY Zenon DEF DisturbedService!Total, Service!Total, DisturbedService!Counted, Service!Counted,
     DisturbedService!Cardinality, Service!Cardinality
<1>2. /\ \A S, n : DisturbedService!OnNode(list, S, n) = Service!OnNode(list, S, n)
      /\ \A j : DisturbedService!Standing(apps, j) = Service!Standing(apps, j)
  BY Zenon DEF DisturbedService!OnNode, Service!OnNode, DisturbedService!Standing,
     Service!Standing
<1>3. \A app, r : Service!Truthful(app, r) => DisturbedService!Truthful(app, r)
  BY <1>1, Zenon DEF DisturbedService!Truthful, Service!Truthful
<1>4. QED
  BY <1>1, <1>2, <1>3, Zenon DEF DisturbedService!Honest, Service!Honest

LEMMA StepServesInCompany ==
  ASSUME CompanyServes, [InterferenceNext]_allVars
  PROVE  [DisturbedService!ServiceNext]_(DisturbedService!serviceVars)
<1>0. Typed /\ OnePlace /\ QueueMatches /\ Counting /\ struck \subseteq struck'
      /\ (struck = {} => ReviewsInv)
  BY StruckStays DEF CompanyServes, CompanyInv, SafelyTyped
<1>1. CASE AtRest
  <2>1. UNCHANGED <<Waiting, Active, emulatorResult>>
    BY <1>1, QueueRests DEF AtRest, workerVars, Active
  <2>2. CASE (struck' # {}) = (struck # {})
    BY <2>1, <2>2 DEF DisturbedService!serviceVars, Waiting, Active
  <2>3. CASE (struck' # {}) # (struck # {})
    <3>1. (struck' # {}) = TRUE
      BY <1>0, <2>3
    <3>2. DisturbedService!Disturb
      BY <2>1, <3>1 DEF DisturbedService!Disturb, Waiting, Active
    <3>3. QED
      BY <3>2 DEF DisturbedService!ServiceNext
  <2>4. QED
    BY <2>2, <2>3
<1>2. CASE JobStep /\ UNCHANGED struck
  <2>0. [Next]_vars /\ UNCHANGED struck
    BY <1>2 DEF JobStep, Next
  <2>1. ASSUME NEW k \in Key, NEW g \in Group,
               Waiting' = Append(Waiting, <<k, g>>), UNCHANGED <<Active, emulatorResult>>
        PROVE  DisturbedService!ServiceNext
    <3>1. DisturbedService!SubmitJob(k, g)
      BY <2>0, <2>1 DEF DisturbedService!SubmitJob, Waiting, Active
    <3>2. QED
      BY <3>1 DEF DisturbedService!ServiceNext
  <2>2. CASE /\ Waiting # << >> /\ Active = {} /\ Active' = {Head(Waiting)}
             /\ Waiting' = Tail(Waiting) /\ UNCHANGED emulatorResult
    <3>1. DisturbedService!StartJob
      BY <2>0, <2>2 DEF DisturbedService!StartJob, Waiting, Active
    <3>2. QED
      BY <3>1 DEF DisturbedService!ServiceNext
  <2>3. CASE Publish
    <3> DEFINE job == <<key, group>>
               done == <<key, reportlist>>
    <3>1. /\ Active = {job} /\ Active' = {} /\ Len(reportlist) = Len(group)
          /\ emulatorResult' = emulatorResult \cup {done} /\ done \notin emulatorResult
          /\ UNCHANGED Waiting
          /\ struck # {} \/ DisturbedService!Honest(group, reportlist)
      BY <1>0, <2>3, PublishAnswers, SameHonesty
    <3>2. job[1] = key /\ job[2] = group /\ done[1] = key /\ done[2] = reportlist
      OBVIOUS
    <3> HIDE DEF job, done
    <3>3. DisturbedService!FinishJob
      BY <2>0, <3>1, <3>2 DEF DisturbedService!FinishJob, Waiting, Active
    <3>4. QED
      BY <3>3 DEF DisturbedService!ServiceNext
  <2>4. CASE DropJob
    <3>1. DisturbedService!DropJob
      BY <1>0, <2>0, <2>4, DropDrops DEF DisturbedService!DropJob, CreateMayFail, Waiting, Active
    <3>2. QED
      BY <3>1 DEF DisturbedService!ServiceNext
  <2>5. CASE Unfinished
    BY <2>0, <2>5 DEF Unfinished, Waiting, Active, DisturbedService!serviceVars
  <2>6. QED
    BY <1>0, <2>0, <2>1, <2>2, <2>3, <2>4, <2>5, JobSteps
<1>3. QED
  BY <1>1, <1>2, WorkOrRest

(* Whoever acts on the cluster, jobs are taken in order, one at a time,    *)
(* and each that ends has one review per app, true until the first         *)
(* disturbance (kubesimQueue.Pop at 852 to the results at 896).            *)
THEOREM ServesInCompany == InterferenceSpec => StillServes
<1>1. InterferenceInit => CompanyServes /\ DisturbedService!ServiceInit
  BY InitServesInCompany
<1>2. CompanyServes /\ [InterferenceNext]_allVars => CompanyServes'
  BY StepKeepsServing
<1>3. CompanyServes /\ [InterferenceNext]_allVars
        => [DisturbedService!ServiceNext]_(DisturbedService!serviceVars)
  BY StepServesInCompany
<1>4. QED
  BY <1>1, <1>2, <1>3, PTL DEF InterferenceSpec, StillServes, DisturbedService!ServiceSpec

=============================================================================
