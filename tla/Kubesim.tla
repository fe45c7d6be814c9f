------------------------------ MODULE Kubesim ------------------------------
(***************************************************************************)
(* The emulation engine of kubesim: the shared struct Kubesim              *)
(* (src/pkg/scheduler/simulator.go) and the three parties that act on it   *)
(* while one application is being simulated.                               *)
(*                                                                         *)
(*   the caller     runs UpdatePodRequest and SchedulerPod, which creates  *)
(*                  the first pod and blocks on the channel ks.stop        *)
(*   the scheduler  takes a pending pod, and either assumes it on a node   *)
(*                  and starts a binding goroutine (which calls ks.Bind)   *)
(*                  or marks it Unschedulable through the API, after its   *)
(*                  default preemption has deleted pods of lower priority  *)
(*   the handler    the pod informer's goroutine, which calls ks.Update    *)
(*                  for each modified pod                                  *)
(*                                                                         *)
(* Bind places one pod and creates the next, so the pods of an app follow  *)
(* one another like a baton until Bind (all replicas placed) or Update     *)
(* (one does not fit) hands it back to the caller through ks.stop.         *)
(* Nothing in the code states that exactly one party holds the baton: the  *)
(* fields of Kubesim are read and written without a lock.                  *)
(*                                                                         *)
(* Abstractions.  A pod asks for one slot of a node and may be kept off    *)
(* nodes by its selector; mirrored pods count where somebody may outrank   *)
(* them and are otherwise taken off the slots; a channel is named by the   *)
(* number of UpdatePodRequest calls made when it was created (0: nil);     *)
(* informers are asynchronous: what the scheduler's cache and queue learn  *)
(* from the API through them is applied at any later time.  Close          *)
(* (736-747) closes two channels nobody receives from (the scheduler and   *)
(* the informers were given their nil predecessors), so only its flag is   *)
(* kept.                                                                   *)
(***************************************************************************)
EXTENDS Integers, Sequences, FiniteSets

CONSTANTS Node,            \* schedulable nodes
          Slots,           \* the room of each node, beside pods nobody outranks
          Mirrored,        \* mirrored pods that apps may outrank, on their nodes
          CreateOutcomes   \* what SchedulerPod's Create may return: TRUE ok, FALSE
                           \* error; creates inside Bind: see module Interference

ASSUME SlotsAssumption == Slots \in [Node -> Nat]
ASSUME NodeAssumption == IsFiniteSet(Node)
ASSUME CreateAssumption == CreateOutcomes \in SUBSET BOOLEAN

Pod == [run : Nat, index : Nat, nodes : SUBSET Node, priority : Int]
App == [replicas : Int, nodes : SUBSET Node, priority : Int]
Placement == Pod \X Node
Reason == {"", "Schedulable", "Unschedulable"}
PlacedOn(S, n) == {x \in S : x[2] = n}
PodsOf(S) == {x[1] : x \in S}

(* Run 0 is nobody's: mirrored pods are neither labelled nor annotated.    *)
ASSUME MirroredAssumption ==
  /\ Mirrored \subseteq Placement
  /\ IsFiniteSet(Mirrored)
  /\ \A x \in Mirrored : x[1].run = 0 /\ x[1].index > 1
  /\ \A x, y \in Mirrored : x[1] = y[1] => x = y
  /\ \A n \in Node : Cardinality(PlacedOn(Mirrored, n)) <= Slots[n]

VARIABLES
  simulatedPod,  \* the app being simulated: ks.simulatedPod and ks.maxSimulated
  simulated,     \* ks.simulated
  stop,          \* ks.stop
  closed,        \* ks.closed
  status,        \* ks.status: the pods placed, in order, and StopReason
  caller,        \* where SchedulerPod is, and the channel it waits on
  closedStop,    \* stop channels that were closed
  store,         \* the pods in the API store
  bound,         \* their node names, once Bind has set them
  cache,         \* placements in the scheduler's cache, assumed or confirmed
  nominated,     \* room the scheduler keeps for rejected pods it evicted others for
  activeQ,       \* pods waiting for a scheduling cycle
  binding,       \* running binding goroutines
  events,        \* pod updates with an Unschedulable condition, undelivered
  handler,       \* where the handler goroutine is
  panicked       \* a goroutine has panicked: the process is gone

requestVars == <<simulatedPod, simulated, stop>>
clusterVars == <<store, bound, cache, nominated>>
engineVars == <<simulatedPod, simulated, stop, closed, status, caller, closedStop,
                store, bound, cache, nominated, activeQ, binding, events,
                handler, panicked>>

CallerStates == [at : {"idle", "create", "wait", "received", "done", "failed"}, ch : Nat]
BindingStates == [pod : Pod, node : Node,
                  at : {"update", "record", "decide", "send", "forget"}, ch : Nat]
HandlerStates == [at : {"idle", "clean", "send"}, pod : Pod, ch : Nat]

NoPod == [run |-> 0, index |-> 0, nodes |-> {}, priority |-> 0]
NoApp == [replicas |-> 0, nodes |-> {}, priority |-> 0]

EngineTypeOK ==
  /\ simulatedPod \in App
  /\ simulated \in Nat
  /\ stop \in Nat
  /\ closed \in BOOLEAN
  /\ status \in [pods : Seq(Placement), reason : Reason]
  /\ caller \in CallerStates
  /\ closedStop \in SUBSET Nat
  /\ store \in SUBSET Pod
  /\ bound \in SUBSET Placement
  /\ cache \in SUBSET Placement
  /\ nominated \in SUBSET Placement
  /\ activeQ \in SUBSET Pod
  /\ binding \in SUBSET BindingStates
  /\ events \in Seq(Pod)
  /\ handler \in HandlerStates
  /\ panicked \in BOOLEAN

EngineInit ==
  /\ simulatedPod = NoApp
  /\ simulated = 0
  /\ stop = 0
  /\ closed = FALSE
  /\ status = [pods |-> << >>, reason |-> ""]
  /\ caller = [at |-> "idle", ch |-> 0]
  /\ closedStop = {}
  /\ store = PodsOf(Mirrored)
  /\ bound = Mirrored
  /\ cache = Mirrored
  /\ nominated = {}
  /\ activeQ = {}
  /\ binding = {}
  /\ events = << >>
  /\ handler = [at |-> "idle", pod |-> NoPod, ch |-> 0]
  /\ panicked = FALSE

-----------------------------------------------------------------------------
(* Shared steps.                                                           *)

(* CleanStatusPods: StopReason is left as it was.                          *)
MutantKeepPods == UNCHANGED status
CleanStatusPods == status' = [status EXCEPT !.pods = << >>]

Close == closed' = TRUE

(* nextPod counts the attempt before it creates the pod; the informer      *)
(* brings a created pod to the scheduler's queue.                          *)
NextPod == [run |-> stop, index |-> simulated + 1, nodes |-> simulatedPod.nodes,
            priority |-> simulatedPod.priority]

CreateNextPod(ok) ==
  /\ simulated' = simulated + 1
  /\ store' = IF ok THEN store \cup {NextPod} ELSE store
  /\ activeQ' = IF ok THEN activeQ \cup {NextPod} ELSE activeQ

(* What nextPod labels and annotates; a pod of anyone else has run 0.      *)
Simulated == {p \in store : p.run > 0}

(* Pods deleted from the API take their node names with them.              *)
DeletePods(D) ==
  /\ store' = store \ D
  /\ bound' = {x \in bound : x[1] \notin D}

DeletePod(p) == DeletePods({p})

(* ks.stop <- struct{}{}: the channel is unbuffered, so the sender and the *)
(* waiting caller go on together; a send on a closed channel panics.       *)
SendStop(ch) ==
  /\ \/ ch \in closedStop
     \/ caller = [at |-> "wait", ch |-> ch]
  /\ panicked' = (ch \in closedStop)
  /\ caller' = IF ch \in closedStop THEN caller ELSE [caller EXCEPT !.at = "received"]

MutantLimit == simulatedPod.replicas > 0 /\ simulated > simulatedPod.replicas
LimitReached == simulatedPod.replicas > 0 /\ simulated >= simulatedPod.replicas

-----------------------------------------------------------------------------
(* The caller: UpdatePodRequest and SchedulerPod.                          *)

MutantOldChannel == stop' = IF stop = 0 THEN 1 ELSE stop
MakeStopChannel == stop' = stop + 1

UpdatePodRequest(app) ==
  /\ caller.at = "idle"
  /\ simulatedPod' = app
  /\ simulated' = 0
  /\ MakeStopChannel
  /\ caller' = [caller EXCEPT !.at = "create"]
  /\ UNCHANGED <<closed, status, closedStop, clusterVars, activeQ, binding, events,
                 handler, panicked>>

MutantNoWait == caller' = [at |-> "received", ch |-> stop]
AwaitStop == caller' = [at |-> "wait", ch |-> stop]

SchedulerPodStart(ok) ==
  /\ caller.at = "create"
  /\ CreateNextPod(ok)
  /\ IF ok
       THEN /\ AwaitStop
            /\ UNCHANGED <<closed, closedStop, panicked>>
       ELSE /\ Close
            /\ panicked' = (stop \in closedStop)
            /\ closedStop' = closedStop \cup {stop}
            /\ caller' = [caller EXCEPT !.at = "failed"]
  /\ UNCHANGED <<simulatedPod, stop, status, bound, cache, nominated, binding, events,
                 handler>>

(* The receive has returned; close(ks.stop) panics on a closed channel.    *)
SchedulerPodReturn ==
  /\ caller.at = "received"
  /\ panicked' = (stop \in closedStop)
  /\ closedStop' = closedStop \cup {stop}
  /\ caller' = [caller EXCEPT !.at = "done"]
  /\ UNCHANGED <<requestVars, closed, status, clusterVars, activeQ, binding, events,
                 handler>>

-----------------------------------------------------------------------------
(* The scheduler: one cycle takes a pending pod and finds it a node, or    *)
(* none.                                                                   *)

MutantRoom(S, n) == Cardinality(PlacedOn(S, n)) <= Slots[n]
HasRoom(S, n) == Cardinality(PlacedOn(S, n)) < Slots[n]
Feasible(S, p) == {n \in p.nodes : HasRoom(S, n)}

(* What counts against room for p: the cache, and pods nominated to a node *)
(* that p does not outrank.                                                *)
Claims(p) == cache \cup {x \in nominated : x[1] # p /\ x[1].priority >= p.priority}

(* assume() enters the pod in the cache, which refuses one it has, and     *)
(* ends its nomination; the binding cycle is a goroutine.                  *)
ScheduleFit(p, n) ==
  /\ p \in activeQ
  /\ n \in Feasible(Claims(p), p)
  /\ p \notin PodsOf(cache)
  /\ activeQ' = activeQ \ {p}
  /\ cache' = cache \cup {<<p, n>>}
  /\ nominated' = {x \in nominated : x[1] # p}
  /\ binding' = binding \cup {[pod |-> p, node |-> n, at |-> "update", ch |-> 0]}
  /\ UNCHANGED <<requestVars, closed, status, caller, closedStop, store, bound, events,
                 handler, panicked>>

(* Default preemption, which runs for every pod that fits nowhere: on one  *)
(* node where it helps, just as many pods of lower priority as make room.  *)
Outranked(p, n) == {x \in PlacedOn(cache, n) : x[1].priority < p.priority}
Victims(p, n) ==
  {V \in SUBSET Outranked(p, n) :
     Cardinality(PlacedOn(Claims(p), n) \ V) = Slots[n] - 1}

(* They are deleted through the API one by one; one that is gone already   *)
(* ends it, and p is nominated only if none is.                            *)
Evict(p, n, victims) ==
  \/ /\ victims \subseteq store
     /\ DeletePods(victims)
     /\ nominated' = nominated \cup {<<p, n>>}
  \/ /\ ~(victims \subseteq store)
     /\ \E D \in SUBSET (victims \cap store) : DeletePods(D)
     /\ UNCHANGED nominated

(* Nothing is deleted when that helps nowhere, or p's policy is Never.     *)
Preempt(p, N) ==
  \/ UNCHANGED <<store, bound, nominated>>
  \/ \E n \in p.nodes \cap N : \E V \in Victims(p, n) : Evict(p, n, PodsOf(V))

(* The condition patch reaches the handler as a pod update, which Update   *)
(* takes up for annotated pods only; patching a pod that is gone fails.    *)
Reject(p, N) ==
  /\ p \in activeQ
  /\ activeQ' = activeQ \ {p}
  /\ Preempt(p, N)
  /\ events' = IF p \in Simulated THEN Append(events, p) ELSE events
  /\ UNCHANGED <<requestVars, closed, status, caller, closedStop, cache, binding, handler,
                 panicked>>

ScheduleFail(p) == Feasible(Claims(p), p) = {} /\ Reject(p, Node)

(* The informer tells the scheduler's cache, and its queue, that a pod is  *)
(* gone, some time after it was deleted.                                   *)
CacheForget(x) ==
  /\ x \in cache
  /\ x[1] \notin store
  /\ \A b \in binding : b.pod = x[1] => b.at # "update"
  /\ cache' = cache \ {x}
  /\ UNCHANGED <<requestVars, closed, status, caller, closedStop, store, bound, nominated,
                 activeQ, binding, events, handler, panicked>>

NominationForget(x) ==
  /\ x \in nominated
  /\ x[1] \notin store
  /\ nominated' = nominated \ {x}
  /\ UNCHANGED <<requestVars, closed, status, caller, closedStop, store, bound, cache,
                 activeQ, binding, events, handler, panicked>>

-----------------------------------------------------------------------------
(* A binding goroutine: KubesimBinder.Bind, which is ks.Bind.              *)

AdvanceBinding(b, at) == binding' = (binding \ {b}) \cup {[b EXCEPT !.at = at]}

(* Get and strategy.Add.  If the pod is gone either call fails, Bind is    *)
(* rejected and the scheduler forgets the pod.                             *)
BindUpdate(b) ==
  /\ b \in binding /\ b.at = "update"
  /\ IF b.pod \in store
       THEN /\ bound' = {x \in bound : x[1] # b.pod} \cup {<<b.pod, b.node>>}
            /\ AdvanceBinding(b, "record")
            /\ UNCHANGED cache
       ELSE /\ cache' = cache \ {<<b.pod, b.node>>}
            /\ binding' = binding \ {b}
            /\ UNCHANGED bound
  /\ UNCHANGED <<requestVars, closed, status, caller, closedStop, store, nominated,
                 activeQ, events, handler, panicked>>

BindRecord(b) ==
  /\ b \in binding /\ b.at = "record"
  /\ status' = [status EXCEPT !.pods = Append(@, <<b.pod, b.node>>)]
  /\ AdvanceBinding(b, "decide")
  /\ UNCHANGED <<requestVars, closed, caller, closedStop, clusterVars, activeQ, events,
                 handler, panicked>>

(* The last replica is placed: StopReason, Close, then the send on what    *)
(* ks.stop is now.                                                         *)
BindLast(b) ==
  /\ b \in binding /\ b.at = "decide"
  /\ LimitReached
  /\ status' = [status EXCEPT !.reason = "Schedulable"]
  /\ Close
  /\ binding' = (binding \ {b}) \cup {[b EXCEPT !.at = "send", !.ch = stop]}
  /\ UNCHANGED <<requestVars, caller, closedStop, clusterVars, activeQ, events, handler,
                 panicked>>

(* More replicas to place: the next pod is created.                        *)
BindNext(b) ==
  /\ b \in binding /\ b.at = "decide"
  /\ ~LimitReached
  /\ CreateNextPod(TRUE)
  /\ binding' = binding \ {b}
  /\ UNCHANGED <<simulatedPod, stop, closed, status, caller, closedStop, bound, cache,
                 nominated, events, handler, panicked>>

BindSend(b) ==
  /\ b \in binding /\ b.at = "send"
  /\ SendStop(b.ch)
  /\ binding' = binding \ {b}
  /\ UNCHANGED <<requestVars, closed, status, closedStop, clusterVars, activeQ, events,
                 handler>>

-----------------------------------------------------------------------------
(* The handler: ks.Update for an Unschedulable pod with the provisioner    *)
(* annotation.  Only this goroutine takes stopMux.                         *)

HandlerStop ==
  /\ handler.at = "idle"
  /\ events # << >>
  /\ status' = [status EXCEPT !.reason = "Unschedulable"]
  /\ Close
  /\ handler' = [handler EXCEPT !.at = "clean", !.pod = Head(events)]
  /\ events' = Tail(events)
  /\ UNCHANGED <<requestVars, caller, closedStop, clusterVars, activeQ, binding, panicked>>

(* CleanPendingPod (its error is ignored), then ks.stop is read.           *)
HandlerClean ==
  /\ handler.at = "clean"
  /\ DeletePod(handler.pod)
  /\ handler' = [handler EXCEPT !.at = "send", !.ch = stop]
  /\ UNCHANGED <<requestVars, closed, status, caller, closedStop, cache, nominated,
                 activeQ, binding, events, panicked>>

HandlerSend ==
  /\ handler.at = "send"
  /\ SendStop(handler.ch)
  /\ handler' = [handler EXCEPT !.at = "idle"]
  /\ UNCHANGED <<requestVars, closed, status, closedStop, clusterVars, activeQ, binding,
                 events>>

-----------------------------------------------------------------------------
(* What runs on its own while the caller waits.                            *)
Caller == (\E ok \in CreateOutcomes : SchedulerPodStart(ok)) \/ SchedulerPodReturn

Scheduler == \E p \in activeQ : (\E n \in Node : ScheduleFit(p, n)) \/ ScheduleFail(p)

Binder == \E b \in binding :
            \/ BindUpdate(b)
            \/ BindRecord(b)
            \/ BindLast(b)
            \/ BindNext(b)
            \/ BindSend(b)

Handler == HandlerStop \/ HandlerClean \/ HandlerSend

Informer == (\E x \in cache : CacheForget(x)) \/ (\E x \in nominated : NominationForget(x))

Engine == Caller \/ Scheduler \/ Binder \/ Handler \/ Informer

MutantReview == [desired  |-> simulatedPod.replicas,
                 replicas |-> Len(status.pods) - 1,
                 onNode   |-> [n \in Node |-> 0],
                 reason   |-> status.reason]

(* SchedulerEmulatorReview: what Report makes of the request and of        *)
(* status.  The pods are counted per node.                                 *)
Review == [desired  |-> simulatedPod.replicas,
           replicas |-> Len(status.pods),
           onNode   |-> [n \in Node |->
                           Cardinality({i \in DOMAIN status.pods : status.pods[i][2] = n})],
           reason   |-> status.reason]

(* getMainFailReason slices the message before its colon: StopReason must  *)
(* have been set.                                                          *)
ReportPanics == status.reason = ""

=============================================================================
