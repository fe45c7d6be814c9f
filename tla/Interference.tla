---------------------------- MODULE Interference ----------------------------
(***************************************************************************)
(* AppsEmulator among others.  The worker is not the only one to act on    *)
(* the cluster it simulates on; while its jobs run,                        *)
(*                                                                         *)
(*   "nodes"       a DELETE request clears the simulated pods and then     *)
(*                 deletes the nodes (DeleteNodes)                         *)
(*   "prediction"  a deprecated endpoint drives the engine from its HTTP   *)
(*   "apps"        goroutine as the worker does, and cleans up after it    *)
(*   "retry"       the scheduler takes a rejected pod up again before the  *)
(*                 handler has deleted it                                  *)
(*   "foreign"     PodWatch brings in a pod that is only nominated, which  *)
(*                 kubesim's scheduler places and passes to Bind           *)
(*   "create"      the API refuses a pod that Bind creates, and the        *)
(*                 scheduler puts the pod it has just bound back           *)
(*                                                                         *)
(* `struck` says which of these have happened.  The visitor is the request *)
(* of the first three kinds; one is in progress at a time.                 *)
(***************************************************************************)
EXTENDS AppsEmulatorProperties

CONSTANTS Kinds,       \* the disturbances that may happen, each of them once
          MaxStruck,   \* bound on how many of them do
          MaxRuns,     \* bound on the apps simulated beside each kind of them
          VisitorApps  \* what a deprecated request may ask for

ASSUME KindsAssumption ==
  Kinds \subseteq {"nodes", "prediction", "apps", "retry", "foreign", "create"}
ASSUME VisitorAppsAssumption == VisitorApps \subseteq Seq(App)

VARIABLES
  struck,  \* kinds of disturbance so far
  nodes,   \* nodes the scheduler knows
  torn,    \* has a bound pod been bound to another node?
  visitor  \* the HTTP request: its kind, the apps left to simulate, where it
           \* is, its stop channel, and what its CleanPod has still to delete

allVars == <<vars, struck, nodes, torn, visitor>>

VisitorStates ==
  [kind : {"none", "nodes", "prediction", "apps"},
   apps : Seq(App),
   at : {"away", "next", "create", "created", "wait", "received", "report", "list",
         "delete", "cleaned"},
   ch : Nat,
   pods : SUBSET Pod]

Away == [kind |-> "none", apps |-> << >>, at |-> "away", ch |-> 0, pods |-> {}]

InterferenceInit ==
  /\ Init
  /\ struck = {}
  /\ nodes = Node
  /\ torn = FALSE
  /\ visitor = Away

Strike(kind) ==
  /\ kind \in Kinds \ struck
  /\ Cardinality(struck) < MaxStruck
  /\ struck' = struck \cup {kind}

(* What a visitor leaves alone, whatever it does.                          *)
workVars == <<fifoVars, workerVars, emulatorResult, used, nodes>>

-----------------------------------------------------------------------------
(* Requests arrive: DeleteNodes starts with CleanPod, the deprecated ones  *)
(* with their first app.                                                   *)
VisitNodes ==
  /\ visitor.at = "away"
  /\ Strike("nodes")
  /\ visitor' = [Away EXCEPT !.kind = "nodes", !.at = "list"]
  /\ UNCHANGED <<vars, nodes>>

VisitApps(kind, apps) ==
  /\ visitor.at = "away"
  /\ kind \in {"prediction", "apps"}
  /\ Strike(kind)
  /\ visitor' = [Away EXCEPT !.kind = kind, !.apps = apps, !.at = "next"]
  /\ UNCHANGED <<vars, nodes>>

(* The visitor's UpdatePodRequest.  The worker may be between its own      *)
(* create and its read of ks.stop: then it waits on the visitor's channel. *)
VisitorUpdate ==
  /\ visitor.at = "next"
  /\ visitor.apps # << >>
  /\ simulatedPod' = Head(visitor.apps)
  /\ simulated' = 0
  /\ MakeStopChannel
  /\ visitor' = [visitor EXCEPT !.at = "create", !.apps = Tail(@)]
  /\ \/ UNCHANGED caller
     \/ caller = [at |-> "wait", ch |-> stop] /\ caller' = [caller EXCEPT !.ch = stop + 1]
  /\ UNCHANGED <<workVars, closed, status, closedStop, clusterVars, activeQ, binding,
                 events, handler, panicked, struck>>

VisitorCreate(ok) ==
  /\ visitor.at = "create"
  /\ CreateNextPod(ok)
  /\ IF ok
       THEN /\ visitor' = [visitor EXCEPT !.at = "created"]
            /\ UNCHANGED <<closed, closedStop, panicked>>
       ELSE /\ Close
            /\ panicked' = (stop \in closedStop)
            /\ closedStop' = closedStop \cup {stop}
            /\ visitor' = Away
  /\ UNCHANGED <<workVars, simulatedPod, stop, status, caller, bound, cache, nominated,
                 binding, events, handler, struck>>

VisitorAwait ==
  /\ visitor.at = "created"
  /\ visitor' = [visitor EXCEPT !.at = "wait", !.ch = stop]
  /\ UNCHANGED <<vars, nodes, struck>>

(* A receive from ks.stop returns when somebody sends or has closed it.    *)
Waits(who, ch) == who.at = "wait" /\ who.ch = ch

BinderMeetsVisitor(b) ==
  /\ b \in binding /\ b.at = "send"
  /\ b.ch \notin closedStop
  /\ Waits(visitor, b.ch)
  /\ binding' = binding \ {b}
  /\ visitor' = [visitor EXCEPT !.at = "received"]
  /\ UNCHANGED <<workVars, requestVars, closed, status, caller, closedStop, clusterVars,
                 activeQ, events, handler, panicked, struck>>

HandlerMeetsVisitor ==
  /\ handler.at = "send"
  /\ handler.ch \notin closedStop
  /\ Waits(visitor, handler.ch)
  /\ handler' = [handler EXCEPT !.at = "idle"]
  /\ visitor' = [visitor EXCEPT !.at = "received"]
  /\ UNCHANGED <<workVars, requestVars, closed, status, caller, closedStop, clusterVars,
                 activeQ, binding, events, panicked, struck>>

VisitorFindsClosed ==
  /\ visitor.ch \in closedStop
  /\ Waits(visitor, visitor.ch)
  /\ visitor' = [visitor EXCEPT !.at = "received"]
  /\ UNCHANGED <<vars, nodes, struck>>

CallerFindsClosed ==
  /\ caller.ch \in closedStop
  /\ Waits(caller, caller.ch)
  /\ caller' = [caller EXCEPT !.at = "received"]
  /\ UNCHANGED <<workVars, requestVars, closed, status, closedStop, clusterVars, activeQ,
                 binding, events, handler, panicked, struck, visitor>>

VisitorReturn ==
  /\ visitor.at = "received"
  /\ panicked' = (stop \in closedStop)
  /\ closedStop' = closedStop \cup {stop}
  /\ visitor' = [visitor EXCEPT !.at = "report"]
  /\ UNCHANGED <<workVars, requestVars, closed, status, caller, clusterVars, activeQ,
                 binding, events, handler, struck>>

(* Report, then CleanStatusPods; a prediction stops at the first app that  *)
(* does not fit.                                                           *)
VisitorReport ==
  /\ visitor.at = "report"
  /\ panicked' = ReportPanics
  /\ CleanStatusPods
  /\ visitor' = [visitor EXCEPT !.at = "next",
                   !.apps = IF visitor.kind = "prediction" /\ status.reason = "Unschedulable"
                              THEN << >> ELSE @]
  /\ UNCHANGED <<workVars, requestVars, closed, caller, closedStop, clusterVars, activeQ,
                 binding, events, handler, struck>>

-----------------------------------------------------------------------------
(* CleanPod on the visitor's goroutine: lists until there is nothing, and  *)
(* gives up at a pod that somebody else has deleted.                       *)
VisitorList ==
  /\ \/ visitor.at = "list"
     \/ visitor.at = "next" /\ visitor.apps = << >>
  /\ visitor' = [visitor EXCEPT !.pods = Simulated,
                                !.at = IF Simulated = {} THEN "cleaned" ELSE "delete"]
  /\ UNCHANGED <<vars, nodes, struck>>

VisitorDelete(p) ==
  /\ visitor.at = "delete"
  /\ p \in visitor.pods
  /\ DeletePod(p)
  /\ visitor' = [visitor EXCEPT
                   !.pods = IF p \in store THEN @ \ {p} ELSE {},
                   !.at = CASE p \notin store -> "cleaned"
                            [] p \in store /\ visitor.pods = {p} -> "list"
                            [] OTHER -> "delete"]
  /\ UNCHANGED <<workVars, requestVars, closed, status, caller, closedStop, cache,
                 nominated, activeQ, binding, events, handler, panicked, struck>>

(* DeprecatedApps resets the status once more, a prediction does not.      *)
VisitorLeaves ==
  /\ visitor.at = "cleaned"
  /\ visitor.kind \in {"prediction", "apps"}
  /\ IF visitor.kind = "apps" THEN CleanStatusPods ELSE UNCHANGED status
  /\ visitor' = Away
  /\ UNCHANGED <<workVars, requestVars, closed, caller, closedStop, clusterVars, activeQ,
                 binding, events, handler, panicked, struck>>

(* DeleteNodes ignores what CleanPod returned and deletes the nodes one by *)
(* one; here, when the scheduler learns of it.                             *)
NodeGoes(n) ==
  /\ visitor.at = "cleaned"
  /\ visitor.kind = "nodes"
  /\ n \in nodes
  /\ nodes' = nodes \ {n}
  /\ UNCHANGED <<vars, struck, visitor>>

-----------------------------------------------------------------------------
(* The scheduler, with the nodes that are left.  A bound pod that is tried *)
(* again may be known to be bound, and then only its own node will do.     *)
SchedulerLeft ==
  /\ \E p \in activeQ :
       \/ \E n \in nodes : ScheduleFit(p, n)
       \/ Feasible(Claims(p), p) \cap nodes = {} /\ Reject(p, nodes)
       \/ \E x \in bound : /\ x[1] = p
                           /\ x[2] \notin Feasible(Claims(p), p) \cap nodes
                           /\ Reject(p, nodes \cap {x[2]})
  /\ UNCHANGED workVars

(* A pending pod that somebody deletes also leaves the scheduler's queue.  *)
QueueForget(p) ==
  /\ p \in activeQ \ store
  /\ activeQ' = activeQ \ {p}
  /\ UNCHANGED <<workVars, requestVars, closed, status, caller, closedStop, clusterVars,
                 binding, events, handler, panicked, struck, visitor>>

(* A rejected pod the handler has not deleted is taken up again; a second  *)
(* rejection patches its condition only if the message has changed.        *)
Undeleted == {p \in Simulated : \/ \E i \in DOMAIN events : events[i] = p
                                \/ handler.at = "clean" /\ handler.pod = p}

Retry(p) ==
  /\ Strike("retry")
  /\ p \in Undeleted \ activeQ
  /\ activeQ' = activeQ \cup {p}
  /\ UNCHANGED <<workVars, requestVars, closed, status, caller, closedStop, clusterVars,
                 binding, events, handler, panicked, visitor>>

RejectUnchanged(p) ==
  /\ p \in activeQ \cap Undeleted
  /\ Feasible(Claims(p), p) \cap nodes = {}
  /\ activeQ' = activeQ \ {p}
  /\ Preempt(p, nodes)
  /\ UNCHANGED <<workVars, requestVars, closed, status, caller, closedStop, cache, binding,
                 events, handler, panicked, struck, visitor>>

(* A nominated pod from the real cluster, without label or annotation.     *)
ForeignPod == [run |-> 0, index |-> 1, nodes |-> Node, priority |-> 0]

ForeignArrives ==
  /\ Strike("foreign")
  /\ store' = store \cup {ForeignPod}
  /\ activeQ' = activeQ \cup {ForeignPod}
  /\ UNCHANGED <<workVars, requestVars, closed, status, caller, closedStop, bound, cache,
                 nominated, binding, events, handler, panicked, visitor>>

(* Bind calls nextPod for it; before the first request there is no         *)
(* simulatedPod to copy.                                                   *)
NoRequestYet == stop = 0 /\ \E b \in binding : b.at = "decide"

NextPodPanics ==
  /\ NoRequestYet
  /\ panicked' = TRUE
  /\ UNCHANGED <<workVars, requestVars, closed, status, caller, closedStop, clusterVars,
                 activeQ, binding, events, handler, struck, visitor>>

-----------------------------------------------------------------------------
(* A create inside Bind fails.  Bind's error makes the scheduler forget    *)
(* the pod and put it back in its queue, bound as it is.                   *)
BindFails(b) ==
  /\ Strike("create")
  /\ b \in binding /\ b.at = "decide"
  /\ ~LimitReached
  /\ simulated' = simulated + 1
  /\ AdvanceBinding(b, "forget")
  /\ UNCHANGED <<workVars, simulatedPod, stop, closed, status, caller, closedStop,
                 clusterVars, activeQ, events, handler, panicked, visitor>>

(* ForgetPod drops the placement while it is an assumed one; confirmed     *)
(* (`seen`), it stays.  QueueForget follows for a pod that was deleted.    *)
BindForget(b, seen) ==
  /\ b \in binding /\ b.at = "forget"
  /\ cache' = IF seen THEN cache ELSE cache \ {<<b.pod, b.node>>}
  /\ binding' = binding \ {b}
  /\ activeQ' = activeQ \cup {b.pod}
  /\ UNCHANGED <<workVars, requestVars, closed, status, caller, closedStop, store, bound,
                 nominated, events, handler, panicked, struck, visitor>>

(* The informer has seen the binding: the cache enters or moves the pod,   *)
(* the queue lets go of it.                                                *)
Confirm(x) ==
  /\ x \in bound \ cache
  /\ cache' = {y \in cache : y[1] # x[1]} \cup {x}
  /\ activeQ' = activeQ \ {x[1]}
  /\ UNCHANGED <<workVars, requestVars, closed, status, caller, closedStop, store, bound,
                 nominated, binding, events, handler, panicked, struck, visitor>>

(* The cache ends the process when a pod it knows appears on another node. *)
SchedulerDies ==
  /\ torn
  /\ panicked' = TRUE
  /\ UNCHANGED <<workVars, requestVars, closed, status, caller, closedStop, clusterVars,
                 activeQ, binding, events, handler, struck, visitor>>

Rebound == \E x \in bound, y \in bound' : x[1] = y[1] /\ x[2] # y[2]

-----------------------------------------------------------------------------
Visitor ==
  \/ VisitNodes
  \/ \E kind \in Kinds, apps \in VisitorApps : VisitApps(kind, apps)
  \/ VisitorUpdate
  \/ \E ok \in CreateOutcomes : VisitorCreate(ok)
  \/ VisitorAwait
  \/ VisitorReturn
  \/ VisitorReport
  \/ VisitorList
  \/ \E p \in visitor.pods : VisitorDelete(p)
  \/ VisitorLeaves
  \/ \E n \in nodes : NodeGoes(n)

Rendezvous ==
  \/ \E b \in binding : BinderMeetsVisitor(b)
  \/ HandlerMeetsVisitor
  \/ VisitorFindsClosed
  \/ CallerFindsClosed

Environment ==
  \/ \E p \in activeQ : QueueForget(p) \/ RejectUnchanged(p)
  \/ \E p \in Undeleted : Retry(p)
  \/ ForeignArrives
  \/ NextPodPanics
  \/ \E b \in binding : BindFails(b) \/ \E seen \in BOOLEAN : BindForget(b, seen)
  \/ \E x \in bound : Confirm(x)
  \/ SchedulerDies

(* The system of AppsEmulator.                                             *)
Undisturbed ==
  /\ \/ Client \/ PollEmpty \/ Worker
     \/ ~NoRequestYet /\ (Caller \/ Binder \/ Handler \/ Informer) /\ UNCHANGED workVars
     \/ ~NoRequestYet /\ SchedulerLeft
  /\ UNCHANGED <<struck, nodes, visitor>>

(* The bound on what is simulated before and after a disturbance.          *)
Bounded == \A kind \in struck' : stop' <= MaxRuns[kind]

InterferenceNext ==
  /\ ~panicked
  /\ Undisturbed \/ Visitor \/ Rendezvous \/ Environment
  /\ torn' = (torn \/ Rebound)
  /\ Bounded

InterferenceSpec == InterferenceInit /\ [][InterferenceNext]_allVars

-----------------------------------------------------------------------------
(* Every variable keeps to its type; a node that is gone stays gone.       *)
InterferenceTypeOK ==
  /\ TypeOK
  /\ struck \subseteq Kinds
  /\ nodes \subseteq Node
  /\ torn \in BOOLEAN
  /\ visitor \in VisitorStates

(* Whatever DeleteNodes takes away under a running job (pods, pending or   *)
(* bound, and nodes), no goroutine panics and at most one of them acts for *)
(* the app: the baton may get lost, it is never doubled (1509-1527 against *)
(* 704-764).  Neither is it when a create fails in Bind: the pod that is   *)
(* put back is the only one (730-732).                                     *)
BatonSurvivesDeletes ==
  /\ struck \subseteq {"nodes"} => NoPanic
  /\ struck \subseteq {"nodes", "create"} => OneBaton

(* A node never gets more pods than it has slots, with everybody placing   *)
(* and deleting pods at once: the worker, a deprecated request, a pod that *)
(* is tried again and one that is not kubesim's (Bind, 704-734).  Only a   *)
(* failed create breaks this: ForgetPod drops a pod that is bound.         *)
NeverOverfull == "create" \notin struck => NoOvercommit

(* The reported pods are pods of this app, each once, even while a request *)
(* deletes them; undisturbed they are also where the report has them       *)
(* (Bind:720, CleanStatusPods).                                            *)
OnlyOwnPods ==
  \A i, j \in DOMAIN status.pods :
    /\ status.pods[i][1].run = stop
    /\ status.pods[i][1] = status.pods[j][1] => i = j

StatusSurvives ==
  /\ struck \subseteq {"nodes"} => OnlyOwnPods
  /\ struck = {} => StatusIsTrue

(* What the service keeps in any company: jobs are taken in order and one  *)
(* at a time, and each that ends has one review per app; until somebody    *)
(* meddles, also that the reviews are true.  A failed create may drop a    *)
(* job (appsEmulator:880-883).                                             *)
DisturbedService == INSTANCE JobService WITH
  waiting   <- [i \in 1..Len(queue) |-> <<queue[i], appGroup[queue[i]]>>],
  active    <- IF pc = "pop" THEN {} ELSE {<<key, group>>},
  finished  <- emulatorResult,
  MayDrop   <- FALSE \in CreateOutcomes,
  disturbed <- struck # {}

StillServes == DisturbedService!ServiceSpec

=============================================================================
