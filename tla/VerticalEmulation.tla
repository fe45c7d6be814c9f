------------------------- MODULE VerticalEmulation -------------------------
(***************************************************************************)
(* Jobs that give the pods of running deployments another size.  The       *)
(* handler lists the pods of each deployment in kubesim's store when the   *)
(* request comes in (NewVerticalEmulator, scheduler_emulator.go:115-184);  *)
(* the worker, whenever the job's turn comes (VerticalEmulator,            *)
(* simulator.go:997-1081), deletes these old pods, simulates a resized     *)
(* copy of each on its own node, if that fails once more on any node, and  *)
(* creates the old pods again.  In the meantime other requests list pods,  *)
(* and PodWatch follows the real cluster.                                  *)
(*                                                                         *)
(* An app of such a job is one copy, so the engine (module Kubesim) is one *)
(* step here: the copy is placed, or rejected, perhaps at the expense of   *)
(* pods it outranks, and deleted.  The queue is the sequence it implements *)
(* (module JobQueue).  A pod is its name, the node it is on and the pod it *)
(* is like, whose labels and priority it has; the names of simulated pods  *)
(* are numbers.                                                            *)
(***************************************************************************)
EXTENDS Integers, Sequences, FiniteSets, FiniteSetsExt, SequencesExt

CONSTANTS Key,             \* job ids
          Node, Capacity,  \* nodes, and how much they hold
          OldPod,          \* names of pods of the real cluster
          Home,            \* the node each of them is on
          OldSize, NewSize, \* of a pod before and after
          Priority,        \* of each pod
          Owns,            \* deployments with the pods their label selects
          Requests,        \* sequences of deployments a request may name
          CreateOutcomes,  \* what creating a simulated pod may return
          MaxChanges,      \* bound on changes in the real cluster
          None             \* no node, no job

ASSUME SizeAssumption == OldSize \in Nat /\ NewSize \in Nat /\ Capacity \in [Node -> Nat]
ASSUME PodAssumption == /\ IsFiniteSet(OldPod) /\ OldPod \cap Nat = {}
                        /\ Home \in [OldPod -> Node]
                        /\ Priority \in [OldPod -> Int]
ASSUME NoneAssumption == None \notin Node
ASSUME RequestAssumption == Requests \subseteq Seq(DOMAIN Owns)

VARIABLES
  real,      \* pods in the real cluster
  changes,   \* how often each has gone or come, as PodWatch tells
  store,     \* pods in kubesim's store
  cache,     \* pods with their node as the scheduler knows them
  nominated, \* rejected pods with the node cleared for them
  handler,   \* the request being turned into a job
  waiting,   \* the queue
  used,      \* job ids handed out
  job,       \* the job the worker has
  pc, at,    \* where the worker is, in which list position
  round,     \* 1: on their own nodes, 2: on any
  runs,      \* simulated pods created
  reportlist, emulatorResult,
  dropped    \* jobs given up half-way

clusterVars == <<real, changes>>
storeVars == <<store, cache, nominated>>
handlerVars == <<handler, used>>
workerVars == <<job, pc, at, round, runs, reportlist, emulatorResult, dropped>>
vars == <<clusterVars, storeVars, handlerVars, waiting, workerVars>>

Names(S) == {x.name : x \in S}
IsSimulated(x) == x.name \in Nat

Outranks(x, y) == Priority[x.like] > Priority[y.like]

(* What the pods of S take of a node: copies have the new size.            *)
Copies(S, n) == {x \in S : x.node = n /\ IsSimulated(x)}
Load(S, n) == NewSize * Cardinality(Copies(S, n))
                + OldSize * Cardinality({x \in S : x.node = n /\ ~IsSimulated(x)})

Real(p) == [name |-> p, node |-> Home[p], like |-> p]
NoJob == [key |-> None, old |-> << >>]

Init ==
  /\ real = OldPod
  /\ changes = [p \in OldPod |-> 0]
  /\ store = {Real(p) : p \in OldPod}
  /\ cache = store /\ nominated = {}
  /\ handler = [key |-> None, left |-> << >>, old |-> << >>]
  /\ waiting = << >>
  /\ used = {}
  /\ job = NoJob
  /\ pc = "pop" /\ at = 1 /\ round = 1 /\ runs = 0
  /\ reportlist = << >> /\ emulatorResult = {} /\ dropped = {}

-----------------------------------------------------------------------------
(* The real cluster, as PodWatch repeats it: a pod is deleted, or a        *)
(* deleted one comes back under its name (AddFunc creates what is not      *)
(* there).                                                                 *)
MayChange == MapThenSumSet(LAMBDA p : changes[p], OldPod) < MaxChanges

PodGoes(p) ==
  /\ MayChange /\ p \in real
  /\ real' = real \ {p} /\ changes' = [changes EXCEPT ![p] = @ + 1]
  /\ store' = {x \in store : x.name # p}
  /\ UNCHANGED <<cache, nominated, handlerVars, waiting, workerVars>>

PodComes(p) ==
  /\ MayChange /\ p \in OldPod \ real
  /\ real' = real \cup {p} /\ changes' = [changes EXCEPT ![p] = @ + 1]
  /\ store' = IF p \in Names(store) THEN store ELSE store \cup {Real(p)}
  /\ UNCHANGED <<cache, nominated, handlerVars, waiting, workerVars>>

(* The scheduler's cache learns what has become of one pod.                *)
Known(S, name) == {x \in S : x.name = name /\ x.node # None}

CacheLearns(name) ==
  /\ Known(cache, name) # Known(store, name)
  /\ cache' = (cache \ Known(cache, name)) \cup Known(store, name)
  /\ UNCHANGED <<clusterVars, store, nominated, handlerVars, waiting, workerVars>>

(* And its queue, that a rejected pod has been deleted.                    *)
NominationEnds(x) ==
  /\ nominated' = nominated \ {x}
  /\ UNCHANGED <<clusterVars, store, cache, handlerVars, waiting, workerVars>>

-----------------------------------------------------------------------------
(* The handler: one request at a time, one deployment after the other.     *)
(* Its job id is a fresh one, no matter which.                             *)
NewKey == CHOOSE k \in Key : k \notin used

Request(ds) ==
  /\ handler.key = None
  /\ used # Key
  /\ handler' = [key |-> NewKey, left |-> ds, old |-> << >>]
  /\ used' = used \cup {NewKey}
  /\ UNCHANGED <<clusterVars, storeVars, waiting, workerVars>>

(* A copy that is being simulated has the labels of its pod.               *)
Selected(d) == {x \in store : x.like \in Owns[d]}

ListPods ==
  /\ handler.left # << >>
  /\ \E pods \in SetToSeqs(Selected(Head(handler.left))) :
       handler' = [key |-> handler.key, left |-> Tail(handler.left),
                   old |-> handler.old \o pods]
  /\ UNCHANGED <<clusterVars, storeVars, used, waiting, workerVars>>

NoRequest == handler' = [key |-> None, left |-> << >>, old |-> << >>]

(* The deployment is not in the real cluster.                              *)
RequestFails ==
  /\ handler.left # << >>
  /\ NoRequest
  /\ dropped' = dropped \cup {[key |-> handler.key, old |-> << >>]}
  /\ UNCHANGED <<clusterVars, storeVars, used, waiting, job, pc, at, round, runs, reportlist,
                 emulatorResult>>

Push ==
  /\ handler.key # None /\ handler.left = << >>
  /\ waiting' = Append(waiting, [key |-> handler.key, old |-> handler.old])
  /\ NoRequest
  /\ UNCHANGED <<clusterVars, storeVars, used, workerVars>>

-----------------------------------------------------------------------------
(* The worker.  A job has one app per old pod.                             *)
PopJob ==
  /\ pc = "pop" /\ waiting # << >>
  /\ job' = Head(waiting) /\ waiting' = Tail(waiting)
  /\ pc' = "delete" /\ at' = 1 /\ round' = 1 /\ reportlist' = << >>
  /\ UNCHANGED <<clusterVars, storeVars, handlerVars, runs, emulatorResult, dropped>>

Drop == pc' = "pop" /\ dropped' = dropped \cup {job} /\ UNCHANGED at
Advance == at' = at + 1 /\ UNCHANGED <<pc, dropped>>

MutantStubborn == UNCHANGED <<store, at, pc, dropped>>
OldPodMissing == Drop /\ UNCHANGED store

(* DeleteAppsPod; an error ends the job.                                   *)
DeleteOld ==
  /\ pc = "delete" /\ at <= Len(job.old)
  /\ IF job.old[at].name \in Names(store)
       THEN /\ store' = {x \in store : x.name # job.old[at].name}
            /\ Advance
       ELSE OldPodMissing
  /\ UNCHANGED <<clusterVars, cache, nominated, handlerVars, waiting, job, round, runs,
                 reportlist, emulatorResult>>

Goto(step) == pc' = step /\ at' = 1

DeletedAll ==
  /\ pc = "delete" /\ at > Len(job.old)
  /\ Goto("apps")
  /\ UNCHANGED <<clusterVars, storeVars, handlerVars, waiting, job, round, runs, reportlist,
                 emulatorResult, dropped>>

(* SchedulerPod creates the copy, with the labels of the pod; an error     *)
(* ends the job.                                                           *)
Copy == [name |-> runs, node |-> None, like |-> job.old[at].like]

CreateApp(ok) ==
  /\ pc = "apps" /\ at <= Len(job.old)
  /\ runs' = runs + 1
  /\ IF ok
       THEN /\ store' = store \cup {[Copy EXCEPT !.name = runs + 1]}
            /\ pc' = "wait"
            /\ UNCHANGED <<at, dropped>>
       ELSE Drop /\ UNCHANGED store
  /\ UNCHANGED <<clusterVars, cache, nominated, handlerVars, waiting, job, round, reportlist,
                 emulatorResult>>

(* In the first round the selector names the node of the old pod.          *)
MutantAllowed == Node
Allowed == IF round = 1 THEN Node \cap {job.old[at].node} ELSE Node

(* The scheduler also counts a nominated pod, unless the copy outranks it. *)
Claims == cache \cup {x \in nominated : ~Outranks(Copy, x)}
MutantFits(n) == Load(Claims, n) <= Capacity[n]
Fits(n) == Load(Claims, n) + NewSize <= Capacity[n]

(* Bind updates the pod, it does not add one (strategy.go).                *)
MutantBind(n) == store \cup {[Copy EXCEPT !.node = n]}
Bind(n) == (store \ {Copy}) \cup {[Copy EXCEPT !.node = n]}

PlaceApp(n) ==
  /\ pc = "wait"
  /\ n \in Allowed /\ Fits(n)
  /\ store' = Bind(n)
  /\ cache' = cache \cup {[Copy EXCEPT !.node = n]}
  /\ reportlist' = Append(reportlist, [reason |-> "Schedulable", node |-> n])
  /\ pc' = "apps" /\ at' = at + 1
  /\ UNCHANGED <<clusterVars, nominated, handlerVars, waiting, job, round, runs,
                 emulatorResult, dropped>>

(* Default preemption, as in module Kubesim: on one node where it helps,   *)
(* just as many outranked pods as make room; they are deleted one by one,  *)
(* and one that is gone already ends it.                                   *)
Clears(V, n) == Load(Claims \ V, n) + NewSize <= Capacity[n]
Victims(n) ==
  {V \in SUBSET {x \in cache : x.node = n /\ Outranks(Copy, x)} :
     Clears(V, n) /\ \A x \in V : ~Clears(V \ {x}, n)}

Without(D) == {x \in store : x # Copy /\ x.name \notin Names(D)}

Preempt ==
  \/ store' = Without({}) /\ UNCHANGED nominated
  \/ \E n \in Allowed : \E V \in Victims(n) :
       \/ /\ Names(V) \subseteq Names(store)
          /\ store' = Without(V)
          /\ nominated' = nominated \cup {[Copy EXCEPT !.node = n]}
       \/ /\ ~(Names(V) \subseteq Names(store))
          /\ \E D \in SUBSET V : store' = Without(D)
          /\ UNCHANGED nominated

RejectApp ==
  /\ pc = "wait"
  /\ \A n \in Allowed : ~Fits(n)
  /\ Preempt
  /\ reportlist' = Append(reportlist, [reason |-> "Unschedulable", node |-> None])
  /\ pc' = "apps" /\ at' = at + 1
  /\ UNCHANGED <<clusterVars, cache, handlerVars, waiting, job, round, runs, emulatorResult,
                 dropped>>

AppsDone ==
  /\ pc = "apps" /\ at > Len(job.old)
  /\ Goto("clean")
  /\ UNCHANGED <<clusterVars, storeVars, handlerVars, waiting, job, round, runs, reportlist,
                 emulatorResult, dropped>>

(* CleanPod, pod by pod.                                                   *)
CleanPod(x) ==
  /\ pc = "clean"
  /\ IsSimulated(x)
  /\ store' = store \ {x}
  /\ UNCHANGED <<clusterVars, cache, nominated, handlerVars, waiting, workerVars>>

Failed(list) == \E i \in DOMAIN list : list[i].reason = "Unschedulable"

MutantNoFallback == FALSE
Fallback == round = 1 /\ Failed(reportlist)

(* The second round goes on with the list of the first.                    *)
Cleaned ==
  /\ pc = "clean"
  /\ \A x \in store : ~IsSimulated(x)
  /\ IF Fallback
       THEN round' = 2 /\ Goto("apps")
       ELSE UNCHANGED round /\ Goto("restore")
  /\ UNCHANGED <<clusterVars, storeVars, handlerVars, waiting, job, runs, reportlist,
                 emulatorResult, dropped>>

(* CreateAppsPod, from the list the request made; an error ends the job.   *)
MutantRestored == {}
Restored == {job.old[at]}

RestoreOld ==
  /\ pc = "restore" /\ at <= Len(job.old)
  /\ IF job.old[at].name \in Names(store)
       THEN Drop /\ UNCHANGED store
       ELSE store' = store \cup Restored /\ Advance
  /\ UNCHANGED <<clusterVars, cache, nominated, handlerVars, waiting, job, round, runs,
                 reportlist, emulatorResult>>

Publish ==
  /\ pc = "restore" /\ at > Len(job.old)
  /\ emulatorResult' = emulatorResult \cup {[job |-> job, list |-> reportlist]}
  /\ pc' = "pop"
  /\ UNCHANGED <<clusterVars, storeVars, handlerVars, waiting, job, at, round, runs,
                 reportlist, dropped>>

-----------------------------------------------------------------------------
Worker ==
  \/ PopJob \/ DeleteOld \/ DeletedAll
  \/ \E ok \in CreateOutcomes : CreateApp(ok)
  \/ \E n \in Node : PlaceApp(n)
  \/ RejectApp \/ AppsDone
  \/ \E x \in store : CleanPod(x)
  \/ Cleaned \/ RestoreOld \/ Publish

Handler == ListPods \/ RequestFails \/ Push

Next ==
  \/ \E p \in OldPod : PodGoes(p) \/ PodComes(p)
  \/ \E name \in Names(store \cup cache) : CacheLearns(name)
  \/ \E x \in nominated : NominationEnds(x)
  \/ \E ds \in Requests : Request(ds)
  \/ Handler
  \/ Worker

Spec == Init /\ [][Next]_vars

(* Goroutines go on; the real cluster, the clients and the scheduler's     *)
(* informer owe nothing.                                                   *)
FairSpec == Spec /\ WF_vars(Handler) /\ WF_vars(Worker)

-----------------------------------------------------------------------------
Name == OldPod \cup Nat
Placed == [name : Name, node : Node \cup {None}, like : OldPod]
Job == [key : Key \cup {None}, old : Seq(Placed)]
Review == [reason : {"Schedulable", "Unschedulable"}, node : Node \cup {None}]

(* Types; a name is in the store, and in the cache, once.                  *)
TypeOK ==
  /\ real \subseteq OldPod /\ changes \in [OldPod -> Nat]
  /\ store \subseteq Placed /\ cache \subseteq Placed /\ nominated \subseteq Placed
  /\ Cardinality(Names(store)) = Cardinality(store)
  /\ Cardinality(Names(cache)) = Cardinality(cache)
  /\ handler \in [key : Key \cup {None}, left : Seq(DOMAIN Owns), old : Seq(Placed)]
  /\ waiting \in Seq(Job) /\ used \subseteq Key /\ job \in Job
  /\ pc \in {"pop", "delete", "apps", "wait", "clean", "restore"}
  /\ at \in Nat \ {0} /\ round \in {1, 2} /\ runs \in Nat
  /\ reportlist \in Seq(Review)
  /\ \A r \in emulatorResult : r.job \in Job /\ r.list \in Seq(Review)
  /\ \A j \in dropped : j \in Job

(* Between jobs each pod that the real cluster has kept is back where it   *)
(* is in there, and nothing simulated is left: what one job moves away, no *)
(* later or overlapping request finds missing (997-1081, and the list made *)
(* at 131-139, before the job's turn).  Except what a job given up half-   *)
(* way had in hand or left, and pods outranked in a job that did not fit,  *)
(* which preemption has deleted and nobody creates again.                  *)
GivenUp == {j \in dropped : j.old # << >>}
InHand(p) == \E j \in dropped : \E i \in DOMAIN j.old : j.old[i].name = p

Failing == {r.job : r \in {r \in emulatorResult : Failed(r.list)}} \cup dropped
OutrankedIn(j, p) == \E i \in DOMAIN j.old : Priority[j.old[i].like] > Priority[p]

OldPodsReturn ==
  pc = "pop" =>
    /\ \A p \in OldPod :
         changes[p] = 0 /\ ~InHand(p) /\ (\A j \in Failing : ~OutrankedIn(j, p))
           => Real(p) \in store
    /\ GivenUp = {} => \A x \in store : ~IsSimulated(x)

(* What is published is a round over all the pods of the job, each on the  *)
(* node it was on, in the order they were listed; or such a round that     *)
(* failed for some, and a whole second one (1010-1061).                    *)
OnOwnNode(review, x) == review.reason = "Schedulable" => review.node = x.node

RoundsAreWhole ==
  \A r \in emulatorResult :
    LET n == Len(r.job.old)
        first == SubSeq(r.list, 1, n) IN
    /\ Len(r.list) = IF Failed(first) THEN 2 * n ELSE n
    /\ \A i \in 1..n : OnOwnNode(first[i], r.job.old[i])

(* The pods a published round has placed on a node fit on it together in   *)
(* their new size, whatever came and went in the meantime and however far  *)
(* the scheduler's cache lags behind DeleteAppsPod, CleanPod and           *)
(* CreateAppsPod (1010-1073); not counting a pod that one rejected after   *)
(* it outranks, which may have had it deleted.                             *)
LastRound(r) == {i \in DOMAIN r.list : i > Len(r.list) - Len(r.job.old)}
RankIn(r, i) == Priority[r.job.old[i - (Len(r.list) - Len(r.job.old))].like]

Lasting(r) ==
  {i \in LastRound(r) :
     \A k \in LastRound(r) :
       k > i /\ r.list[k].reason = "Unschedulable" => RankIn(r, k) <= RankIn(r, i)}

AnswersFit ==
  \A r \in emulatorResult : \A n \in Node :
    NewSize * Cardinality({i \in Lasting(r) : r.list[i].node = n}) <= Capacity[n]

(* At any time the copies in the store fit on their nodes, as long as no   *)
(* job was given up.  A copy such a job left may be listed by a request    *)
(* and restored like an old pod, and the next job may find its node free   *)
(* in the scheduler's cache: what is published then fits all the same.     *)
StoreFits ==
  GivenUp = {} => \A n \in Node : NewSize * Cardinality(Copies(store, n)) <= Capacity[n]

CopiesFit == AnswersFit /\ StoreFits

(* Each request is answered in the end: its job is published or given up,  *)
(* whatever other requests and the real cluster did to its pods (997-1081, *)
(* and the worker's loop, 817-860).                                        *)
Answered(k) == \/ \E r \in emulatorResult : r.job.key = k
               \/ \E j \in dropped : j.key = k

EveryRequestEnds == []<>(\A k \in used : Answered(k))

(* Not so.  A job that is reported as failed could not place all its pods  *)
(* in the round that counts: the second one, where there is one.           *)
FailedMeansUnplaced ==
  \A r \in emulatorResult :
    LET last == SubSeq(r.list, Len(r.list) - Len(r.job.old) + 1, Len(r.list)) IN
    Failed(r.list) => Failed(last)

=============================================================================
