------------------------------ MODULE Requests ------------------------------
(***************************************************************************)
(* From an HTTP request to a job and to the worker.  The POST routes for   *)
(* apps, horizontal scaling and prediction (routes.go:60-195) parse a body *)
(* (AppsParseToPod, utils.go:325-387) and hand its apps to their handler   *)
(* (scheduler_emulator.go:35-108, 186-201), which queues them; the worker  *)
(* takes them from the queue (Run, simulator.go:820-862).  Requests are    *)
(* served concurrently, and the horizontal handler reads the real cluster, *)
(* whose deployments are scaled meanwhile.                                 *)
(*                                                                         *)
(* A panic in a handler is recovered by net/http and closes the connection *)
(* ("panic"), one in the worker ends the process.  What the worker does    *)
(* with a job it can start is in AppsEmulator and PredictionSearch; the    *)
(* vertical endpoint is in VerticalEmulation.  A request is named by the   *)
(* id its job gets.  An item of a body has the replicas Nil if the field   *)
(* is absent; a node specification is usable if it has a label map and a   *)
(* capacity, and asks for a number of nodes, of any sign.                  *)
(***************************************************************************)
EXTENDS FifoClients, Integers, FiniteSetsExt

CONSTANTS Deployment,  \* names of deployments of the real cluster
          Sizes,       \* replicas they may be scaled to
          Request,     \* what clients may ask for
          Half,        \* a replica count is in -Half..(Half-1): 2^31 in the code
          MaxScales,   \* bound on scalings in the real cluster
          Nil          \* nothing: no request, no pod, no deployment, no job

(* The fields of a body that are read: the list of items its kind picks,   *)
(* and the node specifications.                                            *)
NodeSpec == [usable : BOOLEAN, number : Int]
Item == [kind : STRING, name : Deployment, replicas : {Nil} \cup Int]
Body == [endpoint : {"apps", "horizontal", "prediction"}, kind : STRING,
         nodes : Seq(NodeSpec), deployApps : Seq(Item), statefulsetApps : Seq(Item)]

ASSUME WidthAssumption == Half \in Nat \ {0}
ASSUME SizesAssumption == Sizes \subseteq Int
ASSUME RequestAssumption == Request \subseteq Body
ASSUME NilAssumption == Nil \notin Key \cup Deployment

VARIABLES
  reqs,    \* per id: the request, how far it is, its apps so far, and the
           \* sizes deployments have had since it came in
  size,    \* of the real deployments
  scales,  \* scalings so far
  job,     \* id of the job the worker has
  died     \* the process is gone

requestVars == <<clientVars, reqs, size, scales, job, died>>

Nobody == [body |-> Nil, at |-> "none", apps |-> << >>, seen |-> {}]

RequestsInit ==
  /\ Init
  /\ reqs = [k \in Key |-> Nobody]
  /\ size \in [Deployment -> Sizes]
  /\ scales = 0
  /\ job = Nil
  /\ died = FALSE

Wrap(x) == ((x + Half) % (2 * Half)) - Half

-----------------------------------------------------------------------------
(* AppsParseToPod.  The kind in the URL picks the list of items; any other *)
(* kind yields neither apps nor nodes, and no error.                       *)
Known(r) == r.kind \in {"deployment", "statefulset"}

Items(r) == CASE r.kind = "deployment"  -> r.deployApps
              [] r.kind = "statefulset" -> r.statefulsetApps
              [] OTHER -> << >>

NodesOf(r) == IF Known(r) THEN r.nodes ELSE << >>

(* ParseDeployToPod, ParseStatefulSetToPod: the kind is tested first; the  *)
(* warning about missing replicas dereferences them.                       *)
Fault(r, i) == IF Items(r)[i].kind # r.kind THEN "error"
               ELSE IF Items(r)[i].replicas = Nil THEN "panic" ELSE "none"

Outcome(r) ==
  LET faulty == {i \in DOMAIN Items(r) : Fault(r, i) # "none"} IN
  IF faulty = {} THEN "parsed" ELSE Fault(r, Min(faulty))

Replicas(item) == IF item.replicas = 0 THEN 1 ELSE item.replicas

Receive(k, r) ==
  /\ reqs[k].at = "none"
  /\ reqs' = [reqs EXCEPT ![k] =
                [body |-> r, at |-> Outcome(r), apps |-> << >>,
                 seen |-> {<<d, size[d]>> : d \in Deployment}]]
  /\ UNCHANGED <<clientVars, size, scales, job, died>>

-----------------------------------------------------------------------------
(* The horizontal handler asks the real cluster, app by app, and queues    *)
(* what is missing.                                                        *)
Gathering(k) ==
  /\ reqs[k].at = "parsed"
  /\ reqs[k].body.endpoint = "horizontal"
  /\ Len(reqs[k].apps) < Len(Items(reqs[k].body))

Current(k) == Items(reqs[k].body)[Len(reqs[k].apps) + 1]

MutantMissing(item) == Replicas(item)
Missing(item) == Wrap(Replicas(item) - size[item.name])

GatherApp(k) ==
  /\ Gathering(k)
  /\ reqs[k].body.kind = "deployment"
  /\ reqs' = IF size[Current(k).name] = Nil \/ Missing(Current(k)) <= 0
               THEN [reqs EXCEPT ![k].at = "error"]
               ELSE [reqs EXCEPT ![k].apps =
                       Append(@, [pod |-> Current(k).name, replicas |-> Missing(Current(k))])]
  /\ UNCHANGED <<clientVars, size, scales, job, died>>

(* The other branch is for "statefulsets", which no request is parsed to:  *)
(* a request for stateful sets gets apps without a pod.                    *)
GatherNothing(k) ==
  /\ Gathering(k)
  /\ reqs[k].body.kind = "statefulset"
  /\ reqs' = [reqs EXCEPT ![k].apps = Append(@, [pod |-> Nil, replicas |-> 0])]
  /\ UNCHANGED <<clientVars, size, scales, job, died>>

Parsed(r) == [i \in DOMAIN Items(r) |->
                [pod |-> Items(r)[i].name, replicas |-> Replicas(Items(r)[i])]]

(* The job; only a prediction carries the nodes.                           *)
MutantJobOf(r, apps) == [type |-> r.endpoint, nodes |-> << >>, apps |-> apps]
JobOf(r, apps) == [type  |-> r.endpoint,
                   nodes |-> IF r.endpoint = "prediction" THEN NodesOf(r) ELSE << >>,
                   apps  |-> apps]

(* The apps a request may be queued with; every such job is a group that   *)
(* the queue can hold.                                                     *)
AppsFor(r) ==
  IF r.endpoint # "horizontal" THEN {Parsed(r)}
  ELSE IF r.kind = "statefulset"
    THEN {[i \in DOMAIN Items(r) |-> [pod |-> Nil, replicas |-> 0]]}
    ELSE [DOMAIN Items(r) -> [pod : Deployment, replicas : 1..(Half - 1)]]

ASSUME GroupAssumption ==
  \A r \in Request : Outcome(r) = "parsed" =>
    \A apps \in AppsFor(r) : JobOf(r, apps) \in Group

Submit(k) ==
  /\ reqs[k].at = "parsed"
  /\ ~Gathering(k)
  /\ LET r == reqs[k].body
         apps == IF r.endpoint = "horizontal" THEN reqs[k].apps ELSE Parsed(r) IN
     /\ PushJob(k, JobOf(r, apps))
     /\ reqs' = [reqs EXCEPT ![k].at = "queued", ![k].apps = apps]
  /\ UNCHANGED <<size, scales, job, died>>

(* Somebody scales a deployment of the real cluster, deletes or creates it.*)
Scale(d, n) ==
  /\ scales < MaxScales /\ n # size[d]
  /\ size' = [size EXCEPT ![d] = n]
  /\ scales' = scales + 1
  /\ reqs' = [k \in Key |-> IF reqs[k].at = "parsed"
                              THEN [reqs[k] EXCEPT !.seen = @ \cup {<<d, n>>}]
                              ELSE reqs[k]]
  /\ UNCHANGED <<clientVars, job, died>>

-----------------------------------------------------------------------------
(* The worker.  A job without a pod to copy, or with nodes to make and no  *)
(* usable specification of the last one, ends the process; a prediction    *)
(* gets by without one only if somebody else adds the nodes.  A prediction *)
(* that asks for less than -1 nodes may search down to a negative count,   *)
(* for which AddNodes cuts more off its list of nodes than there are; from *)
(* -1 the search stops at zero.                                            *)
TakeJob(i) ==
  /\ job = Nil
  /\ job' = queue[i]
  /\ PopJob(i)
  /\ UNCHANGED <<reqs, size, scales, died>>

Poll == job = Nil /\ PopNothing /\ UNCHANGED <<reqs, size, scales, job, died>>

(* Nobody calls Front (fifo.go:74), which the queue offers all the same.   *)
LookAhead ==
  /\ (\E i \in DOMAIN queue : FrontJob(i)) \/ FrontNothing
  /\ UNCHANGED <<reqs, size, scales, job, died>>

NoPod(g) == \E i \in DOMAIN g.apps : g.apps[i].pod = Nil
NodesUsable(nodes) == nodes # << >> /\ nodes[Len(nodes)].usable
NoNodeSpec(g) == g.type = "prediction" /\ ~NodesUsable(g.nodes)

BelowZero(nodes) == nodes # << >> /\ nodes[Len(nodes)].number < -1
NegativeCount(g) == g.type = "prediction" /\ BelowZero(g.nodes)

Taken == JobOf(reqs[job].body, reqs[job].apps)

Die ==
  /\ job # Nil
  /\ NoPod(Taken) \/ NoNodeSpec(Taken) \/ NegativeCount(Taken)
  /\ died' = TRUE
  /\ UNCHANGED <<clientVars, reqs, size, scales, job>>

FinishJob ==
  /\ job # Nil
  /\ ~NoPod(Taken)
  /\ job' = Nil
  /\ UNCHANGED <<clientVars, reqs, size, scales, died>>

RequestsNext ==
  /\ ~died
  /\ \/ \E k \in Key : \/ \E r \in Request : Receive(k, r)
                       \/ GatherApp(k) \/ GatherNothing(k) \/ Submit(k)
     \/ \E d \in Deployment, n \in Sizes \cup {Nil} : Scale(d, n)
     \/ \E i \in DOMAIN queue : TakeJob(i)
     \/ Poll \/ LookAhead \/ Die \/ FinishJob

RequestsSpec == RequestsInit /\ [][RequestsNext]_requestVars

-----------------------------------------------------------------------------
(* A queued job has the apps its request names, in their order, and what   *)
(* is queued under its id is this job, with the nodes a prediction asks    *)
(* for.  A horizontal job asks for what is missing to the new size, at     *)
(* least 1, from a size the deployment has had since the request came in,  *)
(* whoever scales it meanwhile (scheduler_emulator.go:58-72, modulo the    *)
(* width of the subtraction); for stateful sets, for no pod at all.        *)
AskedFor(item) == IF item.replicas = 0 THEN 1 ELSE item.replicas

IsMissing(n, item, seen) ==
  /\ n > 0
  /\ \E s \in Sizes : /\ <<item.name, s>> \in seen
                      /\ (n + s - AskedFor(item)) % (2 * Half) = 0

QueuedAsAsked ==
  \A k \in Key : reqs[k].at = "queued" =>
    LET r == reqs[k].body
        apps == reqs[k].apps
        list == IF r.kind = "statefulset" THEN r.statefulsetApps ELSE r.deployApps IN
    /\ Len(apps) = IF Known(r) THEN Len(list) ELSE 0
    /\ \A i \in DOMAIN apps :
         IF r.endpoint # "horizontal"
           THEN apps[i] = [pod |-> list[i].name, replicas |-> AskedFor(list[i])]
         ELSE IF r.kind = "deployment"
           THEN /\ apps[i].pod = list[i].name
                /\ IsMissing(apps[i].replicas, list[i], reqs[k].seen)
           ELSE apps[i].pod = Nil
    /\ Present(k) => /\ appGroup[k].apps = apps
                     /\ r.endpoint = "prediction" => appGroup[k].nodes = NodesOf(r)

(* The worker survives every request that is complete: the process dies    *)
(* only in a prediction that names no kind of app, or whose last node has  *)
(* no labels or capacity or a number below -1, and in a horizontal request *)
(* for stateful sets (simulator.go:1420, config.go:36, simulator.go:1494   *)
(* and 768: no recover on that goroutine).                                 *)
IsComplete(r) ==
  CASE r.endpoint = "prediction" -> /\ Known(r)
                                     /\ NodesUsable(r.nodes) /\ ~BelowZero(r.nodes)
    [] r.endpoint = "horizontal" -> r.kind # "statefulset"
    [] OTHER -> TRUE

DiesOfGaps == died => ~IsComplete(reqs[job].body)

=============================================================================
