# A TLA+ model of kubesim

kubesim answers the question "would this application fit on this cluster?".
It keeps an API store of its own (the in-memory fake clientset that
`cmd/kubesim/app/server.go` makes) with a copy of a real cluster's nodes and
pods, runs the real scheduler against it, and lets pods of the application
be scheduled one after the other until one does not fit or all replicas are
placed. HTTP endpoints accept jobs; one worker goroutine works them off; the
client polls for the result.

The interesting part of the program is small (`src/pkg/scheduler/simulator.go`
and its neighbours) and concurrent: one struct, `Kubesim`, is used without a
lock by the worker, by the scheduler's binding goroutines, by the pod
informer's handler and by HTTP handlers. This directory models it in TLA+,
checks the model with TLC on small instances, and proves the main safety
properties with TLAPS for all instances.

Contents: 1 inventory, 2 modules, 3 correspondence with the code, 4 runs and
bounds, 5 fairness, 6 proofs, 7 disagreements with the code's own statements,
8 what is not modelled, 9 plan.

## 1. Inventory

| Component | State | Operations | Works with |
|---|---|---|---|
| Job queue (`pkg/queue/fifo.go`) | map `appGroup`, slice `queue`, a mutex | `Push`, `Pop`, `Front`, `Get` | pushed by HTTP handlers, popped by the worker, read by the status report |
| Emulation engine (`simulator.go:76-172, 704-798`) | `simulatedPod`, `maxSimulated`, `simulated`, `stop`, `closed`, `status` | `UpdatePodRequest`, `SchedulerPod`, `Bind`, `Update`, `nextPod`, `Close`, `CleanStatusPods`, `CleanPendingPod` | called by the worker, by the scheduler's binding goroutines (`Bind`) and by the pod informer (`Update`); writes the API store through `strategy` |
| Job worker (`simulator.go:800-1081`) | `emulatorResult`, the group in hand | `Run`, `appsEmulator`, `HorizontalEmulator`, `VerticalEmulator`, `CleanPod` | pops the queue, drives the engine, publishes |
| Prediction (`simulator.go:1083-1275`) | `minNode`, `maxNode`, `FminNode`, `FmaxNode`, backups, `predictionNode` | `PredictionEmulator`, `generateMaxNode`, `CreateApps`, `CreateFakeNode`, `SavePrediction` | drives the engine and the node pool |
| Reports (`report.go`) | none | `GetReport` and its parts | reads the engine's `status` and `simulatedPod` |
| Job status (`scheduler_emulator.go:203-253`) | none | `EmulatorReport` | reads `emulatorResult`, `predictionNode` and the queue's map |
| Node pool (`simulator.go:1404-1605`, `pkg/node`) | the nodes in the API store | `AddNodes`, `DeleteNodes`, `ListNodes` | called by endpoints and by the prediction |
| Cluster mirror (`simulator.go:174-702`) | copies of the real cluster's objects | `SyncWithClient`, eight `*Watch` informers | writes the API store |
| Vertical emulation (`simulator.go:997-1081`, `scheduler_emulator.go:115-184`) | old pods of the deployments, the list of reviews, the round | list the pods, delete, simulate, simulate again, restore | the handler reads the API store, the worker writes it while `PodWatch` does |
| Requests (`utils.go`, `routes.go`, `scheduler_emulator.go:33-201`) | none; the horizontal and vertical handlers read the real cluster | parse, gather, push | queue |
| Deprecated endpoints (`scheduler_emulator.go:313-394`) | none of their own | `DeprecatedPrediction`, `DeprecatedApps` | drive the engine from the HTTP goroutine |
| Start-up (`cmd/kubesim`) | configuration | wiring | everything |

What is hard about it:

* **The baton.** `Bind` places a pod and creates the next one, so the pods of
  an app follow each other through four goroutines (scheduler, binding
  goroutine, informer, caller). No line of the code says that only one of them
  is at work; everything depends on it, because none of the shared fields has a
  lock (`simulator.go:1673` has the TODO). The hand-over back to the caller is a
  send on `ks.stop`, which is replaced for every app and closed after it.
* **The caches.** The scheduler sees the API through informers that may lag.
* **Jobs after jobs.** What one job leaves behind (pods, `StopReason`, events,
  cached placements) is what the next one starts from.
* **The moving search.** The ends of the prediction interval are guesses that
  are moved while the search is using them.
* **Failures.** A failed create drops a job, or makes the scheduler take a pod
  that is bound for one that is not.
* **Preemption.** kubesim replaces the scheduler's `Bind` plugin only, so its
  default preemption is on (`algorithmprovider/registry.go:106`): a pod that fits
  nowhere first has pods of lower priority deleted from kubesim's store, and is
  then deleted itself.
* **Other actors.** HTTP handlers that change nodes and pods during a job, or
  drive the engine beside the worker; the mirror's informers; pods that are not
  kubesim's; scheduler retries.
* **Lists made early, used late.** The pods of a vertical job are listed when
  the request comes in and deleted and restored when its turn comes; other jobs
  and the real cluster move the same pods in between.
* **Unchecked requests.** Counts and specifications go from the body to the
  worker, where a panic ends the process.

The hazards, each with its line and the properties that cover it, are listed in
`PROJECT.json`. What makes each component correct:

* queue: one first-in first-out sequence; the two structures agree;
* engine: one party at a time; no send on a closed channel; what is reported is
  what is in the cluster; no node gets more than it holds;
* worker: jobs in order, each answered, each starting from a clean cluster,
  each answer true to the job;
* prediction: the least sufficient node count, with the reviews of that count;
  termination;
* node pool: concurrent requests for nodes end, with the number asked for, and
  never delete too many; pods go before their nodes;
* mirror: what stays in the real cluster is copied, only placed pods are, and
  without disturbance the copy ends as the cluster does;
* vertical emulation: old pods come back, the published reviews are whole
  rounds and fit, copies fit, every request ends;
* status reports: the status of a job says where it is and only moves forward;
* requests: what is queued is what was asked for; a complete request for a number
  of nodes that is not negative never ends the process.

## 2. Modules

| Module | What it is |
|---|---|
| `FifoQueue` | the queue's operations, one action per locked section |
| `JobQueue` | abstract specification of the queue: one sequence |
| `FifoClients` | the queue under its clients' calls; type, `MapMatchesQueue`, refinement of `JobQueue` |
| `Kubesim` | the engine: caller, scheduler, binding goroutines, informer and handler acting on the fields of `Kubesim` |
| `AppsEmulator` | `FifoQueue` and `Kubesim` composed with the HTTP submitters and the worker: the whole path of a job |
| `AppsEmulatorProperties` | its properties |
| `JobService` | abstract specification of the endpoints: jobs wait, one is worked on, each ends with a true answer |
| `Interference` | `AppsEmulator` among others: one of its assumptions lifted at a time (a `DeleteNodes`, a deprecated endpoint, a retry, a foreign pod, a create that fails in `Bind`) |
| `Requests` | `FifoClients` with the requests in front: parsing, the horizontal handler's reads, the job, the worker taking it |
| `VerticalEmulation` | the handler and the worker of vertical jobs, `PodWatch`, the scheduler's cache and preemption |
| `PredictionSearch` | the node-count search |
| `NodePool` | `AddNodes` and `DeleteNodes` from any number of goroutines on the node list |
| `ClusterMirror` | `SyncWithClient`, the watches and the informers under them |
| `MCAppsEmulator`, `MCInterference`, `MCRequests`, `MCVerticalEmulation`, `MCPredictionSearch`, `MCNodePool`, `MCClusterMirror` | constants for TLC |
| `RequestsProofs`, `AppsEmulatorProofs`, `PlacementProofs`, `InterferenceProofs`, `VerticalProofs`, `PredictionProofs`, `NodePoolProofs`, `ClusterMirrorProofs` | theorems |

`Mutant...` operators next to a definition are plausible mistakes in that piece
of code. No action uses them: they are there to be swapped in, one at a time, to
see that the properties notice.

## 3. Correspondence with the code

`PROJECT.json` maps every definition to its lines. The main decisions:

* **Atomicity.** A step is a locked section, or the code between two points
  where another goroutine can make a difference. `Bind` is four steps (update
  of the pod through the API; append to `status`; test of the limit with
  `Close` or `nextPod`; the send), `Update` three (stop reason and `Close`;
  `CleanPendingPod` and the read of `ks.stop`; the send), `SchedulerPod` two
  (create; return from the receive). `CleanPod` lists once and deletes pod by
  pod.
* **Channels.** `ks.stop` is a number, increased by each `UpdatePodRequest`. A
  send carries the number that was read; it meets the caller that waits on that
  number, or panics if that channel was closed, or blocks. `Close` closes the
  channels `informerStopCh` and `stopCh`, on which nothing in kubesim waits:
  only its flag is kept.
* **Pods.** A pod is the run (the stop channel's number) and the index it was
  created with, and the nodes its selector allows. Names are fresh (they hold a
  uuid; the code cuts it to seven digits, so a clash shows up as a failed
  create). A pod takes one slot of a node. That is what the properties tell
  apart of resource requests: there is room or there is not.
* **The API and the scheduler** are outside `src/pkg`; the vendored scheduler
  is read for what it does with a pod: it assumes it in its cache and starts a
  binding goroutine, or marks it unschedulable with a patch that reaches
  kubesim's handler as a pod update. The cache forgets a deleted pod an
  arbitrary time after the delete (`CacheForget`).
* **Preemption.** Of a pod's priority (`template.spec.priority` of an item) only
  the order matters. A pod that fits nowhere deletes, on one node it may use, just
  as many outranked pods of the cache as make room, and is nominated there
  (`Victims`, `Evict`). Which node and which victims are chosen is left open, and
  so is whether anything happens (the pod's policy may be Never). One victim that
  is gone from the API ends the eviction with any part of the others deleted. A
  nomination counts against pods that do not outrank it, until the scheduler
  hears that the pod is gone (`NominationForget`). Mirrored pods are in the
  store from the start where somebody may outrank them (`Mirrored`); the others
  are taken off the slots.
* **Jobs.** A group is a sequence of apps; an app is a replica count (which may
  be zero or negative: then the code places pods until one does not fit) and
  the nodes it may use. `AppsEmulator` and `HorizontalEmulator` have the same
  body, so one model stands for both; `appsPodEmulator` is never reached, as no
  handler pushes its job type.
* **Reviews** keep what the endpoints promise numbers for: desired and placed
  replicas, pods per node, and the type of the stop reason. Because of
  preemption, the apps of a job that fit together are those that no later app of
  the job outranks (`JobService!Standing`). `getMainFailReason` slices the
  reason at its colon and panics on an empty one: `ReportPanics`.
* **Prediction.** The apps are one number, the least node count that takes them
  all; nodes of one try are alike, so more nodes never take fewer apps. Go's
  integer division and truncation of `1.4 * m` are modelled; the float product
  may fall just short of an integer, hence two outcomes for that band.

* **Nodes.** A call lists once per round and then creates or deletes one node
  per step, from its old list. Node names are numbers, because the fake store
  sorts its lists by name and new names are random: a new node may come
  anywhere in the list, which is what decides which nodes are deleted. Deleting
  a node that is gone is an error that is logged; deleting a pod that is gone
  ends `CleanPod`. A negative node number makes the slice expression of
  `AddNodes` panic or, within the slice's capacity, delete everything.
* **The mirror.** An object is followed by name through its lives. The informer
  is modelled from the vendored `client-go`: a first list, events in order, a
  relist after a lost connection (a missed deletion comes as
  `DeletedFinalStateUnknown`; that of an object the informer has queued and not
  yet handled may go unheard, as `Replace` compares with what is known), and a
  resynchronisation that repeats what is known. `SyncWithClient` copies a kind
  in one step: nobody looks at the store before it is done. A real pod is
  pending, nominated, bound or running; the phase test of `SyncWithClient` and
  the filter of `PodWatch` tell these apart.

* **Status.** `EmulatorReport` is the operator `JobStatus`, a state function: it
  looks at the results under the read lock that keeps publication out, and at
  the queue's map after that, so its answer is that of the state at its last
  look. That the map is read outside the queue's lock is a data race; the model
  reads it at one moment.
* **Interference.** `AppsEmulator` assumes that the handler deletes a rejected
  pod before the scheduler retries it (the first backoff is a second), that
  nobody else creates, binds or deletes pods or nodes during a job, that every
  pod the handler sees is kubesim's, and that the creates inside `Bind` succeed
  (those of `SchedulerPod` may fail in it). `Interference` is the same engine
  and worker, with a step for each thing that breaks one of these; `struck`
  remembers which. The second caller of the engine is a visitor with the same
  steps as the worker's `SchedulerPod`; it replaces `ks.stop` under a worker
  that has created its pod and not yet reached its receive.
* **A create that fails in `Bind`** (`BindFails`). `Bind` has bound and recorded the
  pod by then, but its error makes the scheduler forget it: `ForgetPod` drops the
  placement if it is still an assumed one, and the error handler puts the pod
  back into the queue (`BindForget`). Then either the informer confirms the
  binding, which enters the pod in the cache again and takes it off the queue
  (`Confirm`; the worker now waits for ever), or the pod is tried once more: it
  may be bound and recorded again, on another node too, or be rejected, so that
  `Update` deletes it and releases the worker. If the cache has seen the pod on
  two nodes it ends the process (`SchedulerDies`).
* **Requests.** A body is the two lists of apps and the nodes; an item is its
  kind, name and count. Parsing is one step, as nobody else sees it; the
  horizontal handler reads the real cluster app by app. Of a node specification
  counts whether `BuildNode` can use it and its number: from -2 on, the search
  of a prediction may ask `AddNodes` for a negative count, which cuts more off
  the list than there is. Counts are signed numbers from `-Half` on, `2^31` in
  the code, and the difference wraps (`Wrap`). A panic in a handler is recovered
  by `net/http`, one in the worker ends the process.
* **Vertical jobs.** An app of such a job is one copy of one old pod, so a run
  of the engine is one step: placed or rejected, as the scheduler's cache has it
  at that moment. A pod of the store is its name, its node and the pod whose
  labels it has: a copy that is being simulated is selected by the same label as
  its original, and that is how it gets into the list of an overlapping request.
  The cache learns of each pod separately and late, and of its latest state.
  A copy has the priority of its pod, so a rejected one may evict mirrored pods
  and copies of the same round.

## 4. Runs and bounds

| Run | Question | Bounds, and why they suffice |
|---|---|---|
| `apps` | does the whole system serve its clients? safety, refinement of `JobService`, status, liveness, no deadlock | 2 nodes with 1 and 2 slots, a mirrored pod on one slot of the larger, 2 jobs of 6 shapes: an empty job; two apps that want one slot more than is free; one app too large; an app without a positive replica count followed by another; an app no node may take; an app between two that it outranks, which may evict the mirrored pod and the app before it, and leave room for the one after it. With two jobs every shape follows every other, which is where stale events, caches, channels and reasons would show |
| `interference` | what is still true when others act on the engine and its cluster, and when any pod create may fail? | 2 nodes with 1 slot each, 2 jobs of 2 apps: one rejected half-way whose pod the second evicts, one that takes both nodes and a second that is rejected; a failed create needs both nodes for the pod to be bound twice. One disturbance (`MaxStruck`) of any kind at any moment; `MaxRuns` apps in all beside it: two whole jobs, or, beside a deprecated request or a foreign pod, which may go on for long, one app each |
| `stale_cache` | is "Unschedulable" the truth about the cluster? | as in `apps`, with equal priorities; it is not (section 7) |
| `prediction` | does the search end, with the least count? | requests in each band of `generateMaxNode` that has a case, needs below, between and far above the guesses |
| `prediction_gap` | does it end for a request in the band without a case? | requests 3001 to 3003; it does not (section 7) |
| `node_adds` | do equal `AddNodes` calls end well? | 2 callers, 3 nodes each, an empty cluster: both may create all three, in halves, and both find too many |
| `node_deletes` | who deletes the pods when `DeleteNodes` calls race? | 3 callers, 3 pods, deletes mixed with adds (one negative), 5 names |
| `node_pods` | are pods deleted before nodes? | 2 `DeleteNodes`, 2 pods; they are not (section 7) |
| `mirror` | does what stays get copied, and only what should be, whatever is missed, and everything when nothing is? | one object per kind (objects do not influence each other), 3 changes in all: nominated, bound, deleted, created again; a lost connection; changes also before the watch |
| `requests` | is what is queued what was asked for, and what can a request break? | 2 requests at once out of 11 bodies, 3-bit counts (so that a difference can wrap), node numbers from -2 on (-2 is the first that may be fatal), one deployment scaled twice |
| `vertical` | do old pods come back, are results whole rounds of copies that fit, does every request end? | 2 pods of two priorities on one of 2 nodes, each of which can take one in the new size: alone, the pod of the higher rank evicts the other, mirrored one; after the other, its copy. 2 requests for deployments whose labels overlap; 2 changes in the real cluster; creates may fail. That a third pod takes the room of an evicted one needs three pods, beyond what TLC does in minutes with all this: `CopiesAlwaysFit` is for any number |
| `vertical_fallback` | does "failed" mean that not all could be placed? | as in `vertical`, without changes and failures; it does not (section 7) |

Deadlock checking is on in `apps`: the worker polls, so a state without a step
would be a process that hangs. In `node_deletes` the names run out, in the
mirror the versions, in `requests` and the `vertical` runs the ids; in
`interference` a job can really hang: there the system may stop. In the
prediction runs the search stops when it is done.

What the properties say:

* `MapMatchesQueue`: no id without a group, no group without an id, no id twice.
* `ImplementsJobQueue`: pushes and pops are those of one sequence.
* `NoPanic`: no send on a closed stop channel, no second close, no report
  without a reason.
* `OneBaton`: while the caller waits there is at most one pending pod, binding
  goroutine, undelivered rejection or busy handler, and otherwise none.
* `NoOvercommit`: a node never holds more pods than slots, however the cache lags
  and whatever is evicted.
* `StatusIsTrue`: the placements about to be reported are in the API, once
  each, and are of this app.
* `JobStartsClean`: when the worker asks for a job, nothing is left of the
  previous one.
* `ImplementsJobService`: jobs are taken in order, one at a time; each published
  list has a review per app; "Schedulable" exactly when all wanted replicas were
  placed; counts add up, on permitted nodes only; at each review the apps of the
  job so far fit together, except those a later one has outranked.
* `EveryJobAnswered`: every submitted job is published in the end.
* `NeverShort`: calls that all ask for at least k nodes never leave fewer,
  though every one deletes from a list that may be out of date.
* `Settled`, `AddsEnd`: calls that ask for the same number end, and then there
  are that many.
* `PodsInHand`: a `DeleteNodes` goes on to the nodes with pods left only if
  another one has all these pods on its list and deletes the next.
* `CopiesArePlaced`: no pod gets into the copy that the real scheduler has not
  placed or nominated; kubesim's scheduler would place it.
* `KnownIsMirrored`: what an informer has handled and selects has a copy, so
  `UpdateFunc`, which does not create, finds one.
* `WhatStaysIsMirrored`: what stays in the cluster is copied in the end, nodes
  with their latest version. `MirrorConverges`: with a quiet start and no lost
  connection, everything is as in the cluster, and nothing else.
* `StatusIsRight`, `StatusMovesForward`: a job is reported as queued exactly when
  it is in the slice, as processing exactly when the worker has it, and from
  queuing through processing to a verdict that stays.
* `BatonSurvivesDeletes`: `DeleteNodes` during a job may hang it, never panic or
  double the baton. `StatusSurvives`: reported pods are this app's, each once,
  under deletes; undisturbed, `StatusIsTrue` holds. A create that fails in `Bind`
  does not double the baton either. `NeverOverfull`: no node is overfull, whoever
  interferes, but for such a create. `StillServes`: jobs stay in order, one at a
  time, with a review per app, and before the disturbance the reviews are true.
* `QueuedAsAsked`: a job has its request's apps in their order, with a
  horizontal count that leads from a size the deployment had during the request
  to the new size. `DiesOfGaps`: the process ends only by requests with a gap,
  or for fewer than -1 nodes.
* `OldPodsReturn`: between jobs, every pod that the real cluster left alone,
  that no job given up half-way had in hand and that nothing outranks in a job
  that failed for some of its pods is back on its node. `RoundsAreWhole`: a
  result is a whole round on the pods' own nodes, or a failed one and a whole
  second one. `CopiesFit`: what the last round of a result has placed on a node,
  without the pods that one rejected after them outranks, fits on it together
  (`AnswersFit`), and so do the copies in the store at any time, as long as no
  job was given up (`StoreFits`). `EveryRequestEnds`: each request is published
  or given up. (An answer is never taken back, so `[]<>` of "all answered" says
  that each is.)
* `EndsAreTried`, `PredictionIsMinimal`, `EachTryNarrows`, `PredictionEnds`: see
  `PredictionSearch`.

## 5. Fairness

`FairSpec` of `AppsEmulator` makes weakly fair what the Go runtime keeps
running: the worker's steps, the caller's steps inside `SchedulerPod`, the
scheduler's loop, its binding goroutines and the informer's handler. Each is a
goroutine that is ready whenever its action is enabled and stays so until it
runs, which is what weak fairness asks. Clients are not fair (nobody has to
submit a job), and the informer's update of the scheduler's cache is not fair
either: its lag has no bound, and the properties do not need one. The creates
inside `Bind` succeed in this module, so `EveryJobAnswered` is claimed for
those. Polling an empty queue is not fair: it is a stutter or changes nothing of
interest. `Interference` states no fairness and claims no liveness: a deleted
pod, a failed create or a second caller does leave the worker waiting for ever.
`VerticalEmulation`: the handler and the worker go on; the real cluster, clients
and the scheduler's informer owe nothing. `PredictionSearch` runs in the worker
goroutine: weak fairness of its step.

`NodePool`: the goroutine of a request goes on until it returns; nobody has to
send one. `AddsEnd` is claimed for equal requests only: two that ask for
different numbers can undo each other's work for ever. `ClusterMirror`: start-up
goes on, each informer goroutine handles what has arrived, and the timer of the
resynchronisation (`resyncPeriod`, 30 s) fires again and again. The real cluster
and the network owe nothing; changes and losses are bounded, so that "in the
end" is after the last of them.

## 6. Proofs

Proved with TLAPS for all values of the constants (any number of nodes, slots,
jobs, apps, replicas and priorities, any failures of `SchedulerPod`'s create,
unless stated; those of the creates inside `Bind` are in `Interference`).
Assumptions are those in the modules: finitely many nodes, slots are natural
numbers, groups are sequences of apps, as are the visitors' apps
(`VisitorAppsAssumption`), mirrored pods are placed once each, within the slots,
and have no run (`MirroredAssumption`), `NoGroup` and `NoKey` are not a group
and not a key; a body has the fields that are read (`RequestAssumption`), `Nil`
is no job and no name, and the queue can hold every job that a request may
become (`GroupAssumption`); old pods have names that are no numbers and homes
that are nodes (`PodAssumption`), and `None` is no node (`NoneAssumption`).

* `QueueInvariant`, `QueueRefinement`, for any clients of the queue.
  `MapMatchesQueue` is inductive with the types. It implies that `Pop` and
  `Front` always use position 1 (`FrontIsFirst`), so their loops that skip stale
  ids never skip; after that each operation is a step of `JobQueue`, by comparing
  sequences position by position.
* `RequestsAreClients`: handlers and worker are such clients, so the two results
  hold for them (`RequestsKeepQueue`, `RequestsRefineQueue`). An id is unused
  until its request is submitted, and what is submitted is a group.
* `JobsAreAsAsked`. The invariant (`RequestsInv`) follows a request: while it is
  gathered it has seen the present size of every deployment, and each app so far
  is what was missing from a size it has seen (`Gathered`); what is missing is
  congruent to the difference whatever the width (`WrapIsCongruent`). Once
  queued, the job in the map is the one the request stands for (`Asked`,
  `Carried`).
* `OnlyGapsKill`. The worker's job is a queued request's, and the job of a
  complete request has a pod in every app and the nodes it needs, in a number the
  search does not take below zero (`CompleteIsUsable`).
* `TypeCorrect`. One addition is needed, `HasKey`: a worker with a job in hand
  knows its id, or `Publish` could file a result under no key.
* `StatusForward`. A job id is in one place (`OnePlace`): the queue's map, the
  worker's hands or the results, and nowhere before it is handed out; so
  publication never files a second result under an id.
* `StatusTellsWhere`. With `OnePlace`, the map of the queue says what the slice
  says (`QueueMatches`), and an id handed out is somewhere (`NoneLost`).
* `ReportsAreTrue`. The invariant (`StatusInv`, of `OrderInv` and `InPlace`)
  numbers the pods: those recorded are the app's replicas 1, 2, ... in order,
  and the pod in hand, whether in the scheduler's queue, with a binding
  goroutine, in an event or being deleted, is the next one; so the handler
  deletes no recorded pod and none is recorded twice. Preemption does not
  either, as all pods of an app have its priority. The engine has a pod in hand
  only while the worker waits for it.
* `EachStartIsClean`, assuming that no create of `SchedulerPod` fails: a failed one
  makes the worker drop the job and leave its pods (`interference` has such
  failures). The
  invariant (`CleanInv`) says that what is listed stays until the worker deletes
  it, as no pod is pending then that could evict it, and that no simulated pod is
  left from the last deletion on. `StatusTellsWhere` has the
  same assumption, as a dropped job has no result and counts as processing for
  ever.
* `QueueTyped`, `SearchTyped`, `MirrorTyped`: types.
* `OldPodsComeBack`. Whatever is stored, known to the scheduler, listed or
  queued under the name of an old pod is that pod on its own node (`Faithful`),
  so a job restores what it deleted, and what preemption deletes by name is the
  pod it outranks. A pod the real cluster has kept is in the store, or due to be
  created by the present job (`Due`: deleted so far, or not yet restored), or in
  the hands of a dropped job, or outranked in a job that failed for some pods,
  the present one included (`Safe`, `AllKept`). As long as no job is dropped no
  list contains a copy once it is deleted from, so no copy is restored
  (`NoCopies`).
* `VerticalTyped`. A copy gets a number that nothing listed, stored or cached has
  (`Homed` bounds them all by `runs`), a restored pod a name that is not there, and
  while a copy waits only the worker touches what goes under its number
  (`NamesInv`); so names stay distinct.
* `CopiesAlwaysFit`. The scheduler looks at its cache only, so
  what has been placed in the present round and lasts must be in there, each under
  a number of its own: it was put there when it was placed, and the cache forgets
  nothing that is in the store, which a copy leaves only when the round is over or
  one that outranks it is rejected (`Standing`, `Lasts`, `RoundIsCached`). So one
  more still fits (`RoundFits`), whatever
  else the cache does or does not know. For all copies in the store, and not only
  those of this round, all of them must be in the cache (`Cached`); a copy restored
  by a job from a list is not, which is why `StoreFits` needs its condition
  (section 7).
* `WholeRoundsOnly`. The invariant (`Listed`) counts the reviews: in round one
  as many as the list position says, in round two a whole round more, and the
  second is entered only over a rejected review; what is published (`Published`)
  is such a list at its end.
* `NeverPanics`, `BatonIsUnique`. `OneBaton` alone is not inductive: it does not
  say that the single party is acting for the present channel, nor that the
  channel is open. `BatonInv` says where the one pod is (queue, binding
  goroutine, event, handler, or lost), only while the caller waits; that a
  sender holds the number of the present channel; that this channel is not
  closed until the caller has received; and that a reason was set before a send.
  `OnlyPending`, `OnlyBinding`, `OnlyEvent` and `OnlyHandler` state what each
  party may conclude from being at work; the step lemmas follow from them.
  Lost pods (a bind that finds its pod deleted) are the reason why `OneBaton` says
  "at most one".
* `NeverOvercommitted`. The scheduler decides from its cache, so the invariant
  is about the cache: it is finite, contains every bound pod and the placement
  of every existing pod that is being bound, and fits (`CacheCovers`,
  `CacheFits`). Nominations only take room away (`RoomInCache`), and evictions only
  take pods. It may contain more, which is why the lag is safe here though it
  costs completeness (section 7). `BatonInv` is used for one thing only: the pod
  that is created next is not one that is being bound (`NextIsNew`).
* `Interference`. Each kind of disturbance leaves a part of the invariant standing,
  and `CompanyInv` says which: until a create fails in `Bind` the cache covers what
  is bound (`NoFailure => CacheInv`); with deletes and failed creates only, one pod
  at a time is in hand (`Few => HandInv`); with deletes only, the process lives,
  pods are bound once and the record is this app's (`Calm => CalmInv`); and until
  anybody comes, recorded pods stay where they are (`InPlace`).
* `NeverOverfullInCompany`. In `Interference` the baton is no longer single, and
  it is not needed: the same cache invariant is kept by everybody. What gives
  `NextIsNew` there is that pods are numbered (`MadeInv`): a pod that exists or is
  in hand has an earlier run, or an index counted already, or it is the foreign
  pod. A pod of no run can be created only before the first request, where
  `nextPod` panics instead.
* `BatonSurvives`, `StatusSurvivesDeletes`. While only `DeleteNodes` has come, or a
  create has failed, every step is one of `AppsEmulator`, or a scheduling cycle
  with fewer nodes, or a pod that is deleted from the store or leaves the
  scheduler's queue, or a bound pod that goes from its binding goroutine back to
  the queue; none of these adds a party (`HandInv`: the parts of `BatonInv` but for
  the panic, and a visitor that only deletes). A pod that is tried again may be
  bound and recorded twice, on two nodes, and the process may end of that; so the
  numbering of the recorded pods (`OrderInv`), `OnceBound` and the absence of a
  panic are claimed without failed creates only (`CalmInv`). `CompanyTyped`: types.
* `ServiceImplemented`: the refinement of `JobService`, for which everything
  above on `AppsEmulator` is needed at once (`ServiceInv`). `OnePlace` and
  `QueueMatches` give the order of the jobs. `Counting` keeps one review per app
  done. `Judged` follows the app being simulated: what is recorded is on nodes
  the app may use and never more than it wants, and whoever is about to end it
  carries the verdict that fits the count (`RightVerdict`). `Covered` says that
  every reviewed count of an app that no later one outranks is matched by pods
  still in the store under the run of that review, since pods have the priority
  of their app (`Ranked`) and an eviction takes only what the pod under way
  outranks; since the runs differ, the counts of all reviews on a node are sizes
  of disjoint parts of what is bound there, and fit because that does
  (`CoveredFits`). Sums are sizes of disjoint unions (`JobService!Total`), which
  makes this a fact on cardinalities (`PartsBound`) instead of an induction.
* `ServesInCompany`. What the worker counts with is out of everybody else's
  reach (`WorkOrRest`), and a visitor can neither fail the caller nor change the
  queue, so order and numbers stay; verdicts and reviews stay right until
  anybody comes (`AloneKeepsReviews`).
* `PredictionCorrect`, `EndsCorrect`, `TriesNarrow`, for requests outside
  3001..4000 (`Covered`). The invariant adds to the properties that a try starts
  on an interval of at least two steps, whose midpoint is therefore inside
  (`MidpointInside`), and that the interval stays within its guesses; so an end
  that differs from its guess was tried, and two tried neighbours enclose the
  answer. `GuessIsRoomy` is where the gap of `generateMaxNode` would break it.

* `PoolIsNeverShort`. A list that is out of date may start with nodes that are
  gone, and then its owner deletes fewer, not others. The invariant makes this
  precise: every node that is gone, and every node somebody is about to delete,
  has at least k nodes behind it in the list (`Behind`). To delete one of those
  somebody must have seen k behind that one, so k remain (`BehindLess`).
  `FirstHasMoreBehind` is the counting fact about the first n of a list.
* `PodsStayInHand`. All lists are in one order and contain all pods that are
  left, so pods go in that order whoever deletes them. The invariant (`Hand`)
  adds to the property that a caller whose list contains a pod that is gone has
  been overtaken by a leader; it is needed because such a caller will give up.
* `PoolSettles`. Only `AddEnough` returns, having seen the number it asks for. A
  caller that is still at work may change that number again, but only to look once
  more before it returns; so when nobody is at work the last to return was right
  (`Settles`). It needs that a negative number can panic but never return.
* `SwitchesTyped`. What `buildNode` and `buildRulesNode` compute for any number of
  nodes and any `accessNum` stays within it (`ChunksFit`, `HalvesFit`, from the
  division facts in `Rounding`); a caller that creates has a switch with nodes
  left (`Planned`), so no size is counted below zero.
* `OnlyPlacedAreCopied`, `HandledIsMirrored`, together with the fact that no
  informer handles anything before `SyncWithClient` is done.

Every safety property that a passing run checks has its theorem. Only
model-checked are the liveness properties `EveryJobAnswered`,
`EveryRequestEnds`, `PredictionEnds`, `AddsEnd`, `WhatStaysIsMirrored` and
`MirrorConverges`. The prover has no rules for fairness and ENABLED here. No
module a theorem is about declares a RECURSIVE operator.

## 7. Disagreements with the code's own statements

* `stale_cache`: `report.go:110` calls the count in a review the "actual number
  of replicas that could schedule". A job that follows another can be told
  "Unschedulable" while the cluster has room, because the scheduler's cache has
  not yet heard that the previous job's pods were deleted. `appsEmulator`
  publishes and takes the next job without waiting for it.
* `prediction_gap`: for 3001 to 4000 requested nodes `generateMaxNode`
  (`simulator.go:1166-1183`) matches no case and returns 0. The search then
  never finds its ends one apart, and the worker never returns from the job.
* `node_pods`: `simulator.go:1511` says "check simulator pod, if exist, delete
  all, than delete node". The error of `CleanPod` is ignored, and `CleanPod`
  gives up at the first pod that somebody else has deleted, so with two
  `DeleteNodes` at once nodes go while pods are on them.
* `vertical_fallback`: the second round of `VerticalEmulator` ("recreate apps",
  `simulator.go:1025`) resets `reportList` (1037) and goes on appending to
  `reportlist`, so the rejected reviews of the first round stay, and
  `EmulatorReport` says "failed" of a job whose pods the second round has all
  placed.

Seen while modelling, with no run of its own because nothing has to be
searched for: `simulator.go:1509` says "Delete simulator node", but `ListNodes`
lists all nodes (its selector is commented out, 1534), so mirrored nodes are
deleted too, and `NodeWatch` does not bring them back, as its `UpdateFunc` does
not create. A horizontal request for stateful sets matches neither branch of its
handler (`scheduler_emulator.go:78` tests for "statefulsets"), and the app
without a pod that it queues ends the process; absent replicas panic in the
warning about them (`utils.go:216-218`); a prediction whose last node has no
labels or no capacity ends the process, and so does one that asks for -2 nodes or
fewer, once its search calls `AddNodes` with a negative count (1494). A negative
count in a horizontal request wraps around to a large one. `Requests` has all
five.

Nor has preemption a run of its own. `CountCouldSchedule` fails also with one
job, whose apps differ in priority (`MCGroups` in place of `MCEqualGroups`, one
key). For a rejected pod the scheduler evicts pods of lower priority, to place it
at its next try; but `Update` takes the rejection for final, deletes the pod and
ends the app. The review says "Unschedulable" of an app for which room has just
been made, the evicted replicas of an earlier app stay counted in their review,
and a later app may be placed in the room.

What a disturbance breaks, from runs of `Interference` with the properties of
`AppsEmulator` unguarded: under a `DeleteNodes` a job may hang and a review be
untrue, while `NoPanic`, `OneBaton` and `OnlyOwnPods` hold; under each of a
retry, a foreign pod and the two deprecated endpoints `NoPanic`, `OneBaton`,
`StatusIsTrue` and `OnlyOwnPods` can all fail. After a create that fails in `Bind`,
`NoOvercommit` fails (the cache has forgotten a bound pod, whose node another pod
gets), and so do `OnlyOwnPods` and `StatusIsTrue` (the bound pod is recorded again,
or rejected and deleted) and `NoPanic` (the cache sees the pod on two nodes), while
`OneBaton` holds. In vertical jobs preemption deletes mirrored pods that no job's
list contains and nobody creates again, and copies whose review is already in the
result. Of overlapping vertical requests
the later one is usually given up, as the pods it listed are not there when its
turn comes, and what it had deleted by then stays deleted; a pod that is deleted
for real during a job is created again. A copy that a job given up half-way left
behind is listed by the next request, deleted and created again like an old pod,
and until the scheduler's cache has heard of that, a third job finds its node
free: then the node holds more than fits. It takes three requests, one more than
in run `vertical`; `StoreFits` excludes it by its condition, and `AnswersFit`
holds all the same.

Nothing in the repository says how exact the mirror is, so these are no
disagreements, only what the model shows: a deletion that falls between
`SyncWithClient` and the start of a watch, or into a lost connection, is never
repeated on the copy; and the comparison at `simulator.go:688` is one of
addresses, so the resynchronisation does not refresh pods.

## 8. Not modelled

Profiling, the routing tables and start-up (wiring and I/O without state of
their own), and the encoding of answers. `appsPodEmulator`, `ParseToPod` and
`PodsConfigParse` have no caller. Within the modelled parts: message texts,
durations, logging, labels and tolerations beyond "the nodes a pod may use",
resource quantities beyond slots or one size, the counts that `ListNodes` and
`GetNodeInfo` compute. `Front` and the reads by `Get` are the whole of the
queue's lookups. Errors of the fake API store other than "exists", "not found"
and a refused create are left out, as are an error of `SyncWithClient`, which
ends the process at start, and an error of `CreateApps`, which a prediction
ignores and then dereferences its missing result (1106).
Of preemption: disruption budgets and the rules by which one candidate node is
preferred (any node and any least set of victims may be chosen), a preemption
policy other than as "may do nothing", extenders, and victims of different sizes
(in `Kubesim` each takes a slot). The scheduler drops an assumed placement 30
seconds after its binding if the informer has not confirmed it by then; the lag
of the informer is taken to be shorter. `AppsEmulator` leaves creates that fail
inside `Bind` to `Interference`, where they happen without a second disturbance.
`ClusterMirror` follows only what the real cluster does to the copies: evictions
and node deletions on kubesim's side are in the other modules.
In `VerticalEmulation` a copy that was listed while it waited for a node, was left
behind by a job given up and is restored by another stays without a node; the real
scheduler would take it up again.

The components are composed where they share state: queue, engine and worker
(`AppsEmulator`), these with the other users of the engine (`Interference`),
queue and requests (`Requests`), worker and `PodWatch` (`VerticalEmulation`).
Not composed are the search with engine and node pool (a try is one step), and
the mirror with the node pool: both products are beyond TLC with more than a few
steps each, and what they would add to the parts is that deletions of mirrored
nodes are not repaired, which section 7 says.

## 9. Plan

Done: every component with control of its own; the refinements of the queue and
of the job service, the latter also under disturbance; the proofs of section 6.
What could be added next:

1. `Interference` with two disturbances at once (`MaxStruck` = 2) on a larger
   machine.
2. `NodePool` and `ClusterMirror` composed.
