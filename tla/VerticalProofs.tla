--------------------------- MODULE VerticalProofs ---------------------------
(***************************************************************************)
(* For any cluster, pods, label selectors and requests: what a vertical    *)
(* job publishes is one whole round on the pods' own nodes, or that and a  *)
(* whole second one (RoundsAreWhole); its pods fit together on their       *)
(* nodes, those left out that a rejected one may have evicted, and no node *)
(* is overfull with copies, unless a job was given up half-way             *)
(* (CopiesFit); between jobs the pods that were deleted are back, except   *)
(* evicted ones (OldPodsReturn); and nothing goes by the same name twice   *)
(* (TypeOK).                                                               *)
(***************************************************************************)
EXTENDS VerticalEmulation, FiniteSetTheorems, SequenceTheorems, TLAPS

Typed ==
  /\ store \subseteq Placed /\ IsFiniteSet(store)
  /\ nominated \subseteq Placed /\ IsFiniteSet(nominated)
  /\ handler \in [key : Key \cup {None}, left : Seq(DOMAIN Owns), old : Seq(Placed)]
  /\ waiting \in Seq(Job) /\ used \subseteq Key /\ job \in Job
  /\ pc \in {"pop", "delete", "apps", "wait", "clean", "restore"}
  /\ at \in Nat \ {0} /\ round \in {1, 2} /\ runs \in Nat
  /\ reportlist \in Seq(Review)

(* How far the list has got: `done` reviews in this round, after a whole   *)
(* first one if it is the second.                                          *)
InRound(done) ==
  /\ Len(reportlist) = IF round = 1 THEN done ELSE Len(job.old) + done
  /\ \A i \in 1..Len(job.old) :
       i <= Len(reportlist) => OnOwnNode(reportlist[i], job.old[i])
  /\ round = 2 => \E i \in 1..Len(job.old) : reportlist[i].reason = "Unschedulable"

Listed ==
  /\ pc = "delete" => round = 1 /\ reportlist = << >>
  /\ pc = "apps" => at <= Len(job.old) + 1 /\ InRound(at - 1)
  /\ pc = "wait" => at <= Len(job.old) /\ InRound(at - 1)
  /\ pc \in {"clean", "restore"} => InRound(Len(job.old))
  /\ pc = "restore" /\ round = 1 => ~Failed(reportlist)

(* RoundsAreWhole without subsequences.                                    *)
Whole(old, list) ==
  /\ \A i \in 1..Len(old) : OnOwnNode(list[i], old[i])
  /\ \/ Len(list) = Len(old) /\ ~Failed(list)
     \/ /\ Len(list) = 2 * Len(old)
        /\ \E i \in 1..Len(old) : list[i].reason = "Unschedulable"

Published == \A r \in emulatorResult : /\ r.job \in Job /\ r.list \in Seq(Review)
                                       /\ Whole(r.job.old, r.list)

Inv == Typed /\ Listed /\ Published

LEMMA WholeRounds == ASSUME Published PROVE RoundsAreWhole
<1> SUFFICES ASSUME NEW r \in emulatorResult,
                    NEW n, n = Len(r.job.old),
                    NEW first, first = SubSeq(r.list, 1, n)
             PROVE  /\ Len(r.list) = IF Failed(first) THEN 2 * n ELSE n
                    /\ \A i \in 1..n : OnOwnNode(first[i], r.job.old[i])
  BY DEF RoundsAreWhole
<1>1. /\ r.list \in Seq(Review) /\ n \in Nat
      /\ \A i \in 1..n : OnOwnNode(r.list[i], r.job.old[i])
  BY DEF Published, Job, Whole
<1>2. Len(r.list) \in {n, 2 * n}
  BY DEF Published, Whole
<1>3. Len(first) = n /\ \A i \in 1..n : first[i] = r.list[i]
  BY <1>1, <1>2
<1>4. first \in Seq(Review)
  BY <1>1, <1>2
<1>5. Failed(first) <=> \E i \in 1..n : r.list[i].reason = "Unschedulable"
  <2>1. DOMAIN first = 1..n
    BY <1>3, <1>4
  <2>2. QED
    BY <1>3, <2>1 DEF Failed
<1>6. Failed(r.list) <=> \E i \in 1..Len(r.list) : r.list[i].reason = "Unschedulable"
  BY <1>1 DEF Failed
<1>7. Len(r.list) = IF Failed(first) THEN 2 * n ELSE n
  <2>1. CASE Len(r.list) = n /\ ~Failed(r.list)
    BY <1>5, <1>6, <2>1
  <2>2. CASE Len(r.list) = 2 * n /\ \E i \in 1..n : r.list[i].reason = "Unschedulable"
    BY <1>5, <2>2
  <2>3. QED
    BY <2>1, <2>2 DEF Published, Whole
<1>8. QED
  BY <1>1, <1>3, <1>7

-----------------------------------------------------------------------------
LEMMA InitInv == ASSUME Init PROVE Inv
<1>1. store \subseteq Placed
  BY PodAssumption DEF Init, Real, Placed, Name
<1>2. IsFiniteSet(store)
  <2>1. store = {Real(p) : p \in OldPod}
    BY DEF Init
  <2>2. [p \in OldPod |-> Real(p)] \in Surjection(OldPod, store)
    BY <2>1 DEF Surjection
  <2>3. QED
    BY <2>2, PodAssumption, FS_Surjection
<1>3. << >> \in Seq(DOMAIN Owns) /\ << >> \in Seq(Placed) /\ << >> \in Seq(Job)
      /\ << >> \in Seq(Review)
  OBVIOUS
<1>4. QED
  BY <1>1, <1>2, <1>3, FS_EmptySet DEF Init, Inv, Typed, Listed, Published, NoJob, Job

(* Steps that add no pod and touch neither the queue nor the worker.       *)
LEMMA FinitePart ==
  ASSUME NEW S, IsFiniteSet(S), NEW x, NEW T, T \subseteq S \cup {x}
  PROVE  IsFiniteSet(T)
BY FS_AddElement, FS_Subset

LEMMA RealPlaced == \A p \in OldPod : Real(p) \in Placed
BY PodAssumption DEF Real, Placed, Name

(* The real cluster, and what the scheduler hears of the store.            *)
Elsewhere ==
  \/ \E p \in OldPod : PodGoes(p) \/ PodComes(p)
  \/ \E name \in Names(store \cup cache) : CacheLearns(name)
  \/ \E x \in nominated : NominationEnds(x)

LEMMA ClusterStep ==
  ASSUME Inv, Elsewhere
  PROVE  Inv'
<1>1. UNCHANGED <<handlerVars, waiting, workerVars>> /\ nominated' \subseteq nominated
  BY DEF Elsewhere, PodGoes, PodComes, CacheLearns, NominationEnds
<1>2. store' \subseteq Placed /\ IsFiniteSet(store') /\ IsFiniteSet(nominated')
  <2>1. ASSUME NEW p \in OldPod, PodGoes(p) \/ PodComes(p)
        PROVE  store' \subseteq Placed /\ IsFiniteSet(store')
    <3>1. store' \subseteq store \cup {Real(p)}
      BY <2>1 DEF PodGoes, PodComes
    <3>2. QED
      BY <3>1, FinitePart, RealPlaced DEF Inv, Typed
  <2>2. ASSUME NEW x, CacheLearns(x) \/ NominationEnds(x) PROVE store' = store
    BY <2>2 DEF CacheLearns, NominationEnds
  <2>3. QED
    BY <1>1, <2>1, <2>2, FS_Subset DEF Elsewhere, Inv, Typed
<1>3. Typed'
  BY <1>1, <1>2 DEF Inv, Typed, handlerVars, workerVars
<1>4. Listed' /\ Published'
  BY <1>1 DEF Inv, Listed, InRound, Published, workerVars
<1>5. QED
  BY <1>3, <1>4 DEF Inv

(* The handler: only lists of pods enter the queue.                        *)
LEMMA HandlerStep ==
  ASSUME Inv, Handler \/ \E ds \in Requests : Request(ds) PROVE Inv'
<1>0. Typed
  BY DEF Inv
<1>1. << >> \in Seq(DOMAIN Owns) /\ << >> \in Seq(Placed)
  OBVIOUS
<1>2. ASSUME NEW ds \in Requests, Request(ds) PROVE Typed'
  <2>1. NewKey \in Key
    BY <1>0, <1>2 DEF Typed, Request, NewKey
  <2>2. ds \in Seq(DOMAIN Owns)
    BY RequestAssumption
  <2>3. QED
    BY <1>0, <1>1, <1>2, <2>1, <2>2 DEF Request, Typed, storeVars, workerVars
<1>3. ASSUME ListPods PROVE Typed'
  <2>1. PICK pods \in SetToSeqs(Selected(Head(handler.left))) :
          handler' = [key |-> handler.key, left |-> Tail(handler.left),
                      old |-> handler.old \o pods]
    BY <1>3 DEF ListPods
  <2>2. Selected(Head(handler.left)) \subseteq store
    BY DEF Selected
  <2>3. IsFiniteSet(Selected(Head(handler.left)))
    BY <1>0, <2>2, FS_Subset DEF Typed
  <2>4. Cardinality(Selected(Head(handler.left))) \in Nat
    BY <2>3, FS_CardinalityType
  <2>5. pods \in Seq(Selected(Head(handler.left)))
    BY <2>4 DEF SetToSeqs
  <2>6. pods \in Seq(Placed)
    BY <1>0, <2>2, <2>5, SeqMonotonic DEF Typed
  <2>7. Tail(handler.left) \in Seq(DOMAIN Owns)
    BY <1>0, <1>3 DEF Typed, ListPods
  <2>8. handler.old \o pods \in Seq(Placed)
    BY <1>0, <2>6 DEF Typed
  <2>9. QED
    BY <1>0, <1>3, <2>1, <2>7, <2>8 DEF ListPods, Typed, storeVars, workerVars
<1>4. ASSUME RequestFails PROVE Typed'
  <2>1. handler' \in [key : Key \cup {None}, left : Seq(DOMAIN Owns), old : Seq(Placed)]
    BY <1>1, <1>4 DEF RequestFails, NoRequest
  <2>2. UNCHANGED <<store, nominated, used, waiting, job, pc, at, round, runs, reportlist>>
    BY <1>4 DEF RequestFails, storeVars
  <2>3. QED
    BY <1>0, <2>1, <2>2 DEF Typed
<1>5. ASSUME Push PROVE Typed'
  <2>1. [key |-> handler.key, old |-> handler.old] \in Job
    BY <1>0 DEF Typed, Job
  <2>2. waiting' \in Seq(Job)
    BY <1>0, <1>5, <2>1 DEF Typed, Push
  <2>3. QED
    <3>1. handler' \in [key : Key \cup {None}, left : Seq(DOMAIN Owns), old : Seq(Placed)]
      BY <1>1, <1>5 DEF Push, NoRequest
    <3>2. UNCHANGED <<store, nominated, used, job, pc, at, round, runs, reportlist>>
      BY <1>5 DEF Push, storeVars, workerVars
    <3>3. QED
      BY <1>0, <2>2, <3>1, <3>2 DEF Typed
<1>6. Typed'
  BY <1>2, <1>3, <1>4, <1>5 DEF Handler
<1>7. UNCHANGED <<job, pc, at, round, reportlist, emulatorResult>>
  BY DEF Handler, ListPods, RequestFails, Push, Request, workerVars
<1>8. QED
  BY <1>6, <1>7 DEF Inv, Listed, InRound, Published

-----------------------------------------------------------------------------
(* The worker.                                                             *)
LEMMA PopStep == ASSUME Inv, PopJob PROVE Inv'
<1>1. Head(waiting) \in Job /\ Tail(waiting) \in Seq(Job)
  BY DEF Inv, Typed, PopJob
<1>2. << >> \in Seq(Review)
  OBVIOUS
<1>3. Typed'
  BY <1>1, <1>2 DEF Inv, Typed, PopJob, storeVars, handlerVars
<1>4. Listed'
  BY DEF Listed, PopJob
<1>5. Published'
  BY DEF Inv, Published, PopJob
<1>6. QED
  BY <1>3, <1>4, <1>5 DEF Inv

(* A job that is dropped leaves nothing to show.                           *)
LEMMA DropStep ==
  ASSUME Inv, Drop, UNCHANGED <<store, nominated, handlerVars, waiting, job, round,
                                reportlist, emulatorResult>>,
         runs' \in Nat
  PROVE  Inv'
BY DEF Inv, Typed, Listed, Published, Drop, handlerVars

LEMMA DeleteStep == ASSUME Inv, DeleteOld PROVE Inv'
<1>1. CASE job.old[at].name \notin Names(store)
  BY <1>1, DropStep DEF DeleteOld, OldPodMissing, Inv, Typed
<1>2. CASE job.old[at].name \in Names(store)
  <2>1. store' \subseteq store /\ at' = at + 1 /\ pc' = "delete"
    BY <1>2 DEF DeleteOld, Advance
  <2>2. IsFiniteSet(store')
    BY <2>1, FS_Subset DEF Inv, Typed
  <2>3. Typed'
    BY <2>1, <2>2 DEF Inv, Typed, DeleteOld, handlerVars
  <2>4. Listed' /\ Published'
    BY <2>1 DEF Inv, Listed, Published, DeleteOld
  <2>5. QED
    BY <2>3, <2>4 DEF Inv
<1>3. QED
  BY <1>1, <1>2

LEMMA OldLength == ASSUME Inv PROVE Len(job.old) \in Nat /\ job.old \in Seq(Placed)
BY DEF Inv, Typed, Job

LEMMA MoveStep ==
  ASSUME Inv, DeletedAll \/ AppsDone \/ Cleaned PROVE Inv'
<1>1. Typed'
  BY DEF Inv, Typed, DeletedAll, AppsDone, Cleaned, Goto, storeVars, handlerVars
<1>2. Published'
  BY DEF Inv, Published, DeletedAll, AppsDone, Cleaned
<1>3. CASE DeletedAll
  <2>1. /\ round = 1 /\ reportlist = << >> /\ pc' = "apps" /\ at' = 1
        /\ UNCHANGED <<job, round, reportlist>>
    BY <1>3 DEF Inv, Listed, DeletedAll, Goto
  <2>2. InRound(at - 1)'
    BY <2>1, OldLength DEF InRound
  <2>3. Listed'
    BY <2>1, <2>2, OldLength DEF Listed
  <2>4. QED
    BY <1>1, <1>2, <2>3 DEF Inv
<1>4. CASE AppsDone
  <2>0. at \in Nat /\ at <= Len(job.old) + 1 /\ at > Len(job.old) /\ InRound(at - 1)
    BY <1>4 DEF Inv, Typed, Listed, AppsDone
  <2>1. at - 1 = Len(job.old)
    BY <2>0, OldLength
  <2>2. InRound(Len(job.old))
    BY <2>0, <2>1
  <2>3. InRound(Len(job.old))' /\ pc' = "clean"
    BY <1>4, <2>2 DEF InRound, AppsDone, Goto
  <2>4. QED
    BY <1>1, <1>2, <2>3, <1>4 DEF Inv, Listed, AppsDone
<1>5. CASE Cleaned /\ Fallback
  <2>1. /\ InRound(Len(job.old)) /\ round = 1 /\ round' = 2 /\ at' = 1 /\ pc' = "apps"
        /\ UNCHANGED <<job, reportlist>>
    BY <1>5 DEF Inv, Listed, Cleaned, Fallback, Goto
  <2>2. Len(reportlist) = Len(job.old) /\ reportlist \in Seq(Review)
    BY <2>1 DEF InRound, Inv, Typed
  <2>3. \E i \in 1..Len(job.old) : reportlist[i].reason = "Unschedulable"
    BY <1>5, <2>2 DEF Fallback, Failed
  <2>4. InRound(0)'
    BY <2>1, <2>2, <2>3, OldLength DEF InRound
  <2>5. Listed'
    BY <2>1, <2>4, OldLength DEF Listed
  <2>6. QED
    BY <1>1, <1>2, <2>5 DEF Inv
<1>6. CASE Cleaned /\ ~Fallback
  <2>1. /\ InRound(Len(job.old)) /\ round' = round /\ pc' = "restore"
        /\ UNCHANGED <<job, reportlist>>
    BY <1>6 DEF Inv, Listed, Cleaned, Goto
  <2>2. round = 1 => ~Failed(reportlist)
    BY <1>6 DEF Fallback
  <2>3. InRound(Len(job.old))'
    BY <2>1 DEF InRound
  <2>4. round' = 1 => ~Failed(reportlist')
    BY <2>1, <2>2
  <2>5. Listed'
    BY <2>1, <2>3, <2>4 DEF Listed, Failed
  <2>6. QED
    BY <1>1, <1>2, <2>5 DEF Inv
<1>7. QED
  <2>1. CASE Cleaned
    BY <1>5, <1>6, <2>1
  <2>2. QED
    BY <1>1, <1>2, <1>3, <1>4, <2>1 DEF Inv

LEMMA CreateStep == ASSUME Inv, NEW ok \in CreateOutcomes, CreateApp(ok) PROVE Inv'
<1>1. CASE ~ok
  BY <1>1, DropStep DEF CreateApp, Inv, Typed
<1>2. CASE ok
  <2>1. job.old[at] \in Placed
    BY OldLength DEF Inv, Typed, CreateApp
  <2>2. [Copy EXCEPT !.name = runs + 1] \in Placed
    <3>1. [Copy EXCEPT !.name = runs + 1]
            = [name |-> runs + 1, node |-> None, like |-> job.old[at].like]
      BY DEF Copy
    <3>2. job.old[at].like \in OldPod /\ runs + 1 \in Name
      BY <2>1 DEF Placed, Name, Inv, Typed
    <3>3. QED
      BY <3>1, <3>2 DEF Placed
  <2>3. store' = store \cup {[Copy EXCEPT !.name = runs + 1]} /\ pc' = "wait" /\ at' = at
    BY <1>2 DEF CreateApp
  <2>4. IsFiniteSet(store')
    BY <2>3, FS_AddElement DEF Inv, Typed
  <2>5. Typed'
    <3>1. store' \subseteq Placed
      BY <2>2, <2>3 DEF Inv, Typed
    <3>2. /\ runs' = runs + 1
          /\ UNCHANGED <<nominated, handlerVars, waiting, job, round, reportlist>>
      BY DEF CreateApp
    <3>3. QED
      BY <2>3, <2>4, <3>1, <3>2 DEF Inv, Typed, handlerVars
  <2>6. InRound(at - 1) /\ at <= Len(job.old)
    BY DEF Inv, Listed, CreateApp
  <2>7. InRound(at - 1)'
    BY <2>3, <2>6 DEF InRound, CreateApp
  <2>8. Listed' /\ Published'
    BY <2>3, <2>6, <2>7 DEF Inv, Listed, Published, CreateApp
  <2>9. QED
    BY <2>5, <2>8 DEF Inv
<1>3. QED
  BY <1>1, <1>2

(* One more review, on the pod's own node if it is of the first round.     *)
LEMMA ReviewStep ==
  ASSUME Inv, pc = "wait", NEW review \in Review,
         round = 1 => OnOwnNode(review, job.old[at]),
         reportlist' = Append(reportlist, review),
         pc' = "apps", at' = at + 1,
         UNCHANGED <<handlerVars, waiting, job, round, runs, emulatorResult>>,
         store' \subseteq Placed, IsFiniteSet(store'),
         nominated' \subseteq Placed, IsFiniteSet(nominated')
  PROVE  Inv'
<1>1. /\ reportlist \in Seq(Review) /\ Len(job.old) \in Nat /\ at \in Nat \ {0}
      /\ at <= Len(job.old) /\ InRound(at - 1)
  BY OldLength DEF Inv, Typed, Listed
<1>2. /\ reportlist' \in Seq(Review)
      /\ Len(reportlist') = Len(reportlist) + 1
      /\ reportlist'[Len(reportlist) + 1] = review
      /\ \A i \in 1..Len(reportlist) : reportlist'[i] = reportlist[i]
  BY <1>1, AppendProperties
<1>3. Typed'
  BY <1>1, <1>2 DEF Inv, Typed, handlerVars
<1>4. InRound(at - 1)'
  <2>1. CASE round = 1
    <3>1. Len(reportlist) = at - 1
      BY <1>1, <2>1 DEF InRound
    <3>2. \A i \in 1..Len(job.old) :
            i <= Len(reportlist') => OnOwnNode(reportlist'[i], job.old[i])
      BY <1>1, <1>2, <2>1, <3>1 DEF InRound
    <3>3. QED
      BY <1>1, <1>2, <2>1, <3>1, <3>2 DEF InRound
  <2>2. CASE round = 2
    <3>1. Len(reportlist) = Len(job.old) + at - 1
      BY <1>1, <2>2 DEF InRound
    <3>2. \A i \in 1..Len(job.old) : reportlist'[i] = reportlist[i]
      BY <1>1, <1>2, <3>1
    <3>3. Len(reportlist') = Len(job.old) + (at' - 1)
      BY <1>1, <1>2, <3>1
    <3>4. QED
      BY <1>1, <2>2, <3>1, <3>2, <3>3 DEF InRound
  <2>3. QED
    BY <2>1, <2>2 DEF Inv, Typed
<1>5. Listed'
  BY <1>1, <1>4 DEF Listed
<1>6. Published'
  BY DEF Inv, Published
<1>7. QED
  BY <1>3, <1>5, <1>6 DEF Inv

(* Preemption: what goes are the copy and pods it outranks.                *)
LEMMA PreemptStep ==
  ASSUME Typed, Copy \in Placed, Preempt
  PROVE  /\ store' \subseteq store
         /\ \A x \in store :
              \/ x \in store' \/ x = Copy
              \/ \E y \in cache : y.name = x.name /\ Outranks(Copy, y)
         /\ nominated' \subseteq Placed /\ IsFiniteSet(nominated')
<1>1. ASSUME NEW D, store' = Without(D), \A y \in D : y \in cache /\ Outranks(Copy, y)
      PROVE  /\ store' \subseteq store
             /\ \A x \in store :
                  \/ x \in store' \/ x = Copy
                  \/ \E y \in cache : y.name = x.name /\ Outranks(Copy, y)
  BY <1>1 DEF Without, Names
<1>2. ASSUME NEW n \in Allowed
      PROVE  [Copy EXCEPT !.node = n] \in Placed
  BY DEF Allowed, Placed
<1>3. CASE store' = Without({}) /\ UNCHANGED nominated
  BY <1>1, <1>3 DEF Typed
<1>4. ASSUME NEW n \in Allowed, NEW V \in Victims(n),
             NEW D \in SUBSET V, store' = Without(D),
             nominated' = nominated \/ nominated' = nominated \cup {[Copy EXCEPT !.node = n]}
      PROVE  /\ store' \subseteq store
             /\ \A x \in store :
                  \/ x \in store' \/ x = Copy
                  \/ \E y \in cache : y.name = x.name /\ Outranks(Copy, y)
             /\ nominated' \subseteq Placed /\ IsFiniteSet(nominated')
  <2>1. \A y \in D : y \in cache /\ Outranks(Copy, y)
    BY DEF Victims
  <2>2. ASSUME NEW c \in Placed, nominated' = nominated \/ nominated' = nominated \cup {c}
        PROVE  nominated' \subseteq Placed /\ IsFiniteSet(nominated')
    <3>1. IsFiniteSet(nominated) /\ IsFiniteSet(nominated \cup {c})
      BY FS_AddElement DEF Typed
    <3>2. QED
      BY <2>2, <3>1 DEF Typed
  <2>3. nominated' \subseteq Placed /\ IsFiniteSet(nominated')
    BY <1>2, <1>4, <2>2
  <2>4. QED
    BY <1>1, <1>4, <2>1, <2>3
<1>5. QED
  BY <1>3, <1>4 DEF Preempt

LEMMA OutcomeStep ==
  ASSUME Inv, RejectApp \/ \E n \in Node : PlaceApp(n) PROVE Inv'
<1>0. pc = "wait"
  BY DEF RejectApp, PlaceApp
<1>1. pc = "wait" /\ job.old[at] \in Placed
  BY <1>0, OldLength DEF Inv, Typed, Listed
<1>2. Copy \in Placed
  BY <1>1 DEF Copy, Placed, Name, Inv, Typed
<1>3. CASE RejectApp
  <2>1. /\ store' \subseteq store
        /\ nominated' \subseteq Placed /\ IsFiniteSet(nominated')
    BY <1>2, <1>3, PreemptStep DEF RejectApp, Inv
  <2>2. store' \subseteq Placed /\ IsFiniteSet(store')
    BY <2>1, FS_Subset DEF Inv, Typed
  <2>3. [reason |-> "Unschedulable", node |-> None] \in Review
    BY DEF Review
  <2>4. OnOwnNode([reason |-> "Unschedulable", node |-> None], job.old[at])
    BY DEF OnOwnNode
  <2>5. QED
    BY <1>1, <1>3, <2>1, <2>2, <2>3, <2>4, ReviewStep DEF RejectApp
<1>4. ASSUME NEW n \in Node, PlaceApp(n) PROVE Inv'
  <2>1. [Copy EXCEPT !.node = n] \in Placed
    BY <1>2 DEF Placed
  <2>2. store' \subseteq store \cup {[Copy EXCEPT !.node = n]}
    BY <1>4 DEF PlaceApp, Bind
  <2>3. store' \subseteq Placed /\ IsFiniteSet(store')
    BY <2>1, <2>2, FinitePart DEF Inv, Typed
  <2>4. [reason |-> "Schedulable", node |-> n] \in Review
    BY DEF Review
  <2>5. round = 1 => OnOwnNode([reason |-> "Schedulable", node |-> n], job.old[at])
    BY <1>4 DEF PlaceApp, Allowed, OnOwnNode
  <2>6. QED
    BY <1>1, <1>4, <2>3, <2>4, <2>5, ReviewStep DEF PlaceApp, Inv, Typed
<1>5. QED
  BY <1>3, <1>4

LEMMA CleanStep == ASSUME Inv, NEW x \in store, CleanPod(x) PROVE Inv'
<1>1. store' \subseteq store
  BY DEF CleanPod
<1>2. IsFiniteSet(store')
  BY <1>1, FS_Subset DEF Inv, Typed
<1>3. QED
  BY <1>1, <1>2 DEF Inv, Typed, Listed, InRound, Published, CleanPod, handlerVars, workerVars

LEMMA RestoreStep == ASSUME Inv, RestoreOld PROVE Inv'
<1>1. CASE job.old[at].name \in Names(store)
  BY <1>1, DropStep DEF RestoreOld, Inv, Typed
<1>2. CASE job.old[at].name \notin Names(store)
  <2>1. job.old[at] \in Placed
    BY OldLength DEF Inv, Typed, RestoreOld
  <2>2. store' = store \cup {job.old[at]} /\ at' = at + 1 /\ pc' = pc
    BY <1>2 DEF RestoreOld, Restored, Advance
  <2>3. store' \subseteq Placed /\ IsFiniteSet(store')
    BY <2>1, <2>2, FS_AddElement DEF Inv, Typed
  <2>4. Typed'
    BY <2>2, <2>3 DEF Inv, Typed, RestoreOld, handlerVars
  <2>5. InRound(Len(job.old)) /\ (round = 1 => ~Failed(reportlist)) /\ pc = "restore"
    BY DEF Inv, Listed, RestoreOld
  <2>6. InRound(Len(job.old))'
    BY <2>5 DEF InRound, RestoreOld
  <2>7. Listed'
    BY <2>2, <2>5, <2>6 DEF Listed, RestoreOld, Failed
  <2>8. Published'
    BY DEF Inv, Published, RestoreOld
  <2>9. QED
    BY <2>4, <2>7, <2>8 DEF Inv
<1>3. QED
  BY <1>1, <1>2

LEMMA PublishStep == ASSUME Inv, Publish PROVE Inv'
<1>1. Typed'
  BY DEF Inv, Typed, Publish, storeVars, handlerVars
<1>2. Listed'
  BY DEF Listed, Publish
<1>3. /\ InRound(Len(job.old)) /\ (round = 1 => ~Failed(reportlist))
      /\ round \in {1, 2} /\ Len(job.old) \in Nat
  BY OldLength DEF Inv, Typed, Listed, Publish
<1>4. Whole(job.old, reportlist)
  BY <1>3 DEF InRound, Whole
<1>5. Published'
  BY <1>4 DEF Inv, Typed, Published, Publish
<1>6. QED
  BY <1>1, <1>2, <1>5 DEF Inv

LEMMA StepInv == ASSUME Inv, [Next]_vars PROVE Inv'
<1>1. CASE Worker
  BY <1>1, PopStep, DeleteStep, MoveStep, CreateStep, OutcomeStep, CleanStep, RestoreStep,
     PublishStep DEF Worker
<1>2. CASE UNCHANGED vars
  BY <1>2 DEF vars, clusterVars, storeVars, handlerVars, workerVars, Inv, Typed, Listed, InRound,
     Published
<1>3. QED
  BY <1>1, <1>2, ClusterStep, HandlerStep DEF Next, Elsewhere

(* Each published list is one whole round or two, for any pods and any     *)
(* requests, whatever is deleted, comes back or fails meanwhile            *)
(* (VerticalEmulator, 997-1081).                                           *)
THEOREM WholeRoundsOnly == Spec => []RoundsAreWhole
<1>1. Init => Inv
  BY InitInv
<1>2. Inv /\ [Next]_vars => Inv'
  BY StepInv
<1>3. Inv => RoundsAreWhole
  BY WholeRounds DEF Inv
<1>4. QED
  BY <1>1, <1>2, <1>3, PTL DEF Spec

-----------------------------------------------------------------------------
(* Old pods come back.  Whatever is listed, stored or cached under the     *)
(* name of an old pod is that pod on its own node, and what has a number   *)
(* was created; a pod that the worker has deleted is due to be created     *)
(* again until that is done or the job is dropped; and one that preemption *)
(* has deleted is outranked in the job under way, which has failed for     *)
(* some, or in one that has ended so.                                      *)
Homed(x) == /\ x.name \in OldPod => x = Real(x.name)
            /\ IsSimulated(x) => x.name <= runs
AllHomed(s) == \A i \in DOMAIN s : Homed(s[i])

Faithful ==
  /\ \A x \in store \cup cache : Homed(x)
  /\ AllHomed(handler.old) /\ AllHomed(job.old)
  /\ \A j \in DOMAIN waiting : AllHomed(waiting[j].old)

Due(i) == \/ pc = "delete" /\ i < at
          \/ pc \in {"apps", "wait", "clean"}
          \/ pc = "restore" /\ i >= at

Kept(p) == Real(p) \in store \/ \E i \in DOMAIN job.old : job.old[i] = Real(p) /\ Due(i)

Safe(p) == /\ changes[p] = 0 /\ ~InHand(p)
           /\ \A j \in Failing : ~OutrankedIn(j, p)
           /\ pc # "pop" /\ Failed(reportlist) => ~OutrankedIn(job, p)

AllKept == \A p \in OldPod : Safe(p) => Kept(p)

(* As long as no job is given up the worker deletes every copy, and a job   *)
(* that has a copy on its list (listed by a request that came in while it  *)
(* was being simulated) is dropped.                                        *)
NoCopies ==
  GivenUp = {} =>
    /\ pc \in {"pop", "delete", "restore"} => \A x \in store : ~IsSimulated(x)
    /\ \A i \in DOMAIN job.old :
         (pc = "delete" /\ i < at) \/ pc \in {"apps", "wait", "clean", "restore"}
           => ~IsSimulated(job.old[i])

ReturnInv == changes \in [OldPod -> Nat] /\ Faithful /\ AllKept /\ NoCopies

(* A copy is no old pod.                                                   *)
LEMMA CopyIsNew ==
  ASSUME NEW x, x.name \in Nat
  PROVE  x.name \notin OldPod /\ \A p \in OldPod : x # Real(p)
BY PodAssumption DEF Real

LEMMA RealIsOld ==
  ASSUME NEW p \in OldPod
  PROVE  /\ Real(p).name = p /\ Homed(Real(p)) /\ ~IsSimulated(Real(p))
BY PodAssumption DEF Real, Homed, IsSimulated

LEMMA InitReturn == ASSUME Init PROVE ReturnInv
<1>1. \A x \in store \cup cache : Homed(x) /\ ~IsSimulated(x)
  BY RealIsOld DEF Init
<1>2. \A p \in OldPod : Real(p) \in store
  BY DEF Init
<1>3. DOMAIN << >> = {}
  OBVIOUS
<1>4. Faithful
  BY <1>1, <1>3 DEF Init, Faithful, AllHomed, NoJob
<1>5. AllKept /\ NoCopies
  BY <1>1, <1>2, <1>3 DEF Init, AllKept, Kept, NoCopies, GivenUp, NoJob
<1>6. QED
  BY <1>4, <1>5 DEF ReturnInv, Init

(* More jobs that failed, dropped or published, only weaken what is        *)
(* claimed.                                                                *)
LEMMA FailingGrows ==
  ASSUME dropped \subseteq dropped', emulatorResult \subseteq emulatorResult'
  PROVE  Failing \subseteq Failing'
BY DEF Failing

LEMMA SafeBefore ==
  ASSUME UNCHANGED changes, dropped \subseteq dropped', emulatorResult \subseteq emulatorResult',
         pc # "pop" /\ Failed(reportlist) =>
           \/ pc' # "pop" /\ job' = job /\ Failed(reportlist')
           \/ job \in Failing',
         NEW p, Safe(p)'
  PROVE  Safe(p)
<1>1. Failing \subseteq Failing'
  BY FailingGrows
<1>2. ~InHand(p)
  BY DEF Safe, InHand
<1>3. \A j : OutrankedIn(j, p)' = OutrankedIn(j, p)
  BY DEF OutrankedIn
<1>4. \A j \in Failing' : ~OutrankedIn(j, p)
  BY DEF Safe, OutrankedIn
<1>5. pc # "pop" /\ Failed(reportlist) => ~OutrankedIn(job, p)
  BY <1>4 DEF Safe, OutrankedIn
<1>6. QED
  BY <1>1, <1>2, <1>4, <1>5 DEF Safe

LEMMA ClusterReturn ==
  ASSUME Inv, ReturnInv, Elsewhere
  PROVE  ReturnInv'
<1>1. UNCHANGED <<handler, waiting, job, pc, at, runs, reportlist, emulatorResult, dropped>>
  BY DEF Elsewhere, PodGoes, PodComes, CacheLearns, NominationEnds, handlerVars, workerVars
<1>2. ASSUME NEW p \in OldPod, PodGoes(p) \/ PodComes(p) PROVE ReturnInv'
  <2>1. /\ changes' = [changes EXCEPT ![p] = @ + 1]
        /\ \A x \in store' \cup cache' : x \in store \cup cache \/ x = Real(p)
        /\ \A x \in store' : x \in store \/ x = Real(p)
        /\ \A q \in OldPod \ {p} : Real(q) \in store => Real(q) \in store'
    BY <1>2, RealIsOld DEF PodGoes, PodComes
  <2>2. /\ changes' \in [OldPod -> Nat] /\ changes'[p] # 0
        /\ \A q \in OldPod \ {p} : changes'[q] = changes[q]
    BY <2>1 DEF ReturnInv
  <2>3. Faithful'
    BY <1>1, <2>1, RealIsOld DEF ReturnInv, Faithful, Homed, AllHomed, IsSimulated
  <2>4. AllKept'
    <3>1. ASSUME NEW q \in OldPod, Safe(q)' PROVE q # p /\ Safe(q)
      BY <1>1, <2>2, <3>1 DEF Safe, InHand, Failing, OutrankedIn
    <3>2. QED
      BY <1>1, <2>1, <3>1 DEF ReturnInv, AllKept, Kept, Due
  <2>5. NoCopies'
    BY <1>1, <2>1, RealIsOld DEF ReturnInv, NoCopies, GivenUp
  <2>6. QED
    BY <2>2, <2>3, <2>4, <2>5 DEF ReturnInv
<1>3. ASSUME NEW y, CacheLearns(y) \/ NominationEnds(y) PROVE ReturnInv'
  <2>1. UNCHANGED <<store, changes>> /\ cache' \subseteq store \cup cache
    BY <1>3 DEF CacheLearns, Known, NominationEnds, clusterVars
  <2>2. Faithful' /\ NoCopies'
    BY <1>1, <2>1 DEF ReturnInv, Faithful, Homed, AllHomed, NoCopies, GivenUp, IsSimulated
  <2>3. AllKept'
    BY <1>1, <2>1 DEF ReturnInv, AllKept, Safe, Failing, OutrankedIn, Kept, Due, InHand
  <2>4. QED
    BY <2>1, <2>2, <2>3 DEF ReturnInv
<1>4. QED
  BY <1>2, <1>3 DEF Elsewhere

LEMMA HandlerReturn ==
  ASSUME Inv, ReturnInv, Handler \/ \E ds \in Requests : Request(ds) PROVE ReturnInv'
<1>1. /\ UNCHANGED <<store, cache, changes, job, pc, at, runs, reportlist, emulatorResult>>
      /\ dropped \subseteq dropped'
  BY DEF Handler, ListPods, RequestFails, Push, Request, clusterVars, storeVars, workerVars
<1>2. AllKept'
  BY <1>1, SafeBefore DEF ReturnInv, AllKept, Kept, Due
<1>3. NoCopies'
  BY <1>1 DEF ReturnInv, NoCopies, GivenUp
<1>4. AllHomed(<< >>)
  BY DEF AllHomed
<1>5. Faithful'
  <2>0. Faithful /\ handler.old \in Seq(Placed) /\ waiting \in Seq(Job)
    BY DEF ReturnInv, Inv, Typed
  <2>1. CASE RequestFails \/ \E ds \in Requests : Request(ds)
    <3>1. handler'.old = << >> /\ waiting' = waiting
      BY <2>1 DEF RequestFails, NoRequest, Request
    <3>2. QED
      BY <1>1, <1>4, <2>0, <3>1 DEF Faithful, Homed, AllHomed, IsSimulated
  <2>2. CASE ListPods
    <3>1. PICK pods \in SetToSeqs(Selected(Head(handler.left))) :
            handler' = [key |-> handler.key, left |-> Tail(handler.left),
                        old |-> handler.old \o pods]
      BY <2>2 DEF ListPods
    <3>2. pods \in Seq(store) /\ store \subseteq Placed
      <4>1. Selected(Head(handler.left)) \subseteq store
        BY DEF Selected
      <4>2. Cardinality(Selected(Head(handler.left))) \in Nat
        BY <4>1, FS_Subset, FS_CardinalityType DEF Inv, Typed
      <4>3. pods \in Seq(Selected(Head(handler.left)))
        BY <4>2 DEF SetToSeqs
      <4>4. QED
        BY <4>1, <4>3, SeqMonotonic DEF Inv, Typed
    <3>3. AllHomed(handler.old) /\ AllHomed(pods)
      BY <2>0, <3>2 DEF Faithful, AllHomed
    <3>4. AllHomed(handler.old \o pods)
      <4>1. pods \in Seq(Placed)
        BY <3>2, SeqMonotonic
      <4>2. QED
        BY <2>0, <3>3, <4>1 DEF AllHomed
    <3>5. handler'.old = handler.old \o pods /\ waiting' = waiting
      BY <2>2, <3>1 DEF ListPods
    <3>6. QED
      BY <1>1, <2>0, <3>4, <3>5 DEF Faithful, Homed, AllHomed, IsSimulated
  <2>3. CASE Push
    <3>1. /\ handler'.old = << >>
          /\ waiting' = Append(waiting, [key |-> handler.key, old |-> handler.old])
      BY <2>3 DEF Push, NoRequest
    <3>2. [key |-> handler.key, old |-> handler.old] \in Job
      BY DEF Inv, Typed, Job
    <3>3. \A j \in DOMAIN waiting' : AllHomed(waiting'[j].old)
      BY <2>0, <3>1, <3>2, AppendProperties DEF Faithful
    <3>4. QED
      BY <1>1, <1>4, <2>0, <3>1, <3>3 DEF Faithful, Homed, AllHomed, IsSimulated
  <2>4. QED
    BY <2>1, <2>2, <2>3 DEF Handler
<1>6. QED
  BY <1>1, <1>2, <1>3, <1>5 DEF ReturnInv

(* What a step of the worker on its job has to show.                       *)
LEMMA FaithfulStep ==
  ASSUME Faithful, UNCHANGED <<handler, waiting, job>>,
         runs \in Nat, runs' \in {runs, runs + 1},
         \A x \in store' \cup cache' :
           x \in store \cup cache \/ Homed(x) \/ (x.name \in Nat /\ x.name <= runs')
  PROVE  Faithful'
<1>1. \A x : Homed(x) => Homed(x)'
  BY DEF Homed, IsSimulated
<1>2. \A x : x.name \in Nat /\ x.name <= runs' => Homed(x)'
  BY CopyIsNew DEF Homed, IsSimulated
<1>3. QED
  BY <1>1, <1>2 DEF Faithful, AllHomed

LEMMA KeptStep ==
  ASSUME AllKept, UNCHANGED <<changes, job>>, dropped \subseteq dropped',
         emulatorResult \subseteq emulatorResult',
         pc # "pop" /\ Failed(reportlist) =>
           (pc' # "pop" /\ Failed(reportlist')) \/ job \in Failing',
         \A p \in OldPod : Kept(p) /\ Safe(p)' => Kept(p)'
  PROVE  AllKept'
BY SafeBefore DEF AllKept

(* The worker.                                                             *)
LEMMA PopReturn == ASSUME Inv, ReturnInv, PopJob PROVE ReturnInv'
<1>1. /\ pc = "pop" /\ waiting # << >> /\ job' = Head(waiting) /\ waiting' = Tail(waiting)
      /\ pc' = "delete" /\ at' = 1
      /\ UNCHANGED <<store, cache, changes, handler, runs, emulatorResult, dropped>>
  BY DEF PopJob, clusterVars, storeVars, handlerVars
<1>2. waiting \in Seq(Job)
  BY DEF Inv, Typed
<1>3. /\ job' = waiting[1] /\ 1 \in DOMAIN waiting
      /\ \A j \in DOMAIN waiting' : waiting'[j] = waiting[j + 1] /\ j + 1 \in DOMAIN waiting
  BY <1>1, <1>2
<1>4. Faithful'
  BY <1>1, <1>3 DEF ReturnInv, Faithful, Homed, AllHomed, IsSimulated
<1>5. \A p \in OldPod : Kept(p) => Real(p) \in store
  BY <1>1 DEF Kept, Due
<1>6. AllKept'
  BY <1>1, <1>5, SafeBefore DEF ReturnInv, AllKept, Kept
<1>7. job'.old \in Seq(Placed)
  <2>1. waiting[1] \in Job
    BY <1>2, <1>3
  <2>2. QED
    BY <1>3, <2>1 DEF Job
<1>8. NoCopies'
  BY <1>1, <1>7 DEF ReturnInv, NoCopies, GivenUp
<1>9. QED
  BY <1>1, <1>4, <1>6, <1>8 DEF ReturnInv

(* A dropped job has in hand whatever was due.                             *)
LEMMA DropReturn ==
  ASSUME Inv, ReturnInv, at <= Len(job.old), Drop, runs' \in {runs, runs + 1},
         UNCHANGED <<store, cache, changes, handler, waiting, job, emulatorResult>>
  PROVE  ReturnInv'
<1>1. job \in dropped' /\ dropped \subseteq dropped' /\ job \in Failing'
  BY DEF Drop, Failing
<1>2. ASSUME NEW p \in OldPod, Kept(p), Safe(p)' PROVE Real(p) \in store'
  <2>1. \A i \in DOMAIN job.old : job.old[i].name # p
    BY <1>1, <1>2 DEF Safe, InHand
  <2>2. QED
    BY <1>2, <2>1, RealIsOld DEF Kept
<1>3. AllKept'
  BY <1>1, <1>2, KeptStep DEF ReturnInv, Kept
<1>4. Faithful' /\ NoCopies'
  <2>1. job.old # << >> /\ runs \in Nat
    BY DEF Inv, Typed
  <2>2. GivenUp' # {}
    BY <1>1, <2>1 DEF GivenUp
  <2>3. QED
    BY <1>1, <2>1, <2>2, FaithfulStep DEF ReturnInv, NoCopies
<1>5. QED
  BY <1>3, <1>4 DEF ReturnInv

LEMMA DeleteReturn == ASSUME Inv, ReturnInv, DeleteOld PROVE ReturnInv'
<1>0. /\ UNCHANGED <<cache, changes, handler, waiting, job, runs, reportlist, emulatorResult>>
      /\ pc = "delete" /\ at <= Len(job.old) /\ runs \in Nat
  BY DEF DeleteOld, clusterVars, handlerVars, Inv, Typed
<1>1. CASE job.old[at].name \notin Names(store)
  BY <1>0, <1>1, DropReturn DEF DeleteOld, OldPodMissing
<1>2. CASE job.old[at].name \in Names(store)
  <2>1. /\ store' = {x \in store : x.name # job.old[at].name}
        /\ at' = at + 1 /\ pc' = "delete" /\ dropped' = dropped
    BY <1>2 DEF DeleteOld, Advance
  <2>2. at \in Nat /\ at \in DOMAIN job.old /\ \A i \in DOMAIN job.old : i \in Nat
    BY OldLength DEF Inv, Typed, DeleteOld
  <2>3. ASSUME NEW p \in OldPod, Kept(p) PROVE Kept(p)'
    <3>1. CASE Real(p) \in store /\ job.old[at].name # p
      BY <2>1, <3>1, RealIsOld DEF Kept
    <3>2. CASE job.old[at].name = p
      <4>1. job.old[at] = Real(p)
        BY <2>2, <3>2 DEF ReturnInv, Faithful, AllHomed, Homed
      <4>2. at < at' /\ job'.old[at] = Real(p) /\ at \in DOMAIN job'.old
        BY <1>0, <2>1, <2>2, <4>1
      <4>3. QED
        BY <2>1, <4>2 DEF Kept, Due
    <3>3. CASE Real(p) \notin store
      BY <1>0, <1>2, <2>1, <2>2, <2>3, <3>3 DEF Kept, Due
    <3>4. QED
      BY <3>1, <3>2, <3>3
  <2>4. Faithful' /\ AllKept'
    BY <1>0, <2>1, <2>3, FaithfulStep, KeptStep DEF ReturnInv
  <2>5. NoCopies'
    <3>1. GivenUp = {} => ~IsSimulated(job.old[at])
      BY <1>0, <1>2 DEF ReturnInv, NoCopies, GivenUp, Names, IsSimulated
    <3>2. ASSUME NEW i \in DOMAIN job.old, i < at' PROVE i < at \/ i = at
      BY <2>1, <2>2, <3>2
    <3>3. QED
      BY <1>0, <2>1, <3>1, <3>2 DEF ReturnInv, NoCopies, GivenUp
  <2>6. QED
    BY <1>0, <2>4, <2>5 DEF ReturnInv
<1>3. QED
  BY <1>1, <1>2

(* From one list to the next: all the old pods are deleted until the last  *)
(* round is over.                                                          *)
LEMMA MoveReturn ==
  ASSUME Inv, ReturnInv, DeletedAll \/ AppsDone \/ Cleaned PROVE ReturnInv'
<1>1. /\ UNCHANGED <<store, cache, changes, handler, waiting, job, runs, reportlist,
                     emulatorResult, dropped>>
      /\ runs \in Nat
  BY DEF DeletedAll, AppsDone, Cleaned, clusterVars, storeVars, handlerVars, Inv, Typed
<1>2. \A i \in DOMAIN job.old : i \in Nat /\ i >= 1 /\ i <= Len(job.old)
  BY OldLength
<1>3. \/ pc' \in {"apps", "clean"}
      \/ pc = "clean" /\ pc' = "restore" /\ at' = 1 /\ \A x \in store : ~IsSimulated(x)
  BY DEF DeletedAll, AppsDone, Cleaned, Goto
<1>4. \A i \in DOMAIN job.old : Due(i)'
  BY <1>2, <1>3 DEF Due
<1>5. AllKept' /\ Faithful'
  <2>1. \A p \in OldPod : Kept(p) => Kept(p)'
    BY <1>1, <1>4 DEF Kept
  <2>2. pc' # "pop"
    BY <1>3
  <2>3. QED
    BY <1>1, <2>1, <2>2, FaithfulStep, KeptStep DEF ReturnInv
<1>6. \A i \in DOMAIN job.old : (pc = "delete" /\ i < at) \/ pc \in {"apps", "clean"}
  BY <1>2, OldLength DEF DeletedAll, AppsDone, Cleaned, Inv, Typed
<1>7. NoCopies'
  BY <1>1, <1>3, <1>6 DEF ReturnInv, NoCopies, GivenUp
<1>8. QED
  BY <1>1, <1>5, <1>7 DEF ReturnInv

(* While the job is simulated copies come and go, and what is outranked.   *)
LEMMA SimulateReturn ==
  ASSUME ReturnInv, UNCHANGED <<changes, handler, waiting, job, emulatorResult, dropped>>,
         Failed(reportlist) => Failed(reportlist'),
         pc \in {"apps", "wait", "clean"}, pc' \in {"apps", "wait", "clean"},
         runs \in Nat, runs' \in {runs, runs + 1},
         \A x \in store' \cup cache' :
           x \in store \cup cache \/ (x.name \in Nat /\ x.name <= runs'),
         \A p \in OldPod : Real(p) \in store /\ Safe(p)' => Real(p) \in store'
  PROVE  ReturnInv'
<1>1. Faithful'
  BY FaithfulStep DEF ReturnInv
<1>2. AllKept'
  BY KeptStep DEF ReturnInv, Kept, Due
<1>3. NoCopies'
  BY DEF ReturnInv, NoCopies, GivenUp
<1>4. QED
  BY <1>1, <1>2, <1>3 DEF ReturnInv

LEMMA FailedStays ==
  ASSUME Inv, NEW review, review \in Review, reportlist' = Append(reportlist, review)
  PROVE  /\ Failed(reportlist) => Failed(reportlist')
         /\ review.reason = "Unschedulable" => Failed(reportlist')
<1>1. reportlist \in Seq(Review)
  BY DEF Inv, Typed
<1>2. /\ DOMAIN reportlist' = 1..(Len(reportlist) + 1) /\ DOMAIN reportlist = 1..Len(reportlist)
      /\ Len(reportlist) \in Nat /\ reportlist'[Len(reportlist) + 1] = review
      /\ \A i \in 1..Len(reportlist) : reportlist'[i] = reportlist[i]
  <2>1. reportlist' \in Seq(Review) /\ Len(reportlist') = Len(reportlist) + 1
    BY <1>1, AppendProperties
  <2>2. QED
    BY <1>1, <2>1, AppendProperties
<1>3. QED
  BY <1>2 DEF Failed

LEMMA RejectReturn == ASSUME Inv, ReturnInv, RejectApp PROVE ReturnInv'
<1>0. runs \in Nat /\ Copy.name = runs /\ Copy.like = job.old[at].like
  BY DEF Inv, Typed, Copy
<1>1. at \in DOMAIN job.old /\ Copy \in Placed
  <2>1. at \in DOMAIN job.old /\ job.old[at] \in Placed
    BY OldLength DEF RejectApp, Inv, Typed, Listed
  <2>2. QED
    BY <1>0, <2>1 DEF Copy, Placed, Name
<1>2. /\ store' \subseteq store
      /\ \A x \in store :
           \/ x \in store' \/ x = Copy
           \/ \E y \in cache : y.name = x.name /\ Outranks(Copy, y)
  BY <1>1, PreemptStep DEF RejectApp, Inv
<1>3. /\ pc = "wait" /\ pc' = "apps"
      /\ UNCHANGED <<cache, changes, handler, waiting, job, runs, emulatorResult, dropped>>
  BY DEF RejectApp, clusterVars, handlerVars
<1>4. Failed(reportlist')
  <2> DEFINE review == [reason |-> "Unschedulable", node |-> None]
  <2>1. review \in Review /\ review.reason = "Unschedulable"
    BY DEF Review
  <2>2. reportlist' = Append(reportlist, review)
    BY DEF RejectApp
  <2> HIDE DEF review
  <2>3. QED
    BY <2>1, <2>2, FailedStays
<1>5. ASSUME NEW p \in OldPod, Real(p) \in store, Safe(p)' PROVE Real(p) \in store'
  <2>1. ~OutrankedIn(job, p)
    BY <1>3, <1>4, <1>5 DEF Safe, OutrankedIn
  <2>2. Real(p) # Copy /\ Real(p).name = p
    BY <1>0, CopyIsNew, RealIsOld
  <2>3. ASSUME NEW y \in cache, y.name = p, Outranks(Copy, y) PROVE FALSE
    <3>1. y.like = p
      BY <2>3 DEF ReturnInv, Faithful, Homed, Real
    <3>2. QED
      BY <1>0, <1>1, <2>1, <2>3, <3>1 DEF Outranks, OutrankedIn
  <2>4. QED
    BY <1>2, <1>5, <2>2, <2>3
<1>6. QED
  BY <1>0, <1>2, <1>3, <1>4, <1>5, SimulateReturn

LEMMA AppReturn ==
  ASSUME Inv, ReturnInv,
         \/ \E ok \in CreateOutcomes : CreateApp(ok)
         \/ \E n \in Node : PlaceApp(n)
         \/ \E x \in store : CleanPod(x)
  PROVE  ReturnInv'
<1>0. runs \in Nat /\ Copy.name = runs
  BY DEF Inv, Typed, Copy
<1>1. ASSUME NEW ok \in CreateOutcomes, CreateApp(ok) PROVE ReturnInv'
  <2>1. /\ UNCHANGED <<cache, changes, handler, waiting, job, reportlist, emulatorResult>>
        /\ pc = "apps"
    BY <1>1 DEF CreateApp, clusterVars, handlerVars
  <2>2. CASE ~ok
    BY <1>1, <2>1, <2>2, DropReturn DEF CreateApp
  <2>3. CASE ok
    <3> DEFINE c == [Copy EXCEPT !.name = runs + 1]
    <3>1. /\ store' = store \cup {c}
          /\ pc' = "wait" /\ dropped' = dropped /\ runs' = runs + 1
      BY <1>1, <2>3 DEF CreateApp
    <3>2. c.name = runs'
      BY <1>0, <3>1 DEF Copy
    <3> HIDE DEF c
    <3>3. QED
      BY <1>0, <2>1, <3>1, <3>2, SimulateReturn
  <2>4. QED
    BY <2>2, <2>3
<1>2. ASSUME NEW n \in Node, PlaceApp(n) PROVE ReturnInv'
  <2> DEFINE c == [Copy EXCEPT !.node = n]
             review == [reason |-> "Schedulable", node |-> n]
  <2>1. /\ store' = (store \ {Copy}) \cup {c} /\ cache' = cache \cup {c}
        /\ reportlist' = Append(reportlist, review)
    BY <1>2 DEF PlaceApp, Bind
  <2>2. c.name = runs
    BY <1>0 DEF Copy
  <2>3. /\ UNCHANGED <<changes, handler, waiting, job, runs, emulatorResult, dropped>>
        /\ pc = "wait" /\ pc' = "apps"
    BY <1>2 DEF PlaceApp, clusterVars, handlerVars
  <2>4. review \in Review
    BY DEF Review
  <2> HIDE DEF c, review
  <2>5. \A p \in OldPod : Real(p) # Copy
    BY <1>0, CopyIsNew
  <2>6. QED
    BY <1>0, <2>1, <2>2, <2>3, <2>4, <2>5, FailedStays, SimulateReturn
<1>3. ASSUME NEW x \in store, CleanPod(x) PROVE ReturnInv'
  <2>1. /\ store' = store \ {x} /\ x.name \in Nat /\ pc = "clean" /\ pc' = "clean"
        /\ UNCHANGED <<cache, changes, handler, waiting, job, runs, reportlist, emulatorResult,
                       dropped>>
    BY <1>3 DEF CleanPod, IsSimulated, clusterVars, handlerVars, workerVars
  <2>2. \A p \in OldPod : Real(p) # x
    BY <2>1, CopyIsNew
  <2>3. QED
    BY <1>0, <2>1, <2>2, SimulateReturn
<1>4. QED
  BY <1>1, <1>2, <1>3

LEMMA RestoreReturn == ASSUME Inv, ReturnInv, RestoreOld PROVE ReturnInv'
<1>0. /\ UNCHANGED <<cache, changes, handler, waiting, job, runs, reportlist, emulatorResult>>
      /\ pc = "restore" /\ at <= Len(job.old) /\ runs \in Nat
  BY DEF RestoreOld, clusterVars, handlerVars, Inv, Typed
<1>1. CASE job.old[at].name \in Names(store)
  BY <1>0, <1>1, DropReturn DEF RestoreOld
<1>2. CASE job.old[at].name \notin Names(store)
  <2>1. /\ store' = store \cup {job.old[at]}
        /\ at' = at + 1 /\ pc' = "restore" /\ dropped' = dropped
    BY <1>0, <1>2 DEF RestoreOld, Restored, Advance
  <2>2. at \in Nat /\ at \in DOMAIN job.old /\ \A i \in DOMAIN job.old : i \in Nat
    BY OldLength DEF Inv, Typed, RestoreOld
  <2>3. Homed(job.old[at])
    BY <2>2 DEF ReturnInv, Faithful, AllHomed
  <2>4. ASSUME NEW p \in OldPod, Kept(p) PROVE Kept(p)'
    <3>1. CASE Real(p) \in store
      BY <2>1, <3>1 DEF Kept
    <3>2. CASE Real(p) \notin store
      <4>1. PICK i \in DOMAIN job.old : job.old[i] = Real(p) /\ i >= at
        BY <1>0, <2>4, <3>2 DEF Kept, Due
      <4>2. i = at \/ i >= at'
        BY <2>1, <2>2, <4>1
      <4>3. QED
        BY <1>0, <2>1, <4>1, <4>2 DEF Kept, Due
    <3>3. QED
      BY <3>1, <3>2
  <2>5. Faithful' /\ AllKept'
    BY <1>0, <2>1, <2>3, <2>4, FaithfulStep, KeptStep DEF ReturnInv
  <2>6. NoCopies'
    BY <1>0, <2>1, <2>2 DEF ReturnInv, NoCopies, GivenUp
  <2>7. QED
    BY <1>0, <2>5, <2>6 DEF ReturnInv
<1>3. QED
  BY <1>1, <1>2

LEMMA PublishReturn == ASSUME Inv, ReturnInv, Publish PROVE ReturnInv'
<1>1. /\ UNCHANGED <<store, cache, changes, handler, waiting, job, runs, dropped>>
      /\ runs \in Nat /\ emulatorResult \subseteq emulatorResult'
      /\ pc = "restore" /\ pc' = "pop" /\ at > Len(job.old) /\ at \in Nat
  BY DEF Publish, clusterVars, storeVars, handlerVars, Inv, Typed
<1>2. \A i \in DOMAIN job.old : ~(i >= at)
  BY <1>1, OldLength
<1>3. \A p \in OldPod : Kept(p) => Real(p) \in store
  BY <1>1, <1>2 DEF Kept, Due
<1>4. Faithful' /\ AllKept'
  <2>1. Failed(reportlist) => job \in Failing'
    <3> DEFINE r == [job |-> job, list |-> reportlist]
    <3>1. r \in emulatorResult' /\ r.job = job /\ r.list = reportlist
      BY DEF Publish
    <3> HIDE DEF r
    <3>2. QED
      BY <3>1 DEF Failing
  <2>2. QED
    BY <1>1, <1>3, <2>1, FaithfulStep, KeptStep DEF ReturnInv, Kept
<1>5. NoCopies'
  BY <1>1 DEF ReturnInv, NoCopies, GivenUp
<1>6. QED
  BY <1>1, <1>4, <1>5 DEF ReturnInv

LEMMA StepReturn == ASSUME Inv, ReturnInv, [Next]_vars PROVE ReturnInv'
<1>1. CASE Worker
  BY <1>1, PopReturn, DeleteReturn, MoveReturn, AppReturn, RejectReturn, RestoreReturn,
     PublishReturn DEF Worker
<1>2. CASE UNCHANGED vars
  <2>1. UNCHANGED <<store, cache, changes, handler, waiting, job, pc, at, runs, reportlist,
                    emulatorResult, dropped>>
    BY <1>2 DEF vars, clusterVars, storeVars, handlerVars, workerVars
  <2>2. Faithful' /\ NoCopies'
    BY <2>1 DEF ReturnInv, Faithful, Homed, AllHomed, NoCopies, GivenUp, IsSimulated
  <2>3. AllKept'
    BY <2>1 DEF ReturnInv, AllKept, Safe, Failing, OutrankedIn, Kept, Due, InHand
  <2>4. QED
    BY <2>1, <2>2, <2>3 DEF ReturnInv
<1>3. QED
  BY <1>1, <1>2, ClusterReturn, HandlerReturn DEF Next, Elsewhere

(* Between jobs each pod the real cluster has kept is in the store, on its *)
(* own node, unless a job given up half-way had it in hand or preemption   *)
(* has deleted it for the sake of a pod that outranks it, in a job that    *)
(* could not place all of its pods: for any overlapping requests, changes  *)
(* in the cluster and failing creates (997-1081).                          *)
THEOREM OldPodsComeBack == Spec => []OldPodsReturn
<1>1. Init => Inv /\ ReturnInv
  BY InitInv, InitReturn
<1>2. ASSUME Inv, ReturnInv, [Next]_vars PROVE (Inv /\ ReturnInv)'
  BY <1>2, StepInv, StepReturn
<1>3. ReturnInv => OldPodsReturn
  BY DEF ReturnInv, AllKept, Safe, Kept, Due, NoCopies, GivenUp, OldPodsReturn
<1>4. QED
  BY <1>1, <1>2, <1>3, PTL DEF Spec

-----------------------------------------------------------------------------
(* Names.  A copy gets a number nobody has, in the store and in the cache, *)
(* and until it is placed nothing else goes under it.                      *)
Distinct(S) == \A x, y \in S : x.name = y.name => x = y

NamesInv ==
  /\ cache \subseteq Placed /\ IsFiniteSet(cache)
  /\ \A x \in cache : x.node # None
  /\ Distinct(store) /\ Distinct(cache)
  /\ pc = "wait" => /\ \A x \in store : x.name = runs => x = Copy
                    /\ \A x \in cache : x.name # runs

LEMMA AddDistinct ==
  ASSUME NEW S, NEW x, Distinct(S), \A y \in S : y.name # x.name
  PROVE  Distinct(S \cup {x})
BY DEF Distinct

LEMMA InitNames == ASSUME Init PROVE NamesInv
<1>1. Typed /\ cache = store /\ pc = "pop" /\ store = {Real(p) : p \in OldPod}
  BY InitInv DEF Init, Inv
<1>2. \A p \in OldPod : Real(p).name = p /\ Real(p).node # None
  BY PodAssumption, NoneAssumption DEF Real
<1>3. Distinct(store)
  BY <1>1, <1>2 DEF Distinct
<1>4. QED
  BY <1>1, <1>2, <1>3 DEF NamesInv, Typed

LEMMA FewerNames ==
  ASSUME NamesInv, UNCHANGED <<cache, runs>>, store' \subseteq store,
         pc' # "wait" \/ UNCHANGED <<pc, job, at>>
  PROVE  NamesInv'
<1>1. Distinct(store)' /\ Distinct(cache)'
  BY DEF NamesInv, Distinct
<1>2. QED
  BY <1>1 DEF NamesInv, Copy

(* A pod that joins the store brings its own name.                         *)
LEMMA NewName ==
  ASSUME NamesInv, UNCHANGED <<cache, runs>>, NEW x, store' = store \cup {x},
         x.name \notin Names(store),
         pc' # "wait" \/ (UNCHANGED <<pc, job, at>> /\ x.name # runs)
  PROVE  NamesInv'
<1>1. Distinct(store')
  BY AddDistinct DEF NamesInv, Names
<1>2. Distinct(store)' /\ Distinct(cache)'
  BY <1>1 DEF NamesInv, Distinct
<1>3. QED
  BY <1>2 DEF NamesInv, Copy

LEMMA CacheNames ==
  ASSUME Inv, NamesInv, NEW name, CacheLearns(name) PROVE NamesInv'
<1>1. /\ cache' = (cache \ Known(cache, name)) \cup Known(store, name)
      /\ UNCHANGED <<store, runs, pc, job, at>>
  BY DEF CacheLearns, handlerVars, workerVars
<1>2. /\ \A x \in cache' : \/ x \in cache /\ x.name # name
                           \/ x \in store /\ x.name = name /\ x.node # None
      /\ cache' \subseteq cache \cup store
  BY <1>1 DEF NamesInv, Known
<1>3. IsFiniteSet(cache') /\ cache' \subseteq Placed
  BY <1>2, FS_Union, FS_Subset DEF NamesInv, Inv, Typed
<1>4. Distinct(store)' /\ Distinct(cache)'
  BY <1>1, <1>2 DEF NamesInv, Distinct
<1>5. \A x \in cache' : x.node # None
  BY <1>2 DEF NamesInv
<1>6. Copy' = Copy /\ Copy.node = None
  BY <1>1 DEF Copy
<1>7. pc = "wait" => \A x \in cache' : x.name # runs
  BY <1>2, <1>6 DEF NamesInv
<1>8. QED
  BY <1>1, <1>3, <1>4, <1>5, <1>6, <1>7 DEF NamesInv

LEMMA ClusterNames ==
  ASSUME Inv, NamesInv, Elsewhere
  PROVE  NamesInv'
<1>1. ASSUME NEW p \in OldPod, PodGoes(p) \/ PodComes(p) PROVE NamesInv'
  <2>1. UNCHANGED <<cache, runs, pc, job, at>>
    BY <1>1 DEF PodGoes, PodComes, workerVars
  <2>2. CASE store' \subseteq store
    BY <2>1, <2>2, FewerNames
  <2>3. CASE p \notin Names(store) /\ store' = store \cup {Real(p)}
    <3>1. Real(p).name = p /\ p # runs
      BY PodAssumption DEF Real, Inv, Typed
    <3>2. QED
      BY <2>1, <2>3, <3>1, NewName
  <2>4. QED
    BY <1>1, <2>2, <2>3 DEF PodGoes, PodComes
<1>2. ASSUME NEW x, NominationEnds(x) PROVE NamesInv'
  BY <1>2, FewerNames DEF NominationEnds, workerVars
<1>3. QED
  BY <1>1, <1>2, CacheNames DEF Elsewhere

LEMMA CreateNames ==
  ASSUME Inv, ReturnInv, NamesInv, NEW ok \in CreateOutcomes, CreateApp(ok) PROVE NamesInv'
<1>0. runs \in Nat /\ runs' = runs + 1 /\ UNCHANGED <<cache, job>>
  BY DEF Inv, Typed, CreateApp
<1>1. /\ \A x \in store \cup cache : x.name # runs + 1
      /\ \A x \in cache : x.node # None
  BY <1>0, PodAssumption DEF NamesInv, ReturnInv, Faithful, Homed, IsSimulated
<1>2. CASE ~ok
  <2>1. store' = store /\ pc' = "pop"
    BY <1>2 DEF CreateApp, Drop
  <2>2. QED
    BY <1>0, <1>1, <2>1 DEF NamesInv, Distinct
<1>3. CASE ok
  <2>1. store' = store \cup {[Copy EXCEPT !.name = runs + 1]} /\ at' = at
    BY <1>3 DEF CreateApp
  <2>2. Copy' = [Copy EXCEPT !.name = runs + 1] /\ Copy'.name = runs'
    BY <1>0, <2>1 DEF Copy
  <2>3. store' = store \cup {Copy'}
    BY <2>1, <2>2
  <2>4. Distinct(store')
    BY <1>0, <1>1, <2>2, <2>3, AddDistinct DEF NamesInv
  <2>5. Distinct(store)' /\ Distinct(cache)'
    BY <1>0, <2>4 DEF NamesInv, Distinct
  <2>6. \A x \in store' : x.name = runs' => x = Copy'
    BY <1>0, <1>1, <2>3
  <2>7. QED
    BY <1>0, <1>1, <2>5, <2>6 DEF NamesInv
<1>4. QED
  BY <1>2, <1>3

LEMMA PlaceNames ==
  ASSUME Inv, NamesInv, NEW n \in Node, PlaceApp(n) PROVE NamesInv'
<1> DEFINE c == [Copy EXCEPT !.node = n]
<1>0. runs \in Nat /\ runs' = runs /\ pc = "wait" /\ pc' = "apps"
  BY DEF Inv, Typed, PlaceApp
<1>1. store' = (store \ {Copy}) \cup {c} /\ cache' = cache \cup {c}
  BY DEF PlaceApp, Bind
<1>2. c \in Placed /\ c.name = runs /\ c.node = n /\ c.node # None
  <2>1. job.old[at] \in Placed
    BY <1>0, OldLength DEF Inv, Typed, Listed
  <2>2. QED
    BY <1>0, <2>1, NoneAssumption DEF Copy, Placed, Name
<1> HIDE DEF c
<1>3. \A x \in (store \ {Copy}) \cup cache : x.name # c.name
  BY <1>0, <1>2 DEF NamesInv
<1>4. Distinct(store \ {Copy})
  BY DEF NamesInv, Distinct
<1>5. Distinct(store') /\ Distinct(cache')
  BY <1>1, <1>3, <1>4, AddDistinct DEF NamesInv
<1>6. Distinct(store)' /\ Distinct(cache)'
  BY <1>5 DEF Distinct
<1>7. \A x \in cache' : x.node # None
  BY <1>1, <1>2 DEF NamesInv
<1>8. IsFiniteSet(cache') /\ cache' \subseteq Placed
  BY <1>1, <1>2, FS_AddElement DEF NamesInv
<1>9. QED
  BY <1>0, <1>6, <1>7, <1>8 DEF NamesInv

LEMMA StepKeepsNames ==
  ASSUME Inv, ReturnInv, NamesInv, [Next]_vars PROVE NamesInv'
<1>1. CASE Handler \/ (\E ds \in Requests : Request(ds)) \/ UNCHANGED vars
  BY <1>1, FewerNames DEF Handler, ListPods, RequestFails, Push, Request, storeVars, workerVars, vars
<1>2. CASE PopJob \/ DeletedAll \/ AppsDone \/ Cleaned \/ Publish
  BY <1>2, FewerNames DEF PopJob, DeletedAll, AppsDone, Cleaned, Publish, Goto, storeVars
<1>3. CASE DeleteOld \/ RejectApp \/ \E x \in store : CleanPod(x)
  BY <1>3, FewerNames DEF DeleteOld, OldPodMissing, Drop, Advance, RejectApp, Preempt, Without,
     CleanPod, workerVars
<1>4. CASE RestoreOld
  <2>1. UNCHANGED <<cache, runs>> /\ pc' # "wait"
    BY <1>4 DEF RestoreOld, Drop, Advance
  <2>2. CASE store' = store
    BY <2>1, <2>2, FewerNames
  <2>3. CASE job.old[at].name \notin Names(store) /\ store' = store \cup {job.old[at]}
    BY <2>1, <2>3, NewName
  <2>4. QED
    BY <1>4, <2>2, <2>3 DEF RestoreOld, Restored
<1>5. QED
  BY <1>1, <1>2, <1>3, <1>4, ClusterNames, CreateNames, PlaceNames DEF Next, Worker, Elsewhere

-----------------------------------------------------------------------------
(* The whole of the types.                                                 *)
RestTyped == real \subseteq OldPod /\ \A j \in dropped : j \in Job

LEMMA StepRestTyped == ASSUME Inv, RestTyped, [Next]_vars PROVE RestTyped'
<1>1. ASSUME NEW p \in OldPod, PodGoes(p) \/ PodComes(p) PROVE RestTyped'
  BY <1>1 DEF PodGoes, PodComes, workerVars, RestTyped
<1>2. CASE RequestFails
  <2>1. << >> \in Seq(Placed)
    OBVIOUS
  <2>2. [key |-> handler.key, old |-> << >>] \in Job
    BY <2>1 DEF Inv, Typed, Job
  <2>3. QED
    BY <1>2, <2>2 DEF RequestFails, clusterVars, RestTyped
<1>3. CASE UNCHANGED real /\ (UNCHANGED dropped \/ Drop)
  BY <1>3 DEF RestTyped, Drop, Inv, Typed
<1>4. CASE (\E ds \in Requests : Request(ds)) \/ ListPods \/ Push \/ UNCHANGED vars
  BY <1>3, <1>4 DEF Request, ListPods, Push, clusterVars, workerVars, vars
<1>5. CASE Worker
  BY <1>3, <1>5 DEF Worker, PopJob, DeleteOld, OldPodMissing, DeletedAll, CreateApp, PlaceApp,
     RejectApp, AppsDone, CleanPod, Cleaned, RestoreOld, Publish, Advance, clusterVars, workerVars
<1>6. ASSUME NEW y, CacheLearns(y) \/ NominationEnds(y) PROVE RestTyped'
  BY <1>3, <1>6 DEF CacheLearns, NominationEnds, clusterVars, workerVars
<1>7. QED
  BY <1>1, <1>2, <1>4, <1>5, <1>6 DEF Next, Handler

LEMMA NamesCount ==
  ASSUME NEW S, IsFiniteSet(S), Distinct(S)
  PROVE  Cardinality(Names(S)) = Cardinality(S)
<1> DEFINE f == [x \in S |-> x.name]
<1>1. f \in [S -> Names(S)] /\ (\A y \in Names(S) : \E x \in S : f[x] = y)
  BY DEF Names
<1>2. f \in Surjection(S, Names(S))
  BY <1>1 DEF Surjection
<1>3. f \in Injection(S, Names(S))
  BY <1>1 DEF Distinct, Injection, IsInjective
<1>4. QED
  BY <1>2, <1>3, FS_Surjection

(* What every step keeps.                                                  *)
VerticalInv == Inv /\ ReturnInv /\ NamesInv /\ RestTyped

LEMMA VerticalHolds == Spec => []VerticalInv
<1>1. Init => VerticalInv
  <2>1. ASSUME Init PROVE RestTyped
    BY <2>1 DEF Init, RestTyped
  <2>2. QED
    BY <2>1, InitInv, InitReturn, InitNames DEF VerticalInv
<1>2. VerticalInv /\ [Next]_vars => VerticalInv'
  BY StepInv, StepReturn, StepKeepsNames, StepRestTyped DEF VerticalInv
<1>3. QED
  BY <1>1, <1>2, PTL DEF Spec

(* Types; nothing in the store or in the scheduler's cache goes by the     *)
(* same name twice, copies left by a dropped job and restored by another   *)
(* included (SchedulerPod, CreateAppsPod, PodWatch).                       *)
THEOREM VerticalTyped == Spec => []TypeOK
<1>1. ASSUME VerticalInv PROVE TypeOK
  <2>1. /\ Cardinality(Names(store)) = Cardinality(store)
        /\ Cardinality(Names(cache)) = Cardinality(cache)
    BY <1>1, NamesCount DEF VerticalInv, NamesInv, Inv, Typed
  <2>2. \A r \in emulatorResult : r.job \in Job /\ r.list \in Seq(Review)
    BY <1>1 DEF VerticalInv, Inv, Published
  <2>3. QED
    BY <1>1, <2>1, <2>2 DEF VerticalInv, Inv, Typed, ReturnInv, NamesInv, RestTyped, TypeOK
<1>2. QED
  BY <1>1, VerticalHolds, PTL

-----------------------------------------------------------------------------
(* Copies fit.  A copy enters the cache when it is placed and stays there  *)
(* as long as it is in the store, which it is until its round is over or   *)
(* one that outranks it is rejected.                                       *)
Off == IF round = 1 THEN 0 ELSE Len(job.old)
Base == IF pc = "wait" THEN runs - at ELSE runs + 1 - at
Rank(i) == Priority[job.old[i - Off].like]
Lasts(i) == \A k \in DOMAIN reportlist :
              k > i /\ reportlist[k].reason = "Unschedulable" => Rank(k) <= Rank(i)
InThisRound(n) ==
  {i \in DOMAIN reportlist : i > Off /\ Lasts(i) /\ reportlist[i].node = n}

Standing ==
  pc \in {"apps", "wait"} =>
    \A i \in DOMAIN reportlist :
      i > Off /\ Lasts(i) /\ reportlist[i].node # None
        => \E x \in store \cap cache :
             /\ x.name = Base + (i - Off) /\ x.node = reportlist[i].node
             /\ x.like = job.old[i - Off].like

Fit(S, n) == NewSize * Cardinality(S) <= Capacity[n]

RoundFits ==
  pc \in {"apps", "wait", "clean", "restore"} => \A n \in Node : Fit(InThisRound(n), n)

Numbers == /\ pc = "apps" => at <= runs + 1
           /\ pc = "wait" => at <= runs

Cached == \A x \in store : IsSimulated(x) /\ x.node # None => x \in cache

FitInv ==
  /\ Standing /\ RoundFits /\ Numbers
  /\ GivenUp = {} => Cached
  /\ StoreFits

LEMMA ListLength ==
  ASSUME Inv, pc \in {"apps", "wait"}
  PROVE  /\ at \in Nat \ {0} /\ runs \in Nat /\ Off \in Nat /\ reportlist \in Seq(Review)
         /\ Len(reportlist) = Off + at - 1
<1>1. Off \in Nat
  BY OldLength DEF Off
<1>2. at \in Nat \ {0} /\ runs \in Nat /\ reportlist \in Seq(Review) /\ round \in {1, 2}
  BY DEF Inv, Typed
<1>3. Len(reportlist) = IF round = 1 THEN at - 1 ELSE Len(job.old) + (at - 1)
  BY DEF Inv, Listed, InRound
<1>4. QED
  BY <1>1, <1>2, <1>3, OldLength DEF Off

(* One more copy of the new size goes where there is room for it.          *)
LEMMA RoomForOne ==
  ASSUME NEW n \in Node, Fits(n), IsFiniteSet(cache), IsFiniteSet(nominated), NEW k \in Nat,
         k <= Cardinality(Copies(cache, n))
  PROVE  NewSize * (k + 1) <= Capacity[n]
<1> DEFINE C == Cardinality(Copies(Claims, n))
           D == Cardinality({x \in Claims : x.node = n /\ ~IsSimulated(x)})
<1>0. IsFiniteSet(Claims) /\ cache \subseteq Claims
  <2>1. IsFiniteSet(cache \cup nominated) /\ Claims \subseteq cache \cup nominated
    BY FS_Union DEF Claims
  <2>2. QED
    BY <2>1, FS_Subset DEF Claims
<1>1. C \in Nat /\ D \in Nat
  BY <1>0, FS_Subset, FS_CardinalityType DEF Copies
<1>2. NewSize * C + OldSize * D + NewSize <= Capacity[n]
  BY DEF Fits, Load
<1>3. k <= C
  <2>1. Copies(cache, n) \subseteq Copies(Claims, n) /\ IsFiniteSet(Copies(Claims, n))
    BY <1>0, FS_Subset DEF Copies
  <2>2. /\ Cardinality(Copies(cache, n)) <= C /\ IsFiniteSet(Copies(cache, n))
    BY <2>1, FS_Subset
  <2>3. Cardinality(Copies(cache, n)) \in Nat
    BY <2>2, FS_CardinalityType
  <2>4. QED
    BY <1>1, <2>2, <2>3
<1> HIDE DEF C, D
<1>4. \A a, b, c \in Nat : a <= b => c * a <= c * b
  OBVIOUS
<1>5. \A a, b \in Nat : a * b \in Nat
  OBVIOUS
<1>6. NewSize * (k + 1) = NewSize * k + NewSize
  BY SizeAssumption
<1>7. NewSize * k <= NewSize * C /\ OldSize * D \in Nat /\ NewSize * C \in Nat /\ NewSize * k \in Nat
  BY <1>1, <1>3, <1>4, <1>5, SizeAssumption
<1>8. QED
  BY <1>2, <1>6, <1>7, SizeAssumption

LEMMA Smaller ==
  ASSUME NEW S, NEW T, NEW n \in Node, IsFiniteSet(T), S \subseteq T, Fit(T, n) PROVE Fit(S, n)
<1>1. Cardinality(S) <= Cardinality(T) /\ Cardinality(S) \in Nat /\ Cardinality(T) \in Nat
  BY FS_Subset, FS_CardinalityType
<1>2. \A a, b, c, d \in Nat : a <= b /\ c * b <= d => c * a <= d
  OBVIOUS
<1>3. QED
  BY <1>1, <1>2, SizeAssumption DEF Fit

LEMMA NoneFit == ASSUME NEW n \in Node PROVE Fit({}, n)
<1>1. Cardinality({}) = 0 /\ NewSize * 0 = 0
  BY FS_EmptySet, SizeAssumption
<1>2. QED
  BY <1>1, SizeAssumption DEF Fit

LEMMA RoundIsCached ==
  ASSUME Inv, NamesInv, Standing, Numbers, pc \in {"apps", "wait"}, NEW n \in Node
  PROVE  /\ IsFiniteSet(InThisRound(n))
         /\ Cardinality(InThisRound(n)) <= Cardinality(Copies(cache, n))
<1> DEFINE I == InThisRound(n)
           C == Copies(cache, n)
           f == [i \in I |-> CHOOSE x \in C : x.name = Base + (i - Off)]
<1>1. IsFiniteSet(C)
  BY FS_Subset DEF Copies, NamesInv
<1>2. Base \in Nat /\ Off \in Nat /\ \A i \in I : i \in Nat /\ i > Off
  <2>1. Base \in Nat
    BY ListLength DEF Base, Numbers
  <2>2. Off \in Nat /\ \A i \in DOMAIN reportlist : i \in Nat
    BY ListLength
  <2>3. QED
    BY <2>1, <2>2 DEF InThisRound
<1>3. ASSUME NEW i \in I PROVE \E x \in C : x.name = Base + (i - Off)
  <2>1. /\ i \in DOMAIN reportlist /\ i > Off /\ Lasts(i)
        /\ reportlist[i].node = n /\ n # None
    BY NoneAssumption DEF InThisRound
  <2>2. Base + (i - Off) \in Nat
    BY <1>2
  <2>3. QED
    BY <2>1, <2>2 DEF Standing, Copies, IsSimulated
<1> HIDE DEF I, C
<1>4. \A i \in I : f[i] \in C /\ f[i].name = Base + (i - Off)
  BY <1>3
<1>5. f \in [I -> C]
  BY <1>4
<1>6. \A i, j \in I : f[i] = f[j] => i = j
  BY <1>2, <1>4
<1>7. f \in Injection(I, C)
  BY <1>5, <1>6 DEF Injection, IsInjective
<1>8. QED
  BY <1>1, <1>7, FS_Injection DEF I, C

LEMMA OneMoreFits ==
  ASSUME NEW n \in Node, Fits(n), IsFiniteSet(cache), IsFiniteSet(nominated),
         NEW S, IsFiniteSet(S),
         Cardinality(S) <= Cardinality(Copies(cache, n)),
         NEW e, NEW T, T \subseteq S \cup {e}
  PROVE  Fit(T, n)
<1>1. Cardinality(S) \in Nat /\ IsFiniteSet(S \cup {e})
  BY FS_CardinalityType, FS_AddElement
<1>2. Cardinality(S \cup {e}) \in {Cardinality(S), Cardinality(S) + 1}
  BY FS_AddElement
<1>3. NewSize * (Cardinality(S) + 1) <= Capacity[n]
  BY <1>1, RoomForOne
<1>4. \A a, b, c, d \in Nat : a <= b /\ c * b <= d => c * a <= d
  OBVIOUS
<1>5. Fit(S \cup {e}, n)
  <2> DEFINE a == Cardinality(S \cup {e})
             b == Cardinality(S) + 1
  <2>1. a \in Nat /\ b \in Nat /\ a <= b /\ NewSize * b <= Capacity[n]
    BY <1>1, <1>2, <1>3
  <2> HIDE DEF a, b
  <2>2. NewSize * a <= Capacity[n]
    BY <1>4, <2>1, SizeAssumption
  <2>3. QED
    BY <2>2 DEF Fit, a
<1>6. QED
  BY <1>1, <1>5, Smaller

(* The copies in the store fit as long as none is added and the cache      *)
(* keeps those that are there.                                             *)
CopiesInv == (GivenUp = {} => Cached) /\ StoreFits

LEMMA NoMoreCopies ==
  ASSUME Inv, CopiesInv, dropped \subseteq dropped',
         GivenUp = {} => \A x \in store' : IsSimulated(x) /\ x.node # None => x \in store,
         \A x \in store \cap cache : IsSimulated(x) /\ x.node # None => x \in cache'
  PROVE  CopiesInv'
<1>1. GivenUp' = {} => GivenUp = {}
  BY DEF GivenUp
<1>2. (GivenUp = {} => Cached)'
  BY <1>1 DEF CopiesInv, Cached, IsSimulated
<1>3. ASSUME GivenUp = {}, NEW n \in Node PROVE Fit(Copies(store', n), n)
  <2>1. Copies(store', n) \subseteq Copies(store, n)
    BY <1>3, NoneAssumption DEF Copies
  <2>2. IsFiniteSet(Copies(store, n)) /\ Fit(Copies(store, n), n)
    <3>1. IsFiniteSet(Copies(store, n))
      BY FS_Subset DEF Copies, Inv, Typed
    <3>2. QED
      BY <1>3, <3>1 DEF CopiesInv, StoreFits, Fit
  <2>3. QED
    BY <2>1, <2>2, Smaller
<1>4. StoreFits'
  BY <1>1, <1>3 DEF StoreFits, Fit, Copies, IsSimulated
<1>5. QED
  BY <1>2, <1>4 DEF CopiesInv

(* The round under way.                                                    *)
RoundInv == Standing /\ RoundFits /\ Numbers

LEMMA NumberOf ==
  ASSUME Inv, Numbers, pc \in {"apps", "wait"}, NEW i \in DOMAIN reportlist, i > Off
  PROVE  Base + (i - Off) \in Nat
BY ListLength DEF Base, Numbers

LEMMA SameRound ==
  ASSUME Inv, RoundInv, UNCHANGED <<job, round, reportlist>>,
         \/ pc' \in {"pop", "delete"}
         \/ /\ pc \in {"apps", "wait", "clean", "restore"}
            /\ pc' \in {"clean", "restore"}
         \/ /\ pc' = pc /\ UNCHANGED <<at, runs>>
            /\ pc \in {"apps", "wait"} =>
                 \A x \in store \cap cache : x.name \in Nat /\ x.node # None
                   => x \in store' \cap cache'
  PROVE  RoundInv'
<1>1. /\ \A n : InThisRound(n)' = InThisRound(n)
      /\ \A i : Lasts(i)' <=> Lasts(i)
  BY DEF InThisRound, Lasts, Rank, Off
<1>2. Numbers' /\ RoundFits'
  BY <1>1 DEF RoundInv, Numbers, RoundFits, Fit
<1>3. CASE pc' \notin {"apps", "wait"}
  BY <1>2, <1>3 DEF RoundInv, Standing
<1>4. CASE pc' \in {"apps", "wait"}
  <2>1. Off' = Off /\ Base' = Base /\ pc \in {"apps", "wait"}
    BY <1>4 DEF Off, Base
  <2>2. Standing'
    BY <1>1, <1>4, <2>1, NumberOf DEF RoundInv, Standing
  <2>3. QED
    BY <1>2, <2>2 DEF RoundInv
<1>5. QED
  BY <1>3, <1>4

(* A round begins.                                                         *)
LEMMA NewRound ==
  ASSUME Inv, pc' = "apps", at' = 1, UNCHANGED <<job, reportlist, runs>>,
         Len(reportlist) <= Off'
  PROVE  RoundInv'
<1>1. DOMAIN reportlist' = 1..Len(reportlist) /\ Len(reportlist) \in Nat /\ runs' \in Nat
  BY DEF Inv, Typed
<1>2. Off' \in Nat
  BY OldLength DEF Off
<1>3. \A i \in DOMAIN reportlist' : ~(i > Off')
  BY <1>1, <1>2
<1>4. \A n : InThisRound(n)' = {}
  BY <1>3 DEF InThisRound
<1>5. RoundFits'
  BY <1>4, NoneFit DEF RoundFits, Fit
<1>6. Standing' /\ Numbers'
  BY <1>1, <1>3 DEF Standing, Numbers
<1>7. QED
  BY <1>5, <1>6 DEF RoundInv

(* The outcome of one copy.                                                *)
LEMMA ReviewRound ==
  ASSUME Inv, NamesInv, RoundInv, pc = "wait", NEW review \in Review,
         reportlist' = Append(reportlist, review),
         pc' = "apps", at' = at + 1, UNCHANGED <<job, round, runs>>,
         \A x \in store \cap cache :
           \/ x.node = None \/ x \in store' \cap cache'
           \/ /\ review.reason = "Unschedulable"
              /\ Priority[x.like] < Priority[job.old[at].like],
         review.node # None =>
           /\ review.node \in Node /\ Fits(review.node)
           /\ [Copy EXCEPT !.node = review.node] \in store' \cap cache'
  PROVE  RoundInv'
<1> DEFINE L == Len(reportlist)
<1>1. /\ at \in Nat \ {0} /\ runs \in Nat /\ at <= runs /\ Off \in Nat /\ Off' = Off
      /\ reportlist \in Seq(Review) /\ L \in Nat /\ L = Off + at - 1
  BY ListLength DEF RoundInv, Numbers, Off
<1>2. Base = runs - at /\ Base' = Base
  BY <1>1 DEF Base
<1>3. /\ DOMAIN reportlist' = 1..(L + 1) /\ DOMAIN reportlist = 1..L
      /\ reportlist'[L + 1] = review
      /\ \A i \in 1..L : reportlist'[i] = reportlist[i]
  <2>1. Len(reportlist') = L + 1 /\ reportlist' \in Seq(Review)
    BY <1>1, AppendProperties
  <2>2. reportlist'[L + 1] = review /\ \A i \in 1..L : reportlist'[i] = reportlist[i]
    BY <1>1, AppendProperties
  <2>3. QED
    BY <1>1, <2>1, <2>2
<1> HIDE DEF L
<1>a. \A i : Rank(i)' = Rank(i)
  BY <1>1 DEF Rank
<1>b. ASSUME NEW i \in 1..L, Lasts(i)' PROVE Lasts(i)
  <2>1. \A m \in Nat : 1..m \subseteq 1..(m + 1)
    OBVIOUS
  <2>2. 1..L \subseteq 1..(L + 1)
    BY <1>1, <2>1
  <2>3. QED
    BY <1>3, <1>a, <1>b, <2>2 DEF Lasts
<1>4. ASSUME NEW i \in DOMAIN reportlist', i > Off', Lasts(i)', reportlist'[i].node # None
      PROVE  \E x \in store' \cap cache' :
               /\ x.name = Base' + (i - Off') /\ x.node = reportlist'[i].node
               /\ x.like = job'.old[i - Off'].like
  <2>1. CASE i \in 1..L
    <3>1. PICK x \in store \cap cache :
            /\ x.name = Base + (i - Off) /\ x.node = reportlist[i].node
            /\ x.like = job.old[i - Off].like
      BY <1>1, <1>3, <1>4, <1>b, <2>1 DEF RoundInv, Standing
    <3>2. ASSUME review.reason = "Unschedulable" PROVE Rank(L + 1) <= Rank(i)
      <4>1. L + 1 \in DOMAIN reportlist' /\ L + 1 > i
        BY <1>1, <1>3, <2>1
      <4>2. QED
        BY <1>3, <1>4, <1>a, <3>2, <4>1 DEF Lasts
    <3>3. Rank(L + 1) = Priority[job.old[at].like] /\ Rank(i) = Priority[x.like]
      <4>0. \A m, o, a \in Nat : m = o + a - 1 => (m + 1) - o = a
        OBVIOUS
      <4>1. (L + 1) - Off = at
        BY <1>1, <4>0
      <4>2. ASSUME NEW k, k - Off = at PROVE Rank(k) = Priority[job.old[at].like]
        BY <4>2 DEF Rank
      <4>3. Rank(i) = Priority[x.like]
        BY <3>1 DEF Rank
      <4>4. QED
        BY <4>1, <4>2, <4>3
    <3>4. Priority[x.like] \in Int /\ Priority[job.old[at].like] \in Int
      <4>1. x \in Placed
        BY <3>1 DEF Inv, Typed
      <4>2. at <= Len(job.old)
        BY DEF Inv, Listed
      <4>3. job.old[at] \in Placed
        BY <1>1, <4>2, OldLength
      <4>4. QED
        BY <4>1, <4>3, PodAssumption DEF Placed
    <3>5. x \in store' \cap cache'
      <4>1. x.node # None
        BY <1>3, <1>4, <2>1, <3>1
      <4>2. ~(Priority[x.like] < Priority[job.old[at].like]) \/ review.reason # "Unschedulable"
        BY <3>2, <3>3, <3>4
      <4>3. QED
        BY <3>1, <4>1, <4>2
    <3>6. QED
      BY <1>1, <1>2, <1>3, <1>4, <2>1, <3>1, <3>5
  <2>2. CASE i = L + 1
    <3> DEFINE c == [Copy EXCEPT !.node = review.node]
    <3>1. /\ c.name = runs /\ c.node = review.node /\ c \in store' \cap cache'
          /\ c.like = job.old[at].like
      BY <1>3, <1>4, <2>2 DEF Copy
    <3>2. i - Off = at /\ Base + at = runs
      <4>1. i = Off + at
        BY <1>1, <2>2
      <4>2. Base + at = runs
        BY <1>1, <1>2
      <4>3. QED
        BY <1>1, <4>1, <4>2
    <3>3. runs = Base' + (i - Off')
      BY <1>1, <1>2, <3>2
    <3> HIDE DEF c
    <3>4. QED
      BY <1>1, <1>3, <2>2, <3>1, <3>2, <3>3
  <2>3. QED
    BY <1>1, <1>3, <1>4, <2>1, <2>2
<1>5. Standing'
  BY <1>4 DEF Standing
<1>6. ASSUME NEW n \in Node PROVE Fit(InThisRound(n)', n)
  <2>1. /\ InThisRound(n)' \subseteq InThisRound(n) \cup {L + 1}
        /\ review.node # n => InThisRound(n)' \subseteq InThisRound(n)
    <3>1. ASSUME NEW i \in InThisRound(n)', i # L + 1 PROVE i \in InThisRound(n)
      <4>1. i \in 1..L
        BY <1>1, <1>3, <3>1 DEF InThisRound
      <4>2. QED
        BY <1>1, <1>3, <1>b, <3>1, <4>1 DEF InThisRound
    <3>2. L + 1 \in InThisRound(n)' => review.node = n
      BY <1>3 DEF InThisRound
    <3>3. QED
      BY <3>1, <3>2
  <2>2. /\ IsFiniteSet(InThisRound(n)) /\ IsFiniteSet(cache) /\ Fit(InThisRound(n), n)
        /\ Cardinality(InThisRound(n)) <= Cardinality(Copies(cache, n))
        /\ IsFiniteSet(nominated)
    BY RoundIsCached DEF RoundInv, RoundFits, NamesInv, Inv, Typed
  <2>3. CASE review.node # n
    BY <2>1, <2>2, <2>3, Smaller
  <2>4. CASE review.node = n
    <3>1. Fits(n)
      BY <2>4, NoneAssumption
    <3>2. QED
      BY <2>1, <2>2, <3>1, OneMoreFits
  <2>5. QED
    BY <2>3, <2>4
<1>7. RoundFits'
  BY <1>6 DEF RoundFits, Fit
<1>8. Numbers'
  BY <1>1 DEF Numbers
<1>9. QED
  BY <1>5, <1>7, <1>8 DEF RoundInv

-----------------------------------------------------------------------------
(* FitInv, step by step.                                                   *)
LEMMA FitParts == FitInv <=> RoundInv /\ CopiesInv
BY DEF FitInv, RoundInv, CopiesInv

LEMMA InitFits == ASSUME Init PROVE FitInv
<1>1. /\ \A x \in store : ~IsSimulated(x)
      /\ pc = "pop"
  BY RealIsOld DEF Init
<1>2. \A n \in Node : Copies(store, n) = {}
  BY <1>1 DEF Copies
<1>3. Cached /\ StoreFits
  BY <1>1, <1>2, NoneFit DEF Cached, StoreFits, Fit
<1>4. QED
  BY <1>1, <1>3 DEF FitInv, Standing, RoundFits, Numbers

LEMMA ClusterFits ==
  ASSUME Inv, NamesInv, FitInv, Elsewhere
  PROVE  FitInv'
<1>1. UNCHANGED <<job, pc, at, round, runs, reportlist, dropped>>
  BY DEF Elsewhere, PodGoes, PodComes, CacheLearns, NominationEnds, workerVars
<1>2. \A x \in store' : IsSimulated(x) => x \in store
  BY RealIsOld DEF Elsewhere, PodGoes, PodComes, CacheLearns, NominationEnds
<1>3. \A x \in store : x.name \in Nat => x \in store'
  BY PodAssumption DEF Elsewhere, PodGoes, PodComes, CacheLearns, NominationEnds
<1>4. \A x \in store \cap cache : x.node # None => x \in cache'
  BY DEF Elsewhere, PodGoes, PodComes, CacheLearns, NominationEnds, Known
<1>5. RoundInv'
  BY <1>1, <1>3, <1>4, SameRound, FitParts DEF IsSimulated
<1>6. CopiesInv'
  BY <1>1, <1>2, <1>4, NoMoreCopies, FitParts
<1>7. QED
  BY <1>5, <1>6 DEF FitInv, RoundInv, CopiesInv

LEMMA HandlerFits ==
  ASSUME Inv, FitInv,
         \/ Handler
         \/ \E ds \in Requests : Request(ds)
         \/ UNCHANGED vars
  PROVE  FitInv'
<1>1. /\ UNCHANGED <<store, cache, job, pc, at, round, runs, reportlist>>
      /\ dropped \subseteq dropped'
  BY DEF Handler, ListPods, RequestFails, Push, Request, storeVars, workerVars, vars
<1>2. RoundInv' /\ CopiesInv'
  BY <1>1, SameRound, NoMoreCopies, FitParts
<1>3. QED
  BY <1>2 DEF FitInv, RoundInv, CopiesInv

LEMMA ListFits ==
  ASSUME Inv, ReturnInv, FitInv,
         \/ PopJob \/ DeleteOld \/ DeletedAll \/ AppsDone \/ Cleaned \/ RestoreOld \/ Publish
         \/ \E x \in store : CleanPod(x)
  PROVE  FitInv'
<1>1. UNCHANGED <<cache, runs>> /\ dropped \subseteq dropped'
  BY DEF PopJob, DeleteOld, OldPodMissing, Drop, Advance, DeletedAll, AppsDone, Cleaned, RestoreOld,
     Publish, CleanPod, storeVars, workerVars
<1>2. GivenUp = {} => \A x \in store' : IsSimulated(x) => x \in store
  <2>1. CASE RestoreOld
    <3>1. at \in DOMAIN job.old
      BY <2>1, OldLength DEF RestoreOld, Inv, Typed
    <3>2. GivenUp = {} => ~IsSimulated(job.old[at])
      BY <2>1, <3>1 DEF RestoreOld, ReturnInv, NoCopies
    <3>3. store' \subseteq store \cup {job.old[at]}
      BY <2>1 DEF RestoreOld, Restored
    <3>4. QED
      BY <3>2, <3>3
  <2>2. CASE ~RestoreOld
    BY <2>2 DEF PopJob, DeleteOld, OldPodMissing, DeletedAll, AppsDone, Cleaned, Publish, CleanPod,
       storeVars
  <2>3. QED
    BY <2>1, <2>2
<1>3. CopiesInv'
  BY <1>1, <1>2, NoMoreCopies, FitParts
<1>4. CASE PopJob \/ DeleteOld
  <2>1. pc' \in {"pop", "delete"}
    BY <1>4 DEF PopJob, DeleteOld, OldPodMissing, Drop, Advance
  <2>2. RoundInv'
    BY <2>1 DEF RoundInv, Standing, RoundFits, Numbers
  <2>3. QED
    BY <1>3, <2>2 DEF FitInv, RoundInv, CopiesInv
<1>5. CASE AppsDone \/ (Cleaned /\ ~Fallback) \/ RestoreOld \/ Publish \/ \E x \in store : CleanPod(x)
  <2>1. UNCHANGED <<job, round, reportlist>>
    BY <1>5 DEF AppsDone, Cleaned, RestoreOld, Publish, CleanPod, workerVars
  <2>2. /\ pc \in {"apps", "clean", "restore"}
        /\ pc' \in {"pop", "clean", "restore"}
    BY <1>5 DEF AppsDone, Cleaned, RestoreOld, Drop, Advance, Publish, CleanPod, Goto, workerVars
  <2>3. RoundInv'
    BY <2>1, <2>2, SameRound, FitParts
  <2>4. QED
    BY <1>3, <2>3 DEF FitInv, RoundInv, CopiesInv
<1>6. CASE DeletedAll \/ (Cleaned /\ Fallback)
  <2>1. pc' = "apps" /\ at' = 1 /\ UNCHANGED <<job, reportlist>>
    BY <1>6 DEF DeletedAll, Cleaned, Goto
  <2>2. CASE DeletedAll
    <3>1. round' = 1 /\ reportlist = << >>
      BY <2>2 DEF DeletedAll, Inv, Listed
    <3>2. QED
      BY <1>1, <2>1, <3>1, <1>3, NewRound DEF Off, FitInv, RoundInv, CopiesInv
  <2>3. CASE Cleaned /\ Fallback
    <3>1. round' = 2 /\ Len(reportlist) = Len(job.old)
      BY <2>3 DEF Cleaned, Fallback, Inv, Listed, InRound
    <3>2. Len(reportlist) <= Off'
      BY <2>1, <3>1, OldLength DEF Off
    <3>3. QED
      BY <1>1, <2>1, <3>2, <1>3, NewRound DEF FitInv, RoundInv, CopiesInv
  <2>4. QED
    BY <1>6, <2>2, <2>3
<1>7. QED
  BY <1>4, <1>5, <1>6

LEMMA CreateFits ==
  ASSUME Inv, NamesInv, FitInv, NEW ok \in CreateOutcomes, CreateApp(ok) PROVE FitInv'
<1>1. /\ runs' = runs + 1 /\ pc = "apps" /\ UNCHANGED <<cache, job, round, reportlist>>
  BY DEF CreateApp
<1>2. CASE ~ok
  <2>1. pc' = "pop" /\ store' = store /\ dropped \subseteq dropped'
    BY <1>2 DEF CreateApp, Drop
  <2>2. RoundInv' /\ CopiesInv'
    BY <1>1, <2>1, SameRound, NoMoreCopies, FitParts
  <2>3. QED
    BY <2>2 DEF FitInv, RoundInv, CopiesInv
<1>3. CASE ok
  <2> DEFINE c == [Copy EXCEPT !.name = runs + 1]
  <2>1. /\ store' = store \cup {c} /\ c.node = None
        /\ pc' = "wait" /\ UNCHANGED <<at, dropped>>
    BY <1>3 DEF CreateApp, Copy
  <2> HIDE DEF c
  <2>2. CopiesInv'
    BY <1>1, <2>1, NoMoreCopies, FitParts
  <2>3. /\ at \in Nat \ {0} /\ runs \in Nat /\ at <= runs + 1
        /\ Off' = Off /\ \A n : InThisRound(n)' = InThisRound(n)
    BY <1>1, ListLength DEF FitInv, Numbers, Off, InThisRound, Lasts, Rank
  <2>4. Base' = Base
    <3>1. Base = (runs + 1) - at
      BY <1>1, <2>3 DEF Base
    <3>2. Base' = runs' - at'
      BY <2>1 DEF Base
    <3>3. at' = at /\ runs' = runs + 1
      BY <1>1, <2>1
    <3>4. QED
      BY <3>1, <3>2, <3>3
  <2>5. Standing'
    <3>1. \A i : Lasts(i)' <=> Lasts(i)
      BY <1>1 DEF Lasts, Rank, Off
    <3>2. QED
      BY <1>1, <2>1, <2>3, <2>4, <3>1 DEF FitInv, Standing
  <2>6. RoundFits' /\ Numbers'
    BY <1>1, <2>1, <2>3 DEF FitInv, RoundFits, Fit, Numbers
  <2>7. QED
    BY <2>2, <2>5, <2>6 DEF FitInv, CopiesInv
<1>4. QED
  BY <1>2, <1>3

(* What a rejected copy has had deleted it outranks.                       *)
LEMMA RejectFits == ASSUME Inv, NamesInv, FitInv, RejectApp PROVE FitInv'
<1> DEFINE review == [reason |-> "Unschedulable", node |-> None]
<1>1. /\ review \in Review /\ review.node = None /\ review.reason = "Unschedulable"
      /\ reportlist' = Append(reportlist, review)
  BY DEF RejectApp, Review
<1>2. /\ pc = "wait" /\ pc' = "apps" /\ at' = at + 1
      /\ UNCHANGED <<cache, job, round, runs, dropped>>
  BY DEF RejectApp
<1>3. /\ Copy.node = None /\ Copy.like = job.old[at].like /\ job.old[at].like \in OldPod
      /\ Copy \in Placed
  <2>1. job.old[at] \in Placed
    BY <1>2, OldLength DEF Inv, Typed, Listed
  <2>2. QED
    BY <2>1 DEF Copy, Placed, Name, Inv, Typed
<1>4. /\ store' \subseteq store
      /\ \A x \in store :
           \/ x \in store' \/ x = Copy
           \/ \E y \in cache : y.name = x.name /\ Outranks(Copy, y)
  BY <1>3, PreemptStep DEF RejectApp, Inv
<1> HIDE DEF review
<1>5. ASSUME NEW x \in store \cap cache, x \notin store', x # Copy
      PROVE  Priority[x.like] < Priority[job.old[at].like]
  <2>1. Outranks(Copy, x) /\ x.like \in OldPod
    BY <1>4, <1>5 DEF NamesInv, Distinct, Placed
  <2>2. Priority[x.like] \in Int /\ Priority[job.old[at].like] \in Int
    BY <1>3, <2>1, PodAssumption
  <2>3. QED
    BY <1>3, <2>1, <2>2 DEF Outranks
<1>6. RoundInv'
  BY <1>1, <1>2, <1>3, <1>5, ReviewRound, FitParts
<1>7. CopiesInv'
  BY <1>2, <1>4, NoMoreCopies, FitParts
<1>8. QED
  BY <1>6, <1>7 DEF FitInv, RoundInv, CopiesInv

(* The placed copy is known to the cache at once, with those before it.    *)
LEMMA PlaceFits == ASSUME Inv, NamesInv, FitInv, NEW n \in Node, PlaceApp(n) PROVE FitInv'
<1> DEFINE review == [reason |-> "Schedulable", node |-> n]
           c == [Copy EXCEPT !.node = n]
<1>1. /\ review \in Review /\ review.node = n /\ n # None
      /\ reportlist' = Append(reportlist, review)
  BY NoneAssumption DEF PlaceApp, Review
<1>2. /\ pc = "wait" /\ pc' = "apps" /\ at' = at + 1 /\ Fits(n)
      /\ store' = (store \ {Copy}) \cup {c} /\ cache' = cache \cup {c}
      /\ UNCHANGED <<job, round, runs, dropped>>
  BY DEF PlaceApp, Bind
<1>3. Copy.node = None /\ c.node = n
  BY DEF Copy
<1>4. RoundInv'
  <2> HIDE DEF review
  <2>1. \A x \in store \cap cache : x.node # None => x \in store' \cap cache'
    BY <1>2, <1>3
  <2>2. [Copy EXCEPT !.node = review.node] \in store' \cap cache'
    BY <1>1, <1>2
  <2>3. QED
    BY <1>1, <1>2, <2>1, <2>2, ReviewRound, FitParts
<1> HIDE DEF review, c
<1>5. IsFiniteSet(store) /\ IsFiniteSet(cache) /\ IsFiniteSet(nominated)
  BY DEF Inv, Typed, NamesInv
<1>6. Cached'  \/ GivenUp' # {}
  BY <1>2 DEF FitInv, Cached, GivenUp, IsSimulated
<1>7. ASSUME GivenUp = {}, NEW m \in Node PROVE Fit(Copies(store', m), m)
  <2>1. IsFiniteSet(Copies(store, m)) /\ IsFiniteSet(Copies(cache, m))
    BY <1>5, FS_Subset DEF Copies
  <2>2. CASE m # n
    <3>1. Copies(store', m) \subseteq Copies(store, m)
      BY <1>2, <1>3, <2>2 DEF Copies
    <3>2. Fit(Copies(store, m), m)
      BY <1>7 DEF FitInv, StoreFits, Fit
    <3>3. QED
      BY <2>1, <3>1, <3>2, Smaller
  <2>3. CASE m = n
    <3>1. Copies(store, n) \subseteq Copies(cache, n)
      BY <1>1, <1>7 DEF FitInv, Cached, Copies
    <3>2. Cardinality(Copies(store, n)) <= Cardinality(Copies(cache, n))
      BY <2>1, <2>3, <3>1, FS_Subset
    <3>3. Copies(store', n) \subseteq Copies(store, n) \cup {c}
      BY <1>2 DEF Copies
    <3>4. QED
      BY <1>2, <1>5, <2>1, <2>3, <3>2, <3>3, OneMoreFits
  <2>4. QED
    BY <2>2, <2>3
<1>8. StoreFits'
  BY <1>2, <1>7 DEF StoreFits, Fit, Copies, IsSimulated, GivenUp
<1>9. CopiesInv'
  BY <1>6, <1>8 DEF CopiesInv
<1>10. QED
  BY <1>4, <1>9 DEF FitInv, RoundInv, CopiesInv

LEMMA StepFits == ASSUME Inv, ReturnInv, NamesInv, FitInv, [Next]_vars PROVE FitInv'
<1>1. CASE Worker
  <2>1. CASE PopJob \/ DeleteOld \/ DeletedAll \/ AppsDone \/ Cleaned \/ RestoreOld \/ Publish
             \/ \E x \in store : CleanPod(x)
    BY <2>1, ListFits
  <2>2. ASSUME NEW ok \in CreateOutcomes, CreateApp(ok) PROVE FitInv'
    BY <2>2, CreateFits
  <2>3. QED
    BY <1>1, <2>1, <2>2, RejectFits, PlaceFits DEF Worker
<1>2. CASE Elsewhere
  BY <1>2, ClusterFits
<1>3. CASE Handler
  BY <1>3, HandlerFits
<1>4. ASSUME NEW ds \in Requests, Request(ds) PROVE FitInv'
  BY <1>4, HandlerFits
<1>5. CASE UNCHANGED vars
  BY <1>5, HandlerFits, Zenon
<1>6. QED
  BY <1>1, <1>2, <1>3, <1>4, <1>5 DEF Next, Elsewhere

-----------------------------------------------------------------------------
(* What was published fits, as the last round of the list did when it was  *)
(* published.                                                              *)
LEMMA PublishFits == ASSUME Inv, FitInv, AnswersFit, Publish PROVE AnswersFit'
<1> DEFINE new == [job |-> job, list |-> reportlist]
<1>1. /\ emulatorResult' = emulatorResult \cup {new}
      /\ pc = "restore" /\ InRound(Len(job.old)) /\ round \in {1, 2}
  BY DEF Publish, Inv, Typed, Listed
<1>2. Len(reportlist) - Len(job.old) = Off
  <2>1. Len(job.old) \in Nat /\ Len(reportlist) \in Nat
    BY OldLength DEF Inv, Typed
  <2>2. Len(reportlist) = IF round = 1 THEN Len(job.old) ELSE Len(job.old) + Len(job.old)
    BY <1>1 DEF InRound
  <2>3. CASE round = 1
    BY <2>1, <2>2, <2>3 DEF Off
  <2>4. CASE round = 2
    BY <2>1, <2>2, <2>4 DEF Off
  <2>5. QED
    BY <1>1, <2>3, <2>4
<1>3. \A n \in Node : {i \in Lasting(new) : new.list[i].node = n} = InThisRound(n)
  <2>1. Off \in Nat /\ \A i \in DOMAIN reportlist : i \in Nat
    BY OldLength DEF Off, Inv, Typed
  <2>2. LastRound(new) = {i \in DOMAIN reportlist : i > Off}
    BY <1>2 DEF LastRound
  <2>3. \A i : RankIn(new, i) = Rank(i)
    BY <1>2 DEF RankIn, Rank
  <2>4. \A i \in LastRound(new) : i \in Lasting(new) <=> Lasts(i)
    BY <2>1, <2>2, <2>3 DEF Lasting, Lasts
  <2>5. QED
    BY <2>2, <2>4 DEF Lasting, InThisRound
<1>4. \A n \in Node : Fit(InThisRound(n), n)
  BY <1>1 DEF FitInv, RoundFits
<1>5. \A n \in Node :
        NewSize * Cardinality({i \in Lasting(new) : new.list[i].node = n}) <= Capacity[n]
  BY <1>3, <1>4 DEF Fit
<1> HIDE DEF new
<1>6. QED
  <2>1. \A r \in emulatorResult : \A n \in Node :
          NewSize * Cardinality({i \in Lasting(r) : r.list[i].node = n}) <= Capacity[n]
    BY DEF AnswersFit
  <2>2. \A r \in emulatorResult' : \A n \in Node :
          NewSize * Cardinality({i \in Lasting(r) : r.list[i].node = n}) <= Capacity[n]
    BY <1>1, <1>5, <2>1
  <2>3. QED
    BY <2>2 DEF AnswersFit, Lasting, LastRound, RankIn

LEMMA StepAnswersFit == ASSUME Inv, FitInv, AnswersFit, [Next]_vars PROVE AnswersFit'
<1>1. CASE UNCHANGED emulatorResult
  BY <1>1 DEF AnswersFit, Lasting, LastRound, RankIn
<1>2. QED
  BY <1>1, PublishFits DEF Next, Handler, ListPods, RequestFails, Push, Request, PodGoes, PodComes,
     CacheLearns, NominationEnds, Worker, PopJob, DeleteOld, DeletedAll, CreateApp, PlaceApp,
     RejectApp, AppsDone,
     CleanPod, Cleaned, RestoreOld, workerVars, vars

LEMMA FitHolds == Spec => [](FitInv /\ AnswersFit)
<1>1. Init => FitInv /\ AnswersFit
  <2>1. Init => AnswersFit
    BY DEF Init, AnswersFit
  <2>2. QED
    BY <2>1, InitFits
<1>2. VerticalInv /\ FitInv /\ AnswersFit /\ [Next]_vars => (FitInv /\ AnswersFit)'
  BY StepFits, StepAnswersFit DEF VerticalInv
<1>3. QED
  BY <1>1, <1>2, VerticalHolds, PTL DEF Spec

(* The pods a published round has placed on a node fit on it together,     *)
(* however far the scheduler's cache lags behind deletes and creates and   *)
(* whatever dropped jobs have left, if one counts those that no pod        *)
(* rejected after them outranks, which may have had them deleted; and as   *)
(* long as no job was given up half-way no node is ever overfull with      *)
(* copies, as a copy leaves the cache only after the store (997-1073).     *)
THEOREM CopiesAlwaysFit == Spec => []CopiesFit
<1>1. FitInv /\ AnswersFit => CopiesFit
  BY DEF FitInv, CopiesFit
<1>2. QED
  BY <1>1, FitHolds, PTL

=============================================================================
