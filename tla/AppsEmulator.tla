---------------------------- MODULE AppsEmulator ----------------------------
(***************************************************************************)
(* Kubesim end to end for the job types AppsEmulator and                   *)
(* HorizontalEmulator, whose worker bodies are the same: HTTP handlers     *)
(* push jobs, the one worker goroutine of Run pops them, simulates their   *)
(* apps one after the other through the engine of module Kubesim, removes  *)
(* the simulated pods and publishes the list of reviews.                   *)
(*                                                                         *)
(* The environment of this module is the one the code is written for: no   *)
(* pod or node is changed by anyone else while a job runs, an              *)
(* unschedulable pod is not tried again before the handler has seen it     *)
(* (the scheduler retries after a backoff of a second at the earliest),    *)
(* and the creates that Bind asks for succeed.                             *)
(***************************************************************************)
EXTENDS FifoQueue, Kubesim

CONSTANT NoKey   \* the worker's key before its first job

ASSUME GroupAssumption == Group \subseteq Seq(App)
ASSUME NoKeyAssumption == NoKey \notin Key

ReviewType == [desired : Int, replicas : Nat, onNode : [Node -> Nat], reason : Reason]

VARIABLES
  pc,             \* where the worker is
  key, group,     \* the job it popped
  next,           \* index of the app to simulate next
  reportlist,     \* reviews of the apps simulated so far
  toClean,        \* what CleanPod has listed and not deleted yet
  emulatorResult, \* published reviews: pairs of a job id and its list
  used            \* job ids handed out

workerVars == <<pc, key, group, next, reportlist, toClean>>
vars == <<fifoVars, engineVars, workerVars, emulatorResult, used>>

Init ==
  /\ FifoInit
  /\ EngineInit
  /\ pc = "pop" /\ key = NoKey /\ group = << >> /\ next = 1
  /\ reportlist = << >> /\ toClean = {}
  /\ emulatorResult = {}
  /\ used = {}

-----------------------------------------------------------------------------
(* A handler's Func: a fresh job id, one Push; the client gets the id.     *)
Submit(k, g) ==
  /\ k \notin used
  /\ used' = used \cup {k}
  /\ Push(k, g)
  /\ UNCHANGED <<engineVars, workerVars, emulatorResult>>

PopJob(i) ==
  /\ pc = "pop"
  /\ Pop(i)
  /\ key' = queue[i]
  /\ group' = appGroup[queue[i]]
  /\ next' = 1
  /\ reportlist' = << >>
  /\ pc' = "apps"
  /\ UNCHANGED <<engineVars, toClean, emulatorResult, used>>

(* The worker polls: ErrEmptyQueue makes it try again at once.             *)
PollEmpty ==
  /\ pc = "pop"
  /\ PopEmpty
  /\ UNCHANGED <<engineVars, workerVars, emulatorResult, used>>

StartApp ==
  /\ pc = "apps"
  /\ next <= Len(group)
  /\ UpdatePodRequest(group[next])
  /\ pc' = "schedule"
  /\ UNCHANGED <<fifoVars, key, group, next, reportlist, toClean, emulatorResult, used>>

(* SchedulerPod returned an error: the job is given up, nothing is cleaned *)
(* and nothing published.                                                  *)
DropJob ==
  /\ pc = "schedule"
  /\ caller.at = "failed"
  /\ caller' = [caller EXCEPT !.at = "idle"]
  /\ pc' = "pop"
  /\ UNCHANGED <<fifoVars, requestVars, closed, status, closedStop, clusterVars, activeQ,
                 binding, events, handler, panicked, key, group, next, reportlist,
                 toClean, emulatorResult, used>>

ReportApp ==
  /\ pc = "schedule"
  /\ caller.at = "done"
  /\ caller' = [caller EXCEPT !.at = "idle"]
  /\ panicked' = ReportPanics
  /\ reportlist' = Append(reportlist, Review)
  /\ next' = next + 1
  /\ pc' = "reset"
  /\ UNCHANGED <<fifoVars, requestVars, closed, status, closedStop, clusterVars, activeQ,
                 binding, events, handler, key, group, toClean, emulatorResult, used>>

ResetStatus ==
  /\ pc = "reset"
  /\ CleanStatusPods
  /\ pc' = "apps"
  /\ UNCHANGED <<fifoVars, requestVars, closed, caller, closedStop, clusterVars, activeQ,
                 binding, events, handler, panicked, key, group, next, reportlist,
                 toClean, emulatorResult, used>>

MutantNoClean == "publish"
AfterList == IF Simulated = {} THEN "publish" ELSE "delete"

(* CleanPod lists the simulated pods until there are none ...              *)
ListPods ==
  /\ \/ pc = "apps" /\ next > Len(group)
     \/ pc = "list"
  /\ toClean' = Simulated
  /\ pc' = AfterList
  /\ UNCHANGED <<fifoVars, engineVars, key, group, next, reportlist, emulatorResult, used>>

(* ... and deletes what it listed, giving up on the first error.           *)
CleanPod(p) ==
  /\ pc = "delete"
  /\ p \in toClean
  /\ DeletePod(p)
  /\ toClean' = IF p \in store THEN toClean \ {p} ELSE {}
  /\ pc' = CASE p \notin store -> "publish"
             [] p \in store /\ toClean = {p} -> "list"
             [] OTHER -> "delete"
  /\ UNCHANGED <<fifoVars, requestVars, closed, status, caller, closedStop, cache,
                 nominated, activeQ, binding, events, handler, panicked, key, group, next,
                 reportlist, emulatorResult, used>>

MutantSkipEmpty ==
  emulatorResult' = emulatorResult \cup
                      (IF reportlist = << >> THEN {} ELSE {<<key, reportlist>>})
MutantLastResult == emulatorResult' = {<<key, reportlist>>}
StoreResult ==
  emulatorResult' = {x \in emulatorResult : x[1] # key} \cup {<<key, reportlist>>}

Publish ==
  /\ pc = "publish"
  /\ CleanStatusPods
  /\ StoreResult
  /\ pc' = "pop"
  /\ UNCHANGED <<fifoVars, requestVars, closed, caller, closedStop, clusterVars, activeQ,
                 binding, events, handler, panicked, key, group, next, reportlist,
                 toClean, used>>

Worker ==
  \/ \E i \in DOMAIN queue : PopJob(i)
  \/ StartApp
  \/ DropJob
  \/ ReportApp
  \/ ResetStatus
  \/ ListPods
  \/ \E p \in toClean : CleanPod(p)
  \/ Publish

EngineStep == Engine /\ UNCHANGED <<fifoVars, workerVars, emulatorResult, used>>

Client == \E k \in Key, g \in Group : Submit(k, g)

(* A panic in any goroutine ends the process.                              *)
Next == ~panicked /\ (Client \/ PollEmpty \/ Worker \/ EngineStep)

Spec == Init /\ [][Next]_vars

Running(A) == ~panicked /\ A /\ UNCHANGED <<fifoVars, workerVars, emulatorResult, used>>

(* Goroutines the Go runtime keeps running: the worker, the scheduler's    *)
(* loop and its binding goroutines, the handler.  Clients owe nothing, and *)
(* neither does the informer, whose lag is unbounded.                      *)
Fairness ==
  /\ WF_vars(~panicked /\ Worker)
  /\ WF_vars(Running(Caller))
  /\ WF_vars(Running(Scheduler))
  /\ WF_vars(Running(Binder))
  /\ WF_vars(Running(Handler))

FairSpec == Spec /\ Fairness

-----------------------------------------------------------------------------
(* EmulatorReport, what a client that asks for a job is told.  It looks at *)
(* the results, then at the queue's map, under the read lock that keeps    *)
(* Publish out, so that the answer is that of its last look.  A job        *)
(* without apps is answered with an empty status.                          *)
Result(k) == {x \in emulatorResult : x[1] = k}

Verdict(list) ==
  IF \E i \in DOMAIN list : list[i].reason = "Unschedulable" THEN "failed"
  ELSE IF list = << >> THEN ""
  ELSE "succeed"

JobStatus(k) ==
  IF Result(k) # {} THEN Verdict((CHOOSE x \in Result(k) : TRUE)[2])
  ELSE IF Present(k) THEN "queuing"
  ELSE "processing"

=============================================================================
