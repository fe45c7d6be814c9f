----------------------- MODULE AppsEmulatorProperties -----------------------
(* The correctness properties of module AppsEmulator.                      *)
EXTENDS AppsEmulator

(* Every variable keeps to its type.                                       *)
TypeOK ==
  /\ FifoTypeOK
  /\ EngineTypeOK
  /\ pc \in {"pop", "apps", "schedule", "reset", "list", "delete", "publish"}
  /\ key \in Key \cup {NoKey}
  /\ group \in Group \cup {<< >>}
  /\ next \in Nat \ {0}
  /\ reportlist \in Seq(ReviewType)
  /\ toClean \in SUBSET Pod
  /\ emulatorResult \in SUBSET (Key \X Seq(ReviewType))
  /\ used \in SUBSET Key

(* No goroutine ever sends on a closed stop channel (Bind:720, Update:762),*)
(* closes one twice (SchedulerPod:167,170) or reports an app whose stop    *)
(* reason was never set (getMainFailReason, report.go:157).                *)
NoPanic == ~panicked

(* At most one party acts for the app being simulated: while the caller    *)
(* waits on ks.stop there is one pending pod, binding goroutine, undeliv-  *)
(* ered rejection or busy handler, and otherwise none, so the unlocked     *)
(* fields of Kubesim are never used by two of them (cf. the TODO at        *)
(* simulator.go:1673).                                                     *)
Tokens == Cardinality(activeQ) + Cardinality(binding) + Len(events)
            + (IF handler.at = "idle" THEN 0 ELSE 1)

OneBaton == Tokens <= (IF caller.at = "wait" THEN 1 ELSE 0)

(* A node never holds more simulated pods than it has slots, whatever the  *)
(* scheduler's cache still remembers (Bind:704-734, CleanPod:1315-1332).   *)
NoOvercommit == \A n \in Node : Cardinality(PlacedOn(bound, n)) <= Slots[n]

(* The pods being reported are in the store on the node they are reported  *)
(* on, and were created for this very app.                                 *)
StatusIsTrue ==
  \A i \in DOMAIN status.pods :
    /\ status.pods[i] \in bound
    /\ status.pods[i][1].run = stop
    /\ \A j \in DOMAIN status.pods : status.pods[i] = status.pods[j] => i = j

(* A job starts on a cluster free of simulated pods: the API, the pending  *)
(* queue and every goroutine of the last job are empty when the worker     *)
(* looks for the next one (CleanPod precedes publication).                 *)
JobStartsClean ==
  pc = "pop" =>
    /\ Simulated = {} /\ \A x \in bound : x[1].run = 0
    /\ status.pods = << >>
    /\ Tokens = 0

(* The service the endpoints promise: see module JobService.               *)
Service == INSTANCE JobService WITH
  waiting  <- [i \in 1..Len(queue) |-> <<queue[i], appGroup[queue[i]]>>],
  active   <- IF pc = "pop" THEN {} ELSE {<<key, group>>},
  finished <- emulatorResult,
  MayDrop  <- FALSE \in CreateOutcomes,
  disturbed <- FALSE

ImplementsJobService == Service!ServiceSpec

(* "Unschedulable" means what report.go:110 says of the replica count, the *)
(* "actual number of replicas that could schedule": when an app stops      *)
(* short, no node it may use has a free slot.                              *)
CountCouldSchedule ==
  (pc = "schedule" /\ caller.at = "done" /\ status.reason = "Unschedulable")
    => \A n \in simulatedPod.nodes : ~HasRoom(bound, n)

(* The status of a job goes from queuing to processing to its verdict, and *)
(* the verdict stays: no later job takes the result away or goes under its *)
(* id (EmulatorReport:203-253 against Push, Pop and the results at 896).   *)
Rank(st) == IF st = "queuing" THEN 0 ELSE IF st = "processing" THEN 1 ELSE 2

StatusMovesForward ==
  [][\A k \in used : /\ Rank(JobStatus(k)) <= Rank(JobStatus(k)')
                     /\ Rank(JobStatus(k)) = 2 => JobStatus(k)' = JobStatus(k)]_vars

(* The status, read from the map and the results, says where the job is: a *)
(* queued job is in the slice, and one that is neither queued nor answered *)
(* is in the worker's hands, not lost between the two.                     *)
StatusIsRight ==
  \A k \in used :
    /\ JobStatus(k) = "queuing" <=> \E i \in DOMAIN queue : queue[i] = k
    /\ JobStatus(k) = "processing" <=> pc # "pop" /\ key = k

(* Every submitted job is eventually answered (a client polls for it).     *)
EveryJobAnswered ==
  \A k \in Key : (k \in used) ~> (\E x \in emulatorResult : x[1] = k)

=============================================================================
