----------------------------- MODULE JobService -----------------------------
(***************************************************************************)
(* What kubesim promises to a client of its emulation endpoints, with      *)
(* nothing said about pods, schedulers or channels: jobs are taken in the  *)
(* order they were submitted and worked on one at a time; each ends with   *)
(* one list of reviews, one for each app, which is true to the job and can *)
(* really be placed on the cluster, unless somebody else has meddled with  *)
(* the cluster; a job that could not be started may be dropped.            *)
(***************************************************************************)
EXTENDS Integers, Sequences, FiniteSets

CONSTANTS Key, Group, Node, Slots, MayDrop

VARIABLES waiting,   \* submitted jobs in order: <<id, apps>>
          active,    \* at most one job being worked on
          finished,  \* <<id, list of reviews>>
          disturbed  \* has anybody else acted on the cluster?

serviceVars == <<waiting, active, finished, disturbed>>

ServiceInit == waiting = << >> /\ active = {} /\ finished = {} /\ disturbed = FALSE

(* The sum of the counts c, as the size of a disjoint union.               *)
Counted(c) == UNION {{x} \X (1..c[x]) : x \in DOMAIN c}
Total(c) == Cardinality(Counted(c))

OnNode(list, S, n) == [i \in S |-> list[i].onNode[n]]

(* A review tells the truth about its app: "Schedulable" exactly when the  *)
(* wanted number of replicas (more than none) was placed, and on no node   *)
(* the app may not use; the per-node counts add up to the total.           *)
Truthful(app, r) ==
  /\ r.desired = app.replicas
  /\ r.reason \in {"Schedulable", "Unschedulable"}
  /\ (r.reason = "Schedulable") <=> (r.desired > 0 /\ r.replicas = r.desired)
  /\ r.desired > 0 => r.replicas <= r.desired
  /\ Total(r.onNode) = r.replicas
  /\ \A n \in Node \ app.nodes : r.onNode[n] = 0

(* The apps that are still whole when the j-th is reviewed: preemption may *)
(* have taken pods of an app that a later one outranks.                    *)
Standing(apps, j) ==
  {i \in 1..j : \A k \in i..j : apps[k].priority <= apps[i].priority}

(* These are placed together: no node is asked for more slots than it has. *)
Honest(apps, list) ==
  \A j \in DOMAIN apps :
    /\ Truthful(apps[j], list[j])
    /\ \A n \in Node : Total(OnNode(list, Standing(apps, j), n)) <= Slots[n]

SubmitJob(k, g) == /\ waiting' = Append(waiting, <<k, g>>)
                   /\ UNCHANGED <<active, finished, disturbed>>

StartJob == /\ waiting # << >>
            /\ active = {}
            /\ active' = {Head(waiting)}
            /\ waiting' = Tail(waiting)
            /\ UNCHANGED <<finished, disturbed>>

FinishJob == \E job \in active, done \in finished' :
               /\ done[1] = job[1]
               /\ Len(done[2]) = Len(job[2])
               /\ disturbed \/ Honest(job[2], done[2])
               /\ finished' = finished \cup {done}
               /\ finished # finished'
               /\ active' = {}
               /\ UNCHANGED <<waiting, disturbed>>

DropJob == /\ MayDrop
           /\ active # {}
           /\ active' = {}
           /\ UNCHANGED <<waiting, finished, disturbed>>

Disturb == disturbed' = TRUE /\ UNCHANGED <<waiting, active, finished>>

ServiceNext == \/ \E k \in Key, g \in Group : SubmitJob(k, g)
               \/ StartJob
               \/ FinishJob
               \/ DropJob
               \/ Disturb

ServiceSpec == ServiceInit /\ [][ServiceNext]_serviceVars

=============================================================================
