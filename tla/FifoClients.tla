---------------------------- MODULE FifoClients ----------------------------
(***************************************************************************)
(* The FIFO queue under the calls its clients make: any number of handlers *)
(* push, each with a uuid of its own, in any order with the worker's pops. *)
(* `returned` is the result of the last call, `used` the ids handed out so *)
(* far (gouuid.New never repeats one).                                     *)
(***************************************************************************)
EXTENDS FifoQueue

CONSTANTS NoReturn, EmptyReturn

VARIABLES returned, used

clientVars == <<appGroup, queue, returned, used>>

ReturnOf(i) == <<queue[i], appGroup[queue[i]]>>

Init == /\ FifoInit
        /\ returned = NoReturn
        /\ used = {}

PushJob(k, g) == /\ k \notin used
                 /\ used' = used \cup {k}
                 /\ Push(k, g)
                 /\ returned' = NoReturn

PopJob(i) == /\ Pop(i)
             /\ returned' = ReturnOf(i)
             /\ UNCHANGED used

FrontJob(i) == /\ Front(i)
               /\ returned' = ReturnOf(i)
               /\ UNCHANGED used

PopNothing == /\ PopEmpty
              /\ returned' = EmptyReturn
              /\ UNCHANGED used

FrontNothing == /\ FrontEmpty
                /\ returned' = EmptyReturn
                /\ UNCHANGED used

Next == \/ \E k \in Key, g \in Group : PushJob(k, g)
        \/ \E i \in DOMAIN queue : PopJob(i)
        \/ \E i \in DOMAIN queue : FrontJob(i)
        \/ PopNothing
        \/ FrontNothing

Spec == Init /\ [][Next]_clientVars

-----------------------------------------------------------------------------
(* Type correctness; an id is never pushed twice.                          *)
TypeOK == /\ FifoTypeOK
          /\ used \in SUBSET Key

(* The map and the sequence agree: every queued id has a group, every      *)
(* group is queued under its id, and no id is queued twice.  This is what  *)
(* lets EmulatorReport (scheduler_emulator.go:229) answer "queuing" from   *)
(* the map alone while Pop goes by the sequence (fifo.go:58-72).           *)
MapMatchesQueue ==
  /\ \A i \in DOMAIN queue : Present(queue[i])
  /\ \A k \in Key : Present(k) => \E i \in DOMAIN queue : queue[i] = k
  /\ \A i, j \in DOMAIN queue : queue[i] = queue[j] => i = j
  /\ \A i \in DOMAIN queue : queue[i] \in used

(* The two structures behave as one first-in first-out sequence: no job is *)
(* lost, repeated or overtaken, and each Pop returns the group that was    *)
(* pushed with the id (fifo.go:48-72, interface PodQueue in queue.go).     *)
Contents == [i \in 1..Len(queue) |-> <<queue[i], appGroup[queue[i]]>>]

Service == INSTANCE JobQueue WITH contents <- Contents

ImplementsJobQueue == Service!JQSpec

=============================================================================
