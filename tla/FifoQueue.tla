----------------------------- MODULE FifoQueue -----------------------------
(***************************************************************************)
(* The job queue of kubesim (src/pkg/queue/fifo.go): HTTP handlers push    *)
(* application groups under a fresh job id and the single emulation worker *)
(* pops them.  The Go type keeps two structures under one mutex:           *)
(*                                                                         *)
(*   appGroup  a map from job id to group; absence is NoGroup here         *)
(*   queue     the job ids in arrival order                                *)
(*                                                                         *)
(* A popped or fronted id whose map entry is gone is skipped, so neither   *)
(* structure alone says what is queued.  Every operation holds the mutex   *)
(* from its first to its last line and is one action.                      *)
(***************************************************************************)
EXTENDS Naturals, Sequences

CONSTANTS Key,      \* job ids (uuids)
          Group,    \* application groups a job can carry
          NoGroup   \* what a lookup of an absent id yields

ASSUME NoGroupAssumption == NoGroup \notin Group

VARIABLES appGroup, queue

fifoVars == <<appGroup, queue>>

FifoTypeOK == /\ appGroup \in [Key -> Group \cup {NoGroup}]
              /\ queue \in Seq(Key)

FifoInit == /\ appGroup = [k \in Key |-> NoGroup]
            /\ queue = << >>

Present(k) == appGroup[k] # NoGroup

(* Position of the id that Pop returns and Front refers to: the first one  *)
(* that still has a map entry.                                             *)
IsFront(i) == /\ i \in DOMAIN queue
              /\ Present(queue[i])
              /\ \A j \in 1..(i-1) : ~Present(queue[j])

NothingQueued == \A i \in DOMAIN queue : ~Present(queue[i])

MutantPushKey(k, g) == /\ appGroup' = [appGroup EXCEPT ![k] = k]
                       /\ queue' = Append(queue, k)
MutantPushFront(k, g) == /\ appGroup' = [appGroup EXCEPT ![k] = g]
                         /\ queue' = <<k>> \o queue
Push(k, g) == /\ appGroup' = [appGroup EXCEPT ![k] = g]
              /\ queue' = Append(queue, k)

MutantPopKeep(i) == /\ IsFront(i)
                    /\ queue' = SubSeq(queue, i + 1, Len(queue))
                    /\ UNCHANGED appGroup
Pop(i) == /\ IsFront(i)
          /\ queue' = SubSeq(queue, i + 1, Len(queue))
          /\ appGroup' = [appGroup EXCEPT ![queue[i]] = NoGroup]

(* ErrEmptyQueue: the loop has discarded every id it met.                  *)
PopEmpty == /\ NothingQueued
            /\ queue' = << >>
            /\ UNCHANGED appGroup

Front(i) == /\ IsFront(i)
            /\ queue' = SubSeq(queue, i, Len(queue))
            /\ UNCHANGED appGroup

FrontEmpty == /\ NothingQueued
              /\ queue' = << >>
              /\ UNCHANGED appGroup

=============================================================================
