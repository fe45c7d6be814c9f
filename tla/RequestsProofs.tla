--------------------------- MODULE RequestsProofs ---------------------------
(***************************************************************************)
(* The job queue, and the way of a request to it and to the worker.  For   *)
(* any number of jobs the two structures of the queue stay in step, so no  *)
(* id is ever skipped (Pop and Front always use position 1), and every     *)
(* operation is a step of the abstract queue.  For any requests and any    *)
(* cluster the handlers and the worker are clients of that queue; every    *)
(* job asks for what its request named or for what is missing to it; and   *)
(* only an incomplete request ends the process.                            *)
(***************************************************************************)
EXTENDS Requests, SequenceTheorems, TLAPS

QueueInv == TypeOK /\ MapMatchesQueue

-----------------------------------------------------------------------------
(* Nothing in the queue is stale: the loop of Pop and Front ends at once.  *)
LEMMA FrontIsFirst ==
  ASSUME QueueInv, NEW i \in DOMAIN queue, IsFront(i)
  PROVE  i = 1 /\ Len(queue) \in Nat \ {0} /\ queue[1] \in Key /\ Present(queue[1])
<1>1. queue \in Seq(Key) /\ i \in 1..Len(queue) /\ Len(queue) \in Nat
  BY DEF QueueInv, TypeOK, FifoTypeOK
<1>2. 1 \in DOMAIN queue
  BY <1>1
<1>3. Present(queue[1])
  BY <1>2 DEF QueueInv, MapMatchesQueue
<1>4. i = 1
  BY <1>1, <1>3 DEF IsFront
<1>5. QED
  BY <1>1, <1>2, <1>3, <1>4

LEMMA SubSeqFromTwo ==
  ASSUME NEW S, NEW s \in Seq(S), Len(s) # 0
  PROVE  /\ SubSeq(s, 2, Len(s)) \in Seq(S)
         /\ Len(SubSeq(s, 2, Len(s))) = Len(s) - 1
         /\ \A j \in 1..(Len(s) - 1) : SubSeq(s, 2, Len(s))[j] = s[j + 1]
<1>1. s # << >>
  OBVIOUS
<1>2. SubSeq(s, 2, Len(s)) = Tail(s)
  BY <1>1, TailIsSubSeq
<1>3. /\ Tail(s) \in Seq(S) /\ Len(Tail(s)) = Len(s) - 1
      /\ \A j \in 1..(Len(s) - 1) : Tail(s)[j] = s[j + 1]
  BY <1>1, HeadTailProperties
<1>4. QED
  BY <1>2, <1>3, Zenon

LEMMA InitInv == Init => QueueInv
BY DEF Init, FifoInit, QueueInv, TypeOK, FifoTypeOK, MapMatchesQueue, Present

LEMMA PushInv ==
  ASSUME QueueInv, NEW k \in Key, NEW g \in Group, PushJob(k, g)
  PROVE  QueueInv'
<1> USE DEF QueueInv, TypeOK, FifoTypeOK, MapMatchesQueue, PushJob, Push
<1>1. /\ queue' \in Seq(Key) /\ Len(queue') = Len(queue) + 1
      /\ queue'[Len(queue) + 1] = k
      /\ \A j \in 1..Len(queue) : queue'[j] = queue[j]
  BY AppendProperties
<1>2. TypeOK'
  BY <1>1
<1>3. \A j \in 1..Len(queue) : queue[j] # k
  OBVIOUS
<1>4. g # NoGroup
  BY NoGroupAssumption
<1>5. (\A i \in DOMAIN queue : Present(queue[i]))'
  BY <1>1, <1>3, <1>4 DEF Present
<1>6. ASSUME NEW m \in Key, Present(m)'
      PROVE  \E i \in DOMAIN queue' : queue'[i] = m
  <2>1. CASE m = k
    BY <1>1, <2>1
  <2>2. CASE m # k
    <3>1. Present(m)
      BY <1>6, <2>2 DEF Present
    <3>2. PICK i \in 1..Len(queue) : queue[i] = m
      BY <3>1
    <3>3. i \in DOMAIN queue' /\ queue'[i] = m
      BY <1>1, <3>2
    <3>4. QED
      BY <3>3
  <2>3. QED
    BY <2>1, <2>2
<1>7. (\A i, j \in DOMAIN queue : queue[i] = queue[j] => i = j)'
  BY <1>1, <1>3
<1>8. (\A i \in DOMAIN queue : queue[i] \in used)'
  BY <1>1
<1>9. QED
  BY <1>2, <1>5, <1>6, <1>7, <1>8

LEMMA PopInv ==
  ASSUME QueueInv, NEW i \in DOMAIN queue, PopJob(i)
  PROVE  QueueInv'
<1>1. i = 1 /\ Len(queue) \in Nat \ {0} /\ queue[1] \in Key
  BY FrontIsFirst DEF PopJob, Pop
<1>2. /\ queue' \in Seq(Key) /\ Len(queue') = Len(queue) - 1
      /\ \A j \in 1..(Len(queue) - 1) : queue'[j] = queue[j + 1]
  BY <1>1, SubSeqFromTwo DEF PopJob, Pop, QueueInv, TypeOK, FifoTypeOK
<1>3. appGroup' = [appGroup EXCEPT ![queue[1]] = NoGroup] /\ used' = used
  BY <1>1 DEF PopJob, Pop
<1> USE DEF QueueInv, TypeOK, FifoTypeOK, MapMatchesQueue
<1>4. TypeOK'
  BY <1>1, <1>2, <1>3
<1>5. \A j \in 1..(Len(queue) - 1) : queue[j + 1] # queue[1]
  BY <1>1
<1>6. (\A j \in DOMAIN queue : Present(queue[j]))'
  <2>1. \A j \in 1..(Len(queue) - 1) : queue[j + 1] \in Key /\ Present(queue[j + 1])
    BY <1>1
  <2>2. \A j \in 1..(Len(queue) - 1) : appGroup'[queue[j + 1]] = appGroup[queue[j + 1]]
    BY <1>1, <1>3, <1>5, <2>1
  <2>3. ASSUME NEW j \in DOMAIN queue' PROVE Present(queue[j])'
    <3>1. j \in 1..(Len(queue) - 1) /\ queue'[j] = queue[j + 1]
      BY <1>2
    <3>2. appGroup'[queue'[j]] = appGroup[queue[j + 1]] /\ Present(queue[j + 1])
      BY <2>1, <2>2, <3>1
    <3>3. QED
      BY <3>2, Zenon DEF Present
  <2>4. QED
    BY <2>3
<1>7. ASSUME NEW m \in Key, Present(m)'
      PROVE  \E j \in DOMAIN queue' : queue'[j] = m
  <2>1. m # queue[1]
    BY <1>1, <1>3, <1>7 DEF Present
  <2>2. Present(m)
    BY <1>1, <1>3, <1>7, <2>1 DEF Present
  <2>3. PICK j \in 1..Len(queue) : queue[j] = m
    BY <2>2
  <2>4. j - 1 \in 1..(Len(queue) - 1) /\ queue'[j - 1] = m
    BY <1>1, <1>2, <2>1, <2>3
  <2>5. QED
    BY <1>2, <2>4
<1>8. (\A j, m \in DOMAIN queue : queue[j] = queue[m] => j = m)'
  <2>1. ASSUME NEW j \in 1..(Len(queue) - 1), NEW m \in 1..(Len(queue) - 1),
               queue[j + 1] = queue[m + 1]
        PROVE  j = m
    <3>1. j + 1 \in DOMAIN queue /\ m + 1 \in DOMAIN queue
      BY <1>1
    <3>2. j + 1 = m + 1
      BY <2>1, <3>1
    <3>3. QED
      BY <3>2
  <2>2. ASSUME NEW j \in DOMAIN queue', NEW m \in DOMAIN queue', queue'[j] = queue'[m]
        PROVE  j = m
    <3>1. j \in 1..(Len(queue) - 1) /\ m \in 1..(Len(queue) - 1)
      BY <1>2
    <3>2. queue'[j] = queue[j + 1] /\ queue'[m] = queue[m + 1]
      BY <1>2, <3>1, Zenon
    <3>3. QED
      BY <2>1, <2>2, <3>1, <3>2
  <2>3. QED
    BY <2>2
<1>9. (\A j \in DOMAIN queue : queue[j] \in used)'
  <2>1. ASSUME NEW j \in 1..(Len(queue) - 1) PROVE queue'[j] \in used
    <3>1. queue'[j] = queue[j + 1] /\ j + 1 \in DOMAIN queue
      BY <1>1, <1>2
    <3>2. QED
      BY <3>1
  <2>2. QED
    BY <1>2, <1>3, <2>1
<1>10. QED
  BY <1>4, <1>6, <1>7, <1>8, <1>9

(* Front leaves a queue without stale ids as it is.                        *)
LEMMA FrontKeepsQueue ==
  ASSUME QueueInv, NEW i \in DOMAIN queue, Front(i)
  PROVE  i = 1 /\ queue' = queue /\ appGroup' = appGroup
<1>1. i = 1 /\ queue \in Seq(Key)
  BY FrontIsFirst DEF Front, QueueInv, TypeOK, FifoTypeOK
<1>2. SubSeq(queue, 1, Len(queue)) = queue
  BY <1>1, SubSeqFull
<1>3. QED
  BY <1>1, <1>2 DEF Front

(* The queue is empty when there is nothing to return.                     *)
LEMMA EmptyKeepsQueue ==
  ASSUME QueueInv, NothingQueued
  PROVE  queue = << >>
<1>1. queue \in Seq(Key) /\ (\A i \in DOMAIN queue : Present(queue[i]))
  BY DEF QueueInv, TypeOK, FifoTypeOK, MapMatchesQueue
<1>2. DOMAIN queue = {}
  BY <1>1 DEF NothingQueued
<1>3. QED
  BY <1>1, <1>2, EmptySeq

LEMMA StepInv == ASSUME QueueInv, [Next]_clientVars PROVE QueueInv'
<1>1. ASSUME NEW k \in Key, NEW g \in Group, PushJob(k, g) PROVE QueueInv'
  BY <1>1, PushInv
<1>2. ASSUME NEW i \in DOMAIN queue, PopJob(i) PROVE QueueInv'
  BY <1>2, PopInv
<1>3. ASSUME UNCHANGED <<appGroup, queue, used>> PROVE QueueInv'
  BY <1>3 DEF QueueInv, TypeOK, FifoTypeOK, MapMatchesQueue, Present
<1>4. ASSUME NEW i \in DOMAIN queue, FrontJob(i) PROVE QueueInv'
  BY <1>3, <1>4, FrontKeepsQueue DEF FrontJob
<1>5. CASE PopNothing
  BY <1>3, <1>5, EmptyKeepsQueue DEF PopNothing, PopEmpty
<1>6. CASE FrontNothing
  BY <1>3, <1>6, EmptyKeepsQueue DEF FrontNothing, FrontEmpty
<1>7. CASE UNCHANGED clientVars
  BY <1>3, <1>7 DEF clientVars
<1>8. QED
  BY <1>1, <1>2, <1>4, <1>5, <1>6, <1>7 DEF Next

(* The map and the slice of Fifo (fifo.go:23-26) never disagree.           *)
THEOREM QueueInvariant == Spec => [](TypeOK /\ MapMatchesQueue)
<1>1. Init => QueueInv
  BY InitInv
<1>2. QueueInv /\ [Next]_clientVars => QueueInv'
  BY StepInv
<1>3. QED
  BY <1>1, <1>2, PTL DEF Spec, QueueInv

(* Fifo's map and slice hold ids and groups only, and every queued id was  *)
(* handed out (fifo.go:23-26).                                             *)
THEOREM QueueTyped == Spec => []TypeOK
BY QueueInvariant, PTL

-----------------------------------------------------------------------------
LEMMA FunctionIsSeq ==
  ASSUME NEW T, NEW n \in Nat, NEW c \in [1..n -> T]
  PROVE  c \in Seq(T) /\ Len(c) = n
OBVIOUS

(* What Contents is for any sequence of ids and any map.                   *)
LEMMA PairsAreSeq ==
  ASSUME NEW S, NEW q \in Seq(Key), NEW m \in [Key -> S],
         NEW c, c = [i \in 1..Len(q) |-> <<q[i], m[q[i]]>>]
  PROVE  /\ c \in Seq(Key \X S)
         /\ Len(c) = Len(q)
         /\ \A i \in 1..Len(q) : c[i] = <<q[i], m[q[i]]>>
<1>1. \A i \in 1..Len(q) : q[i] \in Key /\ m[q[i]] \in S
  OBVIOUS
<1>2. \A i \in 1..Len(q) : c[i] = <<q[i], m[q[i]]>>
  OBVIOUS
<1>3. \A i \in 1..Len(q) : c[i] \in Key \X S
  BY <1>1, <1>2
<1> DEFINE T == Key \X S
           n == Len(q)
<1>4. c \in [1..n -> T]
  BY <1>3
<1>5. n \in Nat
  OBVIOUS
<1>6. c \in Seq(T) /\ Len(c) = n
  <2> HIDE DEF T, n
  <2>1. QED
    BY ONLY <1>4, <1>5, FunctionIsSeq
<1>7. QED
  BY <1>2, <1>6

LEMMA ContentsIsSeq ==
  ASSUME QueueInv
  PROVE  /\ Contents \in Seq(Key \X (Group \cup {NoGroup}))
         /\ Len(Contents) = Len(queue)
         /\ \A i \in 1..Len(queue) : Contents[i] = <<queue[i], appGroup[queue[i]]>>
<1> DEFINE T == Group \cup {NoGroup}
<1>1. queue \in Seq(Key) /\ appGroup \in [Key -> T]
  BY DEF QueueInv, TypeOK, FifoTypeOK
<1>2. \A i \in 1..Len(queue) : queue[i] \in Key /\ appGroup[queue[i]] \in T
  BY <1>1
<1>3. \A i \in 1..Len(queue) : Contents[i] = <<queue[i], appGroup[queue[i]]>>
  BY DEF Contents
<1> HIDE DEF T
<1>4. \A i \in 1..Len(queue) : <<queue[i], appGroup[queue[i]]>> \in Key \X T
  BY <1>2
<1>5. Contents \in [1..Len(queue) -> Key \X T]
  BY <1>4, Zenon DEF Contents
<1>6. Len(queue) \in Nat
  BY <1>1
<1>7. QED
  BY <1>3, <1>5, <1>6, FunctionIsSeq DEF T

(* The empty queue is the empty sequence of jobs.                          *)
LEMMA InitRefines == Init => Service!JQInit
BY DEF Init, FifoInit, Contents, Service!JQInit

LEMMA PushRefines ==
  ASSUME QueueInv, NEW k \in Key, NEW g \in Group, PushJob(k, g)
  PROVE  Service!JQPush(k, g)
<1> DEFINE S == Key \X (Group \cup {NoGroup})
<1>1. QueueInv'
  BY PushInv
<1>2. /\ queue \in Seq(Key) /\ Len(queue) \in Nat /\ Len(queue') = Len(queue) + 1
      /\ queue'[Len(queue) + 1] = k
      /\ \A j \in 1..Len(queue) : queue'[j] = queue[j] /\ queue[j] # k /\ queue[j] \in Key
  BY AppendProperties DEF QueueInv, TypeOK, FifoTypeOK, MapMatchesQueue, PushJob, Push
<1>3. appGroup' = [appGroup EXCEPT ![k] = g] /\ appGroup \in [Key -> Group \cup {NoGroup}]
  BY DEF PushJob, Push, QueueInv, TypeOK, FifoTypeOK
<1>4. /\ Contents' \in Seq(S) /\ Len(Contents') = Len(queue) + 1
      /\ \A i \in 1..(Len(queue) + 1) : Contents'[i] = <<queue'[i], appGroup'[queue'[i]]>>
  <2>1. queue' \in Seq(Key) /\ appGroup' \in [Key -> Group \cup {NoGroup}]
    BY <1>1 DEF QueueInv, TypeOK, FifoTypeOK
  <2>2. Contents' = [i \in 1..Len(queue') |-> <<queue'[i], appGroup'[queue'[i]]>>]
    BY DEF Contents
  <2>3. /\ Contents' \in Seq(S) /\ Len(Contents') = Len(queue')
        /\ \A i \in 1..Len(queue') : Contents'[i] = <<queue'[i], appGroup'[queue'[i]]>>
    <3> DEFINE T == Group \cup {NoGroup}
    <3> HIDE DEF T
    <3>1. queue' \in Seq(Key) /\ appGroup' \in [Key -> T] /\ S = Key \X T
      BY <2>1 DEF T
    <3>2. QED
      BY <2>2, <3>1, PairsAreSeq
  <2>4. QED
    BY <1>2, <2>3
<1>5. /\ Contents \in Seq(S) /\ Len(Contents) = Len(queue)
      /\ \A i \in 1..Len(queue) : Contents[i] = <<queue[i], appGroup[queue[i]]>>
  BY ContentsIsSeq
<1>6. <<k, g>> \in S
  OBVIOUS
<1>7. /\ Append(Contents, <<k, g>>) \in Seq(S)
      /\ Len(Append(Contents, <<k, g>>)) = Len(queue) + 1
      /\ \A i \in 1..Len(queue) : Append(Contents, <<k, g>>)[i] = Contents[i]
      /\ Append(Contents, <<k, g>>)[Len(queue) + 1] = <<k, g>>
  <2> HIDE DEF S
  <2>1. QED
    BY <1>5, <1>6, AppendProperties
<1>8. ASSUME NEW i \in 1..(Len(queue) + 1)
      PROVE  Contents'[i] = Append(Contents, <<k, g>>)[i]
  <2>1. CASE i \in 1..Len(queue)
    <3>1. queue'[i] = queue[i] /\ queue[i] # k /\ queue[i] \in Key
      BY <1>2, <2>1
    <3>2. appGroup'[queue[i]] = appGroup[queue[i]]
      BY <1>3, <3>1
    <3>3. Append(Contents, <<k, g>>)[i] = <<queue[i], appGroup[queue[i]]>>
      BY <1>5, <1>7, <2>1
    <3>4. QED
      BY <1>4, <3>1, <3>2, <3>3
  <2>2. CASE i = Len(queue) + 1
    BY <1>2, <1>3, <1>4, <1>7, <2>2
  <2>3. i \in 1..Len(queue) \/ i = Len(queue) + 1
    <3>1. Len(queue) \in Nat
      BY <1>2
    <3>2. QED
      BY <3>1
  <2>4. QED
    BY <2>1, <2>2, <2>3
<1>9. Contents' = Append(Contents, <<k, g>>)
  <2> HIDE DEF S
  <2>1. QED
    BY <1>4, <1>7, <1>8, SeqEqual
<1>10. QED
  BY <1>9 DEF Service!JQPush, PushJob

LEMMA PopRefines ==
  ASSUME QueueInv, NEW i \in DOMAIN queue, PopJob(i)
  PROVE  Service!JQPop
<1> DEFINE T == Group \cup {NoGroup}
           S == Key \X T
<1>1. /\ i = 1 /\ Len(queue) \in Nat \ {0} /\ queue \in Seq(Key) /\ queue[1] \in Key
      /\ appGroup \in [Key -> T]
  BY FrontIsFirst DEF PopJob, Pop, QueueInv, TypeOK, FifoTypeOK
<1>2. /\ queue' \in Seq(Key) /\ Len(queue') = Len(queue) - 1
      /\ \A j \in 1..(Len(queue) - 1) : queue'[j] = queue[j + 1]
  BY <1>1, SubSeqFromTwo DEF PopJob, Pop
<1>3. appGroup' = [appGroup EXCEPT ![queue[1]] = NoGroup] /\ appGroup' \in [Key -> T]
  BY <1>1 DEF PopJob, Pop
<1>4. \A j \in 1..(Len(queue) - 1) : queue[j + 1] # queue[1] /\ queue[j + 1] \in Key
  BY <1>1 DEF QueueInv, MapMatchesQueue
<1>5. /\ Contents \in Seq(S) /\ Len(Contents) = Len(queue)
      /\ \A j \in 1..Len(queue) : Contents[j] = <<queue[j], appGroup[queue[j]]>>
  BY ContentsIsSeq
<1>6. /\ Contents' \in Seq(S) /\ Len(Contents') = Len(queue) - 1
      /\ \A j \in 1..(Len(queue) - 1) : Contents'[j] = <<queue'[j], appGroup'[queue'[j]]>>
  <2>1. Contents' = [j \in 1..Len(queue') |-> <<queue'[j], appGroup'[queue'[j]]>>]
    BY DEF Contents
  <2>2. /\ Contents' \in Seq(S) /\ Len(Contents') = Len(queue')
        /\ \A j \in 1..Len(queue') : Contents'[j] = <<queue'[j], appGroup'[queue'[j]]>>
    <3> HIDE DEF T
    <3>1. QED
      BY <1>2, <1>3, <2>1, PairsAreSeq
  <2>3. QED
    BY <1>2, <2>2
<1> HIDE DEF S
<1>7. Contents # << >>
  BY <1>1, <1>5, EmptySeq
<1>8. /\ Head(Contents) = Contents[1]
      /\ Tail(Contents) \in Seq(S) /\ Len(Tail(Contents)) = Len(queue) - 1
      /\ \A j \in 1..(Len(queue) - 1) : Tail(Contents)[j] = Contents[j + 1]
  BY <1>5, <1>7, HeadTailProperties
<1>9. ASSUME NEW j \in 1..(Len(queue) - 1)
      PROVE  Contents'[j] = Tail(Contents)[j]
  <2>1. j + 1 \in 1..Len(queue)
    BY <1>1
  <2>2. appGroup'[queue'[j]] = appGroup[queue[j + 1]]
    BY <1>1, <1>2, <1>3, <1>4
  <2>3. QED
    BY <1>2, <1>5, <1>6, <1>8, <2>1, <2>2
<1>10. Contents' = Tail(Contents)
  BY <1>6, <1>8, <1>9, SeqEqual
<1>11. returned' = Head(Contents)
  BY <1>1, <1>5, <1>8 DEF PopJob, ReturnOf
<1>12. QED
  BY <1>7, <1>10, <1>11 DEF Service!JQPop

(* A queue that does not change keeps its contents.                        *)
LEMMA FrontRefines ==
  ASSUME QueueInv, NEW i \in DOMAIN queue, FrontJob(i)
  PROVE  Service!JQFront
<1> DEFINE T == Group \cup {NoGroup}
           S == Key \X T
<1>1. /\ i = 1 /\ Len(queue) \in Nat \ {0} /\ queue \in Seq(Key)
      /\ appGroup \in [Key -> T]
  BY FrontIsFirst DEF FrontJob, Front, QueueInv, TypeOK, FifoTypeOK
<1>2. /\ Contents \in Seq(S) /\ Len(Contents) = Len(queue)
      /\ \A j \in 1..Len(queue) : Contents[j] = <<queue[j], appGroup[queue[j]]>>
  BY ContentsIsSeq
<1> HIDE DEF S
<1>3. Contents # << >> /\ Head(Contents) = Contents[1]
  BY <1>1, <1>2, EmptySeq
<1>4. Contents' = Contents
  BY FrontKeepsQueue DEF FrontJob, Contents
<1>5. returned' = Head(Contents)
  BY <1>1, <1>2, <1>3 DEF FrontJob, ReturnOf
<1>6. QED
  BY <1>3, <1>4, <1>5 DEF Service!JQFront

(* ErrEmptyQueue is returned only for an empty queue.                      *)
LEMMA EmptyRefines ==
  ASSUME QueueInv, PopNothing \/ FrontNothing
  PROVE  Service!JQEmpty
<1>1. queue = << >> /\ queue' = << >> /\ returned' = EmptyReturn
  BY EmptyKeepsQueue DEF PopNothing, PopEmpty, FrontNothing, FrontEmpty
<1>2. Contents = << >> /\ Contents' = << >>
  BY <1>1 DEF Contents
<1>3. QED
  BY <1>1, <1>2 DEF Service!JQEmpty

LEMMA StepRefines ==
  ASSUME QueueInv, [Next]_clientVars
  PROVE  [Service!JQNext]_(Service!jqVars)
<1> USE DEF Service!JQNext
<1>1. ASSUME NEW k \in Key, NEW g \in Group, PushJob(k, g) PROVE Service!JQNext
  BY <1>1, PushRefines
<1>2. ASSUME NEW i \in DOMAIN queue, PopJob(i) PROVE Service!JQNext
  BY <1>2, PopRefines
<1>3. ASSUME NEW i \in DOMAIN queue, FrontJob(i) PROVE Service!JQNext
  BY <1>3, FrontRefines
<1>4. CASE PopNothing \/ FrontNothing
  BY <1>4, EmptyRefines
<1>5. CASE UNCHANGED clientVars
  BY <1>5 DEF clientVars, Contents, Service!jqVars
<1>6. QED
  BY <1>1, <1>2, <1>3, <1>4, <1>5 DEF Next

(* Push, Pop and Front of Fifo (fifo.go:48-86) are those of one first-in   *)
(* first-out sequence of jobs.                                             *)
THEOREM QueueRefinement == Spec => ImplementsJobQueue
<1>1. Init => Service!JQInit
  BY InitRefines
<1>2. QueueInv /\ [Next]_clientVars => [Service!JQNext]_(Service!jqVars)
  BY StepRefines
<1>3. Spec => []QueueInv
  BY QueueInvariant, PTL DEF QueueInv
<1>4. QED
  BY <1>1, <1>2, <1>3, PTL DEF Spec, ImplementsJobQueue, Service!JQSpec


-----------------------------------------------------------------------------
(* The life of a request, for any requests and any cluster.  A request is  *)
(* gathered app by app from sizes it has seen; nobody has used its id      *)
(* before it is submitted, and what is submitted is a group of the queue.  *)
App == [pod : Deployment \cup {Nil}, replicas : Int]
Seen == SUBSET (Deployment \X (Sizes \cup {Nil}))
Stage == {"none", "parsed", "error", "panic", "queued"}

RequestsTyped ==
  /\ reqs \in [Key -> [body : Request \cup {Nil}, at : Stage, apps : Seq(App), seen : Seen]]
  /\ size \in [Deployment -> Sizes \cup {Nil}]
  /\ job \in Key \cup {Nil}

GatheredApp(r, i, app, seen) ==
  IF r.kind = "deployment"
    THEN /\ app.pod = Items(r)[i].name
         /\ app.replicas \in 1..(Half - 1)
         /\ IsMissing(app.replicas, Items(r)[i], seen)
    ELSE app = [pod |-> Nil, replicas |-> 0]

Gathered(q) ==
  /\ q.body \in Request /\ Outcome(q.body) = "parsed"
  /\ \A e \in Deployment : <<e, size[e]>> \in q.seen
  /\ Len(q.apps) <= Len(Items(q.body))
  /\ \A i \in 1..Len(q.apps) : GatheredApp(q.body, i, q.apps[i], q.seen)

Asked(q) ==
  LET r == q.body
      list == IF r.kind = "statefulset" THEN r.statefulsetApps ELSE r.deployApps IN
  /\ Len(q.apps) = IF Known(r) THEN Len(list) ELSE 0
  /\ \A i \in DOMAIN q.apps :
       IF r.endpoint # "horizontal"
         THEN q.apps[i] = [pod |-> list[i].name, replicas |-> AskedFor(list[i])]
       ELSE IF r.kind = "deployment"
         THEN /\ q.apps[i].pod = list[i].name
              /\ IsMissing(q.apps[i].replicas, list[i], q.seen)
         ELSE q.apps[i].pod = Nil

Carried(q, g) ==
  /\ g.apps = q.apps
  /\ q.body.endpoint = "prediction" => g.nodes = NodesOf(q.body)

Lives(k) ==
  /\ reqs[k].at = "parsed" => Gathered(reqs[k])
  /\ reqs[k].at = "queued" => /\ reqs[k].body \in Request
                              /\ Asked(reqs[k])
                              /\ Present(k) => Carried(reqs[k], appGroup[k])
  /\ reqs[k].at # "queued" => k \notin used

JobLives ==
  /\ job # Nil => reqs[job].at = "queued"
  /\ died => job # Nil /\ ~IsComplete(reqs[job].body)

RequestsInv ==
  /\ QueueInv
  /\ RequestsTyped
  /\ \A k \in Key : Lives(k)
  /\ JobLives

(* The invariant says what the run checks.                                 *)
LEMMA InvImpliesQueuedAsAsked == RequestsInv => QueuedAsAsked
BY DEF RequestsInv, Lives, Asked, Carried, QueuedAsAsked

LEMMA InvImpliesDiesOfGaps == RequestsInv => DiesOfGaps
BY DEF RequestsInv, JobLives, DiesOfGaps

-----------------------------------------------------------------------------
(* Wrapping a count to its width changes it by a multiple of the modulus.  *)
LEMMA MultipleModIsZero ==
  ASSUME NEW m \in Nat \ {0}, NEW q \in Int
  PROVE  (m * q) % m = 0
OBVIOUS

LEMMA WrapIsCongruent ==
  ASSUME NEW x \in Int
  PROVE  /\ Wrap(x) \in -Half..(Half - 1)
         /\ (Wrap(x) - x) % (2 * Half) = 0
<1> DEFINE m == 2 * Half
           y == x + Half
           q == -(y \div m)
<1>1. m \in Nat \ {0} /\ y \in Int /\ Half \in Nat \ {0} /\ m = 2 * Half
  BY WidthAssumption
<1>2. /\ y = (m * (y \div m)) + (y % m)
      /\ y \div m \in Int
      /\ y % m \in 0..(m - 1)
  <2> HIDE DEF m, y
  <2>1. QED
    BY <1>1
<1>3. q \in Int /\ (y % m) - y = m * q
  <2> HIDE DEF m, y
  <2>1. QED
    BY <1>1, <1>2
<1>4. (m * q) % m = 0
  <2> HIDE DEF m, q
  <2>1. QED
    BY <1>1, <1>3, MultipleModIsZero
<1>5. Wrap(x) = (y % m) - Half
  BY DEF Wrap
<1>6. Wrap(x) - x = m * q
  <2>1. ((y % m) - Half) - x = (y % m) - y
    <3>1. y = x + Half
      OBVIOUS
    <3> HIDE DEF m, y
    <3>2. QED
      BY <1>1, <1>2, <3>1
  <2>2. QED
    BY <1>3, <1>5, <2>1
<1>7. Wrap(x) \in -Half..(Half - 1)
  <2> HIDE DEF m, y
  <2>1. QED
    BY <1>1, <1>2, <1>5
<1>8. QED
  BY <1>4, <1>6, <1>7

(* A request that was parsed has a count for every item (Fault).           *)
LEMMA ParsedHasCounts ==
  ASSUME NEW r \in Request, Outcome(r) = "parsed"
  PROVE  /\ Items(r) \in Seq(Item)
         /\ \A i \in 1..Len(Items(r)) : /\ Items(r)[i].name \in Deployment
                                        /\ Replicas(Items(r)[i]) \in Int
<1>1. r \in Body
  BY RequestAssumption
<1>2. Items(r) \in Seq(Item)
  BY <1>1 DEF Items, Body
<1>3. ASSUME NEW i \in 1..Len(Items(r))
      PROVE  Items(r)[i].name \in Deployment /\ Replicas(Items(r)[i]) \in Int
  <2>1. Items(r)[i] \in Item /\ i \in DOMAIN Items(r)
    BY <1>2
  <2>2. Fault(r, i) = "none"
    <3>1. SUFFICES ASSUME Fault(r, i) # "none" PROVE FALSE
      OBVIOUS
    <3> DEFINE faulty == {j \in DOMAIN Items(r) : Fault(r, j) # "none"}
    <3>2. faulty # {}
      BY <2>1, <3>1
    <3>3. Outcome(r) = Fault(r, Min(faulty))
      BY <3>2, Zenon DEF Outcome
    <3>4. Fault(r, Min(faulty)) \in {"none", "error", "panic"}
      <4> HIDE DEF faulty
      <4>1. QED
        BY DEF Fault
    <3>5. QED
      BY <3>3, <3>4
  <2>3. Items(r)[i].replicas # Nil
    BY <2>2 DEF Fault
  <2>4. QED
    BY <2>1, <2>3 DEF Item, Replicas
<1>4. QED
  BY <1>2, <1>3

(* What a queued request asked for is what its job consists of.            *)
LEMMA AskedList ==
  ASSUME NEW r, Known(r)
  PROVE  Items(r) = IF r.kind = "statefulset" THEN r.statefulsetApps ELSE r.deployApps
BY DEF Known, Items

-----------------------------------------------------------------------------
LEMMA RequestsInitInv == RequestsInit => RequestsInv
<1> SUFFICES ASSUME RequestsInit PROVE RequestsInv
  OBVIOUS
<1>1. QueueInv
  BY InitInv DEF RequestsInit
<1>2. /\ reqs = [k \in Key |-> Nobody] /\ size \in [Deployment -> Sizes]
      /\ job = Nil /\ died = FALSE /\ used = {}
  BY DEF RequestsInit, Init
<1>3. Nobody \in [body : Request \cup {Nil}, at : Stage, apps : Seq(App), seen : Seen]
  BY DEF Nobody, Stage, Seen
<1>4. RequestsTyped
  BY <1>2, <1>3 DEF RequestsTyped
<1>5. \A k \in Key : Lives(k)
  BY <1>2 DEF Lives, Nobody
<1>6. QED
  BY <1>1, <1>2, <1>4, <1>5 DEF RequestsInv, JobLives

(* Only Submit, Pop and the steps that leave it alone touch the queue.     *)
LEMMA RequestKept ==
  ASSUME RequestsInv, NEW k \in Key,
         reqs'[k] = reqs[k], size' = size, appGroup'[k] \in {appGroup[k], NoGroup},
         k \in used' => k \in used
  PROVE  Lives(k)'
<1>1. Lives(k)
  BY DEF RequestsInv
<1>2. Gathered(reqs[k]) => Gathered(reqs[k])'
  BY DEF Gathered
<1>3. Asked(reqs[k]) => Asked(reqs[k])'
  BY DEF Asked
<1>4. Carried(reqs[k], appGroup[k]) /\ appGroup'[k] = appGroup[k]
        => Carried(reqs[k], appGroup[k])'
  BY DEF Carried
<1>5. Present(k)' => Present(k) /\ appGroup'[k] = appGroup[k]
  BY DEF Present
<1>6. QED
  BY <1>1, <1>2, <1>3, <1>4, <1>5, Zenon DEF Lives

LEMMA JobKept ==
  ASSUME JobLives, job' = job, died' = died, job # Nil => reqs'[job].at = reqs[job].at,
         died => reqs'[job].body = reqs[job].body
  PROVE  JobLives'
BY DEF JobLives

(* The worker's job is one that was submitted.                             *)
LEMMA ReceiveInv ==
  ASSUME RequestsInv, NEW k \in Key, NEW r \in Request, Receive(k, r)
  PROVE  RequestsInv'
<1> DEFINE q == [body |-> r, at |-> Outcome(r), apps |-> << >>,
                 seen |-> {<<e, size[e]>> : e \in Deployment}]
<1>1. /\ reqs[k].at = "none" /\ reqs' = [reqs EXCEPT ![k] = q]
      /\ UNCHANGED <<appGroup, queue, returned, used, size, scales, job, died>>
  BY DEF Receive, clientVars
<1>2. QueueInv /\ RequestsTyped /\ (\A m \in Key : Lives(m)) /\ JobLives
  BY DEF RequestsInv
<1>3. QueueInv'
  BY <1>1, <1>2, StepInv DEF clientVars
<1>4. Outcome(r) \in {"none", "parsed", "error", "panic"}
  <2> DEFINE faulty == {j \in DOMAIN Items(r) : Fault(r, j) # "none"}
  <2>1. Fault(r, Min(faulty)) \in {"none", "error", "panic"}
    <3> HIDE DEF faulty
    <3>1. QED
      BY DEF Fault
  <2>2. Outcome(r) \in {"parsed", Fault(r, Min(faulty))}
    BY Zenon DEF Outcome
  <2>3. QED
    BY <2>1, <2>2
<1>5. q \in [body : Request \cup {Nil}, at : Stage, apps : Seq(App), seen : Seen]
  <2>1. q.seen \in Seen
    BY <1>2 DEF RequestsTyped, Seen
  <2>2. QED
    BY <1>4, <2>1 DEF Stage
<1>6. /\ reqs'[k] = q
      /\ \A m \in Key : m # k => reqs'[m] = reqs[m]
  BY <1>1, <1>2 DEF RequestsTyped
<1>7. RequestsTyped'
  <2> HIDE DEF q
  <2>1. QED
    BY <1>1, <1>2, <1>5 DEF RequestsTyped
<1>8. ASSUME NEW m \in Key PROVE Lives(m)'
  <2>1. CASE m # k
    BY <1>1, <1>6, <2>1, RequestKept
  <2>2. CASE m = k
    <3>1. k \notin used'
      BY <1>1, <1>2 DEF Lives
    <3>2. q.at = "parsed" => Gathered(q)'
      <4>1. SUFFICES ASSUME Outcome(r) = "parsed" PROVE Gathered(q)'
        OBVIOUS
      <4>2. \A e \in Deployment : <<e, size'[e]>> \in q.seen
        BY <1>1
      <4>3. Len(Items(r)) \in Nat
        BY <4>1, ParsedHasCounts
      <4>4. QED
        BY <4>1, <4>2, <4>3 DEF Gathered
    <3>3. q.at # "queued"
      BY <1>4
    <3>4. q' = q
      BY <1>1
    <3> HIDE DEF q
    <3>5. QED
      BY <1>6, <2>2, <3>1, <3>2, <3>3, <3>4 DEF Lives, Gathered
  <2>3. QED
    BY <2>1, <2>2
<1>9. JobLives'
  <2>1. job # Nil => job # k /\ job \in Key
    BY <1>1, <1>2 DEF JobLives, RequestsTyped
  <2>2. QED
    BY <1>1, <1>2, <1>6, <2>1, JobKept DEF JobLives
<1>10. QED
  BY <1>3, <1>7, <1>8, <1>9 DEF RequestsInv

(* The handler goes on with its own request.                               *)
LEMMA HandlerInv ==
  ASSUME RequestsInv, NEW k \in Key, reqs[k].at = "parsed",
         NEW q \in [body : Request \cup {Nil}, at : Stage, apps : Seq(App), seen : Seen],
         reqs' = [reqs EXCEPT ![k] = q],
         q.at # "queued", q.at = "parsed" => Gathered(q)',
         UNCHANGED <<clientVars, size, scales, job, died>>
  PROVE  RequestsInv'
<1>1. QueueInv /\ RequestsTyped /\ (\A m \in Key : Lives(m)) /\ JobLives
  BY DEF RequestsInv
<1>2. UNCHANGED <<appGroup, queue, returned, used, size, scales, job, died>>
  BY DEF clientVars
<1>3. QueueInv'
  BY <1>1, <1>2, StepInv DEF clientVars
<1>4. /\ reqs'[k] = q
      /\ \A m \in Key : m # k => reqs'[m] = reqs[m]
  BY <1>1 DEF RequestsTyped
<1>5. RequestsTyped'
  BY <1>1, <1>2 DEF RequestsTyped
<1>6. ASSUME NEW m \in Key PROVE Lives(m)'
  <2>1. CASE m # k
    BY <1>2, <1>4, <2>1, RequestKept
  <2>2. CASE m = k
    BY <1>1, <1>2, <1>4, <2>2 DEF Lives, Gathered
  <2>3. QED
    BY <2>1, <2>2
<1>7. JobLives'
  <2>1. job # Nil => job # k /\ job \in Key
    BY <1>1 DEF JobLives, RequestsTyped
  <2>2. QED
    BY <1>1, <1>2, <1>4, <2>1, JobKept DEF JobLives
<1>8. QED
  BY <1>3, <1>5, <1>6, <1>7 DEF RequestsInv

(* What is missing to an item's count, modulo the width.                   *)
LEMMA MissingIsMissing ==
  ASSUME NEW item \in Item, Replicas(item) \in Int, NEW seen, NEW s \in Sizes,
         s = size[item.name], <<item.name, s>> \in seen, ~(Missing(item) <= 0)
  PROVE  Missing(item) \in 1..(Half - 1) /\ IsMissing(Missing(item), item, seen)
<1> DEFINE x == Replicas(item) - s
           n == Missing(item)
<1>1. x \in Int /\ n = Wrap(x) /\ s \in Int /\ Half \in Nat \ {0}
  BY SizesAssumption, WidthAssumption DEF Missing
<1>2. n \in -Half..(Half - 1) /\ (n - x) % (2 * Half) = 0
  BY <1>1, WrapIsCongruent
<1>3. n \in 1..(Half - 1)
  <2> HIDE DEF x
  <2>1. ~(n <= 0)
    OBVIOUS
  <2> HIDE DEF n
  <2>2. QED
    BY <1>1, <1>2, <2>1
<1>4. AskedFor(item) = Replicas(item)
  BY DEF AskedFor, Replicas
<1>5. n + s - AskedFor(item) = n - x
  <2> HIDE DEF n
  <2>1. QED
    BY <1>1, <1>3, <1>4
<1>6. n > 0
  <2> HIDE DEF n
  <2>1. QED
    BY <1>1, <1>3
<1>7. (n + s - AskedFor(item)) % (2 * Half) = 0
  BY <1>2, <1>5, Zenon
<1>8. QED
  BY <1>3, <1>6, <1>7 DEF IsMissing

(* One more app of a horizontal request.                                   *)
LEMMA GatherOneMore ==
  ASSUME RequestsInv, NEW k \in Key, Gathering(k), NEW app \in App,
         GatheredApp(reqs[k].body, Len(reqs[k].apps) + 1, app, reqs[k].seen),
         reqs' = [reqs EXCEPT ![k].apps = Append(@, app)],
         UNCHANGED <<clientVars, size, scales, job, died>>
  PROVE  RequestsInv'
<1>1. /\ reqs[k] \in [body : Request \cup {Nil}, at : Stage, apps : Seq(App), seen : Seen]
      /\ reqs[k].at = "parsed" /\ Len(reqs[k].apps) < Len(Items(reqs[k].body))
      /\ Gathered(reqs[k]) /\ reqs \in [Key -> [body : Request \cup {Nil}, at : Stage, apps : Seq(App), seen : Seen]]
  BY DEF RequestsInv, RequestsTyped, Lives, Gathering
<1>2. PICK q : q = [reqs[k] EXCEPT !.apps = Append(@, app)]
  OBVIOUS
<1>3. PICK apps \in Seq(App) : apps = reqs[k].apps
  BY <1>1
<1>4. /\ q.apps = Append(apps, app) /\ q.body = reqs[k].body /\ q.at = "parsed"
      /\ q.seen = reqs[k].seen
  BY <1>1, <1>2, <1>3
<1>5. /\ q.apps \in Seq(App) /\ Len(q.apps) = Len(apps) + 1
      /\ \A i \in 1..Len(apps) : q.apps[i] = apps[i]
      /\ q.apps[Len(apps) + 1] = app
  BY <1>4, AppendProperties
<1>6. q \in [body : Request \cup {Nil}, at : Stage, apps : Seq(App), seen : Seen]
  BY <1>1, <1>2, <1>3, <1>4, <1>5
<1>7. reqs' = [reqs EXCEPT ![k] = q]
  BY <1>1, <1>2
<1>8. Len(Items(reqs[k].body)) \in Nat /\ Len(apps) \in Nat
  BY <1>1, <1>3, ParsedHasCounts DEF Gathered
<1>9. Len(q.apps) <= Len(Items(q.body))
  BY <1>1, <1>3, <1>4, <1>5, <1>8
<1>10. ASSUME NEW i \in 1..Len(q.apps)
       PROVE  GatheredApp(q.body, i, q.apps[i], q.seen)
  <2>1. CASE i = Len(apps) + 1
    BY <1>3, <1>4, <1>5, <2>1
  <2>2. CASE i \in 1..Len(apps)
    BY <1>1, <1>3, <1>4, <1>5, <2>2 DEF Gathered
  <2>3. QED
    BY <1>5, <1>8, <2>1, <2>2
<1>11. Gathered(q)'
  BY <1>1, <1>4, <1>9, <1>10 DEF Gathered
<1>12. q.at # "queued" /\ reqs[k].at = "parsed"
  BY <1>1, <1>4
<1>13. QED
  BY <1>6, <1>7, <1>11, <1>12, HandlerInv

LEMMA GatherAppInv ==
  ASSUME RequestsInv, NEW k \in Key, GatherApp(k)
  PROVE  RequestsInv'
<1> DEFINE R == [body : Request \cup {Nil}, at : Stage, apps : Seq(App), seen : Seen]
<1>1. /\ reqs[k] \in R /\ reqs \in [Key -> R]
      /\ reqs[k].at = "parsed" /\ Len(reqs[k].apps) < Len(Items(reqs[k].body))
      /\ Gathered(reqs[k]) /\ reqs[k].body.kind = "deployment"
      /\ UNCHANGED <<clientVars, size, scales, job, died>>
  BY DEF RequestsInv, RequestsTyped, Lives, GatherApp, Gathering
<1>2. /\ Items(reqs[k].body) \in Seq(Item)
      /\ Len(reqs[k].apps) \in Nat /\ Len(reqs[k].apps) + 1 \in 1..Len(Items(reqs[k].body))
      /\ Current(k).name \in Deployment /\ Replicas(Current(k)) \in Int
      /\ Current(k) \in Item
  <2>1. /\ Items(reqs[k].body) \in Seq(Item)
        /\ \A i \in 1..Len(Items(reqs[k].body)) :
             /\ Items(reqs[k].body)[i].name \in Deployment
             /\ Replicas(Items(reqs[k].body)[i]) \in Int
    BY <1>1, ParsedHasCounts DEF Gathered
  <2>2. Len(reqs[k].apps) \in Nat
    BY <1>1
  <2>3. Len(reqs[k].apps) + 1 \in 1..Len(Items(reqs[k].body))
    BY <1>1, <2>1, <2>2
  <2>4. QED
    BY <2>1, <2>2, <2>3 DEF Current
<1>3. CASE size[Current(k).name] = Nil \/ Missing(Current(k)) <= 0
  <2>1. reqs' = [reqs EXCEPT ![k].at = "error"]
    BY <1>3 DEF GatherApp
  <2>2. PICK q : q = [reqs[k] EXCEPT !.at = "error"]
    OBVIOUS
  <2>3. q \in R /\ q.at = "error"
    BY <1>1, <2>2 DEF Stage
  <2>4. reqs' = [reqs EXCEPT ![k] = q]
    BY <1>1, <2>1, <2>2
  <2>5. QED
    BY <1>1, <2>3, <2>4, HandlerInv
<1>4. CASE ~(size[Current(k).name] = Nil \/ Missing(Current(k)) <= 0)
  <2>1. PICK app : app = [pod |-> Current(k).name, replicas |-> Missing(Current(k))]
    OBVIOUS
  <2>2. reqs' = [reqs EXCEPT ![k].apps = Append(@, app)]
    BY <1>4, <2>1 DEF GatherApp
  <2>3. PICK s \in Sizes : s = size[Current(k).name]
    BY <1>2, <1>4 DEF RequestsInv, RequestsTyped
  <2>4. <<Current(k).name, s>> \in reqs[k].seen
    BY <1>1, <1>2, <2>3 DEF Gathered
  <2>5. /\ Missing(Current(k)) \in 1..(Half - 1)
        /\ IsMissing(Missing(Current(k)), Current(k), reqs[k].seen)
    <3> DEFINE item == Current(k)
               seen == reqs[k].seen
    <3>1. item \in Item /\ Replicas(item) \in Int /\ s = size[item.name]
          /\ <<item.name, s>> \in seen /\ ~(Missing(item) <= 0)
      BY <1>2, <1>4, <2>3, <2>4
    <3> HIDE DEF item, seen
    <3>2. Missing(item) \in 1..(Half - 1) /\ IsMissing(Missing(item), item, seen)
      BY <3>1, MissingIsMissing
    <3>3. QED
      BY <3>2 DEF item, seen
  <2>6. app \in App
    <3>1. Missing(Current(k)) \in Int
      BY <2>5, WidthAssumption
    <3>2. QED
      BY <1>2, <2>1, <3>1 DEF App
  <2>7. GatheredApp(reqs[k].body, Len(reqs[k].apps) + 1, app, reqs[k].seen)
    BY <1>1, <2>1, <2>5 DEF GatheredApp, Current
  <2>8. Gathering(k)
    BY DEF GatherApp
  <2>9. QED
    BY <1>1, <2>2, <2>6, <2>7, <2>8, GatherOneMore
<1>5. QED
  BY <1>3, <1>4

LEMMA GatherNothingInv ==
  ASSUME RequestsInv, NEW k \in Key, GatherNothing(k)
  PROVE  RequestsInv'
<1>1. PICK app : app = [pod |-> Nil, replicas |-> 0]
  OBVIOUS
<1>2. app \in App
  BY <1>1 DEF App
<1>3. GatheredApp(reqs[k].body, Len(reqs[k].apps) + 1, app, reqs[k].seen)
  BY <1>1 DEF GatheredApp, GatherNothing
<1>4. QED
  BY <1>1, <1>2, <1>3, GatherOneMore DEF GatherNothing

(* Somebody scales a deployment: the new size is seen by who is gathering. *)
LEMMA ScaleInv ==
  ASSUME RequestsInv, NEW e \in Deployment, NEW n \in Sizes \cup {Nil}, Scale(e, n)
  PROVE  RequestsInv'
<1> DEFINE R == [body : Request \cup {Nil}, at : Stage, apps : Seq(App), seen : Seen]
           More(k) == [reqs[k] EXCEPT !.seen = @ \cup {<<e, n>>}]
<1>1. QueueInv /\ RequestsTyped /\ (\A k \in Key : Lives(k)) /\ JobLives
  BY DEF RequestsInv
<1>2. /\ size' = [size EXCEPT ![e] = n]
      /\ reqs' = [k \in Key |-> IF reqs[k].at = "parsed" THEN More(k) ELSE reqs[k]]
      /\ UNCHANGED <<appGroup, queue, returned, used, job, died>>
  BY DEF Scale, clientVars
<1>3. QueueInv'
  BY <1>1, <1>2, StepInv DEF clientVars
<1>4. reqs \in [Key -> R] /\ size \in [Deployment -> Sizes \cup {Nil}] /\ job \in Key \cup {Nil}
  BY <1>1 DEF RequestsTyped
<1>5. ASSUME NEW k \in Key
      PROVE  /\ More(k) \in R /\ More(k).at = reqs[k].at /\ More(k).body = reqs[k].body
             /\ More(k).apps = reqs[k].apps /\ More(k).seen = reqs[k].seen \cup {<<e, n>>}
  <2>1. reqs[k] \in R
    BY <1>4
  <2>2. reqs[k].seen \cup {<<e, n>>} \in Seen
    <3>1. reqs[k].seen \in Seen /\ <<e, n>> \in Deployment \X (Sizes \cup {Nil})
      BY <2>1
    <3>2. QED
      BY <3>1, Zenon DEF Seen
  <2>3. QED
    BY <2>1, <2>2
<1>6. RequestsTyped'
  <2>1. reqs' \in [Key -> R]
    <3>1. \A k \in Key : reqs[k] \in R /\ More(k) \in R
      BY <1>4, <1>5
    <3> HIDE DEF R, More
    <3>2. QED
      BY <1>2, <3>1
  <2>2. size' \in [Deployment -> Sizes \cup {Nil}] /\ job' \in Key \cup {Nil}
    BY <1>2, <1>4
  <2>3. QED
    BY <2>1, <2>2 DEF RequestsTyped
<1>7. \A k \in Key : reqs'[k].at = reqs[k].at /\ reqs'[k].body = reqs[k].body
  BY <1>2, <1>5
<1>8. ASSUME NEW k \in Key PROVE Lives(k)'
  <2>1. CASE reqs[k].at = "parsed"
    <3>1. reqs'[k] = More(k) /\ reqs'[k].at = "parsed" /\ Gathered(reqs[k])
      BY <1>1, <1>2, <1>7, <2>1 DEF Lives
    <3>2. /\ reqs'[k].body = reqs[k].body /\ reqs'[k].apps = reqs[k].apps
          /\ reqs'[k].seen = reqs[k].seen \cup {<<e, n>>}
      BY <1>5, <3>1
    <3>3. \A c \in Deployment : <<c, size'[c]>> \in reqs'[k].seen
      BY <1>2, <1>4, <3>1, <3>2 DEF Gathered
    <3>4. \A i \in 1..Len(reqs[k].apps) :
            GatheredApp(reqs[k].body, i, reqs[k].apps[i], reqs[k].seen \cup {<<e, n>>})
      BY <3>1, Zenon DEF Gathered, GatheredApp, IsMissing
    <3>5. Gathered(reqs[k])'
      BY <3>1, <3>2, <3>3, <3>4 DEF Gathered
    <3>6. k \notin used'
      BY <1>1, <1>2, <2>1 DEF Lives
    <3>7. QED
      BY <3>1, <3>5, <3>6 DEF Lives
  <2>2. CASE reqs[k].at # "parsed"
    <3>1. reqs'[k] = reqs[k] /\ appGroup' = appGroup /\ used' = used
      BY <1>2, <2>2
    <3>2. Asked(reqs[k]) => Asked(reqs[k])'
      BY <3>1 DEF Asked
    <3>3. Carried(reqs[k], appGroup[k]) => Carried(reqs[k], appGroup[k])'
      BY <3>1 DEF Carried
    <3>4. Present(k)' <=> Present(k)
      BY <3>1 DEF Present
    <3>5. Lives(k)
      BY <1>1
    <3>6. QED
      BY <2>2, <3>1, <3>2, <3>3, <3>4, <3>5, Zenon DEF Lives
  <2>3. QED
    BY <2>1, <2>2
<1>9. JobLives'
  <2>1. job # Nil => job \in Key
    BY <1>4
  <2>2. QED
    BY <1>1, <1>2, <1>7, <2>1, JobKept DEF JobLives
<1>10. QED
  BY <1>3, <1>6, <1>8, <1>9 DEF RequestsInv

(* What is submitted is what was asked for, and a group of the queue.      *)
LEMMA SubmittedAsAsked ==
  ASSUME NEW q \in [body : Request \cup {Nil}, at : Stage, apps : Seq(App), seen : Seen],
         Gathered(q),
         q.body.endpoint = "horizontal" => Len(Items(q.body)) <= Len(q.apps),
         NEW apps, apps = IF q.body.endpoint = "horizontal" THEN q.apps ELSE Parsed(q.body)
  PROVE  /\ apps \in Seq(App)
         /\ JobOf(q.body, apps) \in Group
         /\ Asked([q EXCEPT !.at = "queued", !.apps = apps])
<1> DEFINE r == q.body
           n == Len(Items(r))
           z == [q EXCEPT !.at = "queued", !.apps = apps]
<1>1. r \in Request /\ Outcome(r) = "parsed" /\ q.apps \in Seq(App) /\ r \in Body
  BY RequestAssumption DEF Gathered
<1>2. /\ Items(r) \in Seq(Item) /\ n \in Nat
      /\ \A i \in 1..n : /\ Items(r)[i].name \in Deployment
                         /\ Replicas(Items(r)[i]) \in Int
  BY <1>1, ParsedHasCounts
<1>3. z.apps = apps /\ z.body = r /\ z.seen = q.seen
  OBVIOUS
<1>4. n = IF Known(r) THEN Len(IF r.kind = "statefulset" THEN r.statefulsetApps ELSE r.deployApps)
                      ELSE 0
  BY DEF Items, Known
<1>5. n # 0 => Known(r)
  BY <1>4
<1>6. CASE r.endpoint # "horizontal"
  <2>1. apps = [i \in 1..n |-> [pod |-> Items(r)[i].name, replicas |-> Replicas(Items(r)[i])]]
    BY <1>2, <1>6 DEF Parsed
  <2>2. \A i \in 1..n : [pod |-> Items(r)[i].name, replicas |-> Replicas(Items(r)[i])] \in App
    BY <1>2 DEF App
  <2>3. apps \in Seq(App) /\ Len(apps) = n
    <3>1. apps \in [1..n -> App]
      <4> HIDE DEF n, r
      <4>1. QED
        BY <2>1, <2>2
    <3> HIDE DEF n, r
    <3>2. QED
      BY <1>2, <3>1, FunctionIsSeq
  <2>4. apps \in AppsFor(r)
    <3>1. apps = Parsed(r)
      BY <1>6
    <3> HIDE DEF r
    <3>2. QED
      BY <1>6, <3>1, Zenon DEF AppsFor
  <2>5. JobOf(r, apps) \in Group
    BY <1>1, <2>4, GroupAssumption
  <2>6. ASSUME NEW i \in 1..n
        PROVE  /\ Known(r)
               /\ apps[i] = [pod |-> Items(r)[i].name, replicas |-> AskedFor(Items(r)[i])]
    BY <1>2, <1>5, <2>1 DEF AskedFor, Replicas
  <2>7. Asked(z)
    <3>1. Len(apps) = IF Known(r) THEN Len(IF r.kind = "statefulset" THEN r.statefulsetApps ELSE r.deployApps)
                                  ELSE 0
      BY <1>4, <2>3
    <3>2. DOMAIN apps = 1..n
      BY <2>1
    <3>3. Known(r) => Items(r) = IF r.kind = "statefulset" THEN r.statefulsetApps ELSE r.deployApps
      BY AskedList
    <3> HIDE DEF z, r, n
    <3>4. ASSUME NEW i \in 1..n
          PROVE  apps[i] = [pod |-> (IF r.kind = "statefulset" THEN r.statefulsetApps ELSE r.deployApps)[i].name,
                            replicas |-> AskedFor((IF r.kind = "statefulset" THEN r.statefulsetApps ELSE r.deployApps)[i])]
      <4>1. Known(r) /\ apps[i] = [pod |-> Items(r)[i].name, replicas |-> AskedFor(Items(r)[i])]
        BY <2>6
      <4>2. QED
        BY <3>3, <4>1, Zenon
    <3>5. QED
      BY <1>3, <1>6, <3>1, <3>2, <3>4, Zenon DEF Asked
  <2>8. QED
    BY <2>3, <2>5, <2>7
<1>7. CASE r.endpoint = "horizontal"
  <2>1. apps = q.apps /\ Len(apps) = n /\ DOMAIN apps = 1..n
    <3>1. apps = q.apps /\ Len(q.apps) <= n /\ n <= Len(q.apps)
      BY <1>7 DEF Gathered
    <3> HIDE DEF n
    <3>2. QED
      BY <1>1, <1>2, <3>1
  <2>2. \A i \in 1..n : GatheredApp(r, i, apps[i], q.seen) /\ apps[i] \in App
    BY <1>1, <2>1 DEF Gathered
  <2>3. apps \in AppsFor(r)
    <3>1. CASE r.kind = "deployment"
      <4>1. \A i \in 1..n : apps[i] \in [pod : Deployment, replicas : 1..(Half - 1)]
        BY <1>2, <2>2, <3>1 DEF GatheredApp, App
      <4>2. DOMAIN Items(r) = 1..n /\ apps = [i \in 1..n |-> apps[i]]
        <5>1. DOMAIN Items(r) = 1..n
          BY <1>2
        <5> HIDE DEF n, r
        <5>2. QED
          BY <1>1, <2>1, <5>1
      <4> HIDE DEF n, r
      <4>3. apps \in [DOMAIN Items(r) -> [pod : Deployment, replicas : 1..(Half - 1)]]
        BY <4>1, <4>2
      <4>4. QED
        BY <1>7, <3>1, <4>3 DEF AppsFor
    <3>2. CASE r.kind = "statefulset"
      <4>1. \A i \in 1..n : apps[i] = [pod |-> Nil, replicas |-> 0]
        BY <2>2, <3>2 DEF GatheredApp
      <4>2. DOMAIN Items(r) = 1..n /\ apps = [i \in 1..n |-> apps[i]]
        <5>1. DOMAIN Items(r) = 1..n
          BY <1>2
        <5> HIDE DEF n, r
        <5>2. QED
          BY <1>1, <2>1, <5>1
      <4> HIDE DEF n, r
      <4>3. apps = [i \in DOMAIN Items(r) |-> [pod |-> Nil, replicas |-> 0]]
        BY <4>1, <4>2
      <4>4. QED
        BY <1>7, <3>2, <4>3 DEF AppsFor
    <3>3. CASE r.kind # "statefulset" /\ r.kind # "deployment"
      <4>1. n = 0 /\ DOMAIN Items(r) = {}
        BY <3>3 DEF Items
      <4>2. apps \in [DOMAIN Items(r) -> [pod : Deployment, replicas : 1..(Half - 1)]]
        BY <1>1, <2>1, <4>1
      <4>3. QED
        BY <1>7, <3>3, <4>2 DEF AppsFor
    <3>4. QED
      BY <3>1, <3>2, <3>3
  <2>4. JobOf(r, apps) \in Group
    BY <1>1, <2>3, GroupAssumption
  <2>5. Asked(z)
    <3>1. Len(apps) = IF Known(r) THEN Len(IF r.kind = "statefulset" THEN r.statefulsetApps ELSE r.deployApps)
                                  ELSE 0
      BY <1>4, <2>1
    <3>2. ASSUME NEW i \in 1..n, r.kind = "deployment"
          PROVE  /\ apps[i].pod = r.deployApps[i].name
                 /\ IsMissing(apps[i].replicas, r.deployApps[i], q.seen)
      <4>1. Items(r) = r.deployApps
        BY <3>2 DEF Items
      <4>2. QED
        BY <2>2, <3>2, <4>1 DEF GatheredApp
    <3>3. ASSUME NEW i \in 1..n, r.kind # "deployment" PROVE apps[i].pod = Nil
      BY <2>2, <3>3 DEF GatheredApp
    <3> HIDE DEF z, r, n
    <3>4. QED
      BY <1>3, <1>7, <2>1, <3>1, <3>2, <3>3 DEF Asked
  <2>6. QED
    BY <1>1, <2>1, <2>4, <2>5
<1>8. QED
  BY <1>6, <1>7

(* The handler's last step, as a step of the queue and of its request.     *)
LEMMA SubmitFacts ==
  ASSUME RequestsInv, NEW k \in Key, Submit(k)
  PROVE  \E q \in [body : Request \cup {Nil}, at : Stage, apps : Seq(App), seen : Seen] :
           /\ JobOf(q.body, q.apps) \in Group /\ PushJob(k, JobOf(q.body, q.apps))
           /\ q.at = "queued" /\ q.body \in Request /\ Asked(q)
           /\ reqs' = [reqs EXCEPT ![k] = q]
           /\ UNCHANGED <<size, scales, job, died>>
<1> DEFINE R == [body : Request \cup {Nil}, at : Stage, apps : Seq(App), seen : Seen]
<1>1. PICK p \in R : p = reqs[k]
  BY DEF RequestsInv, RequestsTyped
<1>2. PICK apps : apps = IF p.body.endpoint = "horizontal" THEN p.apps ELSE Parsed(p.body)
  OBVIOUS
<1>3. /\ p.at = "parsed" /\ ~Gathering(k)
      /\ PushJob(k, JobOf(p.body, apps))
      /\ reqs' = [reqs EXCEPT ![k].at = "queued", ![k].apps = apps]
      /\ UNCHANGED <<size, scales, job, died>>
  BY <1>1, <1>2 DEF Submit
<1>4. Gathered(p)
  BY <1>1, <1>3 DEF RequestsInv, Lives
<1>5. p.body.endpoint = "horizontal" => Len(Items(p.body)) <= Len(p.apps)
  <2>1. Len(Items(p.body)) \in Nat /\ Len(p.apps) \in Nat
    BY <1>4, ParsedHasCounts DEF Gathered
  <2>2. QED
    BY <1>1, <1>3, <2>1 DEF Gathering
<1> HIDE DEF R
<1>6. PICK q : q = [p EXCEPT !.at = "queued", !.apps = apps]
  OBVIOUS
<1>7. apps \in Seq(App) /\ JobOf(p.body, apps) \in Group /\ Asked(q)
  BY <1>2, <1>4, <1>5, <1>6, SubmittedAsAsked DEF R
<1>8. /\ q \in R /\ q.at = "queued" /\ q.body = p.body /\ q.apps = apps
      /\ q.body \in Request
  BY <1>4, <1>6, <1>7 DEF R, Stage, Gathered
<1>9. reqs' = [reqs EXCEPT ![k] = q]
  BY <1>1, <1>3, <1>6 DEF RequestsInv, RequestsTyped
<1>10. QED
  BY <1>3, <1>7, <1>8, <1>9 DEF R

LEMMA SubmitInv ==
  ASSUME RequestsInv, NEW k \in Key, Submit(k)
  PROVE  RequestsInv'
<1> DEFINE R == [body : Request \cup {Nil}, at : Stage, apps : Seq(App), seen : Seen]
<1>1. PICK q \in R :
           /\ JobOf(q.body, q.apps) \in Group /\ PushJob(k, JobOf(q.body, q.apps))
           /\ q.at = "queued" /\ q.body \in Request /\ Asked(q)
           /\ reqs' = [reqs EXCEPT ![k] = q]
           /\ UNCHANGED <<size, scales, job, died>>
  BY SubmitFacts
<1>2. QueueInv /\ RequestsTyped /\ (\A m \in Key : Lives(m)) /\ JobLives
  BY DEF RequestsInv
<1>3. QueueInv'
  BY <1>1, <1>2, PushInv
<1>4. /\ appGroup' = [appGroup EXCEPT ![k] = JobOf(q.body, q.apps)]
      /\ used' = used \cup {k} /\ k \notin used
      /\ appGroup \in [Key -> Group \cup {NoGroup}]
  BY <1>1, <1>2 DEF PushJob, Push, QueueInv, TypeOK, FifoTypeOK
<1>5. /\ reqs'[k] = q
      /\ \A m \in Key : m # k => reqs'[m] = reqs[m]
  BY <1>1, <1>2 DEF RequestsTyped
<1>6. RequestsTyped'
  BY <1>1, <1>2 DEF RequestsTyped
<1>7. ASSUME NEW m \in Key PROVE Lives(m)'
  <2>1. CASE m # k
    BY <1>1, <1>4, <1>5, <2>1, RequestKept
  <2>2. CASE m = k
    <3>1. Carried(q, appGroup'[k])
      BY <1>4 DEF Carried, JobOf
    <3>2. Asked(q)
      BY <1>1
    <3>3. Carried(reqs[k], appGroup[k])' /\ Asked(reqs[k])'
      BY <1>5, <3>1, <3>2 DEF Carried, Asked
    <3>4. QED
      BY <1>1, <1>5, <2>2, <3>3 DEF Lives
  <2>3. QED
    BY <2>1, <2>2
<1>8. JobLives'
  <2>1. job # Nil => job \in Key /\ job # k
    <3>1. Submit(k) => reqs[k].at = "parsed"
      BY DEF Submit
    <3>2. QED
      BY <1>2, <3>1 DEF RequestsTyped, JobLives
  <2>2. QED
    BY <1>1, <1>2, <1>5, <2>1, JobKept DEF JobLives
<1>9. QED
  BY <1>3, <1>6, <1>7, <1>8 DEF RequestsInv

-----------------------------------------------------------------------------
(* The worker's steps leave the requests alone.                            *)
LEMMA WorkerInv ==
  ASSUME RequestsInv, QueueInv', JobLives', job' \in Key \cup {Nil},
         UNCHANGED <<reqs, size, scales>>, used' = used,
         \A k \in Key : appGroup'[k] \in {appGroup[k], NoGroup}
  PROVE  RequestsInv'
<1>1. RequestsTyped'
  BY DEF RequestsInv, RequestsTyped
<1>2. ASSUME NEW k \in Key PROVE Lives(k)'
  BY RequestKept
<1>3. QED
  BY <1>1, <1>2 DEF RequestsInv

LEMMA TakeJobInv ==
  ASSUME RequestsInv, NEW i \in DOMAIN queue, TakeJob(i), ~died
  PROVE  RequestsInv'
<1>1. QueueInv /\ RequestsTyped /\ (\A m \in Key : Lives(m)) /\ JobLives
  BY DEF RequestsInv
<1>2. /\ job' = queue[i] /\ PopJob(i) /\ UNCHANGED <<reqs, size, scales, died>>
  BY DEF TakeJob
<1>3. QueueInv'
  BY <1>1, <1>2, PopInv
<1>4. queue[i] \in Key /\ queue[i] \in used
  BY <1>1 DEF QueueInv, TypeOK, FifoTypeOK, MapMatchesQueue
<1>5. reqs[queue[i]].at = "queued"
  BY <1>1, <1>4 DEF Lives
<1>6. JobLives'
  BY <1>2, <1>5 DEF JobLives
<1>7. \A k \in Key : appGroup'[k] \in {appGroup[k], NoGroup}
  BY <1>1, <1>2 DEF PopJob, Pop, QueueInv, TypeOK, FifoTypeOK
<1>8. used' = used
  BY <1>2 DEF PopJob
<1>9. QED
  BY <1>2, <1>3, <1>4, <1>6, <1>7, <1>8, WorkerInv

LEMMA IdleInv ==
  ASSUME RequestsInv, Poll \/ LookAhead
  PROVE  RequestsInv'
<1>1. QueueInv /\ RequestsTyped /\ (\A m \in Key : Lives(m)) /\ JobLives
  BY DEF RequestsInv
<1>2. Next /\ appGroup' = appGroup /\ used' = used /\ UNCHANGED <<reqs, size, scales, job, died>>
  <2>1. CASE Poll
    BY <2>1 DEF Poll, Next, PopNothing, PopEmpty
  <2>2. CASE LookAhead
    <3>1. ASSUME NEW i \in DOMAIN queue, FrontJob(i)
          PROVE  Next /\ appGroup' = appGroup /\ used' = used
      BY <3>1 DEF Next, FrontJob, Front
    <3>2. ASSUME FrontNothing
          PROVE  Next /\ appGroup' = appGroup /\ used' = used
      BY <3>2 DEF Next, FrontNothing, FrontEmpty
    <3>3. QED
      BY <2>2, <3>1, <3>2 DEF LookAhead
  <2>3. QED
    BY <2>1, <2>2
<1>3. QueueInv'
  BY <1>1, <1>2, StepInv
<1>4. JobLives'
  BY <1>1, <1>2, JobKept
<1>5. QED
  BY <1>1, <1>2, <1>3, <1>4, WorkerInv DEF RequestsTyped

(* A complete request has a pod in every app of its job, and a prediction  *)
(* the nodes it asks for, in a number that is not fatal.                   *)
LEMMA CompleteIsUsable ==
  ASSUME NEW k \in Key, reqs[k].body \in Request, Asked(reqs[k]), reqs[k].apps \in Seq(App),
         IsComplete(reqs[k].body)
  PROVE  LET g == JobOf(reqs[k].body, reqs[k].apps) IN
           ~NoPod(g) /\ ~NoNodeSpec(g) /\ ~NegativeCount(g)
<1> DEFINE r == reqs[k].body
           apps == reqs[k].apps
           list == IF r.kind = "statefulset" THEN r.statefulsetApps ELSE r.deployApps
           g == JobOf(r, apps)
<1>1. r \in Body /\ list \in Seq(Item) /\ apps \in Seq(App)
  BY RequestAssumption DEF Body
<1>2. ASSUME NEW i \in DOMAIN apps PROVE apps[i].pod # Nil
  <2>1. /\ Len(apps) = IF Known(r) THEN Len(list) ELSE 0
        /\ IF r.endpoint # "horizontal"
             THEN apps[i] = [pod |-> list[i].name, replicas |-> AskedFor(list[i])]
             ELSE r.kind = "deployment" => apps[i].pod = list[i].name
    BY DEF Asked
  <2>2. Known(r) /\ i \in 1..Len(list)
    BY <1>1, <2>1
  <2>3. r.endpoint # "horizontal" \/ r.kind = "deployment"
    BY <2>2 DEF Known, IsComplete
  <2>4. apps[i].pod = list[i].name
    <3>1. CASE r.endpoint # "horizontal"
      <4> HIDE DEF list, apps, r
      <4>1. QED
        BY <2>1, <3>1
    <3>2. CASE r.endpoint = "horizontal"
      BY <2>1, <2>3, <3>2
    <3>3. QED
      BY <3>1, <3>2
  <2>5. list[i].name \in Deployment
    <3> HIDE DEF list
    <3>1. list[i] \in Item
      BY <1>1, <2>2
    <3>2. QED
      BY <3>1 DEF Item
  <2>6. QED
    BY <2>4, <2>5, NilAssumption
<1>3. ~NoPod(g)
  BY <1>2 DEF NoPod, JobOf
<1>4. ~NoNodeSpec(g) /\ ~NegativeCount(g)
  <2>1. g.type = r.endpoint
    BY DEF JobOf
  <2>2. r.endpoint = "prediction" => g.nodes = r.nodes /\ NodesUsable(r.nodes) /\ ~BelowZero(r.nodes)
    BY DEF JobOf, IsComplete, NodesOf
  <2> HIDE DEF g, r
  <2>3. QED
    BY <2>1, <2>2 DEF NoNodeSpec, NegativeCount
<1>5. QED
  BY <1>3, <1>4

LEMMA DieInv ==
  ASSUME RequestsInv, Die
  PROVE  RequestsInv'
<1>1. QueueInv /\ RequestsTyped /\ (\A m \in Key : Lives(m)) /\ JobLives
  BY DEF RequestsInv
<1>2. /\ job # Nil /\ (NoPod(Taken) \/ NoNodeSpec(Taken) \/ NegativeCount(Taken)) /\ died' = TRUE
      /\ UNCHANGED <<appGroup, queue, returned, used, reqs, size, scales, job>>
  BY DEF Die, clientVars
<1>3. QueueInv'
  BY <1>1, <1>2, StepInv DEF clientVars
<1>4. job \in Key /\ reqs[job].at = "queued"
  BY <1>1, <1>2 DEF RequestsTyped, JobLives
<1>5. reqs[job].body \in Request /\ Asked(reqs[job]) /\ reqs[job].apps \in Seq(App)
  BY <1>1, <1>4 DEF Lives, RequestsTyped
<1>6. ~IsComplete(reqs[job].body)
  BY <1>2, <1>4, <1>5, CompleteIsUsable DEF Taken
<1>7. JobLives'
  BY <1>2, <1>4, <1>6 DEF JobLives, IsComplete
<1>8. QED
  BY <1>1, <1>2, <1>3, <1>4, <1>7, WorkerInv

LEMMA FinishJobInv ==
  ASSUME RequestsInv, FinishJob, ~died
  PROVE  RequestsInv'
<1>1. UNCHANGED <<appGroup, queue, returned, used, reqs, size, scales, died>> /\ job' = Nil
  BY DEF FinishJob, clientVars
<1>2. QueueInv'
  BY <1>1, StepInv DEF clientVars, RequestsInv
<1>3. JobLives'
  BY <1>1 DEF JobLives
<1>4. QED
  BY <1>1, <1>2, <1>3, WorkerInv

LEMMA RequestsStepInv == ASSUME RequestsInv, [RequestsNext]_requestVars PROVE RequestsInv'
<1>1. ASSUME NEW k \in Key, NEW r \in Request, Receive(k, r) PROVE RequestsInv'
  BY <1>1, ReceiveInv
<1>2. ASSUME NEW k \in Key, GatherApp(k) \/ GatherNothing(k) \/ Submit(k) PROVE RequestsInv'
  BY <1>2, GatherAppInv, GatherNothingInv, SubmitInv
<1>3. ASSUME NEW e \in Deployment, NEW n \in Sizes \cup {Nil}, Scale(e, n) PROVE RequestsInv'
  BY <1>3, ScaleInv
<1>4. ASSUME ~died, NEW i \in DOMAIN queue, TakeJob(i) PROVE RequestsInv'
  BY <1>4, TakeJobInv
<1>5. ASSUME ~died, Poll \/ LookAhead \/ Die \/ FinishJob PROVE RequestsInv'
  BY <1>5, IdleInv, DieInv, FinishJobInv
<1>6. CASE UNCHANGED requestVars
  <2>1. UNCHANGED <<appGroup, queue, returned, used, reqs, size, scales, job, died>>
    BY <1>6 DEF requestVars, clientVars
  <2>2. QueueInv' /\ JobLives' /\ job' \in Key \cup {Nil}
    BY <2>1, StepInv, JobKept DEF clientVars, RequestsInv, RequestsTyped
  <2>3. QED
    BY <2>1, <2>2, WorkerInv
<1>7. QED
  BY <1>1, <1>2, <1>3, <1>4, <1>5, <1>6 DEF RequestsNext

(* Every step of the program is one of the queue's clients.                *)
LEMMA RequestsStepIsClientStep ==
  ASSUME RequestsInv, [RequestsNext]_requestVars
  PROVE  [Next]_clientVars
<1> USE DEF Next
<1>1. ASSUME NEW k \in Key, Submit(k) PROVE Next
  <2>1. PICK g \in Group : PushJob(k, g)
    BY <1>1, SubmitFacts
  <2>2. QED
    BY <2>1
<1>2. ASSUME NEW k \in Key, NEW r \in Request, Receive(k, r) PROVE UNCHANGED clientVars
  BY <1>2 DEF Receive
<1>3. ASSUME NEW k \in Key, GatherApp(k) \/ GatherNothing(k) PROVE UNCHANGED clientVars
  BY <1>3 DEF GatherApp, GatherNothing
<1>4. ASSUME NEW e, NEW n, Scale(e, n) PROVE UNCHANGED clientVars
  BY <1>4 DEF Scale
<1>5. ASSUME NEW i \in DOMAIN queue, TakeJob(i) PROVE Next
  BY <1>5 DEF TakeJob
<1>6. CASE Poll \/ LookAhead
  BY <1>6 DEF Poll, LookAhead
<1>7. CASE Die \/ FinishJob \/ UNCHANGED requestVars
  BY <1>7 DEF Die, FinishJob, requestVars
<1>8. QED
  BY <1>1, <1>2, <1>3, <1>4, <1>5, <1>6, <1>7 DEF RequestsNext

LEMMA RequestsInvariant == RequestsSpec => []RequestsInv
<1>1. RequestsInit => RequestsInv
  BY RequestsInitInv
<1>2. RequestsInv /\ [RequestsNext]_requestVars => RequestsInv'
  BY RequestsStepInv
<1>3. QED
  BY <1>1, <1>2, PTL DEF RequestsSpec

(* The handlers and the worker (scheduler_emulator.go:35-108, 186-201 and  *)
(* Run, simulator.go:820-862) use the queue as its clients may, so that    *)
(* all that holds for any clients holds for them.                          *)
THEOREM RequestsAreClients == RequestsSpec => Spec
<1>1. RequestsInit => Init
  BY DEF RequestsInit
<1>2. RequestsInv /\ [RequestsNext]_requestVars => [Next]_clientVars
  BY RequestsStepIsClientStep
<1>3. QED
  BY <1>1, <1>2, RequestsInvariant, PTL DEF RequestsSpec, Spec

(* The map and the slice of Fifo agree whatever the handlers do.           *)
THEOREM RequestsKeepQueue == RequestsSpec => [](TypeOK /\ MapMatchesQueue)
BY RequestsAreClients, QueueInvariant, PTL

(* Between the handlers and the worker the queue is one first-in first-out *)
(* sequence of jobs (fifo.go:48-86).                                       *)
THEOREM RequestsRefineQueue == RequestsSpec => ImplementsJobQueue
BY RequestsAreClients, QueueRefinement, PTL

(* A job asks for what its request named, or for what is missing to it     *)
(* (AppsParseToPod, utils.go:325-387, scheduler_emulator.go:58-72).        *)
THEOREM JobsAreAsAsked == RequestsSpec => []QueuedAsAsked
BY RequestsInvariant, InvImpliesQueuedAsAsked, PTL

(* The process dies only of a request with a gap or with a number of nodes *)
(* below -1 (simulator.go:1420, config.go:36, simulator.go:1494 and 768).  *)
THEOREM OnlyGapsKill == RequestsSpec => []DiesOfGaps
BY RequestsInvariant, InvImpliesDiesOfGaps, PTL

=============================================================================
