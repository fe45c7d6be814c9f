----------------------------- MODULE JobQueue -----------------------------
(***************************************************************************)
(* What a client of the job queue may rely on (src/pkg/queue/queue.go,     *)
(* interface PodQueue): one sequence of <<job id, group>> pairs; Push adds *)
(* at the end, Pop removes and returns the front, Front only returns it.   *)
(* `returned` is the value of the last call.                               *)
(***************************************************************************)
EXTENDS Naturals, Sequences

CONSTANTS Key, Group, NoReturn, EmptyReturn

VARIABLES contents, returned

jqVars == <<contents, returned>>

JQInit == contents = << >> /\ returned = NoReturn

JQPush(k, g) == /\ contents' = Append(contents, <<k, g>>)
                /\ returned' = NoReturn

JQPop == /\ contents # << >>
         /\ returned' = Head(contents)
         /\ contents' = Tail(contents)

JQFront == /\ contents # << >>
           /\ returned' = Head(contents)
           /\ UNCHANGED contents

JQEmpty == /\ contents = << >>
           /\ returned' = EmptyReturn
           /\ UNCHANGED contents

JQNext == \/ \E k \in Key, g \in Group : JQPush(k, g)
          \/ JQPop
          \/ JQFront
          \/ JQEmpty

JQSpec == JQInit /\ [][JQNext]_jqVars

=============================================================================
