----------------------------- MODULE FifoQueue -----------------------------
(***************************************************************************)
(* What the admission queue promises: connections leave it in the order     *)
(* they came, each to one worker, at most Limit wait at a time, and closing  *)
(* it turns all that wait away at once.                                     *)
(***************************************************************************)
EXTENDS Sequences, Naturals

CONSTANTS Conns, Workers, NoConn, Limit

VARIABLES queue,   \* the connections that wait
          given,   \* what each worker was given, or NoConn
          closed   \* nobody is admitted any more

Init == queue = <<>> /\ given = [w \in Workers |-> NoConn] /\ closed = FALSE

Admit ==
  /\ ~closed /\ Len(queue) < Limit
  /\ \E c \in Conns : queue' = Append(queue, c)
  /\ UNCHANGED <<given, closed>>

Give ==
  /\ queue # <<>>
  /\ \E w \in Workers : given[w] = NoConn /\ given' = [given EXCEPT ![w] = Head(queue)]
  /\ queue' = Tail(queue)
  /\ UNCHANGED closed

Finish ==
  /\ \E w \in Workers : given' = [given EXCEPT ![w] = NoConn]
  /\ UNCHANGED <<queue, closed>>

Close == queue' = <<>> /\ closed' = TRUE /\ UNCHANGED given

Next == Admit \/ Give \/ Finish \/ Close

Spec == Init /\ [][Next]_<<queue, given, closed>>
=============================================================================
