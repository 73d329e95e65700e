----------------------------- MODULE FifoTurn ------------------------------
(***************************************************************************)
(* What the device turn promises its users: threads are admitted one at a  *)
(* time, in the order in which they asked.  "Tickets make the order        *)
(* explicit, so giving the turn back means giving it up" (scheduler.c).    *)
(***************************************************************************)
EXTENDS Sequences, SequencesExt

CONSTANT Threads

VARIABLE queue   \* the threads that asked, oldest first; the head has the turn

Init == queue = <<>>

Ask(t) == t \notin ToSet(queue) /\ queue' = Append(queue, t)

Leave == queue # <<>> /\ queue' = Tail(queue)

Next == Leave \/ \E t \in Threads : Ask(t)

Spec == Init /\ [][Next]_queue
=============================================================================
