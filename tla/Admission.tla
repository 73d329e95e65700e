----------------------------- MODULE Admission -----------------------------
(***************************************************************************)
(* Admission: the accept loop and the stop path of server_run, the signal   *)
(* handler server_request_stop, the connection queue (q_push, q_pop and     *)
(* queue_shutdown of src/src/registry.c) and the slot threads that drain it *)
(* (slot_worker).                                                           *)
(*                                                                          *)
(* A critical section under SV.q.mu is one step.  What a slot or the accept *)
(* loop says to a connection is in Residency and Scheduler; here it ends    *)
(* with sock_close.                                                         *)
(***************************************************************************)
EXTENDS Integers, Sequences, FiniteSets

CONSTANTS Conns,    \* the connections clients make
          NoConn,   \* SOCK_INVALID
          Slots,    \* the slot threads
          Cap,      \* cells of SV.q.fds, 512 in the build
          Limit,    \* SV.q.limit: RUNNER_MAX_QUEUE, at most Cap
          Retries   \* looks of q_push before it sheds, 10 in the build

ASSUME AdmissionAssumption ==
  /\ NoConn \notin Conns
  /\ IsFiniteSet(Slots)
  /\ Cap \in Nat \ {0} /\ Limit \in 1 .. Cap
  /\ Retries \in Nat \ {0}

VARIABLES
  fds, head, tail, count,  \* SV.q, the ring
  q_shutdown,  \* SV.q.shutdown
  stop,        \* stop_requested
  listener,    \* "private": listening, listener_fd still -1; "published"; "closed"
  hpc,         \* where the signal handler is
  mpc,         \* where the main thread is
  cfd,         \* the connection it is dealing with
  retry,       \* q_push's `retry`
  refused,     \* queue_shutdown's `pending`
  spc,         \* where each slot thread is
  fd,          \* slot_worker's `fd`
  conn,        \* each connection: "away", in the "backlog" of the kernel, "accepted"
  closes       \* how often the server closed it

ringVars == <<fds, head, tail, count>>
mainVars == <<mpc, cfd, retry, refused>>
slotVars == <<spc, fd>>
connVars == <<conn, closes>>
vars == <<ringVars, q_shutdown, stop, listener, hpc, mainVars, slotVars, connVars>>

Cells == 0 .. Cap - 1
After(x) == (x + 1) % Cap
Queued == [k \in 1 .. count |-> fds[(head + k - 1) % Cap]]
Asleep == {i \in Slots : spc[i] = "asleep"}

Close(c) == closes' = [closes EXCEPT ![c] = @ + 1]

-----------------------------------------------------------------------------
(* Clients and the signal handler.                                         *)

Connect(c) ==
  /\ conn[c] = "away" /\ listener # "closed"
  /\ conn' = [conn EXCEPT ![c] = "backlog"]
  /\ UNCHANGED <<ringVars, q_shutdown, stop, listener, hpc, mainVars, slotVars, closes>>

\* The first signal; the second one ends the process on the spot.
RequestStop ==
  /\ hpc = "idle" /\ hpc' = "flagged"
  /\ stop' = TRUE
  /\ UNCHANGED <<ringVars, q_shutdown, listener, mainVars, slotVars, connVars>>

\* It closes the listener that is published, if any, on whatever thread it runs.
HandlerReturns ==
  /\ hpc = "flagged" /\ hpc' = "returned"
  /\ listener' = IF listener = "published" THEN "closed" ELSE listener
  /\ UNCHANGED <<ringVars, q_shutdown, stop, mainVars, slotVars, connVars>>

-----------------------------------------------------------------------------
(* The main thread.                                                        *)

Publish ==
  /\ mpc = "start" /\ mpc' = "look"
  /\ listener' = "published"
  /\ UNCHANGED <<ringVars, q_shutdown, stop, hpc, cfd, retry, refused, slotVars,
                 connVars>>

\* Mutant: the loop trusts accept() to fail after a stop.
Look_Unchecked ==
  /\ mpc = "look" /\ mpc' = "accept"
  /\ UNCHANGED <<ringVars, q_shutdown, stop, listener, hpc, cfd, retry, refused,
                 slotVars, connVars>>

\* The top of the accept loop.
Look ==
  /\ mpc = "look"
  /\ mpc' = IF stop THEN "leave" ELSE "accept"
  /\ UNCHANGED <<ringVars, q_shutdown, stop, listener, hpc, cfd, retry, refused,
                 slotVars, connVars>>

Accept ==
  /\ mpc = "accept" /\ listener # "closed"
  /\ \E c \in Conns :
       /\ conn[c] = "backlog"
       /\ conn' = [conn EXCEPT ![c] = "accepted"]
       /\ cfd' = c
  /\ mpc' = "fastpath"
  /\ UNCHANGED <<ringVars, q_shutdown, stop, listener, hpc, retry, refused, slotVars,
                 closes>>

\* accept() fails: the listener is closed.
AcceptFails ==
  /\ mpc = "accept" /\ listener = "closed" /\ mpc' = "leave"
  /\ UNCHANGED <<ringVars, q_shutdown, stop, listener, hpc, cfd, retry, refused,
                 slotVars, connVars>>

\* ... or for a reason of its own: EINTR goes round, any other ends the loop.
AcceptError ==
  /\ mpc = "accept" /\ mpc' \in {"look", "leave"}
  /\ UNCHANGED <<ringVars, q_shutdown, stop, listener, hpc, cfd, retry, refused,
                 slotVars, connVars>>

\* accept_fastpath answers, or finds the client dead, and closes.
FastpathAnswers ==
  /\ mpc = "fastpath" /\ mpc' = "look"
  /\ Close(cfd)
  /\ cfd' = NoConn
  /\ UNCHANGED <<ringVars, q_shutdown, stop, listener, hpc, retry, refused, slotVars,
                 conn>>

\* Not for the accept loop: q_push.
FastpathPasses ==
  /\ mpc = "fastpath" /\ mpc' = "push"
  /\ retry' = 0
  /\ UNCHANGED <<ringVars, q_shutdown, stop, listener, hpc, cfd, refused, slotVars,
                 connVars>>

Room == count < Limit

\* Mutant: nobody is told.
SignalSlot_Lost == UNCHANGED spc

\* pthread_cond_signal(&SV.q.cv)
SignalSlot ==
  IF Asleep = {} THEN UNCHANGED spc
  ELSE \E i \in Asleep : spc' = [spc EXCEPT ![i] = "pop"]

Push ==
  /\ mpc = "push" /\ Room
  /\ fds' = [fds EXCEPT ![tail] = cfd]
  /\ tail' = After(tail)
  /\ count' = count + 1
  /\ SignalSlot
  /\ cfd' = NoConn /\ retry' = 0 /\ mpc' = "look"
  /\ UNCHANGED <<head, q_shutdown, stop, listener, hpc, refused, fd, connVars>>

\* No room: sleep a tick and look again, or give up.
PushWaits ==
  /\ mpc = "push" /\ ~Room
  /\ retry' = retry + 1
  /\ mpc' = IF retry' = Retries THEN "shed" ELSE "push"
  /\ UNCHANGED <<ringVars, q_shutdown, stop, listener, hpc, cfd, refused, slotVars,
                 connVars>>

\* 503 "server queue full"
Shed ==
  /\ mpc = "shed" /\ mpc' = "look"
  /\ Close(cfd)
  /\ cfd' = NoConn /\ retry' = 0
  /\ UNCHANGED <<ringVars, q_shutdown, stop, listener, hpc, refused, slotVars, conn>>

CloseListener ==
  /\ mpc = "leave" /\ mpc' = "drain"
  /\ listener' = "closed"
  /\ UNCHANGED <<ringVars, q_shutdown, stop, hpc, cfd, retry, refused, slotVars,
                 connVars>>

\* Mutant: what is refused stays queued as well.
QueueShutdown_KeepsRing ==
  /\ mpc = "drain" /\ mpc' = "refuse"
  /\ q_shutdown' = TRUE
  /\ refused' = Queued
  /\ spc' = [i \in Slots |-> IF spc[i] = "asleep" THEN "pop" ELSE spc[i]]
  /\ UNCHANGED <<ringVars, stop, listener, hpc, cfd, retry, fd, connVars>>

\* The critical section of queue_shutdown.
QueueShutdown ==
  /\ mpc = "drain" /\ mpc' = "refuse"
  /\ q_shutdown' = TRUE
  /\ refused' = Queued
  /\ head' = (head + count) % Cap /\ count' = 0
  /\ spc' = [i \in Slots |-> IF spc[i] = "asleep" THEN "pop" ELSE spc[i]]
  /\ UNCHANGED <<fds, tail, stop, listener, hpc, cfd, retry, fd, connVars>>

\* 503 "server shutting down"
Refuse ==
  /\ mpc = "refuse" /\ refused # <<>>
  /\ Close(Head(refused))
  /\ refused' = Tail(refused)
  /\ UNCHANGED <<ringVars, q_shutdown, stop, listener, hpc, mpc, cfd, retry, slotVars,
                 conn>>

\* Every slot is joined; what follows is the teardown of Residency and Scheduler.
Join ==
  /\ mpc = "refuse" /\ refused = <<>>
  /\ \A i \in Slots : spc[i] = "exit"
  /\ mpc' = "down"
  /\ UNCHANGED <<ringVars, q_shutdown, stop, listener, hpc, cfd, retry, refused,
                 slotVars, connVars>>

MainStep ==
  \/ Publish \/ Look \/ Accept \/ AcceptFails \/ FastpathAnswers \/ FastpathPasses
  \/ Push \/ PushWaits \/ Shed \/ CloseListener \/ QueueShutdown \/ Refuse \/ Join

-----------------------------------------------------------------------------
(* The slot threads.                                                       *)

\* Mutant: the ring's count is not taken down.
Pop_KeepsCount(i) ==
  /\ spc[i] = "pop" /\ count > 0
  /\ fd' = [fd EXCEPT ![i] = fds[head]]
  /\ head' = After(head)
  /\ spc' = [spc EXCEPT ![i] = "handle"]
  /\ UNCHANGED <<fds, tail, count, q_shutdown, stop, listener, hpc, mainVars, connVars>>

\* q_pop finds a connection.
Pop(i) ==
  /\ spc[i] = "pop" /\ count > 0
  /\ fd' = [fd EXCEPT ![i] = fds[head]]
  /\ head' = After(head)
  /\ count' = count - 1
  /\ spc' = [spc EXCEPT ![i] = "handle"]
  /\ UNCHANGED <<fds, tail, q_shutdown, stop, listener, hpc, mainVars, connVars>>

\* q_pop finds nothing: it waits on q.cv, or the slot thread ends.
PopNothing(i) ==
  /\ spc[i] = "pop" /\ count = 0
  /\ spc' = [spc EXCEPT ![i] = IF q_shutdown THEN "exit" ELSE "asleep"]
  /\ UNCHANGED <<ringVars, q_shutdown, stop, listener, hpc, mainVars, fd, connVars>>

\* handle_conn, then sock_close: reading is bounded by ten seconds, each write by
\* thirty.
Handle(i) ==
  /\ spc[i] = "handle"
  /\ Close(fd[i])
  /\ fd' = [fd EXCEPT ![i] = NoConn]
  /\ spc' = [spc EXCEPT ![i] = "pop"]
  /\ UNCHANGED <<ringVars, q_shutdown, stop, listener, hpc, mainVars, conn>>

\* POSIX allows a condition wait to return unsignalled.
SpuriousWake(i) ==
  /\ spc[i] = "asleep"
  /\ spc' = [spc EXCEPT ![i] = "pop"]
  /\ UNCHANGED <<ringVars, q_shutdown, stop, listener, hpc, mainVars, fd, connVars>>

SlotStep(i) == Pop(i) \/ PopNothing(i) \/ Handle(i)

\* The process has ended.
Ended == mpc = "down" /\ UNCHANGED vars

-----------------------------------------------------------------------------

Init ==
  /\ fds = [x \in Cells |-> NoConn]
  /\ head = 0 /\ tail = 0 /\ count = 0
  /\ q_shutdown = FALSE
  /\ stop = FALSE /\ listener = "private" /\ hpc = "idle"
  /\ mpc = "start" /\ cfd = NoConn /\ retry = 0 /\ refused = <<>>
  /\ spc = [i \in Slots |-> "pop"]
  /\ fd = [i \in Slots |-> NoConn]
  /\ conn = [c \in Conns |-> "away"]
  /\ closes = [c \in Conns |-> 0]

Next ==
  \/ \E c \in Conns : Connect(c)
  \/ RequestStop \/ HandlerReturns
  \/ MainStep \/ AcceptError
  \/ \E i \in Slots : SlotStep(i) \/ SpuriousWake(i)
  \/ Ended

Spec == Init /\ [][Next]_vars

\* The threads and the handler run; requests end; nobody owes a connection.
FairSpec ==
  /\ Spec
  /\ WF_vars(MainStep) /\ WF_vars(HandlerReturns)
  /\ \A i \in Slots : WF_vars(SlotStep(i))

-----------------------------------------------------------------------------
(* Properties.                                                             *)

\* An accepted connection is in exactly one place, the main thread's hands, the
\* ring, one slot or the list of the refused, until it is closed, once: none is
\* leaked, served twice or closed twice, whatever the shutdown finds it in.
Places(c) ==
  Cardinality({x \in {cfd} : x = c})
    + Cardinality({k \in DOMAIN Queued : Queued[k] = c})
    + Cardinality({i \in Slots : fd[i] = c})
    + Cardinality({k \in DOMAIN refused : refused[k] = c})
OneOwner ==
  \A c \in Conns : Places(c) + closes[c] = IF conn[c] = "accepted" THEN 1 ELSE 0

\* No slot sleeps on q.cv over a connection that nobody is on the way to take
\* (one signal per push, taken by any waiter, against slots that come back to
\* q_pop on their own).
Awake == {i \in Slots : spc[i] = "pop"}
NoIdleSlot == Asleep # {} => count <= Cardinality(Awake)

\* Every accepted connection is answered and closed: served, shed or refused.
EveryoneAnswered ==
  \A c \in Conns : conn[c] = "accepted" ~> closes[c] = 1

\* A stop signal ends the process, whenever it lands ("no window remains",
\* server_run), and leaves no slot asleep in q_pop.
StopEnds == stop ~> mpc = "down"

\* The ring, its lock and its condition variable implement the bounded queue.
Queue == INSTANCE FifoQueue WITH
  Workers <- Slots, queue <- Queued, given <- fd, closed <- q_shutdown

RefinesFifoQueue == Queue!Spec
=============================================================================
