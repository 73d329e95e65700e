----------------------------- MODULE Turnstile -----------------------------
(***************************************************************************)
(* The device turn of the batching scheduler: dev_take and dev_give in     *)
(* src/src/scheduler.c.  A thread draws the next ticket, waits until that  *)
(* ticket is being served, and advances the served ticket when it leaves.  *)
(* Both counters are C unsigned integers, so they wrap; TicketMod is the   *)
(* width, 2^32 in the build and anything above the number of threads here. *)
(***************************************************************************)
EXTENDS Integers, FiniteSets

CONSTANTS Threads,    \* the slot threads and the decode worker
          TicketMod   \* number of values of `unsigned`

ASSUME TurnstileAssumption ==
  /\ IsFiniteSet(Threads)
  /\ TicketMod \in Nat
  /\ Cardinality(Threads) < TicketMod

VARIABLES dev_next,     \* next ticket to hand out
          dev_serving,  \* ticket being served
          mine          \* the local `mine` of each thread inside dev_take..dev_give

turnVars == <<dev_next, dev_serving, mine>>

Tickets == 0 .. TicketMod - 1
NoTicket == -1

\* unsigned increment
Bump(x) == IF x = TicketMod - 1 THEN 0 ELSE x + 1

\* how many advances separate the served ticket from x
Distance(x) == IF x >= dev_serving THEN x - dev_serving
               ELSE x - dev_serving + TicketMod

-----------------------------------------------------------------------------

TurnInit ==
  /\ dev_next = 0
  /\ dev_serving = 0
  /\ mine = [t \in Threads |-> NoTicket]

\* Mutant: the ticket is read but not advanced.
Draw_NoBump(t) ==
  /\ mine[t] = NoTicket
  /\ mine' = [mine EXCEPT ![t] = dev_next]
  /\ UNCHANGED <<dev_next, dev_serving>>

\* The first critical section of dev_take: mine = dev_next++.
Draw(t) ==
  /\ mine[t] = NoTicket
  /\ mine' = [mine EXCEPT ![t] = dev_next]
  /\ dev_next' = Bump(dev_next)
  /\ UNCHANGED dev_serving

\* Mutant: a mutex instead of tickets: whoever wakes first gets in.
Served_Barging(t) == mine[t] # NoTicket

\* The exit condition of dev_take's wait loop.
Served(t) == mine[t] = dev_serving

\* dev_give, called by a thread that left dev_take.
Give(t) ==
  /\ Served(t)
  /\ dev_serving' = Bump(dev_serving)
  /\ mine' = [mine EXCEPT ![t] = NoTicket]
  /\ UNCHANGED dev_next

TurnNext == \E t \in Threads : Draw(t) \/ Give(t)

TurnSpec == TurnInit /\ [][TurnNext]_turnVars

-----------------------------------------------------------------------------

Queued == {t \in Threads : mine[t] # NoTicket}

TurnTypeOK ==
  /\ dev_next \in Tickets
  /\ dev_serving \in Tickets
  /\ mine \in [Threads -> Tickets \cup {NoTicket}]

\* No two threads are ever admitted together, also across the wrap of the
\* counters (dev_take, dev_give: "prefill and decode take turns here").
MutualExclusion ==
  \A s, t \in Threads : Served(s) /\ Served(t) => s = t

\* The tickets in hand are exactly the ones between the served ticket and the
\* next one, so the turn always belongs to somebody who will give it back.
TicketsContiguous ==
  /\ Distance(dev_next) = Cardinality(Queued)
  /\ \A t \in Queued : Distance(mine[t]) < Distance(dev_next)
  /\ \A s, t \in Queued : mine[s] = mine[t] => s = t

\* The two together are inductive.
TurnInv == TurnTypeOK /\ TicketsContiguous

-----------------------------------------------------------------------------
(* The promise: a first-come, first-served queue.                          *)

\* The queue of waiters, oldest ticket first.
QueueOf == [k \in 1 .. Distance(dev_next) |->
              IF \E t \in Queued : Distance(mine[t]) = k - 1
                THEN CHOOSE t \in Queued : Distance(mine[t]) = k - 1
                ELSE NoTicket]

Fifo == INSTANCE FifoTurn WITH queue <- QueueOf

\* Draw and Give refine joining the back and leaving the front of a FIFO queue.
RefinesFifo == Fifo!Spec
=============================================================================
