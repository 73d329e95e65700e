-------------------------- MODULE AdmissionProofs --------------------------
(***************************************************************************)
(* Theorems about Admission for any number of slots, any ring and any       *)
(* limit: no slot sleeps over a connection that nobody is on the way to     *)
(* take (QueueInv), every accepted connection is in exactly one place until *)
(* it is closed (OwnerInv), and the ring implements FifoQueue.              *)
(***************************************************************************)
EXTENDS Admission, FiniteSetTheorems, SequenceTheorems, TLAPS

\* The queue as the slots and the main thread see it under SV.q.mu.
QueueType ==
  /\ head \in Cells /\ tail \in Cells /\ count \in 0 .. Limit
  /\ spc \in [Slots -> {"pop", "asleep", "handle", "exit"}]

QueueInv == QueueType /\ NoIdleSlot

\* Ring arithmetic.
LEMMA AfterInRing == \A x \in Cells : After(x) \in Cells
BY AdmissionAssumption DEF After, Cells

LEMMA DrainInRing == \A x \in Cells, n \in Nat : (x + n) % Cap \in Cells
BY AdmissionAssumption DEF Cells

\* Sets of slots are finite.
LEMMA SlotCount == \A S \in SUBSET Slots : IsFiniteSet(S) /\ Cardinality(S) \in Nat
BY AdmissionAssumption, FS_Subset, FS_CardinalityType

LEMMA SlotCountAdd ==
  ASSUME NEW S \in SUBSET Slots, NEW i \in Slots
  PROVE  /\ i \notin S => Cardinality(S \cup {i}) = Cardinality(S) + 1
         /\ i \in S => Cardinality(S \ {i}) = Cardinality(S) - 1
BY SlotCount, FS_AddElement, FS_RemoveElement

LEMMA InitQueueInv == Init => QueueInv
<1> SUFFICES ASSUME Init PROVE QueueInv
  OBVIOUS
<1>1. QueueType
  BY AdmissionAssumption DEF Init, QueueType, Cells
<1>2. Asleep = {}
  BY DEF Init, Asleep
<1> QED BY <1>1, <1>2 DEF QueueInv, NoIdleSlot

\* A slot that comes to q_pop can only help.
LEMMA OneMoreAwake ==
  ASSUME QueueInv, NEW i \in Slots, spc[i] # "pop",
         spc' = [spc EXCEPT ![i] = "pop"],
         count' \in 0 .. Limit, count' <= count + 1,
         count' = count \/ spc[i] = "asleep",
         UNCHANGED <<head, tail>> \/ (head' = head /\ tail' = After(tail))
  PROVE  QueueInv'
<1> USE DEF QueueInv, QueueType
<1>1. QueueType'
  BY AfterInRing
<1>2. Awake' = Awake \cup {i} /\ i \notin Awake /\ Awake \in SUBSET Slots
  BY DEF Awake
<1>3. Cardinality(Awake') = Cardinality(Awake) + 1
  BY <1>2, SlotCountAdd
<1>4. Asleep' # {} => Asleep # {}
  BY DEF Asleep
<1>5. Cardinality(Awake) \in Nat
  BY <1>2, SlotCount
<1>6. spc[i] = "asleep" => Asleep # {}
  BY DEF Asleep
<1>7. NoIdleSlot'
  BY <1>3, <1>4, <1>5, <1>6, AdmissionAssumption DEF NoIdleSlot
<1> QED BY <1>1, <1>7

LEMMA PushKeeps == ASSUME QueueInv, Push PROVE QueueInv'
<1> USE DEF QueueInv, QueueType
<1>1. count' \in 0 .. Limit /\ count' = count + 1 /\ head' = head /\ tail' = After(tail)
  BY AdmissionAssumption DEF Push, Room
<1>2. CASE Asleep = {}
  <2>1. spc' = spc
    BY <1>2 DEF Push, SignalSlot
  <2>2. Asleep' = {}
    BY <1>2, <2>1 DEF Asleep
  <2> QED BY <1>1, <2>1, <2>2, AfterInRing DEF NoIdleSlot
<1>3. CASE Asleep # {}
  <2>1. PICK i \in Asleep : spc' = [spc EXCEPT ![i] = "pop"]
    BY <1>3 DEF Push, SignalSlot
  <2>2. i \in Slots /\ spc[i] = "asleep" /\ spc[i] # "pop"
    BY DEF Asleep
  <2>3. count' <= count + 1
    BY <1>1, AdmissionAssumption
  <2> QED BY <1>1, <2>1, <2>2, <2>3, OneMoreAwake
<1> QED BY <1>2, <1>3

LEMMA QueueShutdownKeeps == ASSUME QueueInv, QueueShutdown PROVE QueueInv'
<1> USE DEF QueueInv, QueueType
<1>1. QueueType'
  BY DrainInRing, AdmissionAssumption DEF QueueShutdown
<1>2. Asleep' = {}
  BY DEF Asleep, QueueShutdown
<1> QED BY <1>1, <1>2 DEF NoIdleSlot

LEMMA SlotKeeps ==
  ASSUME QueueInv, NEW i \in Slots, SlotStep(i) \/ SpuriousWake(i)
  PROVE  QueueInv'
<1> USE DEF QueueInv, QueueType
<1>1. CASE Pop(i)
  <2>1. QueueType'
    BY <1>1, AfterInRing, AdmissionAssumption DEF Pop
  <2>2. Awake' = Awake \ {i} /\ i \in Awake /\ Awake \in SUBSET Slots
    BY <1>1 DEF Pop, Awake
  <2>3. Cardinality(Awake') = Cardinality(Awake) - 1 /\ Cardinality(Awake) \in Nat
    BY <2>2, SlotCount, SlotCountAdd
  <2>4. Asleep' # {} => Asleep # {}
    BY <1>1 DEF Pop, Asleep
  <2>5. count' = count - 1
    BY <1>1 DEF Pop
  <2> QED BY <2>1, <2>3, <2>4, <2>5, AdmissionAssumption DEF NoIdleSlot
<1>2. CASE PopNothing(i)
  <2>1. QueueType' /\ count' = 0
    BY <1>2 DEF PopNothing, ringVars
  <2>2. Cardinality(Awake)' \in Nat
    BY SlotCount DEF Awake
  <2> QED BY <2>1, <2>2 DEF NoIdleSlot
<1>3. CASE Handle(i) \/ SpuriousWake(i)
  <2>1. /\ spc[i] # "pop" /\ spc' = [spc EXCEPT ![i] = "pop"]
        /\ UNCHANGED <<head, tail, count>>
    BY <1>3 DEF Handle, SpuriousWake, ringVars
  <2>2. count' \in 0 .. Limit /\ count' <= count + 1 /\ count' = count
    BY <2>1, AdmissionAssumption
  <2> QED BY <2>1, <2>2, OneMoreAwake
<1> QED BY <1>1, <1>2, <1>3 DEF SlotStep

\* Everything else leaves the ring and the slots alone.
LEMMA OthersKeep ==
  ASSUME QueueInv, UNCHANGED <<head, tail, count, spc>>
  PROVE  QueueInv'
BY DEF QueueInv, QueueType, NoIdleSlot, Asleep, Awake

LEMMA NextQueueInv == QueueInv /\ [Next]_vars => QueueInv'
<1> SUFFICES ASSUME QueueInv, [Next]_vars PROVE QueueInv'
  OBVIOUS
<1>1. CASE Push
  BY <1>1, PushKeeps
<1>2. CASE QueueShutdown
  BY <1>2, QueueShutdownKeeps
<1>3. CASE \E i \in Slots : SlotStep(i) \/ SpuriousWake(i)
  BY <1>3, SlotKeeps
<1>4. CASE \/ Publish \/ Look \/ Accept \/ AcceptFails \/ AcceptError
           \/ FastpathAnswers \/ FastpathPasses \/ PushWaits \/ Shed \/ CloseListener
           \/ Refuse \/ Join
  BY <1>4, OthersKeep
     DEF Publish, Look, Accept, AcceptFails, AcceptError, FastpathAnswers,
         FastpathPasses, PushWaits, Shed, CloseListener, Refuse, Join, ringVars,
         slotVars
<1>5. CASE \/ \E c \in Conns : Connect(c)
           \/ RequestStop \/ HandlerReturns \/ UNCHANGED vars
  BY <1>5, OthersKeep
     DEF Connect, RequestStop, HandlerReturns, vars, ringVars, slotVars
<1> QED BY <1>1, <1>2, <1>3, <1>4, <1>5 DEF Next, MainStep, Ended

\* The ring's indices and count stay in range, and no connection waits while a
\* slot sleeps (q_push's signal against q_pop's wait).
THEOREM NoSlotIdles == Spec => []NoIdleSlot
<1>1. QueueInv => NoIdleSlot
  BY DEF QueueInv
<1> QED BY <1>1, InitQueueInv, NextQueueInv, PTL DEF Spec

-----------------------------------------------------------------------------
(* The ring.                                                               *)

\* An index goes round at most once.
LEMMA Wrap ==
  ASSUME NEW x \in Cells, NEW n \in 0 .. Cap
  PROVE  (x + n) % Cap = IF x + n < Cap THEN x + n ELSE x + n - Cap
<1>0. Cap \in Nat /\ Cap >= 1 /\ x \in Nat /\ x < Cap /\ n \in Nat /\ n <= Cap
  BY AdmissionAssumption DEF Cells
<1>1. (x + n) = Cap * ((x + n) \div Cap) + ((x + n) % Cap) /\ ((x + n) % Cap) \in 0 .. (Cap - 1)
  BY <1>0
<1>2. (x + n) \div Cap \in Int
  BY <1>0
<1> DEFINE q == (x + n) \div Cap
           r == (x + n) % Cap
<1>3. x + n = Cap * q + r /\ r >= 0 /\ r < Cap /\ q \in Int /\ r \in Int
  BY <1>0, <1>1, <1>2
<1> HIDE DEF q, r
<1>4. q = 0 \/ q = 1
  <2>1. ASSUME q >= 2 PROVE FALSE
    <3>1. Cap * q >= Cap * 2
      BY <1>0, <1>3, <2>1
    <3> QED BY <1>0, <1>3, <3>1
  <2>2. ASSUME q <= -1 PROVE FALSE
    <3>1. Cap * q <= Cap * (-1)
      BY <1>0, <1>3, <2>2
    <3> QED BY <1>0, <1>3, <3>1
  <2> QED BY <1>3, <2>1, <2>2
<1>5. r = IF x + n < Cap THEN x + n ELSE x + n - Cap
  <2>1. Cap * 0 = 0 /\ Cap * 1 = Cap
    BY <1>0
  <2> QED BY <1>0, <1>3, <1>4, <2>1
<1> QED BY <1>5 DEF r

Cell(k) == (head + k - 1) % Cap

\* The ring keeps its tail count cells behind its head, and every queued cell holds a
\* connection.
RingInv ==
  /\ fds \in [Cells -> Conns \cup {NoConn}] /\ tail = (head + count) % Cap
  /\ \A k \in 1 .. count : Queued[k] \in Conns

LEMMA Bounds ==
  ASSUME QueueType
  PROVE  /\ Cap \in Nat /\ Cap >= 1 /\ Limit \in Nat /\ Limit <= Cap
         /\ head \in Nat /\ head < Cap /\ count \in Nat /\ count <= Limit
BY AdmissionAssumption DEF QueueType, Cells

LEMMA CellIs ==
  ASSUME QueueType, NEW k \in 1 .. Cap
  PROVE  /\ Cell(k) = IF head + k - 1 < Cap THEN head + k - 1 ELSE head + k - 1 - Cap
         /\ Cell(k) \in Cells
<1>1. k - 1 \in 0 .. Cap /\ head + (k - 1) = head + k - 1
  BY Bounds
<1>2. (head + (k - 1)) % Cap = IF head + (k - 1) < Cap THEN head + (k - 1) ELSE head + (k - 1) - Cap
  BY <1>1, Wrap DEF QueueType
<1> QED BY <1>1, <1>2, Bounds DEF Cell, Cells

LEMMA AfterIs ==
  ASSUME NEW x \in Cells PROVE After(x) = IF x + 1 < Cap THEN x + 1 ELSE 0
<1>1. 1 \in 0 .. Cap /\ Cap \in Nat /\ Cap >= 1 /\ x \in Nat /\ x < Cap
  BY AdmissionAssumption DEF Cells
<1> QED BY <1>1, Wrap DEF After

LEMMA QueuedAt == \A k \in 1 .. count : Queued[k] = fds[Cell(k)]
BY DEF Queued, Cell

\* A connection is written behind the last one.
LEMMA RingPush ==
  ASSUME QueueType, RingInv, Push, cfd \in Conns
  PROVE  /\ count' = count + 1 /\ Queued'[count + 1] = cfd
         /\ \A k \in 1 .. count : Queued'[k] = Queued[k]
         /\ RingInv'
<1>1. /\ count < Limit /\ fds' = [fds EXCEPT ![tail] = cfd] /\ tail' = After(tail)
      /\ count' = count + 1 /\ head' = head
  BY DEF Push, Room
<1>2. tail = Cell(count + 1) /\ tail \in Cells
  BY Bounds, <1>1 DEF RingInv, QueueType, Cell
<1>3. ASSUME NEW k \in 1 .. count PROVE Cell(k) \in Cells /\ Cell(k) # tail
  BY <1>1, <1>2, <1>3, Bounds, CellIs
<1>4. \A k \in 1 .. count + 1 : Queued'[k] = fds'[Cell(k)]
  BY <1>1 DEF Queued, Cell
<1>5. \A k \in 1 .. count : Queued'[k] = Queued[k]
  <2> TAKE k \in 1 .. count
  <2>1. k \in 1 .. count + 1
    BY Bounds
  <2>2. fds'[Cell(k)] = fds[Cell(k)]
    BY <1>1, <1>3 DEF RingInv
  <2> QED BY <1>4, <2>1, <2>2, QueuedAt
<1>6. Queued'[count + 1] = cfd
  <2>1. count + 1 \in 1 .. count + 1
    BY Bounds
  <2> QED BY <1>1, <1>2, <1>4, <2>1 DEF RingInv
<1>7. RingInv'
  <2>1. fds' \in [Cells -> Conns \cup {NoConn}]
    BY <1>1 DEF RingInv
  <2>2. tail' = (head' + count') % Cap
    <3>1. count + 1 \in 0 .. Cap /\ count \in 0 .. Cap
      BY <1>1, Bounds
    <3>2. (head + (count + 1)) % Cap
            = IF head + (count + 1) < Cap THEN head + (count + 1) ELSE head + (count + 1) - Cap
      BY <3>1, Wrap DEF QueueType
    <3>3. (head + count) % Cap = IF head + count < Cap THEN head + count ELSE head + count - Cap
      BY <3>1, Wrap DEF QueueType
    <3>4. After(tail) = IF tail + 1 < Cap THEN tail + 1 ELSE 0
      BY <1>2, AfterIs
    <3> QED BY <1>1, <3>2, <3>3, <3>4, Bounds DEF RingInv
  <2>3. ASSUME NEW k \in 1 .. count' PROVE Queued'[k] \in Conns
    <3>1. k \in 1 .. count \/ k = count + 1
      BY <1>1, Bounds
    <3> QED BY <1>5, <1>6, <3>1 DEF RingInv
  <2> QED BY <2>1, <2>2, <2>3 DEF RingInv
<1> QED BY <1>1, <1>5, <1>6, <1>7

\* The slot takes the first connection; the others move up.
LEMMA RingPop ==
  ASSUME QueueType, RingInv, NEW i \in Slots, Pop(i)
  PROVE  /\ count' = count - 1 /\ count > 0 /\ Queued[1] \in Conns
         /\ fd' = [fd EXCEPT ![i] = Queued[1]]
         /\ \A k \in 1 .. count - 1 : Queued'[k] = Queued[k + 1]
         /\ RingInv'
<1>1. /\ count > 0 /\ fd' = [fd EXCEPT ![i] = fds[head]] /\ head' = After(head)
      /\ count' = count - 1 /\ UNCHANGED <<fds, tail>>
  BY DEF Pop
<1>2. head' = IF head + 1 < Cap THEN head + 1 ELSE 0
  BY <1>1, AfterIs DEF QueueType
<1>3. QueueType' \/ head' \in Cells
  BY <1>2, Bounds DEF Cells
<1>4. ASSUME NEW k \in 1 .. count - 1 PROVE (head' + k - 1) % Cap = Cell(k + 1)
  <2>1. k + 1 \in 1 .. Cap /\ k - 1 \in 0 .. Cap /\ k \in Nat /\ k < Cap /\ k >= 1
    BY <1>1, Bounds
  <2>2. Cell(k + 1) = IF head + k < Cap THEN head + k ELSE head + k - Cap
    BY <2>1, CellIs, Bounds
  <2>3. head' \in Cells
    BY <1>2, Bounds DEF Cells
  <2>4. (head' + (k - 1)) % Cap = IF head' + (k - 1) < Cap THEN head' + (k - 1) ELSE head' + (k - 1) - Cap
    BY <2>1, <2>3, Wrap
  <2>5. head' + (k - 1) = head' + k - 1
    BY <2>1, <1>2, Bounds
  <2> QED BY <1>2, <2>1, <2>2, <2>4, <2>5, Bounds
<1>5. \A k \in 1 .. count - 1 : Queued'[k] = Queued[k + 1]
  <2> TAKE k \in 1 .. count - 1
  <2>1. k \in 1 .. count' /\ k + 1 \in 1 .. count
    BY <1>1, Bounds
  <2>2. Queued'[k] = fds'[(head' + k - 1) % Cap]
    BY <2>1 DEF Queued
  <2> QED BY <1>1, <1>4, <2>1, <2>2, QueuedAt
<1>6. Queued[1] = fds[head] /\ Queued[1] \in Conns
  <2>1. 1 \in 1 .. count /\ 1 \in 1 .. Cap
    BY <1>1, Bounds
  <2>2. Cell(1) = head
    BY <2>1, CellIs, Bounds
  <2> QED BY <2>1, <2>2, QueuedAt DEF RingInv
<1>7. RingInv'
  <2>1. tail' = (head' + count') % Cap
    <3>1. count - 1 \in 0 .. Cap /\ count \in 0 .. Cap /\ head' \in Cells
      BY <1>1, <1>2, Bounds DEF Cells
    <3>2. (head' + (count - 1)) % Cap
            = IF head' + (count - 1) < Cap THEN head' + (count - 1) ELSE head' + (count - 1) - Cap
      BY <3>1, Wrap
    <3>3. (head + count) % Cap = IF head + count < Cap THEN head + count ELSE head + count - Cap
      BY <3>1, Wrap DEF QueueType
    <3> QED BY <1>1, <1>2, <3>2, <3>3, Bounds DEF RingInv
  <2>2. ASSUME NEW k \in 1 .. count' PROVE Queued'[k] \in Conns
    <3>1. k \in 1 .. count - 1 /\ k + 1 \in 1 .. count
      BY <1>1, Bounds
    <3> QED BY <1>5, <3>1 DEF RingInv
  <2> QED BY <1>1, <2>1, <2>2 DEF RingInv
<1> QED BY <1>1, <1>5, <1>6, <1>7

\* queue_shutdown empties it.
LEMMA RingDrain ==
  ASSUME QueueType, RingInv, QueueShutdown
  PROVE  RingInv' /\ count' = 0
<1>1. head' = tail /\ count' = 0 /\ UNCHANGED <<fds, tail>>
  BY DEF QueueShutdown, RingInv
<1>2. tail \in Cells /\ tail + 0 = tail /\ 0 \in 0 .. Cap
  BY AdmissionAssumption DEF QueueType, Cells
<1>3. (tail + 0) % Cap = tail
  <2>1. tail + 0 < Cap
    BY <1>2, AdmissionAssumption DEF Cells
  <2> QED BY <1>2, <2>1, Wrap
<1>4. 1 .. count' = {}
  BY <1>1
<1> QED BY <1>1, <1>3, <1>4 DEF RingInv

-----------------------------------------------------------------------------
(* Ownership.                                                              *)

\* Where an accepted connection can be.
WithMain(c) == cfd = c
InRing(c) == \E k \in 1 .. count : Queued[k] = c
InSlot(c) == \E i \in Slots : fd[i] = c
InRefused(c) == \E k \in 1 .. Len(refused) : refused[k] = c
Closed(c) == closes[c] = 1

PlaceType ==
  /\ fd \in [Slots -> Conns \cup {NoConn}]
  /\ \A i \in Slots : fd[i] # NoConn <=> spc[i] = "handle"
  /\ refused \in Seq(Conns) /\ (refused # <<>> => mpc = "refuse")
  /\ cfd \in Conns \cup {NoConn} /\ (cfd # NoConn <=> mpc \in {"fastpath", "push", "shed"})
  /\ conn \in [Conns -> {"away", "backlog", "accepted"}]
  /\ closes \in [Conns -> {0, 1}]
  /\ q_shutdown => mpc \in {"refuse", "down"}

\* An accepted connection is somewhere, and in no two places.
OnePlace(c) ==
  /\ conn[c] = "accepted"
       <=> WithMain(c) \/ InRing(c) \/ InSlot(c) \/ InRefused(c) \/ Closed(c)
  /\ WithMain(c) => ~InRing(c) /\ ~InSlot(c) /\ ~InRefused(c) /\ ~Closed(c)
  /\ InRing(c) => ~InSlot(c) /\ ~InRefused(c) /\ ~Closed(c)
  /\ InSlot(c) => ~InRefused(c) /\ ~Closed(c)
  /\ InRefused(c) => ~Closed(c)

\* ... nor twice in one.
RingDistinct == \A j, k \in 1 .. count : Queued[j] = Queued[k] => j = k
SlotsDistinct == \A i, j \in Slots : fd[i] = fd[j] /\ fd[i] # NoConn => i = j
RefusedDistinct == \A j, k \in 1 .. Len(refused) : refused[j] = refused[k] => j = k

OwnerInv ==
  /\ RingInv /\ PlaceType
  /\ RingDistinct /\ SlotsDistinct /\ RefusedDistinct
  /\ \A c \in Conns : OnePlace(c)

LEMMA InitOwner == Init => OwnerInv
<1> SUFFICES ASSUME Init PROVE OwnerInv
  OBVIOUS
<1>1. Cap \in Nat /\ Cap >= 1 /\ NoConn \notin Conns /\ 0 \in 0 .. Cap /\ 0 \in Cells
  BY AdmissionAssumption DEF Cells
<1>2. head = 0 /\ tail = 0 /\ count = 0 /\ 1 .. count = {}
  BY DEF Init
<1>3. (0 + 0) % Cap = 0
  BY <1>1, Wrap
<1>4. RingInv
  <2>1. fds \in [Cells -> Conns \cup {NoConn}]
    BY DEF Init
  <2> QED BY <1>2, <1>3, <2>1 DEF RingInv
<1>5. refused = <<>> /\ Len(refused) = 0 /\ 1 .. Len(refused) = {}
  BY DEF Init
<1>6. PlaceType
  <2>1. fd \in [Slots -> Conns \cup {NoConn}] /\ \A i \in Slots : fd[i] = NoConn /\ spc[i] = "pop"
    BY DEF Init
  <2>2. conn \in [Conns -> {"away", "backlog", "accepted"}] /\ closes \in [Conns -> {0, 1}]
    BY DEF Init
  <2>3. cfd = NoConn /\ mpc = "start" /\ q_shutdown = FALSE
    BY DEF Init
  <2> QED BY <1>5, <2>1, <2>2, <2>3 DEF PlaceType
<1>7. RingDistinct /\ SlotsDistinct /\ RefusedDistinct
  BY <1>2, <1>5 DEF Init, RingDistinct, SlotsDistinct, RefusedDistinct
<1>8. ASSUME NEW c \in Conns PROVE OnePlace(c)
  <2>1. ~InRing(c) /\ ~InRefused(c)
    BY <1>2, <1>5 DEF InRing, InRefused
  <2>2. ~WithMain(c) /\ ~InSlot(c) /\ ~Closed(c) /\ conn[c] # "accepted"
    BY <1>1, <1>8 DEF Init, WithMain, InSlot, Closed
  <2> QED BY <2>1, <2>2 DEF OnePlace
<1> QED BY <1>4, <1>6, <1>7, <1>8 DEF OwnerInv

\* Steps that leave the ring, the slots' connections or the list of the refused alone.
LEMMA RingKept ==
  ASSUME UNCHANGED ringVars
  PROVE  /\ RingInv => RingInv'
         /\ RingDistinct => RingDistinct'
         /\ \A c : InRing(c)' <=> InRing(c)
<1>1. Queued' = Queued /\ count' = count /\ fds' = fds /\ head' = head /\ tail' = tail
  BY DEF ringVars, Queued
<1>2. RingInv' <=> RingInv
  BY <1>1 DEF RingInv
<1>3. RingDistinct' <=> RingDistinct
  BY <1>1 DEF RingDistinct
<1>4. \A c : InRing(c)' <=> InRing(c)
  BY <1>1 DEF InRing
<1> QED BY <1>2, <1>3, <1>4

LEMMA PlacesKept ==
  /\ UNCHANGED fd => (SlotsDistinct => SlotsDistinct') /\ \A c : InSlot(c)' <=> InSlot(c)
  /\ UNCHANGED refused => /\ RefusedDistinct => RefusedDistinct'
                          /\ \A c : InRefused(c)' <=> InRefused(c)
BY DEF SlotsDistinct, RefusedDistinct, InSlot, InRefused

\* Nothing moves.
LEMMA OwnerStutter ==
  ASSUME OwnerInv, UNCHANGED <<ringVars, cfd, fd, refused, connVars>>, PlaceType'
  PROVE  OwnerInv'
<1>1. RingInv' /\ RingDistinct' /\ SlotsDistinct' /\ RefusedDistinct'
  BY RingKept, PlacesKept DEF OwnerInv
<1>2. ASSUME NEW c \in Conns PROVE OnePlace(c)'
  <2>1. InRing(c)' <=> InRing(c)
    BY RingKept
  <2>2. (InSlot(c)' <=> InSlot(c)) /\ (InRefused(c)' <=> InRefused(c))
    BY PlacesKept
  <2>3. (WithMain(c)' <=> WithMain(c)) /\ (Closed(c)' <=> Closed(c)) /\ conn'[c] = conn[c]
    BY DEF WithMain, Closed, connVars
  <2> QED BY <2>1, <2>2, <2>3 DEF OwnerInv, OnePlace
<1> QED BY <1>1, <1>2 DEF OwnerInv

\* sock_close of a connection that one place alone still holds.
LEMMA CloseCounts ==
  ASSUME OwnerInv, NEW d \in Conns, Close(d), ~Closed(d)
  PROVE  /\ closes' \in [Conns -> {0, 1}]
         /\ \A c \in Conns : Closed(c)' <=> Closed(c) \/ c = d
<1>1. closes \in [Conns -> {0, 1}] /\ closes' = [closes EXCEPT ![d] = closes[d] + 1]
  BY DEF OwnerInv, PlaceType, Close
<1>2. closes[d] = 0 /\ closes' = [closes EXCEPT ![d] = 1]
  <2>1. closes[d] \in {0, 1} /\ closes[d] # 1
    BY <1>1 DEF Closed
  <2>2. closes[d] = 0
    BY <2>1
  <2>3. 0 + 1 = 1
    OBVIOUS
  <2> QED BY <1>1, <2>2, <2>3
<1>3. closes' \in [Conns -> {0, 1}]
  BY <1>1, <1>2
<1>4. ASSUME NEW c \in Conns PROVE Closed(c)' <=> Closed(c) \/ c = d
  <2>1. closes'[c] = IF c = d THEN 1 ELSE closes[c]
    BY <1>1, <1>2
  <2> QED BY <2>1 DEF Closed
<1> QED BY <1>3, <1>4

LEMMA OwnerAccept == ASSUME OwnerInv, Accept PROVE OwnerInv'
<1>1. PICK d \in Conns : conn[d] = "backlog" /\ conn' = [conn EXCEPT ![d] = "accepted"]
                         /\ cfd' = d
  BY DEF Accept
<1>2. /\ mpc = "accept" /\ mpc' = "fastpath"
      /\ UNCHANGED <<ringVars, q_shutdown, refused, fd, spc, closes>>
  BY DEF Accept, slotVars
<1>3. cfd = NoConn /\ PlaceType /\ NoConn \notin Conns
  BY <1>2, AdmissionAssumption DEF OwnerInv, PlaceType
<1>4. PlaceType'
  BY <1>1, <1>2, <1>3 DEF PlaceType
<1>5. RingInv' /\ RingDistinct' /\ SlotsDistinct' /\ RefusedDistinct'
  BY <1>2, RingKept, PlacesKept DEF OwnerInv
<1>6. ASSUME NEW c \in Conns PROVE OnePlace(c)'
  <2>1. InRing(c)' <=> InRing(c)
    BY <1>2, RingKept
  <2>2. (InSlot(c)' <=> InSlot(c)) /\ (InRefused(c)' <=> InRefused(c))
    BY <1>2, PlacesKept
  <2>3. (WithMain(c)' <=> c = d) /\ ~WithMain(c) /\ (Closed(c)' <=> Closed(c))
    BY <1>1, <1>2, <1>3 DEF WithMain, Closed
  <2>4. conn'[c] = "accepted" <=> conn[c] = "accepted" \/ c = d
    BY <1>1, <1>3 DEF PlaceType
  <2>5. OnePlace(c) /\ conn[d] # "accepted"
    BY <1>1 DEF OwnerInv
  <2> QED BY <2>1, <2>2, <2>3, <2>4, <2>5 DEF OnePlace
<1> QED BY <1>4, <1>5, <1>6 DEF OwnerInv

\* The main thread answers and closes: accept_fastpath, or the 503 of a full queue.
LEMMA OwnerMainCloses == ASSUME OwnerInv, FastpathAnswers \/ Shed PROVE OwnerInv'
<1>1. /\ mpc \in {"fastpath", "shed"} /\ mpc' = "look" /\ Close(cfd) /\ cfd' = NoConn
      /\ UNCHANGED <<ringVars, q_shutdown, refused, fd, spc, conn>>
  BY DEF FastpathAnswers, Shed, slotVars
<1>2. cfd \in Conns /\ PlaceType /\ NoConn \notin Conns
  BY <1>1, AdmissionAssumption DEF OwnerInv, PlaceType
<1>3. ~Closed(cfd)
  BY <1>2 DEF OwnerInv, OnePlace, WithMain
<1>4. /\ closes' \in [Conns -> {0, 1}]
      /\ \A c \in Conns : Closed(c)' <=> Closed(c) \/ c = cfd
  BY <1>1, <1>2, <1>3, CloseCounts
<1>5. PlaceType'
  BY <1>1, <1>2, <1>4 DEF PlaceType
<1>6. RingInv' /\ RingDistinct' /\ SlotsDistinct' /\ RefusedDistinct'
  BY <1>1, RingKept, PlacesKept DEF OwnerInv
<1>7. ASSUME NEW c \in Conns PROVE OnePlace(c)'
  <2>1. InRing(c)' <=> InRing(c)
    BY <1>1, RingKept
  <2>2. (InSlot(c)' <=> InSlot(c)) /\ (InRefused(c)' <=> InRefused(c))
    BY <1>1, PlacesKept
  <2>3. ~WithMain(c)' /\ (WithMain(c) <=> c = cfd) /\ conn'[c] = conn[c]
    BY <1>1, <1>2 DEF WithMain
  <2>4. OnePlace(c) /\ (Closed(c)' <=> Closed(c) \/ c = cfd)
    BY <1>4 DEF OwnerInv
  <2> QED BY <2>1, <2>2, <2>3, <2>4 DEF OnePlace
<1> QED BY <1>5, <1>6, <1>7 DEF OwnerInv

LEMMA OwnerPush == ASSUME QueueType, OwnerInv, Push PROVE OwnerInv'
<1>1. /\ mpc = "push" /\ mpc' = "look" /\ cfd' = NoConn
      /\ UNCHANGED <<q_shutdown, refused, fd, connVars>>
  BY DEF Push
<1>2. cfd \in Conns /\ PlaceType /\ NoConn \notin Conns
  BY <1>1, AdmissionAssumption DEF OwnerInv, PlaceType
<1>3. /\ count' = count + 1 /\ Queued'[count + 1] = cfd /\ RingInv'
      /\ \A k \in 1 .. count : Queued'[k] = Queued[k]
  BY <1>2, RingPush DEF OwnerInv
<1>4. count \in Nat /\ 1 .. count' = (1 .. count) \cup {count + 1}
  BY <1>3, Bounds
<1>5. \A c : InRing(c)' <=> InRing(c) \/ c = cfd
  BY <1>3, <1>4 DEF InRing
<1>6. PlaceType'
  <2>1. \A i \in Slots : spc'[i] = "handle" <=> spc[i] = "handle"
    <3>1. CASE spc' = spc
      BY <3>1
    <3>2. CASE \E i \in Asleep : spc' = [spc EXCEPT ![i] = "pop"]
      BY <3>2 DEF Asleep, QueueType
    <3> QED BY <3>1, <3>2 DEF Push, SignalSlot
  <2> QED BY <1>1, <1>2, <2>1 DEF PlaceType, connVars
<1>7. SlotsDistinct' /\ RefusedDistinct'
  BY <1>1, PlacesKept DEF OwnerInv
<1>8. RingDistinct'
  <2>1. \A k \in 1 .. count : Queued[k] # cfd
    BY <1>2 DEF OwnerInv, OnePlace, WithMain, InRing
  <2>2. RingDistinct
    BY DEF OwnerInv
  <2>3. ASSUME NEW j \in 1 .. count', NEW k \in 1 .. count', Queued'[j] = Queued'[k]
        PROVE  j = k
    BY <1>3, <1>4, <2>1, <2>2, <2>3 DEF RingDistinct
  <2> QED BY <2>3 DEF RingDistinct
<1>9. ASSUME NEW c \in Conns PROVE OnePlace(c)'
  <2>1. (InSlot(c)' <=> InSlot(c)) /\ (InRefused(c)' <=> InRefused(c))
    BY <1>1, PlacesKept
  <2>2. ~WithMain(c)' /\ (WithMain(c) <=> c = cfd) /\ conn'[c] = conn[c]
          /\ (Closed(c)' <=> Closed(c))
    BY <1>1, <1>2 DEF WithMain, Closed, connVars
  <2> QED BY <1>5, <2>1, <2>2 DEF OwnerInv, OnePlace
<1> QED BY <1>3, <1>6, <1>7, <1>8, <1>9 DEF OwnerInv

LEMMA OwnerPop == ASSUME QueueType, OwnerInv, NEW i \in Slots, Pop(i) PROVE OwnerInv'
<1> DEFINE d == Queued[1]
<1>1. /\ spc[i] = "pop" /\ spc' = [spc EXCEPT ![i] = "handle"]
      /\ UNCHANGED <<q_shutdown, mainVars, connVars>>
  BY DEF Pop
<1>2. /\ count' = count - 1 /\ count > 0 /\ d \in Conns /\ fd' = [fd EXCEPT ![i] = d]
      /\ \A k \in 1 .. count - 1 : Queued'[k] = Queued[k + 1]
      /\ RingInv'
  BY RingPop DEF OwnerInv
<1>3. /\ count \in Nat /\ 1 \in 1 .. count
      /\ \A k \in 1 .. count' : k \in 1 .. count - 1 /\ k + 1 \in 1 .. count /\ k + 1 # 1
      /\ \A k \in 1 .. count : k # 1 => k - 1 \in 1 .. count' /\ (k - 1) + 1 = k
  BY <1>2, Bounds
<1>4. RingDistinct /\ PlaceType /\ NoConn \notin Conns /\ fd[i] = NoConn
  BY <1>1, AdmissionAssumption DEF OwnerInv, PlaceType
<1>5. \A c : InRing(c)' <=> InRing(c) /\ c # d
  <2>1. ASSUME NEW c, InRing(c)' PROVE InRing(c) /\ c # d
    <3>1. PICK k \in 1 .. count' : Queued'[k] = c
      BY <2>1 DEF InRing
    <3>2. k + 1 \in 1 .. count /\ k + 1 # 1 /\ Queued[k + 1] = c
      BY <1>2, <1>3, <3>1
    <3> QED BY <1>3, <1>4, <3>2 DEF InRing, RingDistinct
  <2>2. ASSUME NEW c, InRing(c), c # d PROVE InRing(c)'
    <3>1. PICK k \in 1 .. count : Queued[k] = c
      BY <2>2 DEF InRing
    <3>2. k # 1
      BY <2>2, <3>1
    <3>3. k - 1 \in 1 .. count' /\ Queued'[k - 1] = c
      BY <1>2, <1>3, <3>1, <3>2
    <3> QED BY <3>3 DEF InRing
  <2> QED BY <2>1, <2>2
<1>6. InRing(d) /\ ~InSlot(d)
  BY <1>2, <1>3 DEF InRing, OwnerInv, OnePlace
<1>7. \A c \in Conns : InSlot(c)' <=> InSlot(c) \/ c = d
  BY <1>2, <1>4 DEF PlaceType, InSlot
<1>8. PlaceType'
  BY <1>1, <1>2, <1>4 DEF PlaceType, QueueType, mainVars, connVars
<1>9. RefusedDistinct' /\ \A c : InRefused(c)' <=> InRefused(c)
  BY <1>1, PlacesKept DEF OwnerInv, mainVars
<1>10. SlotsDistinct'
  <2>1. \A j \in Slots : fd[j] # d /\ fd'[j] = IF j = i THEN d ELSE fd[j]
    BY <1>2, <1>4, <1>6 DEF InSlot, PlaceType
  <2> QED BY <2>1 DEF SlotsDistinct, OwnerInv
<1>11. RingDistinct'
  <2>1. ASSUME NEW j \in 1 .. count', NEW k \in 1 .. count', Queued'[j] = Queued'[k]
        PROVE  j = k
    <3>1. j + 1 \in 1 .. count /\ k + 1 \in 1 .. count /\ Queued[j + 1] = Queued[k + 1]
      BY <1>2, <1>3, <2>1
    <3>2. j + 1 = k + 1
      BY <1>4, <3>1 DEF RingDistinct
    <3> QED BY <3>2
  <2> QED BY <2>1 DEF RingDistinct
<1>12. ASSUME NEW c \in Conns PROVE OnePlace(c)'
  <2>1. (WithMain(c)' <=> WithMain(c)) /\ conn'[c] = conn[c] /\ (Closed(c)' <=> Closed(c))
    BY <1>1 DEF WithMain, Closed, connVars, mainVars
  <2>2. OnePlace(c) /\ (c = d => InRing(c))
    BY <1>6 DEF OwnerInv
  <2> HIDE DEF d
  <2> QED BY <1>5, <1>7, <1>9, <2>1, <2>2 DEF OnePlace
<1> QED BY <1>2, <1>8, <1>9, <1>10, <1>11, <1>12 DEF OwnerInv

LEMMA OwnerHandle == ASSUME QueueType, OwnerInv, NEW i \in Slots, Handle(i) PROVE OwnerInv'
<1>1. /\ spc[i] = "handle" /\ spc' = [spc EXCEPT ![i] = "pop"] /\ Close(fd[i])
      /\ fd' = [fd EXCEPT ![i] = NoConn]
      /\ UNCHANGED <<ringVars, q_shutdown, mainVars, conn>>
  BY DEF Handle
<1>2. fd[i] \in Conns /\ PlaceType /\ SlotsDistinct /\ NoConn \notin Conns
  BY <1>1, AdmissionAssumption DEF OwnerInv, PlaceType
<1>3. ~Closed(fd[i])
  BY <1>2 DEF OwnerInv, OnePlace, InSlot
<1>4. /\ closes' \in [Conns -> {0, 1}]
      /\ \A c \in Conns : Closed(c)' <=> Closed(c) \/ c = fd[i]
  BY <1>1, <1>2, <1>3, CloseCounts
<1>5. PlaceType'
  BY <1>1, <1>2, <1>4 DEF PlaceType, QueueType, mainVars
<1>6. RingInv' /\ RingDistinct' /\ RefusedDistinct' /\ \A c : InRefused(c)' <=> InRefused(c)
  BY <1>1, RingKept, PlacesKept DEF OwnerInv, mainVars
<1>7. \A j \in Slots : fd'[j] = IF j = i THEN NoConn ELSE fd[j]
  BY <1>1, <1>2 DEF PlaceType
<1>8. SlotsDistinct'
  BY <1>2, <1>7 DEF SlotsDistinct
<1>9. \A c \in Conns : InSlot(c)' <=> InSlot(c) /\ c # fd[i]
  BY <1>2, <1>7 DEF InSlot, SlotsDistinct
<1>10. ASSUME NEW c \in Conns PROVE OnePlace(c)'
  <2>1. InRing(c)' <=> InRing(c)
    BY <1>1, RingKept
  <2>2. (WithMain(c)' <=> WithMain(c)) /\ conn'[c] = conn[c]
    BY <1>1 DEF WithMain, mainVars
  <2>3. OnePlace(c) /\ (c = fd[i] => InSlot(c))
    BY DEF OwnerInv, InSlot
  <2> QED BY <1>4, <1>6, <1>9, <2>1, <2>2, <2>3 DEF OnePlace
<1> QED BY <1>5, <1>6, <1>8, <1>10 DEF OwnerInv

\* queue_shutdown takes every queued connection to the list it refuses.
LEMMA OwnerShutdown == ASSUME QueueType, OwnerInv, QueueShutdown PROVE OwnerInv'
<1>1. /\ mpc = "drain" /\ mpc' = "refuse" /\ q_shutdown' = TRUE /\ refused' = Queued
      /\ spc' = [i \in Slots |-> IF spc[i] = "asleep" THEN "pop" ELSE spc[i]]
      /\ UNCHANGED <<cfd, fd, connVars>>
  BY DEF QueueShutdown
<1>2. PlaceType /\ RingDistinct /\ RingInv /\ cfd = NoConn
  BY <1>1 DEF OwnerInv, PlaceType
<1>3. refused = <<>> /\ Len(refused) = 0 /\ 1 .. Len(refused) = {}
  BY <1>1, <1>2 DEF PlaceType
<1>4. RingInv' /\ count' = 0 /\ 1 .. count' = {}
  BY <1>2, RingDrain
<1>5. Queued \in Seq(Conns) /\ Len(Queued) = count
  <2>1. count \in Nat
    BY Bounds
  <2>2. Queued = [k \in 1 .. count |-> Queued[k]] /\ \A k \in 1 .. count : Queued[k] \in Conns
    BY <1>2 DEF Queued, RingInv
  <2>3. Queued \in [1 .. count -> Conns]
    BY <2>2
  <2> QED BY <2>1, <2>3
<1>6. Len(refused') = count /\ \A k \in 1 .. count : refused'[k] = Queued[k]
  BY <1>1, <1>5
<1>7. PlaceType'
  <2>1. \A i \in Slots : spc'[i] = "handle" <=> spc[i] = "handle"
    BY <1>1
  <2> QED BY <1>1, <1>2, <1>5, <2>1 DEF PlaceType, connVars
<1>8. SlotsDistinct' /\ \A c : InSlot(c)' <=> InSlot(c)
  BY <1>1, PlacesKept DEF OwnerInv
<1>9. RingDistinct' /\ RefusedDistinct'
  BY <1>2, <1>4, <1>6 DEF RingDistinct, RefusedDistinct
<1>10. ASSUME NEW c \in Conns PROVE OnePlace(c)'
  <2>1. (InRefused(c)' <=> InRing(c)) /\ ~InRing(c)' /\ ~InRefused(c)
    BY <1>3, <1>4, <1>6 DEF InRing, InRefused
  <2>2. (WithMain(c)' <=> WithMain(c)) /\ conn'[c] = conn[c] /\ (Closed(c)' <=> Closed(c))
    BY <1>1 DEF WithMain, Closed, connVars
  <2>3. OnePlace(c)
    BY DEF OwnerInv
  <2> QED BY <1>8, <2>1, <2>2, <2>3 DEF OnePlace
<1> QED BY <1>4, <1>7, <1>8, <1>9, <1>10 DEF OwnerInv

LEMMA OwnerRefuse == ASSUME OwnerInv, Refuse PROVE OwnerInv'
<1> DEFINE d == refused[1]
<1>1. /\ mpc = "refuse" /\ mpc' = mpc /\ refused # <<>> /\ Close(Head(refused))
      /\ refused' = Tail(refused)
      /\ UNCHANGED <<ringVars, q_shutdown, cfd, fd, spc, conn>>
  BY DEF Refuse, slotVars
<1>2. refused \in Seq(Conns) /\ PlaceType /\ RefusedDistinct
  BY DEF OwnerInv, PlaceType
<1>3. /\ Len(refused) \in Nat /\ Len(refused) >= 1 /\ Head(refused) = d /\ d \in Conns
      /\ refused' \in Seq(Conns) /\ Len(refused') = Len(refused) - 1
      /\ \A k \in 1 .. Len(refused) - 1 : refused'[k] = refused[k + 1]
  BY <1>1, <1>2
<1>4. /\ 1 \in 1 .. Len(refused)
      /\ \A k \in 1 .. Len(refused') : /\ k \in 1 .. Len(refused) - 1
                                       /\ k + 1 \in 1 .. Len(refused) /\ k + 1 # 1
      /\ \A k \in 1 .. Len(refused) : k # 1 => k - 1 \in 1 .. Len(refused') /\ (k - 1) + 1 = k
                                                /\ k - 1 \in 1 .. Len(refused) - 1
  BY <1>3
<1>5. \A c : InRefused(c)' <=> InRefused(c) /\ c # d
  <2>1. ASSUME NEW c, InRefused(c)' PROVE InRefused(c) /\ c # d
    <3>1. PICK k \in 1 .. Len(refused') : refused'[k] = c
      BY <2>1 DEF InRefused
    <3>2. k + 1 \in 1 .. Len(refused) /\ k + 1 # 1 /\ refused[k + 1] = c
      BY <1>3, <1>4, <3>1
    <3> QED BY <1>2, <1>4, <3>2 DEF InRefused, RefusedDistinct
  <2>2. ASSUME NEW c, InRefused(c), c # d PROVE InRefused(c)'
    <3>1. PICK k \in 1 .. Len(refused) : refused[k] = c
      BY <2>2 DEF InRefused
    <3>2. k # 1
      BY <2>2, <3>1
    <3>3. k - 1 \in 1 .. Len(refused') /\ refused'[k - 1] = c
      BY <1>3, <1>4, <3>1, <3>2
    <3> QED BY <3>3 DEF InRefused
  <2> QED BY <2>1, <2>2
<1>6. InRefused(d) /\ ~Closed(d)
  BY <1>3, <1>4 DEF InRefused, OwnerInv, OnePlace
<1>7. /\ closes' \in [Conns -> {0, 1}]
      /\ \A c \in Conns : Closed(c)' <=> Closed(c) \/ c = d
  BY <1>1, <1>3, <1>6, CloseCounts
<1>8. PlaceType'
  BY <1>1, <1>2, <1>3, <1>7 DEF PlaceType
<1>9. RingInv' /\ RingDistinct' /\ SlotsDistinct'
  BY <1>1, RingKept, PlacesKept DEF OwnerInv
<1>10. RefusedDistinct'
  <2>1. ASSUME NEW j \in 1 .. Len(refused'), NEW k \in 1 .. Len(refused'),
               refused'[j] = refused'[k]
        PROVE  j = k
    <3>1. /\ j + 1 \in 1 .. Len(refused) /\ k + 1 \in 1 .. Len(refused)
          /\ refused[j + 1] = refused[k + 1]
      BY <1>3, <1>4, <2>1
    <3>2. j + 1 = k + 1
      BY <1>2, <3>1 DEF RefusedDistinct
    <3> QED BY <3>2
  <2> QED BY <2>1 DEF RefusedDistinct
<1>11. ASSUME NEW c \in Conns PROVE OnePlace(c)'
  <2>1. (InRing(c)' <=> InRing(c)) /\ (InSlot(c)' <=> InSlot(c))
    BY <1>1, RingKept, PlacesKept
  <2>2. (WithMain(c)' <=> WithMain(c)) /\ conn'[c] = conn[c]
    BY <1>1 DEF WithMain
  <2>3. OnePlace(c) /\ (c = d => InRefused(c))
    BY <1>6 DEF OwnerInv
  <2> HIDE DEF d
  <2> QED BY <1>5, <1>7, <2>1, <2>2, <2>3 DEF OnePlace
<1> QED BY <1>8, <1>9, <1>10, <1>11 DEF OwnerInv

LEMMA NextOwner == ASSUME QueueType, OwnerInv, [Next]_vars PROVE OwnerInv'
<1> USE DEF ringVars, mainVars, slotVars
<1>0. PlaceType
  BY DEF OwnerInv
<1>1. CASE Publish \/ Look \/ AcceptFails \/ AcceptError \/ FastpathPasses \/ PushWaits
             \/ CloseListener \/ Join
  <2>1. /\ UNCHANGED <<ringVars, q_shutdown, cfd, fd, spc, refused, connVars>>
        /\ mpc' \in {"fastpath", "push", "shed"} <=> mpc \in {"fastpath", "push", "shed"}
        /\ mpc = "refuse" => refused = <<>> \/ mpc' = "refuse"
        /\ q_shutdown => mpc' \in {"refuse", "down"}
    BY <1>0, <1>1 DEF Publish, Look, AcceptFails, AcceptError, FastpathPasses, PushWaits,
       CloseListener, Join, PlaceType
  <2>2. PlaceType'
    BY <1>0, <2>1 DEF PlaceType, connVars
  <2> QED BY <2>1, <2>2, OwnerStutter
<1>2. CASE RequestStop \/ HandlerReturns \/ UNCHANGED vars
  <2>1. UNCHANGED <<ringVars, q_shutdown, mainVars, slotVars, connVars>>
    BY <1>2 DEF RequestStop, HandlerReturns, vars
  <2>2. PlaceType'
    BY <1>0, <2>1 DEF PlaceType, connVars
  <2> QED BY <2>1, <2>2, OwnerStutter
<1>3. ASSUME NEW d \in Conns, Connect(d) PROVE OwnerInv'
  <2>1. /\ conn[d] = "away" /\ conn' = [conn EXCEPT ![d] = "backlog"]
        /\ UNCHANGED <<ringVars, q_shutdown, mainVars, slotVars, closes>>
    BY <1>3 DEF Connect
  <2>2. PlaceType'
    BY <1>0, <2>1 DEF PlaceType
  <2>3. RingInv' /\ RingDistinct' /\ SlotsDistinct' /\ RefusedDistinct'
    BY <2>1, RingKept, PlacesKept DEF OwnerInv
  <2>4. ASSUME NEW c \in Conns PROVE OnePlace(c)'
    <3>1. InRing(c)' <=> InRing(c)
      BY <2>1, RingKept
    <3>2. (InSlot(c)' <=> InSlot(c)) /\ (InRefused(c)' <=> InRefused(c))
      BY <2>1, PlacesKept
    <3>3. (WithMain(c)' <=> WithMain(c)) /\ (Closed(c)' <=> Closed(c))
      BY <2>1 DEF WithMain, Closed
    <3>4. conn'[c] = "accepted" <=> conn[c] = "accepted"
      BY <1>0, <2>1 DEF PlaceType
    <3> QED BY <3>1, <3>2, <3>3, <3>4 DEF OwnerInv, OnePlace
  <2> QED BY <2>2, <2>3, <2>4 DEF OwnerInv
<1>4. ASSUME NEW i \in Slots, PopNothing(i) \/ SpuriousWake(i) PROVE OwnerInv'
  <2>1. /\ spc[i] # "handle"
        /\ \E p \in {"exit", "asleep", "pop"} : spc' = [spc EXCEPT ![i] = p]
        /\ UNCHANGED <<ringVars, q_shutdown, mainVars, fd, connVars>>
    BY <1>4 DEF PopNothing, SpuriousWake
  <2>2. PlaceType'
    BY <1>0, <2>1 DEF PlaceType, QueueType, connVars
  <2> QED BY <2>1, <2>2, OwnerStutter
<1>5. CASE MainStep
  BY <1>1, <1>5, OwnerAccept, OwnerMainCloses, OwnerPush, OwnerShutdown, OwnerRefuse
     DEF MainStep
<1>6. ASSUME NEW i \in Slots, SlotStep(i) \/ SpuriousWake(i) PROVE OwnerInv'
  BY <1>4, <1>6, OwnerPop, OwnerHandle DEF SlotStep
<1> QED BY <1>1, <1>2, <1>3, <1>5, <1>6 DEF Next, Ended

\* Every connection is at one place: the invariant behind OneOwner and the bounded queue.
THEOREM OwnershipInvariant == Spec => [](QueueInv /\ OwnerInv)
<1>1. Init => QueueInv /\ OwnerInv
  BY InitQueueInv, InitOwner
<1>2. QueueInv /\ OwnerInv /\ [Next]_vars => (QueueInv /\ OwnerInv)'
  BY NextQueueInv, NextOwner DEF QueueInv
<1> QED BY <1>1, <1>2, PTL DEF Spec

\* A set of at most one element has one exactly when it is not empty.
LEMMA CountOne ==
  ASSUME NEW S, \A x, y \in S : x = y
  PROVE  Cardinality(S) = IF S = {} THEN 0 ELSE 1
<1>1. CASE S = {}
  BY <1>1, FS_EmptySet
<1>2. CASE S # {}
  <2>1. PICK x : S = {x}
    BY <1>2
  <2> QED BY <1>2, <2>1, FS_Singleton
<1> QED BY <1>1, <1>2

\* No accepted connection is leaked, served twice or closed twice, whatever the shutdown
\* finds it in (accept loop, q_push, q_pop, queue_shutdown, slot_worker).
THEOREM ConnectionsAreOwned == Spec => []OneOwner
<1>1. ASSUME QueueInv, OwnerInv, NEW c \in Conns
      PROVE  Places(c) + closes[c] = IF conn[c] = "accepted" THEN 1 ELSE 0
  <2>0. PlaceType /\ OnePlace(c) /\ count \in Nat /\ c # NoConn
    BY <1>1, AdmissionAssumption, Bounds DEF OwnerInv, QueueInv
  <2>1. Cardinality({x \in {cfd} : x = c}) = IF WithMain(c) THEN 1 ELSE 0
    <3> DEFINE S == {x \in {cfd} : x = c}
    <3>1. (\A x, y \in S : x = y) /\ (S = {} <=> ~WithMain(c))
      BY DEF WithMain
    <3> HIDE DEF S
    <3>2. Cardinality(S) = IF S = {} THEN 0 ELSE 1
      BY <3>1, CountOne
    <3> QED BY <3>1, <3>2 DEF S
  <2>2. Cardinality({k \in DOMAIN Queued : Queued[k] = c}) = IF InRing(c) THEN 1 ELSE 0
    <3> DEFINE S == {k \in DOMAIN Queued : Queued[k] = c}
    <3>1. DOMAIN Queued = 1 .. count
      BY DEF Queued
    <3>2. \A x, y \in S : x = y
      BY <1>1, <3>1 DEF OwnerInv, RingDistinct
    <3>3. S = {} <=> ~InRing(c)
      BY <3>1 DEF InRing
    <3> HIDE DEF S
    <3>4. Cardinality(S) = IF S = {} THEN 0 ELSE 1
      BY <3>2, CountOne
    <3> QED BY <3>3, <3>4 DEF S
  <2>3. Cardinality({i \in Slots : fd[i] = c}) = IF InSlot(c) THEN 1 ELSE 0
    <3> DEFINE S == {i \in Slots : fd[i] = c}
    <3>1. \A x, y \in S : x = y
      BY <1>1, <2>0 DEF OwnerInv, SlotsDistinct
    <3>2. S = {} <=> ~InSlot(c)
      BY DEF InSlot
    <3> HIDE DEF S
    <3>3. Cardinality(S) = IF S = {} THEN 0 ELSE 1
      BY <3>1, CountOne
    <3> QED BY <3>2, <3>3 DEF S
  <2>4. Cardinality({k \in DOMAIN refused : refused[k] = c}) = IF InRefused(c) THEN 1 ELSE 0
    <3> DEFINE S == {k \in DOMAIN refused : refused[k] = c}
    <3>1. DOMAIN refused = 1 .. Len(refused)
      BY <2>0 DEF PlaceType
    <3>2. \A x, y \in S : x = y
      BY <1>1, <3>1 DEF OwnerInv, RefusedDistinct
    <3>3. S = {} <=> ~InRefused(c)
      BY <3>1 DEF InRefused
    <3> HIDE DEF S
    <3>4. Cardinality(S) = IF S = {} THEN 0 ELSE 1
      BY <3>2, CountOne
    <3> QED BY <3>3, <3>4 DEF S
  <2>5. closes[c] = IF Closed(c) THEN 1 ELSE 0
    BY <2>0 DEF PlaceType, Closed
  <2>6. Places(c) = (IF WithMain(c) THEN 1 ELSE 0) + (IF InRing(c) THEN 1 ELSE 0)
                      + (IF InSlot(c) THEN 1 ELSE 0) + (IF InRefused(c) THEN 1 ELSE 0)
    BY <2>1, <2>2, <2>3, <2>4 DEF Places
  <2> QED BY <2>0, <2>5, <2>6 DEF OnePlace
<1>2. QueueInv /\ OwnerInv => OneOwner
  BY <1>1 DEF OneOwner
<1> QED BY <1>2, OwnershipInvariant, PTL

-----------------------------------------------------------------------------
(* The bounded queue.                                                      *)

LEMMA QueuedIsSeq ==
  ASSUME QueueType, RingInv PROVE Queued \in Seq(Conns) /\ Len(Queued) = count
<1>1. count \in Nat
  BY Bounds
<1>2. Queued = [k \in 1 .. count |-> Queued[k]] /\ \A k \in 1 .. count : Queued[k] \in Conns
  BY DEF Queued, RingInv
<1>3. Queued \in [1 .. count -> Conns]
  BY <1>2
<1> QED BY <1>1, <1>3

LEMMA PushAdmits == ASSUME QueueInv, OwnerInv, Push, QueueType' PROVE Queue!Admit
<1>1. mpc = "push" /\ count < Limit /\ UNCHANGED <<fd, q_shutdown>>
  BY DEF Push, Room
<1>2. cfd \in Conns /\ ~q_shutdown
  BY <1>1 DEF OwnerInv, PlaceType
<1>3. /\ count' = count + 1 /\ Queued'[count + 1] = cfd /\ RingInv'
      /\ \A k \in 1 .. count : Queued'[k] = Queued[k]
  BY <1>2, RingPush DEF OwnerInv, QueueInv
<1>4. Queued \in Seq(Conns) /\ Len(Queued) = count /\ count \in Nat
  BY QueuedIsSeq, Bounds DEF OwnerInv, QueueInv
<1>5. Queued' \in Seq(Conns) /\ Len(Queued') = count'
  <2>1. count' \in Nat
    BY <1>3, <1>4
  <2>2. Queued' = [k \in 1 .. count' |-> Queued'[k]] /\ \A k \in 1 .. count' : Queued'[k] \in Conns
    BY <1>3 DEF Queued, RingInv
  <2>3. Queued' \in [1 .. count' -> Conns]
    BY <2>2
  <2> QED BY <2>1, <2>3
<1>6. Queued' = Append(Queued, cfd)
  <2> DEFINE A == Append(Queued, cfd)
  <2>1. A \in Seq(Conns) /\ Len(A) = count + 1 /\ A[count + 1] = cfd
          /\ \A k \in 1 .. count : A[k] = Queued[k]
    BY <1>2, <1>4, AppendProperties
  <2> HIDE DEF A
  <2>2. \A k \in 1 .. count + 1 : A[k] = Queued'[k]
    <3>1. \A k \in 1 .. count + 1 : k \in 1 .. count \/ k = count + 1
      BY <1>4
    <3> QED BY <1>3, <2>1, <3>1
  <2>3. A = Queued'
    BY <1>3, <1>5, <2>1, <2>2, SeqEqual
  <2> QED BY <2>3 DEF A
<1> QED BY <1>1, <1>2, <1>4, <1>6 DEF Queue!Admit

LEMMA PopGives ==
  ASSUME QueueInv, OwnerInv, NEW i \in Slots, Pop(i) PROVE Queue!Give
<1>1. spc[i] = "pop" /\ q_shutdown' = q_shutdown
  BY DEF Pop
<1>2. /\ count' = count - 1 /\ count > 0 /\ fd' = [fd EXCEPT ![i] = Queued[1]]
      /\ \A k \in 1 .. count - 1 : Queued'[k] = Queued[k + 1]
      /\ RingInv'
  BY RingPop DEF OwnerInv, QueueInv
<1>3. Queued \in Seq(Conns) /\ Len(Queued) = count /\ count \in Nat
  BY QueuedIsSeq, Bounds DEF OwnerInv, QueueInv
<1>4. fd[i] = NoConn
  BY <1>1 DEF OwnerInv, PlaceType
<1>5. Queued # <<>> /\ Head(Queued) = Queued[1]
  BY <1>2, <1>3
<1>6. Queued' \in Seq(Conns) /\ Len(Queued') = count - 1
  <2>1. count' \in Nat
    BY <1>2, <1>3
  <2>2. Queued' = [k \in 1 .. count' |-> Queued'[k]] /\ \A k \in 1 .. count' : Queued'[k] \in Conns
    BY <1>2 DEF Queued, RingInv
  <2>3. Queued' \in [1 .. count' -> Conns]
    BY <2>2
  <2> QED BY <1>2, <2>1, <2>3
<1>7. Queued' = Tail(Queued)
  <2> DEFINE T == Tail(Queued)
  <2>1. T \in Seq(Conns) /\ Len(T) = count - 1 /\ \A k \in 1 .. count - 1 : T[k] = Queued[k + 1]
    BY <1>3, <1>5, HeadTailProperties
  <2> HIDE DEF T
  <2>2. T = Queued'
    BY <1>2, <1>6, <2>1, SeqEqual
  <2> QED BY <2>2 DEF T
<1> QED BY <1>1, <1>2, <1>4, <1>5, <1>7 DEF Queue!Give

LEMMA QueueStep ==
  ASSUME QueueInv, QueueInv', OwnerInv, [Next]_vars
  PROVE  Queue!Next \/ UNCHANGED <<Queued, fd, q_shutdown>>
<1> USE DEF ringVars, mainVars, slotVars
<1>1. CASE Push
  BY <1>1, PushAdmits DEF Queue!Next, QueueInv
<1>2. CASE QueueShutdown
  <2>1. q_shutdown' = TRUE /\ UNCHANGED fd /\ 1 .. count' = {}
    BY <1>2 DEF QueueShutdown
  <2>2. Queued' = <<>>
    BY <2>1 DEF Queued
  <2> QED BY <2>1, <2>2 DEF Queue!Next, Queue!Close
<1>3. ASSUME NEW i \in Slots, Pop(i) PROVE Queue!Next
  BY <1>3, PopGives DEF Queue!Next
<1>4. ASSUME NEW i \in Slots, Handle(i) PROVE Queue!Next
  <2>1. fd' = [fd EXCEPT ![i] = NoConn] /\ UNCHANGED <<fds, head, count, q_shutdown>>
    BY <1>4 DEF Handle
  <2>2. Queued' = Queued
    BY <2>1 DEF Queued
  <2> QED BY <2>1, <2>2 DEF Queue!Next, Queue!Finish
<1>5. ASSUME UNCHANGED <<fds, head, count, fd, q_shutdown>>
      PROVE  UNCHANGED <<Queued, fd, q_shutdown>>
  BY <1>5 DEF Queued
<1>6. CASE \/ Publish \/ Look \/ Accept \/ AcceptFails \/ AcceptError
           \/ FastpathAnswers \/ FastpathPasses \/ PushWaits \/ Shed \/ CloseListener
           \/ Refuse \/ Join
  BY <1>5, <1>6
     DEF Publish, Look, Accept, AcceptFails, AcceptError, FastpathAnswers,
         FastpathPasses, PushWaits, Shed, CloseListener, Refuse, Join
<1>7. CASE \/ \E c \in Conns : Connect(c)
           \/ RequestStop \/ HandlerReturns \/ UNCHANGED vars
  BY <1>5, <1>7 DEF Connect, RequestStop, HandlerReturns, vars
<1>8. ASSUME NEW i \in Slots, PopNothing(i) \/ SpuriousWake(i)
      PROVE  UNCHANGED <<Queued, fd, q_shutdown>>
  BY <1>5, <1>8 DEF PopNothing, SpuriousWake
<1> QED BY <1>1, <1>2, <1>3, <1>4, <1>6, <1>7, <1>8 DEF Next, MainStep, SlotStep, Ended

LEMMA QueueStarts == Init => Queue!Init
<1> SUFFICES ASSUME Init PROVE Queue!Init
  OBVIOUS
<1>1. 1 .. count = {}
  BY DEF Init
<1>2. Queued = <<>>
  BY <1>1 DEF Queued
<1> QED BY <1>2 DEF Init, Queue!Init

\* The ring, its lock and its condition variable are a bounded queue: connections leave
\* in the order they came, each to one slot, at most Limit wait, and a shutdown turns all
\* that wait away at once (q_push, q_pop, queue_shutdown).
THEOREM RingImplementsFifoQueue == Spec => RefinesFifoQueue
<1>1. (QueueInv /\ OwnerInv) /\ (QueueInv /\ OwnerInv)' /\ [Next]_vars
        => [Queue!Next]_<<Queued, fd, q_shutdown>>
  BY QueueStep
<1> QED BY <1>1, QueueStarts, OwnershipInvariant, PTL
        DEF Spec, RefinesFifoQueue, Queue!Spec, Queued

=============================================================================
