-------------------------- MODULE SchedulerProofs --------------------------
(***************************************************************************)
(* Theorems about Scheduler for any number of slots, any microbatch width   *)
(* and context length, with and without the device turn.                   *)
(*                                                                          *)
(* The inductive invariant is Ctl: the types of the control state, that the *)
(* counters and the batch agree with the sequences (QueueConsistent), that  *)
(* the worker sleeps only when it may (NoLostWakeup) and that the           *)
(* scheduler is stopped only after the last slot thread has left.           *)
(*                                                                          *)
(* Then the gather of a microbatch, and the device turn inside the          *)
(* scheduler.  The tickets of dev_take and dev_give are the module Turnstile *)
(* with the slots and the decode worker for threads.  Who holds a ticket is *)
(* read off where it is: a slot draws one before it rewinds, prefills,      *)
(* generates alone or embeds, and every way out of these gives it back.  So *)
(* the scheduler's steps draw and give as Turnstile allows, and what        *)
(* TurnstileProofs proves of the tickets holds of the scheduler.            *)
(*                                                                          *)
(* Last, what a slot reads, what its cache holds, when its generation ends, *)
(* and that the scheduler implements DecodeService.  RowInv follows one     *)
(* forward from sched_forward through the passes of model_batch_decode, the *)
(* host staging rows and the copy home to the slot that samples from it.    *)
(* On a device the row depends on the width: one staged pass, and at most   *)
(* one sequence left for a second one (Narrow).  LateInv follows a          *)
(* deadline; it needs nothing of RowInv.                                    *)
(***************************************************************************)
EXTENDS Scheduler, TurnstileProofs

CtlType ==
  /\ phase \in {"serving", "draining", "down"} /\ stop \in BOOLEAN
  /\ n_wait \in Int /\ n_active \in Int
  /\ state \in [Slots -> {"OFF", "WAIT", "INFLIGHT", "READY"}]
  /\ wpc \in WorkerPc
  /\ batch \subseteq Slots
  /\ pc \in [Slots -> SlotPc]
  /\ cont \in [Slots -> {"none", "rewind", "prefill", "solo", "embed"}]
  /\ \A i \in Slots : pc[i] \in {"take", "turn"} => cont[i] # "none"

StopIsLast == stop => \A i \in Slots : pc[i] = "exit"

Ctl == CtlType /\ QueueConsistent /\ NoLostWakeup /\ StopIsLast

ctlVars == <<phase, stop, n_wait, n_active, state, wpc, batch, pc, cont>>

-----------------------------------------------------------------------------
(* Counting.                                                               *)

\* There are NSlots slots, and every set of slots is finite and no larger.
LEMMA SlotsCount ==
  /\ IsFiniteSet(Slots) /\ Cardinality(Slots) = NSlots
  /\ \A T \in SUBSET Slots : IsFiniteSet(T) /\ Cardinality(T) \in 0 .. NSlots
<1>1. NSlots \in Nat /\ NSlots >= 2
  BY SchedulerAssumption
<1>2. IsFiniteSet(0 .. NSlots - 1) /\ Cardinality(0 .. NSlots - 1) = NSlots
  BY <1>1, FS_Interval
<1>3. ASSUME NEW T \in SUBSET Slots
      PROVE  IsFiniteSet(T) /\ Cardinality(T) \in 0 .. NSlots
  <2>1. IsFiniteSet(T) /\ Cardinality(T) <= NSlots
    BY <1>2, FS_Subset DEF Slots
  <2>2. Cardinality(T) \in Nat
    BY <2>1, FS_CardinalityType
  <2> QED BY <1>1, <2>1, <2>2
<1> QED BY <1>2, <1>3 DEF Slots

\* Joining a set of slots adds one to its size, leaving it takes one away.
LEMMA SlotsAddRemove ==
  ASSUME NEW T \in SUBSET Slots, NEW i \in Slots
  PROVE  /\ i \notin T => Cardinality(T \cup {i}) = Cardinality(T) + 1
         /\ i \in T => Cardinality(T \ {i}) = Cardinality(T) - 1
BY SlotsCount, FS_AddElement, FS_RemoveElement

\* A context is at most the longest one.
LEMMA ContextFits == n_ctx \in Int /\ n_ctx <= MaxCtx
BY SchedulerAssumption DEF n_ctx

\* The members that sched_forward, the drop and the cut count.
LEMMA CountTypes ==
  /\ Cardinality(Waiting) \in 0 .. NSlots /\ Cardinality(InLoop) \in 0 .. NSlots
  /\ Cardinality(Waiting) = 0 <=> Waiting = {}
<1>1. Waiting \in SUBSET Slots /\ InLoop \in SUBSET Slots
  BY DEF Waiting, InLoop
<1> QED BY <1>1, SlotsCount, FS_EmptySet

-----------------------------------------------------------------------------
(* The invariant holds initially and every step preserves it.              *)

LEMMA InitCtl == Init => Ctl
<1> SUFFICES ASSUME Init PROVE Ctl
  OBVIOUS
<1>1. Waiting = {} /\ InLoop = {}
  BY DEF Init, Waiting, InLoop
<1>2. Cardinality({}) = 0
  BY FS_EmptySet
<1>3. CtlType
  <2>1. state \in [Slots -> {"OFF", "WAIT", "INFLIGHT", "READY"}]
    BY DEF Init
  <2>2. pc \in [Slots -> SlotPc]
    BY DEF Init, SlotPc
  <2>3. cont \in [Slots -> {"none", "rewind", "prefill", "solo", "embed"}]
    BY DEF Init
  <2>4. ASSUME NEW i \in Slots PROVE pc[i] \notin {"take", "turn"}
    BY DEF Init
  <2>5. phase \in {"serving", "draining", "down"} /\ stop \in BOOLEAN
    BY DEF Init
  <2>6. n_wait \in Int /\ n_active \in Int /\ batch \subseteq Slots
    BY DEF Init
  <2>7. wpc \in WorkerPc
    BY DEF Init, WorkerPc
  <2> QED BY <2>1, <2>2, <2>3, <2>4, <2>5, <2>6, <2>7 DEF CtlType
<1>4. QueueConsistent
  BY <1>1, <1>2 DEF Init, QueueConsistent
<1>5. NoLostWakeup /\ StopIsLast
  BY DEF Init, NoLostWakeup, StopIsLast
<1> QED BY <1>3, <1>4, <1>5 DEF Ctl

\* What leaves the control state alone keeps the invariant.
LEMMA CtlStutter == ASSUME Ctl, UNCHANGED ctlVars PROVE Ctl'
<1>1. CtlType'
  BY DEF Ctl, CtlType, ctlVars
<1>2. Waiting' = Waiting /\ InLoop' = InLoop
  BY DEF Waiting, InLoop, ctlVars
<1>3. QueueConsistent'
  BY <1>2 DEF Ctl, QueueConsistent, ctlVars
<1>4. NoLostWakeup' /\ StopIsLast'
  BY <1>2 DEF Ctl, NoLostWakeup, StopIsLast, ctlVars
<1> QED BY <1>1, <1>3, <1>4 DEF Ctl

\* A slot that moves between two places outside sched_forward and outside the
\* loop of sched_generate leaves every count as it is.
LEMMA CtlMove ==
  ASSUME Ctl, ~stop,
         NEW i \in Slots, NEW p \in SlotPc \ {"step", "await", "end"},
         pc[i] \notin {"step", "await", "end"},
         pc' = [pc EXCEPT ![i] = p],
         cont' \in [Slots -> {"none", "rewind", "prefill", "solo", "embed"}],
         \A j \in Slots \ {i} : cont'[j] = cont[j],
         p \in {"take", "turn"} => cont'[i] # "none",
         UNCHANGED <<phase, stop, n_wait, n_active, state, wpc, batch>>
  PROVE  Ctl'
<1>1. CtlType'
  BY DEF Ctl, CtlType
<1>2. Waiting' = Waiting
  BY DEF Waiting
<1>3. InLoop' = InLoop
  BY DEF Ctl, CtlType, InLoop
<1>4. QueueConsistent'
  BY <1>2, <1>3 DEF Ctl, CtlType, QueueConsistent
<1>5. NoLostWakeup' /\ StopIsLast'
  BY <1>2 DEF Ctl, NoLostWakeup, StopIsLast
<1> QED BY <1>1, <1>4, <1>5 DEF Ctl

\* The worker moves on, or off to sleep when it may.
LEMMA CtlWorkerMove ==
  ASSUME Ctl, wpc' \in WorkerPc,
         batch # {} => wpc' \in {"take", "turn", "decode", "give", "post"},
         wpc' = "asleep" => Waiting = {} /\ ~stop,
         UNCHANGED <<phase, stop, n_wait, n_active, state, batch, pc, cont>>
  PROVE  Ctl'
<1>1. CtlType'
  BY DEF Ctl, CtlType
<1>2. Waiting' = Waiting /\ InLoop' = InLoop
  BY DEF Waiting, InLoop
<1>3. QueueConsistent'
  BY <1>2 DEF Ctl, QueueConsistent
<1>4. NoLostWakeup' /\ StopIsLast'
  BY <1>2 DEF Ctl, NoLostWakeup, StopIsLast
<1> QED BY <1>1, <1>3, <1>4 DEF Ctl

\* A cut takes every waiting sequence in flight.
LEMMA CtlCut ==
  ASSUME Ctl, wpc \in {"look", "gather", "regather"}, Cut,
         UNCHANGED <<phase, stop, pc, cont>>
  PROVE  Ctl'
<1>1. batch = {}
  BY DEF Ctl, QueueConsistent
<1>2. CtlType'
  <2>1. n_wait' \in Int
    BY CountTypes DEF Ctl, CtlType, Cut
  <2>2. batch' \subseteq Slots
    BY DEF Cut, Waiting
  <2>3. wpc' \in WorkerPc
    BY DEF Cut, WorkerPc
  <2>4. state' \in [Slots -> {"OFF", "WAIT", "INFLIGHT", "READY"}]
    BY DEF Ctl, CtlType, Cut
  <2> QED BY <2>1, <2>2, <2>3, <2>4 DEF Ctl, CtlType, Cut
<1>3. \A i \in Slots : state'[i] = IF i \in Waiting THEN "INFLIGHT" ELSE state[i]
  BY DEF Cut
<1>4. Waiting' = {} /\ InLoop' = InLoop
  BY <1>3 DEF Waiting, InLoop
<1>5. n_wait' = 0
  BY CountTypes DEF Ctl, QueueConsistent, Cut
<1>6. n_active' = Cardinality(InLoop')
  BY <1>4 DEF Ctl, QueueConsistent, Cut
<1>7. ASSUME NEW i \in Slots
      PROVE  /\ state'[i] # "OFF" <=> pc'[i] = "await"
             /\ state'[i] = "INFLIGHT" <=> i \in batch'
  BY <1>1, <1>3 DEF Ctl, QueueConsistent, Cut, Waiting
<1>8. batch' # {} => wpc' \in {"take", "turn", "decode", "give", "post"}
  BY DEF Cut
<1>9. QueueConsistent'
  BY <1>4, <1>5, <1>6, <1>7, <1>8, FS_EmptySet DEF QueueConsistent
<1>10. NoLostWakeup' /\ StopIsLast'
  BY DEF Ctl, NoLostWakeup, StopIsLast, Cut
<1> QED BY <1>2, <1>9, <1>10 DEF Ctl

\* The decode worker: a turn of its first wait, a gather, a pass, a post.
LEMMA CtlWorkerStep == ASSUME Ctl, WorkerStep PROVE Ctl'
<1>1. CASE WorkerLook
  <2>1. CASE stop /\ wpc' = "exit" /\ UNCHANGED <<seqVars, workVars>>
    BY <1>1, <2>1, CtlWorkerMove
       DEF WorkerLook, Ctl, QueueConsistent, WorkerPc, serverVars, seqVars, workVars,
           slotVars
  <2>2. CASE ~stop /\ n_wait = 0 /\ wpc' = "asleep" /\ UNCHANGED <<seqVars, workVars>>
    <3>1. Waiting = {} /\ batch = {}
      BY <1>1, <2>2, CountTypes DEF WorkerLook, Ctl, QueueConsistent
    <3> QED BY <1>1, <2>2, <3>1, CtlWorkerMove
            DEF WorkerLook, WorkerPc, serverVars, seqVars, workVars, slotVars
  <2>3. CASE Cut
    BY <1>1, <2>3, CtlCut DEF WorkerLook, serverVars, slotVars
  <2>4. CASE wpc' = "gather" /\ UNCHANGED <<seqVars, workVars>>
    BY <1>1, <2>4, CtlWorkerMove
       DEF WorkerLook, Ctl, QueueConsistent, WorkerPc, serverVars, seqVars, workVars,
           slotVars
  <2> QED BY <1>1, <2>1, <2>2, <2>3, <2>4 DEF WorkerLook, GatherOrCut
<1>2. CASE WorkerRelook
  <2>1. CASE Cut
    BY <1>2, <2>1, CtlCut DEF WorkerRelook, serverVars, slotVars
  <2>2. CASE wpc' = "gather" /\ UNCHANGED <<seqVars, workVars>>
    BY <1>2, <2>2, CtlWorkerMove
       DEF WorkerRelook, Ctl, QueueConsistent, WorkerPc, serverVars, seqVars,
           workVars, slotVars
  <2> QED BY <1>2, <2>1, <2>2 DEF WorkerRelook, GatherOrCut
<1>3. CASE GatherTimeout
  BY <1>3, CtlCut DEF GatherTimeout, serverVars, slotVars
<1>4. CASE WorkerTake \/ WorkerAdmitted
  BY <1>4, CtlWorkerMove
     DEF WorkerTake, WorkerAdmitted, WorkerPc, serverVars, seqVars, workVars, slotVars
<1>5. CASE DecodePass
  <2>1. wpc' \in {"decode", "give"}
    BY <1>5 DEF DecodePass, PassOnDevice, PassSequential, PassFails
  <2> QED BY <1>5, <2>1, CtlWorkerMove
          DEF DecodePass, WorkerPc, serverVars, seqVars
<1>6. CASE CopyHome \/ WorkerGive
  BY <1>6, CtlWorkerMove
     DEF CopyHome, WorkerGive, WorkerPc, serverVars, seqVars, workVars, slotVars
<1>7. CASE WorkerPost
  <2>1. \A i \in Slots : state'[i] = IF i \in batch THEN "READY" ELSE state[i]
    BY <1>7 DEF WorkerPost
  <2>2. UNCHANGED <<phase, stop, n_wait, n_active, pc, cont>> /\ batch' = {}
          /\ wpc' = "look"
    BY <1>7 DEF WorkerPost, serverVars, slotVars
  <2>3. state' \in [Slots -> {"OFF", "WAIT", "INFLIGHT", "READY"}]
    BY <1>7 DEF Ctl, CtlType, WorkerPost
  <2>4. CtlType'
    BY <2>2, <2>3 DEF Ctl, CtlType, WorkerPc
  <2>5. \A i \in batch : state[i] = "INFLIGHT"
    BY DEF Ctl, CtlType, QueueConsistent
  <2>6. Waiting' = Waiting /\ InLoop' = InLoop
    BY <2>1, <2>2, <2>5 DEF Waiting, InLoop
  <2>7. QueueConsistent'
    BY <2>1, <2>2, <2>5, <2>6 DEF Ctl, QueueConsistent
  <2>8. NoLostWakeup' /\ StopIsLast'
    BY <2>2 DEF Ctl, NoLostWakeup, StopIsLast
  <2> QED BY <2>4, <2>7, <2>8 DEF Ctl
<1> QED BY <1>1, <1>2, <1>3, <1>4, <1>5, <1>6, <1>7 DEF WorkerStep

-----------------------------------------------------------------------------
(* The slot threads.                                                       *)

\* A signalled worker is not asleep, and one that holds a batch is not disturbed.
LEMMA SignalWakes ==
  ASSUME Ctl, SignalWorker
  PROVE  /\ wpc' \in WorkerPc \ {"asleep"}
         /\ batch # {} => wpc' \in {"take", "turn", "decode", "give", "post"}
BY DEF Ctl, CtlType, QueueConsistent, SignalWorker, WorkerPc

\* A slot that has not left keeps the scheduler running.
LEMMA NotStopped ==
  ASSUME Ctl, NEW i \in Slots, pc[i] # "exit"
  PROVE  ~stop
BY DEF Ctl, StopIsLast

\* Taking, awaiting and giving back the turn, prefill, solo work, embeddings.
LEMMA CtlSlotOutside ==
  ASSUME Ctl, NEW i \in Slots,
         \/ Arrive(i) \/ SlotTake(i) \/ SlotAdmitted(i) \/ Rewind(i)
         \/ PrefillOverflow(i) \/ PrefillChunk(i) \/ SoloEnd(i) \/ Embed(i)
         \/ SlotExit(i)
  PROVE  Ctl'
<1> USE DEF SlotPc
<1> DEFINE Targets == {"none", "rewind", "prefill", "solo", "embed"}
<1>0. /\ pc \in [Slots -> SlotPc] /\ cont \in [Slots -> Targets]
      /\ pc[i] \in {"take", "turn"} => cont[i] # "none"
  BY DEF Ctl, CtlType
<1>1. pc[i] \notin {"step", "await", "end", "exit"}
  BY DEF Arrive, SlotTake, SlotAdmitted, Rewind, PrefillOverflow, PrefillChunk,
         SoloEnd, Embed, SlotExit
<1>2. ~stop
  BY <1>1, NotStopped
<1>3. UNCHANGED <<phase, stop, n_wait, n_active, state, wpc, batch>>
  BY DEF Arrive, SlotTake, SlotAdmitted, Rewind, PrefillOverflow, PrefillChunk,
         SoloEnd, Embed, SlotExit, serverVars, seqVars, workerVars, workVars
<1>4. \E p \in SlotPc \ {"step", "await", "end"} :
        /\ pc' = [pc EXCEPT ![i] = p]
        /\ cont' \in [Slots -> Targets]
        /\ \A j \in Slots \ {i} : cont'[j] = cont[j]
        /\ p \in {"take", "turn"} => cont'[i] # "none"
  <2> DEFINE Goal(p) == /\ pc' = [pc EXCEPT ![i] = p]
                        /\ cont' \in [Slots -> Targets]
                        /\ \A j \in Slots \ {i} : cont'[j] = cont[j]
                        /\ p \in {"take", "turn"} => cont'[i] # "none"
  <2>1. ASSUME NEW place \in Targets \ {"none"}, EnterTurn(i, place)
        PROVE  Goal("take") \/ Goal(place)
    BY <1>0, <2>1 DEF EnterTurn
  <2>2. ASSUME Answered(i), UNCHANGED cont PROVE Goal("idle")
    BY <1>0, <2>2 DEF Answered
  <2>3. CASE Arrive(i)
    BY <2>1, <2>3 DEF Arrive
  <2>4. CASE SlotTake(i)
    <3>1. Goal("turn")
      BY <1>0, <2>4 DEF SlotTake
    <3> QED BY <3>1
  <2>5. CASE SlotAdmitted(i)
    <3>1. Goal(cont[i])
      BY <1>0, <2>5 DEF SlotAdmitted
    <3>2. cont[i] \in SlotPc \ {"step", "await", "end"}
      BY <1>0, <2>5 DEF SlotAdmitted
    <3> QED BY <3>1, <3>2
  <2>6. CASE Rewind(i)
    <3>1. Goal("prefill")
      BY <1>0, <2>6 DEF Rewind, slotVars
    <3> QED BY <3>1
  <2>7. CASE PrefillOverflow(i) \/ SoloEnd(i) \/ Embed(i)
    <3>1. Goal("idle")
      BY <2>2, <2>7 DEF PrefillOverflow, SoloEnd, Embed
    <3> QED BY <3>1
  <2>8. CASE PrefillChunk(i)
    <3>1. CASE pc' = [pc EXCEPT ![i] = "begin"] /\ UNCHANGED cont
      <4>1. Goal("begin")
        BY <1>0, <3>1
      <4> QED BY <4>1
    <3>2. CASE Answered(i) /\ UNCHANGED cont
      <4>1. Goal("idle")
        BY <2>2, <3>2
      <4> QED BY <4>1
    <3>3. CASE EnterTurn(i, "solo") \/ EnterTurn(i, "prefill")
      BY <2>1, <3>3
    <3> QED BY <2>8, <3>1, <3>2, <3>3 DEF PrefillChunk
  <2>9. CASE SlotExit(i)
    <3>1. Goal("exit")
      BY <1>0, <2>9 DEF SlotExit
    <3> QED BY <3>1
  <2> QED BY <2>3, <2>4, <2>5, <2>6, <2>7, <2>8, <2>9
<1> QED BY <1>1, <1>2, <1>3, <1>4, CtlMove

\* sched_generate enters its loop.
LEMMA CtlBegin == ASSUME Ctl, NEW i \in Slots, Begin(i) PROVE Ctl'
<1>1. /\ pc[i] = "begin" /\ pc' = [pc EXCEPT ![i] = "step"]
      /\ n_active' = n_active + 1
      /\ UNCHANGED <<phase, stop, n_wait, state, wpc, batch, cont>>
  BY DEF Begin, serverVars, workerVars, workVars
<1>2. CtlType'
  BY <1>1 DEF Ctl, CtlType, SlotPc
<1>3. Waiting' = Waiting
  BY <1>1 DEF Waiting
<1>4. i \notin InLoop /\ InLoop' = InLoop \cup {i}
  BY <1>1 DEF Ctl, CtlType, InLoop
<1>5. n_active' = Cardinality(InLoop')
  <2>1. InLoop \in SUBSET Slots
    BY DEF InLoop
  <2> QED BY <1>1, <1>4, <2>1, SlotsAddRemove DEF Ctl, QueueConsistent
<1>6. QueueConsistent'
  BY <1>1, <1>3, <1>5 DEF Ctl, CtlType, QueueConsistent
<1>7. NoLostWakeup' /\ StopIsLast'
  BY <1>1, <1>3 DEF Ctl, NoLostWakeup, StopIsLast
<1> QED BY <1>2, <1>6, <1>7 DEF Ctl

\* A step of the loop that asks for no forward.
LEMMA CtlStepEnds ==
  ASSUME Ctl, NEW i \in Slots, StepDone(i) \/ StepAbandoned(i) PROVE Ctl'
<1>1. /\ pc[i] = "step" /\ pc' = [pc EXCEPT ![i] = "end"]
      /\ UNCHANGED <<phase, stop, n_wait, n_active, state, wpc, batch, cont>>
  BY DEF StepDone, StepAbandoned, serverVars, seqVars, workerVars, workVars
<1>2. CtlType'
  BY <1>1 DEF Ctl, CtlType, SlotPc
<1>3. Waiting' = Waiting /\ InLoop' = InLoop
  BY <1>1 DEF Ctl, CtlType, Waiting, InLoop
<1>4. QueueConsistent'
  BY <1>1, <1>3 DEF Ctl, CtlType, QueueConsistent
<1>5. NoLostWakeup' /\ StopIsLast'
  BY <1>1, <1>3 DEF Ctl, NoLostWakeup, StopIsLast
<1> QED BY <1>2, <1>4, <1>5 DEF Ctl

\* sched_forward queues the sequence and signals the worker.
LEMMA CtlStepForward == ASSUME Ctl, NEW i \in Slots, StepForward(i) PROVE Ctl'
<1>1. /\ pc[i] = "step" /\ pc' = [pc EXCEPT ![i] = "await"]
      /\ state' = [state EXCEPT ![i] = "WAIT"] /\ n_wait' = n_wait + 1
      /\ SignalWorker
      /\ UNCHANGED <<phase, stop, n_active, batch, cont>>
  BY DEF StepForward, serverVars, workVars
<1>2. wpc' \in WorkerPc \ {"asleep"}
      /\ (batch' # {} => wpc' \in {"take", "turn", "decode", "give", "post"})
  BY <1>1, SignalWakes
<1>3. CtlType'
  BY <1>1, <1>2 DEF Ctl, CtlType, SlotPc
<1>4. state[i] = "OFF"
  BY <1>1 DEF Ctl, QueueConsistent
<1>5. /\ i \notin Waiting /\ Waiting' = Waiting \cup {i}
      /\ InLoop' = InLoop
  BY <1>1, <1>4 DEF Ctl, CtlType, Waiting, InLoop
<1>6. n_wait' = Cardinality(Waiting')
  <2>1. Waiting \in SUBSET Slots
    BY DEF Waiting
  <2> QED BY <1>1, <1>5, <2>1, SlotsAddRemove DEF Ctl, QueueConsistent
<1>7. ASSUME NEW j \in Slots
      PROVE  /\ state'[j] # "OFF" <=> pc'[j] = "await"
             /\ state'[j] = "INFLIGHT" <=> j \in batch'
  BY <1>1, <1>4 DEF Ctl, CtlType, QueueConsistent
<1>8. QueueConsistent'
  BY <1>1, <1>2, <1>5, <1>6, <1>7 DEF Ctl, QueueConsistent
<1>9. NoLostWakeup' /\ StopIsLast'
  BY <1>1, <1>2 DEF Ctl, NoLostWakeup, StopIsLast
<1> QED BY <1>3, <1>8, <1>9 DEF Ctl

\* An expired forward leaves the queue.
LEMMA CtlDropExpired == ASSUME Ctl, NEW i \in Slots, DropExpired(i) PROVE Ctl'
<1>1. /\ pc[i] = "await" /\ state[i] = "WAIT" /\ pc' = [pc EXCEPT ![i] = "end"]
      /\ state' = [state EXCEPT ![i] = "OFF"] /\ n_wait' = n_wait - 1
      /\ UNCHANGED <<phase, stop, n_active, wpc, batch, cont>>
  BY DEF DropExpired, CanDrop, serverVars, workerVars, workVars
<1>2. CtlType'
  BY <1>1 DEF Ctl, CtlType, SlotPc
<1>3. /\ i \in Waiting /\ Waiting' = Waiting \ {i}
      /\ InLoop' = InLoop
  BY <1>1 DEF Ctl, CtlType, Waiting, InLoop
<1>4. n_wait' = Cardinality(Waiting')
  <2>1. Waiting \in SUBSET Slots
    BY DEF Waiting
  <2> QED BY <1>1, <1>3, <2>1, SlotsAddRemove DEF Ctl, QueueConsistent
<1>5. QueueConsistent'
  BY <1>1, <1>3, <1>4 DEF Ctl, CtlType, QueueConsistent
<1>6. NoLostWakeup' /\ StopIsLast'
  BY <1>1, <1>3 DEF Ctl, NoLostWakeup, StopIsLast
<1> QED BY <1>2, <1>5, <1>6 DEF Ctl

\* sched_forward returns.  It cannot be the stop that ends the wait: the slot
\* thread has not left, so the sequence is READY and in no batch.
LEMMA CtlForwardReturns == ASSUME Ctl, NEW i \in Slots, ForwardReturns(i) PROVE Ctl'
<1>1. ~stop
  BY NotStopped DEF ForwardReturns
<1>2. /\ pc[i] = "await" /\ state[i] = "READY"
      /\ state' = [state EXCEPT ![i] = "OFF"]
      /\ UNCHANGED <<phase, stop, n_wait, n_active, wpc, batch, cont>>
  BY <1>1 DEF ForwardReturns, serverVars, workerVars, workVars
<1>3. \E p \in {"step", "end"} : pc' = [pc EXCEPT ![i] = p]
  BY DEF ForwardReturns
<1>4. CtlType'
  BY <1>2, <1>3 DEF Ctl, CtlType, SlotPc
<1>5. Waiting' = Waiting /\ InLoop' = InLoop
  BY <1>2, <1>3 DEF Ctl, CtlType, Waiting, InLoop
<1>6. QueueConsistent'
  BY <1>2, <1>3, <1>5 DEF Ctl, CtlType, QueueConsistent
<1>7. NoLostWakeup' /\ StopIsLast'
  BY <1>1, <1>2, <1>5 DEF Ctl, NoLostWakeup, StopIsLast
<1> QED BY <1>4, <1>6, <1>7 DEF Ctl

\* sched_generate leaves its loop and signals the worker.
LEMMA CtlEnd == ASSUME Ctl, NEW i \in Slots, End(i) PROVE Ctl'
<1>1. /\ pc[i] = "end" /\ pc' = [pc EXCEPT ![i] = "idle"]
      /\ n_active' = n_active - 1 /\ SignalWorker
      /\ UNCHANGED <<phase, stop, n_wait, state, batch, cont>>
  BY DEF End, Answered, serverVars, workVars
<1>2. wpc' \in WorkerPc \ {"asleep"}
      /\ (batch' # {} => wpc' \in {"take", "turn", "decode", "give", "post"})
  BY <1>1, SignalWakes
<1>3. CtlType'
  BY <1>1, <1>2 DEF Ctl, CtlType, SlotPc
<1>4. /\ i \in InLoop /\ InLoop' = InLoop \ {i}
      /\ Waiting' = Waiting
  BY <1>1 DEF Ctl, CtlType, Waiting, InLoop
<1>5. n_active' = Cardinality(InLoop')
  <2>1. InLoop \in SUBSET Slots
    BY DEF InLoop
  <2> QED BY <1>1, <1>4, <2>1, SlotsAddRemove DEF Ctl, QueueConsistent
<1>6. QueueConsistent'
  BY <1>1, <1>2, <1>4, <1>5 DEF Ctl, CtlType, QueueConsistent
<1>7. NoLostWakeup' /\ StopIsLast'
  BY <1>1, <1>2 DEF Ctl, NoLostWakeup, StopIsLast
<1> QED BY <1>3, <1>6, <1>7 DEF Ctl

LEMMA CtlSlotStep == ASSUME Ctl, NEW i \in Slots, SlotStep(i) PROVE Ctl'
<1>1. CASE \/ SlotTake(i) \/ SlotAdmitted(i) \/ Rewind(i) \/ PrefillOverflow(i)
           \/ PrefillChunk(i) \/ SoloEnd(i) \/ Embed(i) \/ SlotExit(i)
  BY <1>1, CtlSlotOutside
<1>2. CASE Begin(i)
  BY <1>2, CtlBegin
<1>3. CASE StepDone(i) \/ StepAbandoned(i)
  BY <1>3, CtlStepEnds
<1>4. CASE StepForward(i)
  BY <1>4, CtlStepForward
<1>5. CASE DropExpired(i)
  BY <1>5, CtlDropExpired
<1>6. CASE ForwardReturns(i)
  BY <1>6, CtlForwardReturns
<1>7. CASE End(i)
  BY <1>7, CtlEnd
<1>8. CASE SoloForward(i)
  BY <1>8, CtlStutter
     DEF SoloForward, ctlVars, serverVars, seqVars, workerVars, workVars
<1> QED BY <1>1, <1>2, <1>3, <1>4, <1>5, <1>6, <1>7, <1>8 DEF SlotStep

\* The stop request, sched_shutdown, the clients and the clock.
LEMMA CtlOthers == ASSUME Ctl, MainStep \/ Environment \/ Ended PROVE Ctl'
<1>1. CASE SchedStop
  <2>1. /\ \A i \in Slots : pc[i] = "exit"
        /\ stop' = TRUE /\ SignalWorker
        /\ UNCHANGED <<phase, n_wait, n_active, state, batch, pc, cont>>
    BY <1>1 DEF SchedStop, seqVars, workVars, slotVars
  <2>2. wpc' \in WorkerPc \ {"asleep"}
        /\ (batch' # {} => wpc' \in {"take", "turn", "decode", "give", "post"})
    BY <2>1, SignalWakes
  <2>3. Waiting' = Waiting /\ InLoop' = InLoop
    BY <2>1 DEF Waiting, InLoop
  <2>4. stop' \in BOOLEAN
    BY <2>1
  <2>5. CtlType'
    BY <2>1, <2>2, <2>4 DEF Ctl, CtlType
  <2>6. QueueConsistent'
    BY <2>1, <2>2, <2>3 DEF Ctl, QueueConsistent
  <2>7. NoLostWakeup' /\ StopIsLast'
    BY <2>1, <2>2 DEF NoLostWakeup, StopIsLast
  <2> QED BY <2>5, <2>6, <2>7 DEF Ctl
<1>2. CASE SchedFree \/ RequestStop
  <2>1. /\ phase' \in {"draining", "down"}
        /\ UNCHANGED <<stop, n_wait, n_active, state, wpc, batch, pc, cont>>
    BY <1>2 DEF SchedFree, RequestStop, seqVars, workerVars, workVars, slotVars
  <2>2. CtlType'
    BY <2>1 DEF Ctl, CtlType
  <2>3. Waiting' = Waiting /\ InLoop' = InLoop
    BY <2>1 DEF Waiting, InLoop
  <2>4. QueueConsistent'
    BY <2>1, <2>3 DEF Ctl, QueueConsistent
  <2>5. NoLostWakeup' /\ StopIsLast'
    BY <2>1, <2>3 DEF Ctl, NoLostWakeup, StopIsLast
  <2> QED BY <2>2, <2>4, <2>5 DEF Ctl
<1>3. ASSUME NEW i \in Slots, Arrive(i) PROVE Ctl'
  BY <1>3, CtlSlotOutside
<1>4. ASSUME NEW i \in Slots, Expire(i) \/ HangUp(i) PROVE Ctl'
  BY <1>4, CtlStutter
     DEF Expire, HangUp, ctlVars, serverVars, seqVars, workerVars, workVars
<1>5. CASE SpuriousWake
  BY <1>5, SignalWakes, CtlWorkerMove
     DEF SpuriousWake, serverVars, seqVars, workVars, slotVars
<1>6. CASE Ended
  BY <1>6, CtlStutter
     DEF Ended, vars, ctlVars, serverVars, seqVars, workerVars, workVars, slotVars
<1> QED BY <1>1, <1>2, <1>3, <1>4, <1>5, <1>6 DEF MainStep, Environment

LEMMA NextCtl == Ctl /\ [Next]_vars => Ctl'
<1> SUFFICES ASSUME Ctl, [Next]_vars PROVE Ctl'
  OBVIOUS
<1>1. CASE WorkerStep
  BY <1>1, CtlWorkerStep
<1>2. ASSUME NEW i \in Slots, SlotStep(i) PROVE Ctl'
  BY <1>2, CtlSlotStep
<1>3. CASE MainStep \/ Environment \/ Ended
  BY <1>3, CtlOthers
<1>4. CASE UNCHANGED vars
  BY <1>4, CtlStutter
     DEF vars, ctlVars, serverVars, seqVars, workerVars, workVars, slotVars
<1> QED BY <1>1, <1>2, <1>3, <1>4 DEF Next

-----------------------------------------------------------------------------
(* Theorems.                                                               *)

\* The inductive invariant (decode_worker, sched_forward, sched_generate and
\* sched_shutdown together).
THEOREM ControlInvariant == Spec => []Ctl
<1> QED BY InitCtl, NextCtl, PTL DEF Spec

\* However the signals fall, the worker never sleeps while a sequence waits or
\* the scheduler is asked to stop.
THEOREM WorkerIsWoken == Spec => []NoLostWakeup
<1>1. Ctl => NoLostWakeup
  BY DEF Ctl
<1> QED BY <1>1, ControlInvariant, PTL

\* n_wait, n_active and the batch always agree with the sequences.
THEOREM CountersAgree == Spec => []QueueConsistent
<1>1. Ctl => QueueConsistent
  BY DEF Ctl
<1> QED BY <1>1, ControlInvariant, PTL

\* No slot leaves sched_forward while its sequence is in the worker's batch.
THEOREM BatchIsNotAbandoned == Spec => []ModelHasOneUser
<1>1. Ctl => ModelHasOneUser
  <2> SUFFICES ASSUME Ctl, NEW i \in batch
               PROVE  pc[i] = "await" /\ state[i] = "INFLIGHT"
    BY DEF ModelHasOneUser
  <2>1. i \in Slots
    BY DEF Ctl, CtlType
  <2> QED BY <2>1 DEF Ctl, QueueConsistent
<1> QED BY <1>1, ControlInvariant, PTL

-----------------------------------------------------------------------------
(* The gather.                                                             *)

\* The worker waits for more only below what it wants.
GatherBelow == wpc = "gather" => n_wait < Want

\* A step keeps that when it leaves the worker gathering with no more waiting and
\* no fewer active sequences, or when the worker has just looked.
LEMMA GatherKept ==
  ASSUME Ctl, GatherBelow, n_wait' \in Int, n_active' \in Int,
         wpc' = "gather" => \/ wpc = "gather" /\ n_wait' <= n_wait /\ n_active' >= n_active
                            \/ n_wait' < Want /\ n_active' = n_active
  PROVE  GatherBelow'
BY SchedulerAssumption DEF GatherBelow, Want, Ctl, CtlType

LEMMA GatherStep == ASSUME Ctl, Ctl', GatherBelow, [Next]_vars PROVE GatherBelow'
<1>0. /\ n_wait \in Int /\ n_active \in Int /\ n_wait' \in Int /\ n_active' \in Int
      /\ wpc \in WorkerPc
  BY DEF Ctl, CtlType
<1>1. ASSUME UNCHANGED <<n_wait, n_active>>, wpc' = "gather" => wpc = "gather"
      PROVE  GatherBelow'
  BY <1>0, <1>1, GatherKept
<1>2. ASSUME GatherOrCut PROVE GatherBelow'
  <2>1. CASE Cut
    BY <2>1 DEF Cut, GatherBelow
  <2>2. CASE ~(n_wait >= Want) /\ UNCHANGED <<n_wait, n_active>>
    <3>1. n_wait < Want
      BY <1>0, <2>2, SchedulerAssumption DEF Want
    <3> QED BY <1>0, <2>2, <3>1, GatherKept
  <2> QED BY <1>2, <2>1, <2>2 DEF GatherOrCut, seqVars
<1>3. ASSUME SignalWorker PROVE GatherBelow'
  BY <1>0, <1>3 DEF SignalWorker, GatherBelow
<1>4. CASE WorkerStep
  <2>1. CASE WorkerLook
    BY <1>2, <2>1 DEF WorkerLook, GatherBelow
  <2>2. CASE WorkerRelook
    BY <1>2, <2>2 DEF WorkerRelook
  <2>3. CASE GatherTimeout
    BY <2>3 DEF GatherTimeout, Cut, GatherBelow
  <2>4. CASE DecodePass
    BY <2>4 DEF DecodePass, PassOnDevice, PassSequential, PassFails, GatherBelow
  <2>5. CASE WorkerTake \/ WorkerAdmitted \/ CopyHome \/ WorkerGive \/ WorkerPost
    BY <2>5 DEF WorkerTake, WorkerAdmitted, CopyHome, WorkerGive, WorkerPost, GatherBelow
  <2> QED BY <1>4, <2>1, <2>2, <2>3, <2>4, <2>5 DEF WorkerStep
<1>5. ASSUME NEW i \in Slots, SlotStep(i) \/ Arrive(i) \/ Expire(i) \/ HangUp(i)
      PROVE  GatherBelow'
  <2>1. CASE \/ SlotTake(i) \/ SlotAdmitted(i) \/ Rewind(i) \/ PrefillOverflow(i)
             \/ PrefillChunk(i) \/ StepDone(i) \/ StepAbandoned(i) \/ ForwardReturns(i)
             \/ SoloForward(i) \/ SoloEnd(i) \/ Embed(i) \/ SlotExit(i)
             \/ Arrive(i) \/ Expire(i) \/ HangUp(i)
    BY <1>1, <2>1
       DEF SlotTake, SlotAdmitted, Rewind, PrefillOverflow, PrefillChunk, StepDone,
           StepAbandoned, ForwardReturns, SoloForward, SoloEnd, Embed, SlotExit, Arrive,
           Expire, HangUp, seqVars, workerVars
  <2>2. CASE Begin(i)
    BY <1>0, <2>2, GatherKept DEF Begin, workerVars
  <2>3. CASE StepForward(i) \/ End(i)
    BY <1>3, <2>3 DEF StepForward, End
  <2>4. CASE DropExpired(i)
    BY <1>0, <2>4, GatherKept DEF DropExpired, workerVars
  <2> QED BY <1>5, <2>1, <2>2, <2>3, <2>4 DEF SlotStep
<1>6. CASE MainStep \/ RequestStop \/ SpuriousWake
  BY <1>1, <1>3, <1>6
     DEF MainStep, SchedStop, SchedFree, RequestStop, SpuriousWake, seqVars, workerVars
<1>7. CASE UNCHANGED vars
  BY <1>1, <1>7 DEF vars, seqVars, workerVars
<1> QED BY <1>4, <1>5, <1>6, <1>7 DEF Next, Environment, Ended

\* The worker holds a microbatch back only while it has room and somebody in a
\* generation loop has not asked for a forward yet.
THEOREM GatherWaitsForSomebody == Spec => []GatherIsJustified
<1>1. Init => Ctl /\ GatherBelow
  BY InitCtl DEF Init, GatherBelow
<1>2. Ctl /\ GatherBelow /\ [Next]_vars => Ctl' /\ GatherBelow'
  BY NextCtl, GatherStep
<1>3. Ctl /\ GatherBelow => GatherIsJustified
  <2> SUFFICES ASSUME Ctl, GatherBelow, wpc = "gather"
               PROVE  Cardinality(Waiting) < BatchMax /\ InLoop \ Waiting # {}
    BY DEF GatherIsJustified
  <2>1. /\ Cardinality(Waiting) < BatchMax
        /\ Cardinality(Waiting) < Cardinality(InLoop)
    BY SchedulerAssumption, CountTypes DEF GatherBelow, Want, Ctl, QueueConsistent
  <2>2. Waiting \in SUBSET Slots
    BY DEF Waiting
  <2>3. IsFiniteSet(Waiting)
    BY <2>2, SlotsCount
  <2>4. ~(InLoop \subseteq Waiting)
    <3> SUFFICES ASSUME InLoop \subseteq Waiting PROVE FALSE
      OBVIOUS
    <3>1. Cardinality(InLoop) <= Cardinality(Waiting)
      BY <2>3, FS_Subset
    <3> QED BY <2>1, <3>1, CountTypes
  <2> QED BY <2>1, <2>4
<1> QED BY <1>1, <1>2, <1>3, PTL DEF Spec

-----------------------------------------------------------------------------
(* Who holds a ticket.                                                     *)

SlotOnDevice == {"rewind", "prefill", "solo", "embed"}
WorkerOnDevice == {"decode", "give"}

TurnHeld ==
  device_turn =>
    /\ TurnInv
    /\ \A i \in Slots : /\ mine[i] # NoTicket <=> pc[i] \in SlotOnDevice \cup {"turn"}
                        /\ pc[i] \in SlotOnDevice => Served(i)
    /\ mine[Worker] # NoTicket <=> wpc \in WorkerOnDevice \cup {"turn"}
    /\ wpc \in WorkerOnDevice => Served(Worker)

LEMMA ThreadFacts ==
  /\ Threads = Slots \cup {Worker} /\ Worker \notin Slots
BY SchedulerAssumption DEF Slots, Worker

LEMMA InitTurnHeld == Init => TurnHeld
<1> SUFFICES ASSUME Init PROVE TurnHeld
  OBVIOUS
<1>1. TurnInv
  BY InitTurnInv DEF Init
<1>2. \A t \in Threads : mine[t] = NoTicket
  BY DEF Init, TurnInit
<1> QED BY <1>1, <1>2, ThreadFacts DEF Init, TurnHeld, SlotOnDevice, WorkerOnDevice

\* Nobody draws or gives, and nobody goes where a ticket is needed or out of there.
LEMMA TurnQuiet ==
  ASSUME TurnHeld, UNCHANGED <<device_turn, turnVars>>,
         device_turn =>
           /\ \A i \in Slots : pc'[i] # pc[i] =>
                \/ pc[i] \in SlotOnDevice /\ pc'[i] \in SlotOnDevice
                \/ /\ pc[i] \notin SlotOnDevice \cup {"turn"}
                   /\ pc'[i] \notin SlotOnDevice \cup {"turn"}
           /\ wpc' # wpc =>
                \/ wpc \in WorkerOnDevice /\ wpc' \in WorkerOnDevice
                \/ /\ wpc \notin WorkerOnDevice \cup {"turn"}
                   /\ wpc' \notin WorkerOnDevice \cup {"turn"}
  PROVE  TurnHeld'
<1> SUFFICES ASSUME device_turn
             PROVE  (/\ TurnInv
                     /\ \A i \in Slots :
                          /\ mine[i] # NoTicket <=> pc[i] \in SlotOnDevice \cup {"turn"}
                          /\ pc[i] \in SlotOnDevice => Served(i)
                     /\ mine[Worker] # NoTicket <=> wpc \in WorkerOnDevice \cup {"turn"}
                     /\ wpc \in WorkerOnDevice => Served(Worker))'
  BY DEF TurnHeld
<1>1. TurnInv'
  BY DEF TurnHeld, turnVars, TurnInv, TurnTypeOK, TicketsContiguous, Queued,
         Distance
<1> QED BY <1>1 DEF TurnHeld, turnVars, NoTicket, Served

\* dev_take's first section.
LEMMA TurnDrawn ==
  ASSUME TurnHeld, UNCHANGED device_turn, device_turn, NEW t \in Threads, DevDraw(t),
         \A i \in Slots : i # t => pc'[i] = pc[i],
         t \in Slots => pc'[t] = "turn",
         IF t = Worker THEN wpc' = "turn" ELSE wpc' = wpc
  PROVE  TurnHeld'
<1> USE ThreadFacts
<1>1. TurnInv
  BY DEF TurnHeld
<1>2. TurnInv'
  BY <1>1, DrawKeepsTurnInv DEF DevDraw
<1>3. /\ \A s \in Threads : s # t => mine'[s] = mine[s]
      /\ mine'[t] # NoTicket /\ dev_serving' = dev_serving
  <2>1. mine \in [Threads -> Tickets \cup {NoTicket}] /\ dev_next \in Tickets
    BY <1>1 DEF TurnInv, TurnTypeOK
  <2>2. dev_next # NoTicket
    BY <2>1, TurnstileAssumption DEF Tickets, NoTicket
  <2> QED BY <2>1, <2>2 DEF DevDraw, Draw
<1>4. \A s \in Threads : s # t => (Served(s)' <=> Served(s))
  BY <1>3 DEF Served
<1>5. ASSUME NEW i \in Slots
      PROVE  /\ mine'[i] # NoTicket <=> pc'[i] \in SlotOnDevice \cup {"turn"}
             /\ pc'[i] \in SlotOnDevice => Served(i)'
  BY <1>3, <1>4 DEF TurnHeld, SlotOnDevice
<1>6. /\ mine'[Worker] # NoTicket <=> wpc' \in WorkerOnDevice \cup {"turn"}
      /\ wpc' \in WorkerOnDevice => Served(Worker)'
  BY <1>3, <1>4 DEF TurnHeld, WorkerOnDevice
<1> QED BY <1>2, <1>5, <1>6 DEF TurnHeld, NoTicket

\* dev_give, by a thread that is on the device and leaves it.
LEMMA TurnGiven ==
  ASSUME TurnHeld, UNCHANGED device_turn, device_turn, NEW t \in Threads, DevGive(t),
         \A i \in Slots : i # t => pc'[i] = pc[i],
         t \in Slots => pc[t] \in SlotOnDevice /\ pc'[t] \notin SlotOnDevice \cup {"turn"},
         IF t = Worker THEN wpc \in WorkerOnDevice /\ wpc' \notin WorkerOnDevice \cup {"turn"}
                       ELSE wpc' = wpc
  PROVE  TurnHeld'
<1> USE ThreadFacts
<1>1. TurnInv /\ Served(t)
  BY DEF TurnHeld
<1>2. Give(t)
  BY <1>1 DEF DevGive, Give
<1>3. TurnInv'
  BY <1>1, <1>2, GiveKeepsTurnInv
<1>4. \A s \in Threads : Served(s) => s = t
  BY <1>1, ContiguousIsExclusive DEF MutualExclusion
<1>5. /\ \A s \in Threads : s # t => mine'[s] = mine[s]
      /\ mine'[t] = NoTicket
  BY <1>1 DEF DevGive, TurnInv, TurnTypeOK
<1>6. ASSUME NEW i \in Slots
      PROVE  /\ mine'[i] # NoTicket <=> pc'[i] \in SlotOnDevice \cup {"turn"}
             /\ pc'[i] \in SlotOnDevice => Served(i)'
  <2>1. CASE i = t
    BY <2>1, <1>5
  <2>2. CASE i # t
    <3>1. pc[i] \notin SlotOnDevice
      BY <2>2, <1>4 DEF TurnHeld
    <3> QED BY <2>2, <3>1, <1>5 DEF TurnHeld
  <2> QED BY <2>1, <2>2
<1>7. /\ mine'[Worker] # NoTicket <=> wpc' \in WorkerOnDevice \cup {"turn"}
      /\ wpc' \in WorkerOnDevice => Served(Worker)'
  <2>1. CASE t = Worker
    BY <2>1, <1>5
  <2>2. CASE t # Worker
    <3>1. wpc \notin WorkerOnDevice
      BY <2>2, <1>4 DEF TurnHeld
    <3> QED BY <2>2, <3>1, <1>5 DEF TurnHeld
  <2> QED BY <2>1, <2>2
<1> QED BY <1>3, <1>6, <1>7 DEF TurnHeld, NoTicket

\* The worker's steps.
LEMMA TurnWorkerStep ==
  ASSUME Ctl, TurnHeld, UNCHANGED device_turn, WorkerStep
  PROVE  TurnHeld'
<1> USE DEF WorkerOnDevice
<1>1. ASSUME UNCHANGED <<pc, turnVars>>,
             device_turn => \/ wpc \in WorkerOnDevice /\ wpc' \in WorkerOnDevice
                            \/ /\ wpc \notin WorkerOnDevice \cup {"turn"}
                               /\ wpc' \notin WorkerOnDevice \cup {"turn"}
      PROVE  TurnHeld'
  BY <1>1, TurnQuiet
<1>2. ASSUME Cut \/ wpc' = "gather", wpc \notin WorkerOnDevice \cup {"turn"},
             UNCHANGED <<pc, turnVars>>
      PROVE  TurnHeld'
  BY <1>1, <1>2 DEF Cut
<1>3. CASE WorkerLook
  BY <1>1, <1>2, <1>3 DEF WorkerLook, GatherOrCut, slotVars
<1>4. CASE WorkerRelook
  BY <1>2, <1>4 DEF WorkerRelook, GatherOrCut, slotVars
<1>5. CASE GatherTimeout
  BY <1>2, <1>5 DEF GatherTimeout, slotVars
<1>6. CASE WorkerTake
  <2>1. CASE device_turn
    <3>1. /\ wpc' = "turn" /\ pc' = pc /\ DevDraw(Worker)
          /\ Worker \in Threads
      BY <1>6, ThreadFacts DEF WorkerTake, slotVars
    <3> QED BY <2>1, <3>1, TurnDrawn, ThreadFacts
  <2>2. CASE ~device_turn
    BY <2>2 DEF TurnHeld
  <2> QED BY <2>1, <2>2
<1>7. CASE WorkerAdmitted
  <2>1. /\ wpc = "turn" /\ wpc' = "decode" /\ Served(Worker)
        /\ UNCHANGED <<pc, dev_next, dev_serving, mine>>
    BY <1>7 DEF WorkerAdmitted, slotVars, turnVars
  <2>2. TurnInv => TurnInv'
    BY <2>1 DEF TurnInv, TurnTypeOK, TicketsContiguous, Queued, Distance
  <2>3. \A t \in Threads : Served(t)' <=> Served(t)
    BY <2>1 DEF Served
  <2>4. device_turn => /\ TurnInv'
                       /\ mine'[Worker] # NoTicket <=> wpc' \in WorkerOnDevice \cup {"turn"}
                       /\ wpc' \in WorkerOnDevice => Served(Worker)'
    BY <2>1, <2>2, <2>3, ThreadFacts DEF TurnHeld
  <2>5. ASSUME device_turn, NEW i \in Slots
        PROVE  /\ mine'[i] # NoTicket <=> pc'[i] \in SlotOnDevice \cup {"turn"}
               /\ pc'[i] \in SlotOnDevice => Served(i)'
    BY <2>1, <2>3, <2>5, ThreadFacts DEF TurnHeld
  <2> QED BY <2>4, <2>5 DEF TurnHeld, NoTicket
<1>8. CASE DecodePass
  <2>1. wpc = "decode" /\ wpc' \in {"decode", "give"} /\ UNCHANGED <<pc, turnVars>>
    BY <1>8 DEF DecodePass, PassOnDevice, PassSequential, PassFails
  <2> QED BY <1>1, <2>1
<1>9. CASE CopyHome
  BY <1>1, <1>9 DEF CopyHome, slotVars
<1>10. CASE WorkerGive
  <2>1. CASE device_turn
    <3>1. /\ wpc = "give" /\ wpc' = "post" /\ pc' = pc /\ DevGive(Worker)
          /\ Worker \in Threads
      BY <1>10, ThreadFacts DEF WorkerGive, slotVars
    <3> QED BY <2>1, <3>1, TurnGiven, ThreadFacts
  <2>2. CASE ~device_turn
    BY <2>2 DEF TurnHeld
  <2> QED BY <2>1, <2>2
<1>11. CASE WorkerPost
  BY <1>1, <1>11 DEF WorkerPost, slotVars
<1> QED BY <1>3, <1>4, <1>5, <1>6, <1>7, <1>8, <1>9, <1>10, <1>11 DEF WorkerStep

\* A slot's steps.  One that leaves the device gives its ticket back, whether the
\* prompt was too long, the client has gone or the work is done.
LEMMA TurnSlotStep ==
  ASSUME Ctl, TurnHeld, UNCHANGED device_turn, NEW i \in Slots,
         SlotStep(i) \/ Arrive(i) \/ Expire(i) \/ HangUp(i)
  PROVE  TurnHeld'
<1> USE DEF SlotOnDevice
<1>0. /\ pc \in [Slots -> SlotPc] /\ cont \in [Slots -> SlotOnDevice \cup {"none"}]
      /\ wpc \in WorkerPc
      /\ i \in Threads /\ i # Worker
      /\ pc[i] \in {"take", "turn"} => cont[i] # "none"
  BY ThreadFacts DEF Ctl, CtlType
<1> SUFFICES ASSUME device_turn PROVE TurnHeld'
  BY DEF TurnHeld
<1>1. ASSUME NEW p, pc' = [pc EXCEPT ![i] = p], UNCHANGED turnVars,
             wpc' = wpc \/ SignalWorker,
             \/ p = pc[i]
             \/ pc[i] \in SlotOnDevice /\ p \in SlotOnDevice
             \/ pc[i] \notin SlotOnDevice \cup {"turn"} /\ p \notin SlotOnDevice \cup {"turn"}
      PROVE  TurnHeld'
  <2>1. \A j \in Slots : pc'[j] = IF j = i THEN p ELSE pc[j]
    BY <1>0, <1>1
  <2>2. \/ wpc' = wpc
        \/ wpc \notin WorkerOnDevice \cup {"turn"} /\ wpc' \notin WorkerOnDevice \cup {"turn"}
    BY <1>1 DEF SignalWorker, WorkerOnDevice
  <2> QED BY <1>1, <2>1, <2>2, TurnQuiet
<1>2. ASSUME NEW p, pc' = [pc EXCEPT ![i] = p], DevGive(i), wpc' = wpc,
             pc[i] \in SlotOnDevice, p \notin SlotOnDevice \cup {"turn"}
      PROVE  TurnHeld'
  <2>1. \A j \in Slots : pc'[j] = IF j = i THEN p ELSE pc[j]
    BY <1>0, <1>2
  <2> QED BY <1>0, <1>2, <2>1, TurnGiven
<1>3. CASE SlotTake(i)
  <2>1. \A j \in Slots : pc'[j] = IF j = i THEN "turn" ELSE pc[j]
    BY <1>0, <1>3 DEF SlotTake
  <2> QED BY <1>0, <1>3, <2>1, TurnDrawn DEF SlotTake, workerVars
<1>4. CASE SlotAdmitted(i)
  <2>1. /\ pc[i] = "turn" /\ Served(i) /\ wpc' = wpc
        /\ UNCHANGED <<dev_next, dev_serving, mine>>
        /\ \A j \in Slots : pc'[j] = IF j = i THEN cont[i] ELSE pc[j]
    BY <1>0, <1>4 DEF SlotAdmitted, turnVars, workerVars
  <2>2. TurnInv'
    BY <2>1 DEF TurnHeld, TurnInv, TurnTypeOK, TicketsContiguous, Queued,
                Distance
  <2>3. \A t \in Threads : Served(t)' <=> Served(t)
    BY <2>1 DEF Served
  <2>4. cont[i] \in SlotOnDevice
    BY <1>0, <2>1
  <2>5. ASSUME NEW j \in Slots
        PROVE  /\ mine'[j] # NoTicket <=> pc'[j] \in SlotOnDevice \cup {"turn"}
               /\ pc'[j] \in SlotOnDevice => Served(j)'
    BY <2>1, <2>3, <2>4, ThreadFacts DEF TurnHeld
  <2>6. /\ mine'[Worker] # NoTicket <=> wpc' \in WorkerOnDevice \cup {"turn"}
        /\ wpc' \in WorkerOnDevice => Served(Worker)'
    BY <2>1, <2>3, ThreadFacts DEF TurnHeld
  <2> QED BY <2>2, <2>5, <2>6 DEF TurnHeld, NoTicket
<1>5. CASE Arrive(i)
  <2>1. pc[i] = "idle" /\ pc' = [pc EXCEPT ![i] = "take"] /\ UNCHANGED turnVars /\ wpc' = wpc
    BY <1>5 DEF Arrive, EnterTurn, workerVars
  <2> QED BY <1>1, <2>1
<1>6. CASE Rewind(i)
  BY <1>1, <1>6 DEF Rewind, workerVars
<1>7. CASE PrefillOverflow(i) \/ SoloEnd(i) \/ Embed(i)
  <2>1. /\ pc[i] \in SlotOnDevice /\ pc' = [pc EXCEPT ![i] = "idle"]
        /\ DevGive(i) /\ wpc' = wpc
    BY <1>7 DEF PrefillOverflow, SoloEnd, Embed, Answered, workerVars
  <2> QED BY <1>2, <2>1
<1>8. CASE PrefillChunk(i)
  <2>1. pc[i] = "prefill" /\ DevGive(i) /\ wpc' = wpc
    BY <1>8 DEF PrefillChunk, workerVars
  <2>2. \E p \in {"take", "begin", "idle"} : pc' = [pc EXCEPT ![i] = p]
    BY <1>8 DEF PrefillChunk, EnterTurn, Answered
  <2> QED BY <1>2, <2>1, <2>2
<1>9. CASE Begin(i) \/ StepDone(i) \/ StepAbandoned(i) \/ DropExpired(i) \/ SlotExit(i)
  <2>1. /\ pc[i] \in {"begin", "step", "await", "idle"}
        /\ \E p \in {"step", "end", "exit"} : pc' = [pc EXCEPT ![i] = p]
        /\ UNCHANGED turnVars /\ wpc' = wpc
    BY <1>9 DEF Begin, StepDone, StepAbandoned, DropExpired, SlotExit, workerVars
  <2> QED BY <1>1, <2>1
<1>10. CASE StepForward(i) \/ End(i)
  <2>1. /\ pc[i] \in {"step", "end"} /\ UNCHANGED turnVars /\ SignalWorker
        /\ \E p \in {"await", "idle"} : pc' = [pc EXCEPT ![i] = p]
    BY <1>10 DEF StepForward, End, Answered
  <2> QED BY <1>1, <2>1
<1>11. CASE ForwardReturns(i)
  <2>1. /\ pc[i] = "await" /\ UNCHANGED turnVars /\ wpc' = wpc
        /\ \E p \in {"step", "end"} : pc' = [pc EXCEPT ![i] = p]
    BY <1>11 DEF ForwardReturns, workerVars
  <2> QED BY <1>1, <2>1
<1>12. CASE SoloForward(i) \/ Expire(i) \/ HangUp(i)
  <2>1. UNCHANGED <<pc, wpc, turnVars>>
    BY <1>12 DEF SoloForward, Expire, HangUp, workerVars
  <2> QED BY <2>1, TurnQuiet
<1> QED BY <1>3, <1>4, <1>5, <1>6, <1>7, <1>8, <1>9, <1>10, <1>11, <1>12 DEF SlotStep

LEMMA TurnStep == ASSUME Ctl, TurnHeld, [Next]_vars PROVE TurnHeld'
<1>1. CASE UNCHANGED vars
  <2>1. UNCHANGED <<scenario, pc, wpc, turnVars>>
    BY <1>1 DEF vars, workerVars, slotVars
  <2>2. UNCHANGED device_turn
    BY <2>1 DEF device_turn
  <2> QED BY <2>1, <2>2, TurnQuiet
<1>2. CASE Next
  <2>1. UNCHANGED device_turn
    BY <1>2 DEF Next, device_turn
  <2>2. CASE MainStep \/ RequestStop \/ SpuriousWake
    <3>1. /\ UNCHANGED <<pc, turnVars>>
          /\ wpc' = wpc \/ SignalWorker
      BY <2>2 DEF MainStep, SchedStop, SchedFree, RequestStop, SpuriousWake, slotVars,
                  workerVars
    <3>2. \/ wpc' = wpc
          \/ wpc \notin WorkerOnDevice \cup {"turn"} /\ wpc' \notin WorkerOnDevice \cup {"turn"}
      BY <3>1 DEF SignalWorker, WorkerOnDevice
    <3> QED BY <2>1, <3>1, <3>2, TurnQuiet
  <2>3. CASE Ended
    BY <1>1, <2>3 DEF Ended
  <2> QED BY <1>2, <2>1, <2>2, <2>3, TurnWorkerStep, TurnSlotStep DEF Next, Environment
<1> QED BY <1>1, <1>2

\* At most one thread is on the device, and it holds the ticket being served, for any
\* number of slots and across the wrap of the tickets.
THEOREM DeviceIsExclusive == Spec => []DeviceHasOneUser
<1>1. Init => Ctl /\ TurnHeld
  BY InitCtl, InitTurnHeld
<1>2. Ctl /\ TurnHeld /\ [Next]_vars => Ctl' /\ TurnHeld'
  BY NextCtl, TurnStep
<1>3. TurnHeld => DeviceHasOneUser
  <2> SUFFICES ASSUME TurnHeld, device_turn
               PROVE  /\ \A s, t \in OnDevice : s = t
                      /\ \A t \in OnDevice : Served(t)
    BY DEF DeviceHasOneUser
  <2>1. \A t \in OnDevice : t \in Threads /\ Served(t)
    BY ThreadFacts DEF TurnHeld, OnDevice, SlotOnDevice, WorkerOnDevice
  <2>2. \A s, t \in OnDevice : s = t
    BY <2>1, ContiguousIsExclusive DEF TurnHeld, MutualExclusion
  <2> QED BY <2>1, <2>2
<1> QED BY <1>1, <1>2, <1>3, PTL DEF Spec

\* Every step of the scheduler draws a ticket, gives back the one being served, or
\* leaves the tickets alone: dev_take and dev_give are called in turn.
LEMMA TurnIsTaken ==
  ASSUME Ctl, TurnHeld, [Next]_vars PROVE [TurnNext]_turnVars
<1> USE ThreadFacts
<1>1. ASSUME NEW t \in Threads, DevGive(t), device_turn => Served(t)
      PROVE  [TurnNext]_turnVars
  BY <1>1 DEF DevGive, TurnNext, Give
<1>2. ASSUME NEW t \in Threads, DevDraw(t) PROVE [TurnNext]_turnVars
  BY <1>2 DEF DevDraw, TurnNext
<1>3. CASE UNCHANGED vars
  BY <1>3 DEF vars
<1>4. CASE WorkerStep
  <2>1. CASE WorkerTake
    BY <1>2, <2>1 DEF WorkerTake
  <2>2. CASE WorkerGive
    <3>1. DevGive(Worker) /\ (device_turn => Served(Worker))
      BY <2>2 DEF WorkerGive, TurnHeld, WorkerOnDevice
    <3> QED BY <1>1, <3>1
  <2>3. CASE UNCHANGED turnVars
    BY <2>3
  <2> QED BY <1>4, <2>1, <2>2, <2>3 DEF WorkerStep, WorkerLook, WorkerRelook, GatherTimeout,
             WorkerAdmitted, DecodePass, CopyHome, WorkerPost
<1>5. ASSUME NEW i \in Slots, SlotStep(i) PROVE [TurnNext]_turnVars
  <2>1. CASE SlotTake(i)
    BY <1>2, <2>1 DEF SlotTake
  <2>2. CASE PrefillOverflow(i) \/ PrefillChunk(i) \/ SoloEnd(i) \/ Embed(i)
    <3>1. DevGive(i) /\ pc[i] \in SlotOnDevice
      BY <2>2 DEF PrefillOverflow, PrefillChunk, SoloEnd, Embed, SlotOnDevice
    <3>2. device_turn => Served(i)
      BY <3>1 DEF TurnHeld
    <3> QED BY <1>1, <3>1, <3>2
  <2>3. CASE UNCHANGED turnVars
    BY <2>3
  <2> QED BY <1>5, <2>1, <2>2, <2>3 DEF SlotStep, SlotAdmitted, Rewind, Begin, StepDone,
             StepAbandoned, StepForward, DropExpired, ForwardReturns, End, SoloForward, SlotExit
<1>6. CASE MainStep \/ Environment \/ Ended
  BY <1>3, <1>6 DEF MainStep, SchedStop, SchedFree, Environment, Arrive, Expire, HangUp,
     RequestStop, SpuriousWake, Ended, slotVars
<1> QED BY <1>3, <1>4, <1>5, <1>6 DEF Next

\* The scheduler's threads take turns as the Turnstile says.
THEOREM SchedulerTakesTurns == Spec => TurnSpec
<1>1. Init => Ctl /\ TurnHeld /\ TurnInit
  BY InitCtl, InitTurnHeld DEF Init
<1>2. Ctl /\ TurnHeld /\ [Next]_vars => (Ctl /\ TurnHeld)' /\ [TurnNext]_turnVars
  BY NextCtl, TurnStep, TurnIsTaken
<1> QED BY <1>1, <1>2, PTL DEF Spec, TurnSpec

\* So no two of them are ever admitted together, across the wrap of the tickets too
\* (dev_take, dev_give).
THEOREM TurnsExclude == Spec => []MutualExclusion
BY SchedulerTakesTurns, TurnIsExclusive, PTL

\* And they are admitted in the order in which they asked: a prefill that yields between
\* chunks goes to the back ("a FIFO turnstile, not a mutex", dev_take).
THEOREM TurnsAreFair == Spec => RefinesFifo
BY SchedulerTakesTurns, TurnstileIsFifo, PTL

-----------------------------------------------------------------------------
(* The decoded row.                                                        *)

\* The slots fit one staged pass and one solo forward, or no model is on a device:
\* beyond that the second pass writes over the rows of the first (the run
\* sched_overwide).
Narrow == (\A s \in Scenarios : "gpu" \notin s) \/ NSlots <= BatchMax + 1

DataType ==
  /\ scenario \in Scenarios
  /\ qpos \in [Slots -> 0 .. MaxCtx] /\ qok \in [Slots -> BOOLEAN]
  /\ logits = [i \in Slots |-> logits[i]]
  /\ done \in Nat /\ bok \in BOOLEAN
  /\ stage = [r \in Rows |-> stage[r]] /\ out \in [Slots -> Rows \cup {Own}]
  /\ pos \in [Slots -> 0 .. MaxCtx] /\ pending \in [Slots -> -1 .. MaxCtx]
  /\ kv \in [Slots -> 0 .. MaxCtx + 1]

\* The claimed row of a slot: engine_gen_step took it and it may not be forwarded yet.
Claimed(i) == pending[i] >= 0 /\ pos[i] = pending[i] + 1 /\ pending[i] <= kv[i]

\* engine.pos against the rows the cache holds, place by place.
PosAt(i) ==
  CASE pc[i] = "await" -> Claimed(i) /\ qpos[i] = pending[i]
    [] pc[i] = "end"   -> Claimed(i) \/ (pending[i] = -1 /\ pos[i] <= kv[i])
    [] pc[i] = "embed" -> TRUE
    [] OTHER           -> pos[i] <= kv[i]

\* How far model_batch_decode is: the sequences of the passes done have their KV row
\* and, unless two passes shared the staging block, their row of logits.
PassInv ==
  /\ wpc \notin {"decode", "give", "post"} => done = 0
  /\ wpc = "decode" =>
       /\ done <= Cardinality(batch)
       /\ done = 0 \/ done >= BatchMax \/ done = Cardinality(batch)
       /\ \A i \in batch : Rank(i) < done =>
            /\ kv[i] = qpos[i] + 1
            /\ Narrow => RowAt(i) = Forward(i)
  /\ wpc \in {"give", "post"} /\ bok =>
       \A i \in batch : kv[i] = qpos[i] + 1 /\ (Narrow => logits[i] = Forward(i))

\* A row that is ready, and the one a slot has taken home.
ReadyAt(i) ==
  /\ state[i] = "READY" /\ qok[i] =>
       kv[i] = qpos[i] + 1 /\ (Narrow => logits[i] = Forward(i))
  /\ pc[i] = "step" /\ pending[i] >= 0 /\ Narrow => logits[i] = <<i, pending[i]>>

RowInv == DataType /\ PassInv /\ \A i \in Slots : PosAt(i) /\ ReadyAt(i)

\* Who may be late: a generation that has just left its loop, by one token, and a
\* speculative request, which does not look at the clock.
LateAt(i) ==
  /\ cont[i] # "none" => pc[i] \in {"take", "turn"}
  /\ pc[i] = "solo" \/ cont[i] = "solo" => kind[i] = "solo"
  /\ pc[i] = "end" => late[i] \in {0, 1}
  /\ pc[i] \notin {"end", "solo"} => late[i] = 0

LateInv ==
  /\ kind \in [Slots -> Kinds \cup {"none"}] /\ late \in [Slots -> 0 .. 2]
  /\ deadline \in [Slots -> {"none", "running", "passed"}]
  /\ \A i \in Slots : LateAt(i)

-----------------------------------------------------------------------------
(* Ranks.                                                                  *)

RankIn(B, i) == Cardinality({j \in B : j < i})

\* The sequences of a batch are numbered 0, 1, ... in slot order.
LEMMA Ranks ==
  ASSUME NEW B \in SUBSET Slots
  PROVE  /\ Cardinality(B) \in Nat /\ Cardinality(B) <= NSlots
         /\ \A i \in B : RankIn(B, i) \in Nat /\ RankIn(B, i) < Cardinality(B)
         /\ \A i, j \in B : RankIn(B, i) = RankIn(B, j) => i = j
<1>0. \A i \in Slots : i \in Int
  BY SchedulerAssumption DEF Slots
<1>1. Cardinality(B) \in Nat /\ Cardinality(B) <= NSlots
  BY SlotsCount, SchedulerAssumption
<1> DEFINE Before(i) == {j \in B : j < i}
<1>2. \A i \in B : RankIn(B, i) = Cardinality(Before(i)) /\ Before(i) \in SUBSET Slots
  BY DEF RankIn
<1>3. ASSUME NEW i \in B, NEW S \in SUBSET Slots, Before(i) \cup {i} \subseteq S
      PROVE  RankIn(B, i) \in Nat /\ RankIn(B, i) < Cardinality(S)
  <2>1. i \notin Before(i) /\ i \in Slots
    BY <1>0
  <2>2. Cardinality(Before(i) \cup {i}) = RankIn(B, i) + 1 /\ Before(i) \cup {i} \in SUBSET Slots
    BY <1>2, <2>1, SlotsAddRemove
  <2>3. Cardinality(Before(i) \cup {i}) <= Cardinality(S)
    BY <1>3, SlotsCount, FS_Subset
  <2>4. RankIn(B, i) \in 0 .. NSlots /\ Cardinality(S) \in 0 .. NSlots
    BY <1>2, SlotsCount
  <2> QED BY <2>2, <2>3, <2>4, SchedulerAssumption
<1>4. \A i \in B : RankIn(B, i) \in Nat /\ RankIn(B, i) < Cardinality(B)
  BY <1>3
<1>5. ASSUME NEW i \in B, NEW j \in B, i < j PROVE RankIn(B, i) < RankIn(B, j)
  <2>1. Before(i) \cup {i} \subseteq Before(j)
    BY <1>0, <1>5
  <2> QED BY <1>2, <1>3, <2>1
<1>6. ASSUME NEW i \in B, NEW j \in B, RankIn(B, i) = RankIn(B, j) PROVE i = j
  <2>1. ~(i < j) /\ ~(j < i)
    BY <1>4, <1>5, <1>6
  <2>2. i \in Int /\ j \in Int
    BY <1>0
  <2> QED BY <2>1, <2>2
<1> HIDE DEF Before
<1> QED BY <1>1, <1>4, <1>6

-----------------------------------------------------------------------------
(* The invariant holds initially.                                          *)

LEMMA InitRow == Init => RowInv
<1> SUFFICES ASSUME Init PROVE RowInv
  OBVIOUS
<1>0. MaxCtx \in Nat
  BY SchedulerAssumption
<1>1. DataType
  <2>1. scenario \in Scenarios /\ done \in Nat /\ bok \in BOOLEAN
    BY DEF Init
  <2>2. qpos \in [Slots -> 0 .. MaxCtx] /\ qok \in [Slots -> BOOLEAN]
    BY <1>0 DEF Init
  <2>3. logits = [i \in Slots |-> logits[i]] /\ stage = [r \in Rows |-> stage[r]]
    BY DEF Init
  <2>4. out \in [Slots -> Rows \cup {Own}]
    BY DEF Init
  <2>5. pos \in [Slots -> 0 .. MaxCtx] /\ pending \in [Slots -> -1 .. MaxCtx]
    BY <1>0 DEF Init
  <2>6. kv \in [Slots -> 0 .. MaxCtx + 1]
    BY <1>0 DEF Init
  <2> QED BY <2>1, <2>2, <2>3, <2>4, <2>5, <2>6 DEF DataType
<1>2. PassInv
  BY DEF Init, PassInv
<1>3. \A i \in Slots : PosAt(i) /\ ReadyAt(i)
  BY DEF Init, PosAt, ReadyAt
<1> QED BY <1>1, <1>2, <1>3 DEF RowInv

-----------------------------------------------------------------------------
(* The decode worker.                                                      *)

\* The worker moves outside model_batch_decode.
LEMMA RowWorkerMove ==
  ASSUME RowInv, wpc \notin {"decode", "give", "post"},
         wpc' \in {"decode", "give", "post"} => wpc' = "decode",
         UNCHANGED <<scenario, qpos, qok, logits, done, bok, stage, out, pc, kvVars>>,
         \A i \in Slots : state'[i] = "READY" => state[i] = "READY",
         batch' \subseteq Slots
  PROVE  RowInv'
<1> USE DEF kvVars
<1>1. DataType'
  BY DEF RowInv, DataType
<1>2. done' = 0
  BY DEF RowInv, PassInv
<1>3. Cardinality(batch') \in Nat /\ \A i \in batch' : Rank(i)' \in Nat
  BY Ranks DEF Rank, RankIn
<1>5. PassInv'
  BY <1>2, <1>3 DEF PassInv
<1>6. \A i \in Slots : PosAt(i)' /\ ReadyAt(i)'
  BY DEF RowInv, PosAt, ReadyAt, Claimed, Forward
<1> QED BY <1>1, <1>5, <1>6 DEF RowInv


\* One pass: its sequences get their KV row, and their row of logits unless an
\* earlier pass is still staged.
LEMMA RowPass ==
  ASSUME Ctl, RowInv, UNCHANGED scenario, DecodePass
  PROVE  RowInv'
<1> USE DEF reqVars
<1>0. /\ wpc = "decode" /\ done < Cardinality(batch)
      /\ UNCHANGED <<state, qpos, qok, logits, batch, pc, pos, pending>>
  BY DEF DecodePass, seqVars
<1>1. batch \in SUBSET Slots /\ DataType /\ BatchMax \in Nat /\ BatchMax >= 1 /\ MaxCtx \in Nat
  BY SchedulerAssumption DEF Ctl, CtlType, RowInv
<1>2. /\ Cardinality(batch) \in Nat /\ Cardinality(batch) <= NSlots
      /\ \A i \in batch : Rank(i) \in Nat /\ Rank(i) < Cardinality(batch)
      /\ \A i, j \in batch : Rank(i) = Rank(j) => i = j
  BY <1>1, Ranks DEF Rank, RankIn
<1>3. /\ done \in Nat /\ done <= Cardinality(batch)
      /\ done = 0 \/ done >= BatchMax
      /\ \A i \in batch : Rank(i) < done => /\ kv[i] = qpos[i] + 1
                                            /\ Narrow => RowAt(i) = Forward(i)
  BY <1>0, <1>1, <1>2 DEF RowInv, PassInv, DataType
<1>4. /\ PassSize \in Nat /\ PassSize >= 1 /\ PassSize <= BatchMax
      /\ done + PassSize <= Cardinality(batch)
      /\ done + PassSize >= BatchMax \/ done + PassSize = Cardinality(batch)
      /\ NSlots <= BatchMax + 1 /\ done # 0 => PassSize = 1
  BY <1>0, <1>1, <1>2, <1>3, SchedulerAssumption DEF PassSize
<1>5. /\ Pass \subseteq batch
      /\ \A i \in batch : i \in Pass <=> done <= Rank(i) /\ Rank(i) < done + PassSize
  BY DEF Pass
<1>6. \A i \in batch : pc[i] = "await" /\ state[i] = "INFLIGHT"
  BY <1>1 DEF Ctl, QueueConsistent
<1>7. ASSUME NEW S \in SUBSET batch, WriteKv(S)
      PROVE  /\ \A i \in Slots : kv'[i] = IF i \in S THEN qpos[i] + 1 ELSE kv[i]
             /\ kv' \in [Slots -> 0 .. MaxCtx + 1]
             /\ \A i \in Slots : PosAt(i)' /\ ReadyAt(i)'
  <2>1. \A i \in Slots : kv'[i] = IF i \in S THEN qpos[i] + 1 ELSE kv[i]
    BY <1>7 DEF WriteKv
  <2>2. \A i \in Slots : qpos[i] \in 0 .. MaxCtx
    BY <1>1 DEF DataType
  <2>3. kv' \in [Slots -> 0 .. MaxCtx + 1]
    BY <1>1, <1>7, <2>2 DEF WriteKv, DataType
  <2>4. ASSUME NEW i \in Slots PROVE PosAt(i)' /\ ReadyAt(i)'
    <3>1. CASE i \in S
      <4>1. pc[i] = "await" /\ state[i] = "INFLIGHT" /\ Claimed(i) /\ qpos[i] = pending[i]
        BY <1>6, <3>1 DEF RowInv, PosAt
      <4>2. Claimed(i)'
        BY <1>0, <1>1, <2>1, <2>2, <3>1, <4>1 DEF Claimed
      <4> QED BY <1>0, <4>1, <4>2 DEF PosAt, ReadyAt
    <3>2. CASE i \notin S
      <4>1. kv'[i] = kv[i]
        BY <2>1, <3>2
      <4> QED BY <1>0, <4>1 DEF RowInv, PosAt, ReadyAt, Claimed, Forward
    <3> QED BY <3>1, <3>2
  <2> QED BY <2>1, <2>3, <2>4
<1>8. CASE PassFails
  <2>1. PICK k \in 0 .. PassSize - 1 : WriteKv({i \in Pass : Rank(i) - done < k})
    BY <1>8 DEF PassFails
  <2>2. {i \in Pass : Rank(i) - done < k} \in SUBSET batch
    BY <1>5
  <2>3. kv' \in [Slots -> 0 .. MaxCtx + 1] /\ \A i \in Slots : PosAt(i)' /\ ReadyAt(i)'
    BY <1>7, <2>1, <2>2
  <2>4. wpc' = "give" /\ bok' = FALSE /\ UNCHANGED <<done, stage, out>>
    BY <1>8 DEF PassFails
  <2>5. DataType'
    BY <1>0, <1>1, <2>3, <2>4 DEF DataType
  <2>6. PassInv'
    BY <2>4 DEF PassInv
  <2> QED BY <2>3, <2>5, <2>6 DEF RowInv
<1>9. ASSUME WriteKv(Pass), done' = done + PassSize, UNCHANGED <<wpc, bok>>,
             out' \in [Slots -> Rows \cup {Own}], stage' = [r \in Rows |-> stage'[r]],
             \A i \in Pass : Narrow => RowAt(i)' = Forward(i),
             \A i \in batch \ Pass : Narrow /\ Rank(i) < done => RowAt(i)' = RowAt(i)
      PROVE  RowInv'
  <2>1. /\ \A i \in Slots : kv'[i] = IF i \in Pass THEN qpos[i] + 1 ELSE kv[i]
        /\ kv' \in [Slots -> 0 .. MaxCtx + 1]
        /\ \A i \in Slots : PosAt(i)' /\ ReadyAt(i)'
    BY <1>5, <1>7, <1>9
  <2>2. DataType'
    BY <1>0, <1>1, <1>4, <1>9, <2>1 DEF DataType
  <2>3. ASSUME NEW i \in batch, Rank(i)' < done'
        PROVE  kv'[i] = qpos'[i] + 1 /\ (Narrow => RowAt(i)' = Forward(i)')
    <3>1. Rank(i)' = Rank(i) /\ Forward(i)' = Forward(i) /\ i \in Slots
      BY <1>0, <1>1 DEF Rank, Forward
    <3>2. CASE i \in Pass
      BY <1>0, <1>9, <2>1, <3>1, <3>2
    <3>3. CASE i \notin Pass
      <4>1. Rank(i) < done
        BY <1>2, <1>3, <1>4, <1>5, <1>9, <2>3, <3>1, <3>3
      <4> QED BY <1>0, <1>3, <1>9, <2>1, <3>1, <3>3, <4>1
    <3> QED BY <3>2, <3>3
  <2>4. /\ done' <= Cardinality(batch)
        /\ done' = 0 \/ done' >= BatchMax \/ done' = Cardinality(batch)
    BY <1>4, <1>9
  <2>5. PassInv'
    BY <1>0, <1>9, <2>3, <2>4 DEF PassInv
  <2> QED BY <2>1, <2>2, <2>5 DEF RowInv
<1>10. CASE PassSequential
  <2>1. /\ out' = [i \in Slots |-> IF i \in Pass THEN Own ELSE out[i]]
        /\ stage' = stage /\ WriteKv(Pass) /\ done' = done + PassSize
        /\ UNCHANGED <<wpc, bok>>
    BY <1>10 DEF PassSequential
  <2>2. out' \in [Slots -> Rows \cup {Own}] /\ stage' = [r \in Rows |-> stage'[r]]
    BY <1>1, <2>1 DEF DataType
  <2>3. \A i \in Pass : RowAt(i)' = Forward(i)
    BY <1>0, <1>1, <1>5, <2>1 DEF RowAt, Forward
  <2>4. \A i \in batch \ Pass : RowAt(i)' = RowAt(i)
    BY <1>0, <1>1, <2>1 DEF RowAt, Forward
  <2> QED BY <1>9, <2>1, <2>2, <2>3, <2>4
<1>11. CASE PassOnDevice
  <2>1. /\ device_turn /\ WriteKv(Pass) /\ done' = done + PassSize
        /\ UNCHANGED <<wpc, bok>>
        /\ out' = [i \in Slots |->
             IF i \notin Pass THEN out[i] ELSE IF Staged THEN Rank(i) - done ELSE Own]
        /\ stage' = [r \in Rows |->
             IF Staged /\ \E i \in Pass : Rank(i) - done = r
               THEN Forward(CHOOSE i \in Pass : Rank(i) - done = r)
               ELSE stage[r]]
    BY <1>11 DEF PassOnDevice
  <2>2. \A i \in Pass : Rank(i) - done \in Rows
    BY <1>1, <1>2, <1>3, <1>4, <1>5 DEF Rows
  <2>3. out' \in [Slots -> Rows \cup {Own}]
    BY <1>1, <2>1, <2>2 DEF DataType
  <2>4. stage' = [r \in Rows |-> stage'[r]]
    BY <2>1
  <2>5. ASSUME NEW i \in Pass PROVE RowAt(i)' = Forward(i)
    <3>1. CASE ~Staged
      BY <1>0, <1>1, <1>5, <2>1, <3>1 DEF RowAt, Forward
    <3>2. CASE Staged
      <4> DEFINE r == Rank(i) - done
      <4>1. out'[i] = r /\ r # Own /\ r \in Rows
        BY <1>1, <1>2, <1>3, <1>5, <2>1, <2>2, <3>2 DEF Own, Rows
      <4>2. \A j \in Pass : Rank(j) - done = r => j = i
        BY <1>2, <1>3, <1>5
      <4>3. (CHOOSE j \in Pass : Rank(j) - done = r) = i
        BY <4>2
      <4>4. stage'[r] = Forward(i)
        BY <2>1, <3>2, <4>1, <4>3
      <4> QED BY <4>1, <4>4 DEF RowAt
    <3> QED BY <3>1, <3>2
  <2>6. ASSUME NEW i \in batch \ Pass, Narrow, Rank(i) < done PROVE RowAt(i)' = RowAt(i)
    <3>1. NSlots <= BatchMax + 1
      BY <1>1, <2>1, <2>6 DEF Narrow, DataType, device_turn
    <3>2. done # 0
      BY <1>2, <2>6
    <3>3. ~Staged
      BY <1>4, <3>1, <3>2 DEF Staged
    <3>4. out'[i] = out[i] /\ \A r \in Rows : stage'[r] = stage[r]
      BY <1>1, <2>1, <2>6, <3>3
    <3>5. out[i] \in Rows \cup {Own}
      BY <1>1 DEF DataType
    <3> QED BY <1>0, <3>4, <3>5 DEF RowAt, Forward
  <2> QED BY <1>9, <2>1, <2>3, <2>4, <2>5, <2>6
<1> QED BY <1>8, <1>10, <1>11 DEF DecodePass

LEMMA RowWorkerStep ==
  ASSUME Ctl, RowInv, UNCHANGED scenario, WorkerStep
  PROVE  RowInv'
<1> USE DEF workVars, seqVars, slotVars, kvVars
<1>0. batch \in SUBSET Slots /\ state \in [Slots -> {"OFF", "WAIT", "INFLIGHT", "READY"}]
  BY DEF Ctl, CtlType
<1>1. ASSUME Cut, wpc \notin {"decode", "give", "post"}, UNCHANGED <<logits, slotVars>>
      PROVE  RowInv'
  <2>1. /\ batch' \subseteq Slots
        /\ wpc' \in {"decode", "give", "post"} => wpc' = "decode"
        /\ UNCHANGED <<qpos, qok, done, bok, stage, out>>
    BY <1>1 DEF Cut, Waiting
  <2>2. \A i \in Slots : state'[i] = "READY" => state[i] = "READY"
    BY <1>1 DEF Cut
  <2> QED BY <1>1, <2>1, <2>2, RowWorkerMove
<1>2. ASSUME GatherOrCut, wpc \notin {"decode", "give", "post"}, UNCHANGED <<logits, slotVars>>
      PROVE  RowInv'
  <2>1. CASE Cut
    BY <1>1, <1>2, <2>1
  <2>2. CASE wpc' = "gather" /\ UNCHANGED <<seqVars, workVars>>
    BY <1>0, <1>2, <2>2, RowWorkerMove
  <2> QED BY <1>2, <2>1, <2>2 DEF GatherOrCut
<1>3. CASE WorkerLook
  <2>1. CASE GatherOrCut
    BY <1>2, <1>3, <2>1 DEF WorkerLook
  <2>2. CASE wpc' \in {"exit", "asleep"} /\ UNCHANGED <<seqVars, workVars>>
    BY <1>0, <1>3, <2>2, RowWorkerMove DEF WorkerLook
  <2> QED BY <1>3, <2>1, <2>2 DEF WorkerLook
<1>4. CASE WorkerRelook
  BY <1>2, <1>4 DEF WorkerRelook
<1>5. CASE GatherTimeout
  BY <1>1, <1>5 DEF GatherTimeout
<1>6. CASE WorkerTake
  BY <1>0, <1>6, RowWorkerMove DEF WorkerTake
<1>7. CASE WorkerAdmitted
  BY <1>0, <1>7, RowWorkerMove DEF WorkerAdmitted
<1>8. CASE DecodePass
  BY <1>8, RowPass
<1>9. CASE CopyHome
  <2>1. /\ wpc = "decode" /\ done = Cardinality(batch) /\ wpc' = "give" /\ bok' = TRUE
        /\ logits' = [i \in Slots |-> IF i \in batch THEN RowAt(i) ELSE logits[i]]
        /\ UNCHANGED <<state, qpos, qok, batch, done, stage, out, pc, pos, pending, kv>>
    BY <1>9 DEF CopyHome
  <2>2. \A i \in batch : Rank(i) < done
    BY <1>0, <2>1, Ranks DEF Rank, RankIn
  <2>3. \A i \in batch : kv[i] = qpos[i] + 1 /\ (Narrow => RowAt(i) = Forward(i))
    BY <2>1, <2>2 DEF RowInv, PassInv
  <2>4. DataType'
    BY <2>1 DEF RowInv, DataType
  <2>5. PassInv'
    BY <1>0, <2>1, <2>3 DEF PassInv, Forward
  <2>6. ASSUME NEW i \in Slots PROVE PosAt(i)' /\ ReadyAt(i)'
    <3>1. PosAt(i)'
      BY <2>1 DEF RowInv, PosAt, Claimed
    <3>2. CASE i \in batch
      <4>1. pc[i] = "await" /\ state[i] = "INFLIGHT"
        BY <1>0, <3>2 DEF Ctl, QueueConsistent
      <4> QED BY <2>1, <3>1, <4>1 DEF ReadyAt
    <3>3. CASE i \notin batch
      <4>1. logits'[i] = logits[i]
        BY <2>1, <3>3
      <4> QED BY <2>1, <3>1, <4>1 DEF RowInv, ReadyAt, Forward
    <3> QED BY <3>2, <3>3
  <2> QED BY <2>4, <2>5, <2>6 DEF RowInv
<1>10. CASE WorkerGive
  <2>1. /\ wpc = "give" /\ wpc' = "post"
        /\ UNCHANGED <<state, qpos, qok, logits, batch, done, bok, stage, out, pc, pos,
                       pending, kv>>
    BY <1>10 DEF WorkerGive
  <2>2. DataType'
    BY <2>1 DEF RowInv, DataType
  <2>3. PassInv'
    BY <2>1 DEF RowInv, PassInv, Forward
  <2>4. \A i \in Slots : PosAt(i)' /\ ReadyAt(i)'
    BY <2>1 DEF RowInv, PosAt, ReadyAt, Claimed, Forward
  <2> QED BY <2>2, <2>3, <2>4 DEF RowInv
<1>11. CASE WorkerPost
  <2>1. /\ wpc = "post" /\ wpc' = "look"
        /\ qok' = [i \in Slots |-> IF i \in batch THEN bok ELSE qok[i]]
        /\ state' = [i \in Slots |-> IF i \in batch THEN "READY" ELSE state[i]]
        /\ batch' = {} /\ done' = 0 /\ bok' = FALSE
        /\ stage' = [r \in Rows |-> NoRow] /\ out' = [i \in Slots |-> Own]
        /\ UNCHANGED <<qpos, logits, pc, pos, pending, kv>>
    BY <1>11 DEF WorkerPost
  <2>2. qok' \in [Slots -> BOOLEAN] /\ out' \in [Slots -> Rows \cup {Own}]
    BY <2>1 DEF RowInv, DataType
  <2>3. DataType'
    BY <2>1, <2>2 DEF RowInv, DataType
  <2>4. PassInv'
    BY <2>1 DEF PassInv
  <2>5. ASSUME NEW i \in Slots PROVE PosAt(i)' /\ ReadyAt(i)'
    <3>1. PosAt(i)'
      BY <2>1 DEF RowInv, PosAt, Claimed
    <3>2. CASE i \in batch
      <4>1. pc[i] = "await"
        BY <1>0, <3>2 DEF Ctl, QueueConsistent
      <4>2. qok'[i] = bok
        BY <2>1, <3>2
      <4>3. bok => kv[i] = qpos[i] + 1 /\ (Narrow => logits[i] = Forward(i))
        BY <2>1, <3>2 DEF RowInv, PassInv
      <4> QED BY <2>1, <3>1, <4>1, <4>2, <4>3 DEF ReadyAt, Forward
    <3>3. CASE i \notin batch
      <4>1. qok'[i] = qok[i] /\ state'[i] = state[i]
        BY <2>1, <3>3
      <4> QED BY <2>1, <3>1, <4>1 DEF RowInv, ReadyAt, Forward
    <3> QED BY <3>2, <3>3
  <2> QED BY <2>3, <2>4, <2>5 DEF RowInv
<1> QED BY <1>3, <1>4, <1>5, <1>6, <1>7, <1>8, <1>9, <1>10, <1>11 DEF WorkerStep

-----------------------------------------------------------------------------
(* The slot threads.                                                       *)

\* A slot outside the batch steps: nothing that the worker or another slot relies
\* on moves.
LEMMA RowFrame ==
  ASSUME Ctl, RowInv, NEW i \in Slots \ batch,
         UNCHANGED <<scenario, workVars>>, wpc' = wpc \/ SignalWorker,
         \A j \in Slots \ {i} :
           /\ pc'[j] = pc[j] /\ state'[j] = state[j] /\ qpos'[j] = qpos[j]
           /\ qok'[j] = qok[j] /\ logits'[j] = logits[j] /\ pos'[j] = pos[j]
           /\ pending'[j] = pending[j] /\ kv'[j] = kv[j],
         DataType', PosAt(i)', ReadyAt(i)'
  PROVE  RowInv'
<1> USE DEF workVars
<1>1. wpc' = wpc \/ (wpc \notin {"decode", "give", "post"}
                       /\ wpc' \notin {"decode", "give", "post"})
  BY DEF SignalWorker
<1>2. i \notin batch /\ batch \in SUBSET Slots
  BY DEF Ctl, CtlType
<1>3. \A j \in batch : /\ Forward(j)' = Forward(j) /\ RowAt(j)' = RowAt(j) /\ Rank(j)' = Rank(j)
                       /\ kv'[j] = kv[j] /\ qpos'[j] = qpos[j] /\ logits'[j] = logits[j]
  BY <1>2 DEF Forward, RowAt, Rank
<1>4. PassInv'
  <2>1. CASE wpc' = wpc
    BY <1>3, <2>1 DEF RowInv, PassInv
  <2>2. CASE wpc' # wpc
    BY <1>1, <2>2 DEF RowInv, PassInv
  <2> QED BY <2>1, <2>2
<1>5. ASSUME NEW j \in Slots PROVE PosAt(j)' /\ ReadyAt(j)'
  <2>1. CASE j = i
    BY <2>1
  <2>2. CASE j # i
    <3>1. PosAt(j) /\ ReadyAt(j)
      BY DEF RowInv
    <3> QED BY <2>2, <3>1 DEF PosAt, ReadyAt, Claimed, Forward
  <2> QED BY <2>1, <2>2
<1> QED BY <1>4, <1>5 DEF RowInv

LEMMA RowSlotStep ==
  ASSUME Ctl, RowInv, NEW i \in Slots, UNCHANGED scenario, SlotStep(i)
  PROVE  RowInv'
<1> USE DEF workerVars, seqVars, kvVars, reqVars, workVars
<1>1. /\ DataType /\ PosAt(i) /\ ReadyAt(i) /\ MaxCtx \in Nat
      /\ pc \in [Slots -> SlotPc] /\ state \in [Slots -> {"OFF", "WAIT", "INFLIGHT", "READY"}]
      /\ cont[i] \in {"none", "rewind", "prefill", "solo", "embed"}
      /\ state[i] # "OFF" <=> pc[i] = "await"
      /\ i \in batch <=> state[i] = "INFLIGHT"
  BY SchedulerAssumption DEF RowInv, Ctl, CtlType, QueueConsistent
<1>2. /\ qpos[i] \in 0 .. MaxCtx /\ pos[i] \in 0 .. MaxCtx /\ pending[i] \in -1 .. MaxCtx
      /\ kv[i] \in 0 .. MaxCtx + 1
  BY <1>1 DEF DataType
\* Steps outside sched_forward and the loop of sched_generate.
<1>3. ASSUME NEW p \in SlotPc \ {"step", "await", "end"},
             pc[i] \notin {"step", "await", "end"}, pc' = [pc EXCEPT ![i] = p],
             UNCHANGED <<seqVars, workerVars, pending>>,
             pos' \in [Slots -> 0 .. MaxCtx], kv' \in [Slots -> 0 .. MaxCtx + 1],
             \A j \in Slots \ {i} : pos'[j] = pos[j] /\ kv'[j] = kv[j],
             p # "embed" => pos'[i] <= kv'[i]
      PROVE  RowInv'
  <2>1. DataType'
    BY <1>1, <1>3 DEF DataType
  <2>2. pc'[i] = p /\ \A j \in Slots \ {i} : pc'[j] = pc[j]
    BY <1>1, <1>3
  <2>3. state[i] = "OFF" /\ i \notin batch
    BY <1>1, <1>3
  <2>4. PosAt(i)' /\ ReadyAt(i)'
    BY <1>3, <2>2, <2>3 DEF PosAt, ReadyAt
  <2> QED BY <1>3, <2>1, <2>2, <2>3, <2>4, RowFrame
<1>4. ASSUME NEW p \in SlotPc \ {"step", "await", "end"},
             pc[i] \notin {"step", "await", "end", "embed"}, pc' = [pc EXCEPT ![i] = p],
             UNCHANGED <<seqVars, workerVars, kvVars>>
      PROVE  RowInv'
  <2>1. pos[i] <= kv[i]
    BY <1>1, <1>4 DEF PosAt
  <2> QED BY <1>1, <1>3, <1>4, <2>1 DEF DataType
<1>5. CASE SlotTake(i)
  BY <1>4, <1>5 DEF SlotTake, SlotPc
<1>6. CASE SlotAdmitted(i)
  <2>1. cont[i] \in SlotPc \ {"step", "await", "end"}
    BY <1>1, <1>6 DEF SlotAdmitted, SlotPc, Ctl, CtlType
  <2> QED BY <1>4, <1>6, <2>1 DEF SlotAdmitted
<1>7. CASE Rewind(i)
  <2>1. PICK keep \in 0 .. pos[i] : pos' = [pos EXCEPT ![i] = keep]
    BY <1>7 DEF Rewind
  <2>2. /\ pc[i] = "rewind" /\ pc' = [pc EXCEPT ![i] = "prefill"]
        /\ UNCHANGED <<seqVars, workerVars, pending, kv>>
    BY <1>7 DEF Rewind
  <2>3. pos[i] <= kv[i]
    BY <1>1, <2>2 DEF PosAt
  <2>4. pos' \in [Slots -> 0 .. MaxCtx] /\ pos'[i] <= kv[i]
    BY <1>1, <1>2, <2>1, <2>3 DEF DataType
  <2>5. \A j \in Slots \ {i} : pos'[j] = pos[j]
    BY <1>1, <2>1 DEF DataType
  <2>6. kv' \in [Slots -> 0 .. MaxCtx + 1]
    BY <1>1, <2>2 DEF DataType
  <2> QED BY <1>3, <2>2, <2>4, <2>5, <2>6 DEF SlotPc
<1>8. CASE PrefillOverflow(i)
  BY <1>4, <1>8 DEF PrefillOverflow, Answered, SlotPc
<1>9. CASE PrefillChunk(i)
  <2>1. /\ pc[i] = "prefill" /\ pos[i] < MaxCtx /\ pos' = [pos EXCEPT ![i] = pos[i] + 1]
        /\ kv' = [kv EXCEPT ![i] = pos[i] + 1] /\ UNCHANGED <<seqVars, workerVars, pending>>
    BY <1>1, <1>2, <1>9, ContextFits DEF PrefillChunk, DataType
  <2>2. PICK p \in {"take", "solo", "begin", "idle", "prefill"} : pc' = [pc EXCEPT ![i] = p]
    BY <1>9 DEF PrefillChunk, EnterTurn, Answered
  <2>3. pos' \in [Slots -> 0 .. MaxCtx] /\ pos'[i] = pos[i] + 1
    BY <1>1, <1>2, <2>1 DEF DataType
  <2>4. kv' \in [Slots -> 0 .. MaxCtx + 1] /\ kv'[i] = pos[i] + 1
    BY <1>1, <1>2, <2>1 DEF DataType
  <2>5. \A j \in Slots \ {i} : pos'[j] = pos[j] /\ kv'[j] = kv[j]
    BY <1>1, <2>1 DEF DataType
  <2>6. p \in SlotPc \ {"step", "await", "end"}
    BY DEF SlotPc
  <2>7. pos'[i] <= kv'[i]
    BY <1>2, <2>3, <2>4
  <2> QED BY <1>3, <2>1, <2>2, <2>3, <2>4, <2>5, <2>6, <2>7
<1>10. CASE Begin(i)
  <2>1. /\ pc[i] = "begin" /\ pc' = [pc EXCEPT ![i] = "step"]
        /\ pending' = [pending EXCEPT ![i] = -1]
        /\ UNCHANGED <<state, qpos, qok, workerVars, pos, kv>>
    BY <1>10 DEF Begin
  <2>2. DataType'
    BY <1>1, <2>1 DEF DataType
  <2>3. pc'[i] = "step" /\ pending'[i] = -1 /\ i \notin batch /\ state[i] = "OFF"
    BY <1>1, <2>1 DEF DataType
  <2>4. \A j \in Slots \ {i} : pc'[j] = pc[j] /\ pending'[j] = pending[j]
    BY <1>1, <2>1 DEF DataType
  <2>5. PosAt(i)' /\ ReadyAt(i)'
    BY <1>1, <2>1, <2>3 DEF PosAt, ReadyAt
  <2> QED BY <2>1, <2>2, <2>3, <2>4, <2>5, RowFrame
<1>11. CASE StepDone(i)
  <2>1. /\ pc[i] = "step" /\ pc' = [pc EXCEPT ![i] = "end"]
        /\ pending' = [pending EXCEPT ![i] = -1]
        /\ UNCHANGED <<seqVars, workerVars, pos, kv>>
    BY <1>11 DEF StepDone
  <2>2. DataType'
    BY <1>1, <2>1 DEF DataType
  <2>3. pc'[i] = "end" /\ pending'[i] = -1 /\ i \notin batch /\ state[i] = "OFF"
    BY <1>1, <2>1 DEF DataType
  <2>4. \A j \in Slots \ {i} : pc'[j] = pc[j] /\ pending'[j] = pending[j]
    BY <1>1, <2>1 DEF DataType
  <2>5. PosAt(i)' /\ ReadyAt(i)'
    BY <1>1, <2>1, <2>3 DEF PosAt, ReadyAt
  <2> QED BY <2>1, <2>2, <2>3, <2>4, <2>5, RowFrame
\* engine_gen_step hands out a row.
<1>12. ASSUME pc[i] = "step", TakeRow(i)
       PROVE  /\ pos' \in [Slots -> 0 .. MaxCtx] /\ pending' \in [Slots -> -1 .. MaxCtx]
              /\ pos[i] < MaxCtx /\ pos'[i] = pos[i] + 1 /\ pending'[i] = pos[i]
              /\ pos[i] <= kv[i] /\ i \notin batch /\ state[i] = "OFF"
              /\ \A j \in Slots \ {i} : pos'[j] = pos[j] /\ pending'[j] = pending[j]
  <2>1. pos[i] < MaxCtx /\ pos' = [pos EXCEPT ![i] = pos[i] + 1]
          /\ pending' = [pending EXCEPT ![i] = pos[i]]
    BY <1>1, <1>2, <1>12, ContextFits DEF TakeRow, DataType
  <2>2. pos[i] <= kv[i] /\ i \notin batch /\ state[i] = "OFF"
    BY <1>1, <1>12 DEF PosAt
  <2>3. pos' \in [Slots -> 0 .. MaxCtx] /\ pos'[i] = pos[i] + 1
    BY <1>1, <1>2, <2>1 DEF DataType
  <2>4. pending' \in [Slots -> -1 .. MaxCtx] /\ pending'[i] = pos[i]
    BY <1>1, <1>2, <2>1 DEF DataType
  <2>5. \A j \in Slots \ {i} : pos'[j] = pos[j] /\ pending'[j] = pending[j]
    BY <1>1, <2>1 DEF DataType
  <2> QED BY <2>1, <2>2, <2>3, <2>4, <2>5
<1>13. CASE StepAbandoned(i)
  <2>1. /\ pc[i] = "step" /\ pc' = [pc EXCEPT ![i] = "end"] /\ TakeRow(i)
        /\ UNCHANGED <<seqVars, workerVars, kv>>
    BY <1>13 DEF StepAbandoned
  <2>2. DataType'
    BY <1>1, <1>12, <2>1 DEF DataType
  <2>3. pc'[i] = "end" /\ \A j \in Slots \ {i} : pc'[j] = pc[j]
    BY <1>1, <2>1
  <2>4. Claimed(i)'
    BY <1>2, <1>12, <2>1 DEF Claimed
  <2>5. PosAt(i)' /\ ReadyAt(i)'
    BY <1>12, <2>1, <2>3, <2>4 DEF PosAt, ReadyAt
  <2> QED BY <1>12, <2>1, <2>2, <2>3, <2>5, RowFrame
<1>14. CASE StepForward(i)
  <2>1. /\ pc[i] = "step" /\ pc' = [pc EXCEPT ![i] = "await"] /\ TakeRow(i)
        /\ state' = [state EXCEPT ![i] = "WAIT"] /\ qpos' = [qpos EXCEPT ![i] = pos[i]]
        /\ SignalWorker /\ UNCHANGED <<qok, logits, workVars, kv>>
    BY <1>14 DEF StepForward
  <2>2. qpos' \in [Slots -> 0 .. MaxCtx]
    BY <1>1, <1>2, <2>1 DEF DataType
  <2>3. DataType'
    BY <1>1, <1>12, <2>1, <2>2 DEF DataType
  <2>4. pc'[i] = "await" /\ state'[i] = "WAIT" /\ qpos'[i] = pos[i]
    BY <1>1, <2>1 DEF DataType
  <2>5. \A j \in Slots \ {i} : pc'[j] = pc[j] /\ state'[j] = state[j] /\ qpos'[j] = qpos[j]
    BY <1>1, <2>1 DEF DataType
  <2>6. Claimed(i)'
    BY <1>2, <1>12, <2>1 DEF Claimed
  <2>7. PosAt(i)' /\ ReadyAt(i)'
    BY <1>12, <2>1, <2>4, <2>6 DEF PosAt, ReadyAt
  <2> QED BY <1>12, <2>1, <2>3, <2>5, <2>7, RowFrame
<1>15. CASE DropExpired(i)
  <2>1. /\ pc[i] = "await" /\ state[i] = "WAIT" /\ pc' = [pc EXCEPT ![i] = "end"]
        /\ state' = [state EXCEPT ![i] = "OFF"]
        /\ UNCHANGED <<qpos, qok, workerVars, kvVars>>
    BY <1>15 DEF DropExpired, CanDrop
  <2>2. DataType'
    BY <1>1, <2>1 DEF DataType
  <2>3. pc'[i] = "end" /\ state'[i] = "OFF" /\ i \notin batch /\ Claimed(i)
    BY <1>1, <2>1 DEF PosAt
  <2>4. \A j \in Slots \ {i} : pc'[j] = pc[j] /\ state'[j] = state[j]
    BY <1>1, <2>1
  <2>5. PosAt(i)' /\ ReadyAt(i)'
    BY <2>1, <2>3 DEF PosAt, ReadyAt, Claimed
  <2> QED BY <2>1, <2>2, <2>3, <2>4, <2>5, RowFrame
<1>16. CASE ForwardReturns(i)
  <2>1. /\ pc[i] = "await" /\ state[i] = "READY"
        /\ pc' = [pc EXCEPT ![i] = IF qok[i] THEN "step" ELSE "end"]
        /\ state' = [state EXCEPT ![i] = "OFF"]
        /\ UNCHANGED <<qpos, qok, workerVars, kvVars>>
    <3>1. ~stop
      BY <1>16 DEF ForwardReturns, Ctl, StopIsLast
    <3> QED BY <1>16, <3>1 DEF ForwardReturns
  <2>2. DataType'
    BY <1>1, <2>1 DEF DataType
  <2>3. state'[i] = "OFF" /\ i \notin batch /\ Claimed(i) /\ qpos[i] = pending[i]
    BY <1>1, <2>1 DEF PosAt
  <2>4. pc'[i] = (IF qok[i] THEN "step" ELSE "end")
    BY <1>1, <2>1
  <2>5. \A j \in Slots \ {i} : pc'[j] = pc[j] /\ state'[j] = state[j]
    BY <1>1, <2>1
  <2>6. PosAt(i)' /\ ReadyAt(i)'
    <3>1. CASE qok[i]
      <4>1. pc'[i] = "step" /\ kv[i] = qpos[i] + 1 /\ (Narrow => logits[i] = Forward(i))
        BY <1>1, <2>1, <2>4, <3>1 DEF ReadyAt
      <4>2. pos[i] <= kv[i]
        BY <1>2, <2>3, <4>1 DEF Claimed
      <4> QED BY <2>1, <2>3, <4>1, <4>2 DEF PosAt, ReadyAt, Forward
    <3>2. CASE ~qok[i]
      BY <2>1, <2>3, <2>4, <3>2 DEF PosAt, ReadyAt, Claimed
    <3> QED BY <3>1, <3>2
  <2> QED BY <2>1, <2>2, <2>3, <2>5, <2>6, RowFrame
<1>17. CASE End(i)
  <2>1. /\ pc[i] = "end" /\ pc' = [pc EXCEPT ![i] = "idle"] /\ SignalWorker
        /\ pos' = IF pending[i] >= 0 THEN [pos EXCEPT ![i] = pending[i]] ELSE pos
        /\ pending' = [pending EXCEPT ![i] = -1]
        /\ qpos' = [qpos EXCEPT ![i] = 0] /\ qok' = [qok EXCEPT ![i] = FALSE]
        /\ logits' = [logits EXCEPT ![i] = NoRow]
        /\ UNCHANGED <<state, workVars, kv>>
    BY <1>17 DEF End, GiveBack, Answered
  <2>2. pos' \in [Slots -> 0 .. MaxCtx] /\ \A j \in Slots \ {i} : pos'[j] = pos[j]
    BY <1>1, <1>2, <2>1 DEF DataType
  <2>3. qpos' \in [Slots -> 0 .. MaxCtx] /\ qok' \in [Slots -> BOOLEAN]
    BY <1>1, <2>1 DEF DataType
  <2>4. logits' = [j \in Slots |-> logits'[j]] /\ \A j \in Slots \ {i} : logits'[j] = logits[j]
    BY <1>1, <2>1 DEF DataType
  <2>5. pending' \in [Slots -> -1 .. MaxCtx]
    BY <1>1, <2>1 DEF DataType
  <2>6. DataType'
    BY <1>1, <2>1, <2>2, <2>3, <2>4, <2>5 DEF DataType
  <2>7. pc'[i] = "idle" /\ i \notin batch /\ state[i] = "OFF"
    BY <1>1, <2>1
  <2>8. \A j \in Slots \ {i} : /\ pc'[j] = pc[j] /\ qpos'[j] = qpos[j] /\ qok'[j] = qok[j]
                               /\ pending'[j] = pending[j]
    BY <1>1, <2>1 DEF DataType
  <2>9. pos'[i] <= kv[i]
    BY <1>1, <1>2, <2>1 DEF DataType, PosAt, Claimed
  <2>10. PosAt(i)' /\ ReadyAt(i)'
    BY <2>1, <2>7, <2>9 DEF PosAt, ReadyAt
  <2> QED BY <2>1, <2>2, <2>4, <2>6, <2>7, <2>8, <2>10, RowFrame
<1>18. CASE SoloForward(i)
  <2>1. /\ pc[i] = "solo" /\ pos[i] < MaxCtx /\ pos' = [pos EXCEPT ![i] = pos[i] + 1]
        /\ kv' = [kv EXCEPT ![i] = pos[i] + 1]
        /\ UNCHANGED <<seqVars, workerVars, pc, pending>>
    BY <1>1, <1>2, <1>18, ContextFits DEF SoloForward, DataType
  <2>2. pos' \in [Slots -> 0 .. MaxCtx] /\ pos'[i] = pos[i] + 1
    BY <1>1, <1>2, <2>1 DEF DataType
  <2>3. kv' \in [Slots -> 0 .. MaxCtx + 1] /\ kv'[i] = pos[i] + 1
    BY <1>1, <1>2, <2>1 DEF DataType
  <2>4. \A j \in Slots \ {i} : pos'[j] = pos[j] /\ kv'[j] = kv[j]
    BY <1>1, <2>1 DEF DataType
  <2>5. pc' = [pc EXCEPT ![i] = "solo"]
    BY <1>1, <2>1
  <2>6. pos'[i] <= kv'[i]
    BY <1>2, <2>2, <2>3
  <2>7. "solo" \in SlotPc \ {"step", "await", "end"}
    BY DEF SlotPc
  <2> QED BY <1>3, <2>1, <2>2, <2>3, <2>4, <2>5, <2>6, <2>7
<1>19. CASE SoloEnd(i)
  BY <1>4, <1>19 DEF SoloEnd, Answered, SlotPc
<1>20. CASE Embed(i)
  <2>1. /\ pc[i] = "embed" /\ pc' = [pc EXCEPT ![i] = "idle"]
        /\ pos' = [pos EXCEPT ![i] = 0] /\ kv' = [kv EXCEPT ![i] = 0]
        /\ UNCHANGED <<seqVars, workerVars, pending>>
    BY <1>20 DEF Embed, Answered
  <2>2. pos' \in [Slots -> 0 .. MaxCtx] /\ pos'[i] = 0
    BY <1>1, <2>1 DEF DataType
  <2>3. kv' \in [Slots -> 0 .. MaxCtx + 1] /\ kv'[i] = 0
    BY <1>1, <2>1 DEF DataType
  <2>4. \A j \in Slots \ {i} : pos'[j] = pos[j] /\ kv'[j] = kv[j]
    BY <1>1, <2>1 DEF DataType
  <2>5. pos'[i] <= kv'[i]
    BY <2>2, <2>3
  <2>6. "idle" \in SlotPc \ {"step", "await", "end"}
    BY DEF SlotPc
  <2> QED BY <1>3, <2>1, <2>2, <2>3, <2>4, <2>5, <2>6
<1>21. CASE SlotExit(i)
  BY <1>4, <1>21 DEF SlotExit, SlotPc
<1> QED BY <1>5, <1>6, <1>7, <1>8, <1>9, <1>10, <1>11, <1>13, <1>14, <1>15, <1>16,
           <1>17, <1>18, <1>19, <1>20, <1>21 DEF SlotStep

\* The clients, the clock and server_run touch none of this.
LEMMA RowOthers ==
  ASSUME Ctl, RowInv, UNCHANGED scenario, MainStep \/ Environment \/ Ended
  PROVE  RowInv'
<1> USE DEF workerVars, seqVars, slotVars, kvVars, workVars
<1>1. ASSUME NEW i \in Slots, Arrive(i) PROVE RowInv'
  <2>1. /\ pc[i] = "idle" /\ UNCHANGED <<seqVars, workerVars, kvVars>>
        /\ pc' = [pc EXCEPT ![i] = "take"] \/ pc' = [pc EXCEPT ![i] = "embed"]
             \/ pc' = [pc EXCEPT ![i] = "rewind"]
    BY <1>1 DEF Arrive, EnterTurn
  <2>2. pc \in [Slots -> SlotPc] /\ i \notin batch /\ state[i] = "OFF"
    BY <2>1 DEF Ctl, CtlType, QueueConsistent
  <2>3. pc'[i] \in {"take", "embed", "rewind"} /\ \A j \in Slots \ {i} : pc'[j] = pc[j]
    BY <2>1, <2>2
  <2>4. DataType'
    BY <2>1 DEF RowInv, DataType
  <2>5. PosAt(i)' /\ ReadyAt(i)'
    BY <2>1, <2>2, <2>3 DEF RowInv, PosAt, ReadyAt
  <2> QED BY <2>1, <2>2, <2>3, <2>4, <2>5, RowFrame
<1>2. ASSUME UNCHANGED <<seqVars, logits, workVars, pc, kvVars>>, wpc' = wpc \/ SignalWorker
      PROVE  RowInv'
  <2>1. wpc' = wpc \/ (wpc \notin {"decode", "give", "post"}
                         /\ wpc' \notin {"decode", "give", "post"})
    BY <1>2 DEF SignalWorker
  <2>2. DataType'
    BY <1>2 DEF RowInv, DataType
  <2>3. PassInv'
    <3>1. CASE wpc' = wpc
      BY <1>2, <3>1 DEF RowInv, PassInv, Rank, RowAt, Forward
    <3>2. CASE wpc' # wpc
      BY <1>2, <2>1, <3>2 DEF RowInv, PassInv
    <3> QED BY <3>1, <3>2
  <2>4. \A i \in Slots : PosAt(i)' /\ ReadyAt(i)'
    BY <1>2 DEF RowInv, PosAt, ReadyAt, Claimed, Forward
  <2> QED BY <2>2, <2>3, <2>4 DEF RowInv
<1>3. CASE MainStep
  BY <1>2, <1>3 DEF MainStep, SchedStop, SchedFree
<1>4. CASE Environment
  <2>1. CASE \E i \in Slots : Arrive(i)
    BY <1>1, <2>1
  <2>2. CASE \E i \in Slots : Expire(i) \/ HangUp(i)
    BY <1>2, <2>2 DEF Expire, HangUp
  <2>3. CASE RequestStop
    BY <1>2, <2>3 DEF RequestStop
  <2>4. CASE SpuriousWake
    BY <1>2, <2>4 DEF SpuriousWake
  <2> QED BY <1>4, <2>1, <2>2, <2>3, <2>4 DEF Environment
<1>5. CASE Ended
  BY <1>2, <1>5 DEF Ended, vars
<1> QED BY <1>3, <1>4, <1>5

LEMMA RowStep == ASSUME Ctl, RowInv, [Next]_vars PROVE RowInv'
<1>1. CASE Next
  <2>1. UNCHANGED scenario
    BY <1>1 DEF Next
  <2> QED BY <1>1, <2>1, RowWorkerStep, RowSlotStep, RowOthers DEF Next
<1>2. CASE UNCHANGED vars
  <2> USE DEF vars, workerVars, seqVars, slotVars, kvVars, workVars
  <2>2. DataType'
    BY <1>2 DEF RowInv, DataType
  <2>3. PassInv'
    BY <1>2 DEF RowInv, PassInv, Rank, RowAt, Forward
  <2>4. \A i \in Slots : PosAt(i)' /\ ReadyAt(i)'
    BY <1>2 DEF RowInv, PosAt, ReadyAt, Claimed, Forward
  <2> QED BY <2>2, <2>3, <2>4 DEF RowInv
<1> QED BY <1>1, <1>2

\* RowInv is an invariant of every scheduler.
THEOREM RowInvariant == Spec => []RowInv
<1>1. Init => Ctl /\ RowInv
  BY InitCtl, InitRow
<1>2. Ctl /\ RowInv /\ [Next]_vars => (Ctl /\ RowInv)'
  BY NextCtl, RowStep
<1> QED BY <1>1, <1>2, PTL DEF Spec

\* Between requests no slot claims a row of its KV cache that was not computed, and no
\* forward leaves a gap, whatever the width (engine_gen_end, sched_forward).
THEOREM CacheIsBacked == Spec => []CacheBacksPos
<1>1. Ctl /\ RowInv => CacheBacksPos
  <2> SUFFICES ASSUME Ctl, RowInv, NEW i \in Slots
               PROVE  /\ ~InRequest(i) => pos[i] <= kv[i]
                      /\ state[i] # "OFF" => qpos[i] <= kv[i]
    BY DEF CacheBacksPos
  <2>1. PosAt(i) /\ (state[i] # "OFF" => pc[i] = "await")
    BY DEF RowInv, Ctl, QueueConsistent
  <2> QED BY <2>1 DEF PosAt, Claimed, InRequest
<1> QED BY <1>1, ControlInvariant, RowInvariant, PTL

\* A slot samples from the row of the forward it asked for when the slots fit one
\* staged pass and one solo forward, or no model is on a device
\* (model_batch_decode, CopyHome).  Beyond that width the property fails, as the run
\* sched_overwide shows.
THEOREM RowIsOwn == Spec => [](Narrow => ReadsOwnRow)
<1>1. RowInv => (Narrow => ReadsOwnRow)
  BY DEF RowInv, ReadyAt, ReadsOwnRow
<1> QED BY <1>1, RowInvariant, PTL

-----------------------------------------------------------------------------
(* The deadline.                                                           *)

LEMMA InitLate == Init => LateInv
BY DEF Init, LateInv, LateAt

\* One slot's request moves.
LEMMA LateFrame ==
  ASSUME LateInv, NEW i \in Slots,
         \A j \in Slots \ {i} :
           /\ pc'[j] = pc[j] /\ cont'[j] = cont[j] /\ kind'[j] = kind[j]
           /\ late'[j] = late[j] /\ deadline'[j] = deadline[j],
         kind' \in [Slots -> Kinds \cup {"none"}], late' \in [Slots -> 0 .. 2],
         deadline' \in [Slots -> {"none", "running", "passed"}], LateAt(i)'
  PROVE  LateInv'
<1>1. ASSUME NEW j \in Slots PROVE LateAt(j)'
  <2>1. CASE j # i
    BY <2>1 DEF LateInv, LateAt
  <2> QED BY <2>1
<1> QED BY <1>1 DEF LateInv

LEMMA LateStutter ==
  ASSUME LateInv, UNCHANGED <<pc, cont, kind, deadline, late>> PROVE LateInv'
BY DEF LateInv, LateAt

LEMMA LateSlotStep ==
  ASSUME Ctl, LateInv, NEW i \in Slots, SlotStep(i) PROVE LateInv'
<1>1. /\ pc \in [Slots -> SlotPc]
      /\ cont \in [Slots -> {"none", "rewind", "prefill", "solo", "embed"}]
      /\ kind \in [Slots -> Kinds \cup {"none"}] /\ late \in [Slots -> 0 .. 2]
      /\ deadline \in [Slots -> {"none", "running", "passed"}] /\ LateAt(i)
  BY DEF Ctl, CtlType, LateInv
\* The request leaves the slot.
<1>2. ASSUME Answered(i), cont' = cont, pc[i] \notin {"take", "turn"} PROVE LateInv'
  <2>1. /\ pc' = [pc EXCEPT ![i] = "idle"] /\ kind' = [kind EXCEPT ![i] = "none"]
        /\ deadline' = [deadline EXCEPT ![i] = "none"] /\ late' = [late EXCEPT ![i] = 0]
    BY <1>2 DEF Answered
  <2>2. /\ kind' \in [Slots -> Kinds \cup {"none"}] /\ late' \in [Slots -> 0 .. 2]
        /\ deadline' \in [Slots -> {"none", "running", "passed"}]
    BY <1>1, <2>1
  <2>3. LateAt(i)'
    BY <1>1, <1>2, <2>1 DEF LateAt
  <2>4. \A j \in Slots \ {i} :
           /\ pc'[j] = pc[j] /\ kind'[j] = kind[j]
           /\ late'[j] = late[j] /\ deadline'[j] = deadline[j]
    BY <1>1, <2>1
  <2> QED BY <1>2, <2>2, <2>3, <2>4, LateFrame
\* It moves on without a token.
<1>3. ASSUME NEW p \in SlotPc \ {"solo"}, pc' = [pc EXCEPT ![i] = p],
             UNCHANGED <<cont, kind, deadline, late>>, pc[i] \notin {"take", "end", "solo"},
             p \in {"take", "turn"} \/ cont[i] = "none"
      PROVE  LateInv'
  <2>1. LateAt(i)'
    BY <1>1, <1>3 DEF LateAt
  <2>2. \A j \in Slots \ {i} : pc'[j] = pc[j]
    BY <1>1, <1>3
  <2> QED BY <1>1, <1>3, <2>1, <2>2, LateFrame
\* It queues for the turn, or needs none.
<1>4. ASSUME NEW p \in {"rewind", "prefill", "solo", "embed"}, EnterTurn(i, p),
             UNCHANGED <<kind, deadline, late>>, pc[i] \notin {"take", "turn", "end", "solo"},
             p = "solo" => kind[i] = "solo"
      PROVE  LateInv'
  <2>1. \/ pc' = [pc EXCEPT ![i] = "take"] /\ cont' = [cont EXCEPT ![i] = p]
        \/ pc' = [pc EXCEPT ![i] = p] /\ cont' = cont
    BY <1>4 DEF EnterTurn
  <2>2. LateAt(i)'
    BY <1>1, <1>4, <2>1 DEF LateAt
  <2>3. \A j \in Slots \ {i} : pc'[j] = pc[j] /\ cont'[j] = cont[j]
    BY <1>1, <2>1
  <2> QED BY <1>1, <1>4, <2>2, <2>3, LateFrame
\* engine_gen_step: a token may be late, by one since the last look at the clock.
<1>5. ASSUME pc[i] = "step", CountLate(i) \/ UNCHANGED late,
             UNCHANGED <<cont, kind, deadline>>,
             NEW p \in {"end", "await"}, pc' = [pc EXCEPT ![i] = p],
             p = "await" => deadline[i] # "passed"
      PROVE  LateInv'
  <2>1. late[i] = 0 /\ cont[i] = "none"
    BY <1>1, <1>5 DEF LateAt
  <2>2. /\ late' \in [Slots -> 0 .. 2] /\ \A j \in Slots \ {i} : late'[j] = late[j]
        /\ late'[i] = (IF deadline[i] = "passed" THEN 1 ELSE 0) \/ late'[i] = 0
    <3>1. CASE UNCHANGED late
      BY <1>1, <2>1, <3>1
    <3>2. CASE CountLate(i)
      <4>1. late' = [late EXCEPT ![i] = IF deadline[i] = "passed" THEN 1 ELSE 0]
        BY <1>1, <2>1, <3>2 DEF CountLate
      <4> QED BY <1>1, <4>1
    <3> QED BY <1>5, <3>1, <3>2
  <2>3. LateAt(i)'
    BY <1>1, <1>5, <2>1, <2>2 DEF LateAt
  <2>4. \A j \in Slots \ {i} : pc'[j] = pc[j]
    BY <1>1, <1>5
  <2> QED BY <1>1, <1>5, <2>2, <2>3, <2>4, LateFrame
<1> USE DEF reqVars
<1>6. CASE SlotTake(i)
  <2>1. /\ pc[i] = "take" /\ pc' = [pc EXCEPT ![i] = "turn"]
        /\ UNCHANGED <<cont, kind, deadline, late>>
    BY <1>6 DEF SlotTake
  <2>2. LateAt(i)' /\ \A j \in Slots \ {i} : pc'[j] = pc[j]
    BY <1>1, <2>1 DEF LateAt
  <2> QED BY <1>1, <2>1, <2>2, LateFrame
<1>7. CASE SlotAdmitted(i)
  <2>1. /\ pc[i] = "turn" /\ pc' = [pc EXCEPT ![i] = cont[i]]
        /\ cont' = [cont EXCEPT ![i] = "none"] /\ UNCHANGED <<kind, deadline, late>>
    BY <1>7 DEF SlotAdmitted
  <2>2. pc'[i] = cont[i] /\ cont'[i] = "none" /\ late[i] = 0
    BY <1>1, <2>1 DEF LateAt
  <2>3. LateAt(i)'
    BY <1>1, <2>1, <2>2 DEF LateAt
  <2>4. \A j \in Slots \ {i} : pc'[j] = pc[j] /\ cont'[j] = cont[j]
    BY <1>1, <2>1
  <2> QED BY <1>1, <2>1, <2>3, <2>4, LateFrame
<1>8. CASE Rewind(i)
  BY <1>1, <1>3, <1>8 DEF Rewind, SlotPc, LateAt
<1>9. CASE PrefillOverflow(i)
  BY <1>2, <1>9 DEF PrefillOverflow
<1>10. CASE PrefillChunk(i)
  <2>1. CASE kind[i] = "solo" /\ EnterTurn(i, "solo") /\ UNCHANGED reqVars
    BY <1>4, <1>10, <2>1 DEF PrefillChunk
  <2>2. CASE pc' = [pc EXCEPT ![i] = "begin"] /\ UNCHANGED cont /\ UNCHANGED reqVars
    BY <1>1, <1>3, <1>10, <2>2 DEF PrefillChunk, SlotPc, LateAt
  <2>3. CASE Answered(i) /\ UNCHANGED cont
    BY <1>2, <1>10, <2>3 DEF PrefillChunk
  <2>4. CASE EnterTurn(i, "prefill") /\ UNCHANGED reqVars
    BY <1>4, <1>10, <2>4 DEF PrefillChunk
  <2> QED BY <1>10, <2>1, <2>2, <2>3, <2>4 DEF PrefillChunk
<1>11. CASE Begin(i)
  BY <1>1, <1>3, <1>11 DEF Begin, SlotPc, LateAt
<1>12. CASE StepDone(i)
  BY <1>5, <1>12 DEF StepDone
<1>13. CASE StepAbandoned(i)
  BY <1>5, <1>13 DEF StepAbandoned, TakeRow
<1>14. CASE StepForward(i)
  BY <1>5, <1>14 DEF StepForward, TakeRow, Quits
<1>15. CASE DropExpired(i)
  BY <1>1, <1>3, <1>15 DEF DropExpired, SlotPc, LateAt
<1>16. CASE ForwardReturns(i)
  <2>1. PICK p \in {"step", "end"} : pc' = [pc EXCEPT ![i] = p]
    BY <1>16 DEF ForwardReturns
  <2> QED BY <1>1, <1>3, <1>16, <2>1 DEF ForwardReturns, SlotPc, LateAt
<1>17. CASE End(i)
  BY <1>2, <1>17 DEF End
<1>18. CASE SoloForward(i)
  <2>1. /\ pc[i] = "solo" /\ pc' = pc /\ UNCHANGED <<cont, kind, deadline>>
        /\ late' = [late EXCEPT ![i] =
             IF deadline[i] = "passed" /\ late[i] < 2 THEN late[i] + 1 ELSE late[i]]
    BY <1>1, <1>18 DEF SoloForward, CountLate
  <2>2. late[i] \in 0 .. 2
    BY <1>1
  <2>3. late' \in [Slots -> 0 .. 2] /\ \A j \in Slots \ {i} : late'[j] = late[j]
    BY <1>1, <2>1, <2>2
  <2>4. deadline[i] # "passed" => late'[i] = late[i]
    BY <1>1, <2>1
  <2>5. LateAt(i)'
    BY <1>1, <2>1, <2>4 DEF LateAt
  <2> QED BY <1>1, <2>1, <2>3, <2>5, LateFrame
<1>19. CASE SoloEnd(i)
  BY <1>2, <1>19 DEF SoloEnd
<1>20. CASE Embed(i)
  BY <1>2, <1>20 DEF Embed
<1>21. CASE SlotExit(i)
  BY <1>1, <1>3, <1>21 DEF SlotExit, SlotPc, LateAt
<1> QED BY <1>6, <1>7, <1>8, <1>9, <1>10, <1>11, <1>12, <1>13, <1>14, <1>15, <1>16,
           <1>17, <1>18, <1>19, <1>20, <1>21 DEF SlotStep

LEMMA LateStep == ASSUME Ctl, LateInv, [Next]_vars PROVE LateInv'
<1> USE DEF slotVars, reqVars
<1>1. /\ pc \in [Slots -> SlotPc] /\ late \in [Slots -> 0 .. 2]
      /\ cont \in [Slots -> {"none", "rewind", "prefill", "solo", "embed"}]
      /\ kind \in [Slots -> Kinds \cup {"none"}] /\ late \in [Slots -> 0 .. 2]
      /\ deadline \in [Slots -> {"none", "running", "passed"}]
  BY DEF Ctl, CtlType, LateInv
<1>2. CASE WorkerStep
  BY <1>2, LateStutter DEF WorkerStep, WorkerLook, WorkerRelook, GatherTimeout, WorkerTake,
     WorkerAdmitted, DecodePass, CopyHome, WorkerGive, WorkerPost
<1>3. CASE \E i \in Slots : SlotStep(i)
  BY <1>3, LateSlotStep
<1>4. CASE MainStep \/ RequestStop \/ SpuriousWake \/ Ended \/ UNCHANGED vars
  BY <1>4, LateStutter DEF MainStep, SchedStop, SchedFree, RequestStop, SpuriousWake, Ended, vars
<1>5. ASSUME NEW i \in Slots, Arrive(i) PROVE LateInv'
  <2>1. PICK k \in Kinds, d \in {"none", "running"} :
          /\ kind' = [kind EXCEPT ![i] = k] /\ deadline' = [deadline EXCEPT ![i] = d]
          /\ EnterTurn(i, IF k = "embed" THEN "embed" ELSE "rewind")
    BY <1>5 DEF Arrive
  <2>2. PICK p \in {"embed", "rewind"} :
          \/ pc' = [pc EXCEPT ![i] = "take"] /\ cont' = [cont EXCEPT ![i] = p]
          \/ pc' = [pc EXCEPT ![i] = p] /\ cont' = cont
    BY <2>1 DEF EnterTurn
  <2>3. pc[i] = "idle" /\ late' = late /\ LateAt(i)
    BY <1>5 DEF Arrive, LateInv
  <2>4. LateAt(i)'
    BY <1>1, <2>1, <2>2, <2>3 DEF LateAt
  <2>5. \A j \in Slots \ {i} : /\ pc'[j] = pc[j] /\ cont'[j] = cont[j] /\ kind'[j] = kind[j]
                               /\ deadline'[j] = deadline[j]
    BY <1>1, <2>1, <2>2
  <2>6. /\ kind' \in [Slots -> Kinds \cup {"none"}]
        /\ deadline' \in [Slots -> {"none", "running", "passed"}]
    BY <1>1, <2>1
  <2> QED BY <1>1, <2>3, <2>4, <2>5, <2>6, LateFrame
<1>6. ASSUME NEW i \in Slots, Expire(i) PROVE LateInv'
  <2>1. /\ deadline[i] = "running" /\ deadline' = [deadline EXCEPT ![i] = "passed"]
        /\ UNCHANGED <<pc, cont, kind, late>>
    BY <1>6 DEF Expire
  <2>2. LateAt(i)'
    BY <1>1, <2>1 DEF LateInv, LateAt
  <2>3. \A j \in Slots \ {i} : deadline'[j] = deadline[j]
    BY <1>1, <2>1
  <2>4. deadline' \in [Slots -> {"none", "running", "passed"}]
    BY <1>1, <2>1
  <2> QED BY <1>1, <2>1, <2>2, <2>3, <2>4, LateFrame
<1>7. ASSUME NEW i \in Slots, HangUp(i) PROVE LateInv'
  BY <1>7, LateStutter DEF HangUp
<1> QED BY <1>2, <1>3, <1>4, <1>5, <1>6, <1>7 DEF Next, Environment

\* A generation that goes through the batch ends with its deadline: at most the token
\* being sampled at that moment is still sent (sched_generate).  A speculative one need
\* not, as the run sched_solo shows.
THEOREM BatchedEndsAtDeadline == Spec => []EndsAtDeadline
<1>1. Init => Ctl /\ LateInv
  BY InitCtl, InitLate
<1>2. Ctl /\ LateInv /\ [Next]_vars => (Ctl /\ LateInv)'
  BY NextCtl, LateStep
<1>3. LateInv => EndsAtDeadline
  BY DEF LateInv, LateAt, EndsAtDeadline
<1> QED BY <1>1, <1>2, <1>3, PTL DEF Spec

-----------------------------------------------------------------------------
(* The decode service.                                                     *)

\* What a slot sees of the scheduler.
Asked == [i \in Slots |-> IF state[i] = "OFF" THEN NoRow ELSE <<i, qpos[i]>>]
Answer == [i \in Slots |->
  IF state[i] # "READY" THEN "none" ELSE IF qok[i] THEN "row" ELSE "refused"]
Row == [i \in Slots |-> IF state[i] = "READY" /\ qok[i] THEN logits[i] ELSE NoRow]
view == <<Asked, batch, Answer, Row>>

LEMMA OpenRequests ==
  Service!Open = {i \in Slots : state[i] \notin {"OFF", "READY"}}
<1>1. \A i \in Slots : <<i, qpos[i]>> # NoRow
  BY SchedulerAssumption DEF Slots, NoRow
<1> QED BY <1>1 DEF Service!Open

\* A step that moves no sequence changes nothing a slot sees.
LEMMA ViewKept ==
  ASSUME batch' = batch, state' = state,
         \A i \in Slots : /\ state[i] # "OFF" => qpos'[i] = qpos[i]
                          /\ state[i] = "READY" => qok'[i] = qok[i] /\ logits'[i] = logits[i]
  PROVE  UNCHANGED view
<1>1. ASSUME NEW i \in Slots
      PROVE  Asked'[i] = Asked[i] /\ Answer'[i] = Answer[i] /\ Row'[i] = Row[i]
  BY DEF Asked, Answer, Row
<1>2. Asked' = Asked
  BY <1>1 DEF Asked
<1>3. Answer' = Answer
  BY <1>1 DEF Answer
<1>4. Row' = Row
  BY <1>1 DEF Row
<1> QED BY <1>2, <1>3, <1>4 DEF view

\* The cut is the service's Take.
LEMMA CutTakes ==
  ASSUME Ctl, Cut, logits' = logits, wpc \in {"look", "gather", "regather"}
  PROVE  Service!Take \/ UNCHANGED view
<1>1. batch = {} /\ Service!Open = Waiting
  BY OpenRequests DEF Ctl, CtlType, QueueConsistent, Waiting
<1>2. /\ batch' = Waiting /\ UNCHANGED <<qpos, qok>>
      /\ state' = [i \in Slots |-> IF i \in Waiting THEN "INFLIGHT" ELSE state[i]]
  BY DEF Cut
<1>3. ASSUME NEW i \in Slots
      PROVE  Asked'[i] = Asked[i] /\ Answer'[i] = Answer[i] /\ Row'[i] = Row[i]
  <2>1. state'[i] = state[i] \/ (state[i] = "WAIT" /\ state'[i] = "INFLIGHT")
    BY <1>2 DEF Waiting
  <2> QED BY <1>2, <2>1 DEF Asked, Answer, Row
<1>4. Asked' = Asked /\ Answer' = Answer /\ Row' = Row
  <2>1. Asked' = Asked
    BY <1>3 DEF Asked
  <2>2. Answer' = Answer
    BY <1>3 DEF Answer
  <2>3. Row' = Row
    BY <1>3 DEF Row
  <2> QED BY <2>1, <2>2, <2>3
<1>5. CASE Waiting = {}
  BY <1>1, <1>2, <1>4, <1>5 DEF view
<1>6. CASE Waiting # {}
  BY <1>1, <1>2, <1>4, <1>6 DEF Service!Take, Asked, Answer, Row
<1> QED BY <1>5, <1>6

\* Handing the batch back is the service's Resolve: with the rows asked for, or none.
LEMMA PostResolves ==
  ASSUME Ctl, RowInv, Narrow, WorkerPost
  PROVE  Service!Resolve \/ UNCHANGED view
<1>1. /\ wpc = "post" /\ batch' = {}
      /\ qok' = [i \in Slots |-> IF i \in batch THEN bok ELSE qok[i]]
      /\ state' = [i \in Slots |-> IF i \in batch THEN "READY" ELSE state[i]]
      /\ UNCHANGED <<qpos, logits>>
  BY DEF WorkerPost, slotVars
<1>2. /\ batch \in SUBSET Slots /\ bok \in BOOLEAN
      /\ \A i \in batch : state[i] = "INFLIGHT"
      /\ bok => \A i \in batch : logits[i] = <<i, qpos[i]>>
  BY <1>1 DEF Ctl, CtlType, QueueConsistent, RowInv, DataType, PassInv, Forward
<1>3. ASSUME NEW i \in Slots
      PROVE  /\ Asked'[i] = Asked[i]
             /\ i \notin batch => Answer'[i] = Answer[i] /\ Row'[i] = Row[i]
             /\ i \in batch => /\ Answer'[i] = IF bok THEN "row" ELSE "refused"
                               /\ Row'[i] = IF bok THEN Asked[i] ELSE Row[i]
  <2>1. CASE i \in batch
    <3>1. state'[i] = "READY" /\ qok'[i] = bok /\ state[i] = "INFLIGHT"
      BY <1>1, <1>2, <2>1
    <3>2. bok => logits[i] = <<i, qpos[i]>>
      BY <1>2, <2>1
    <3> QED BY <1>1, <2>1, <3>1, <3>2 DEF Asked, Answer, Row
  <2>2. CASE i \notin batch
    <3>1. state'[i] = state[i] /\ qok'[i] = qok[i]
      BY <1>1, <2>2
    <3> QED BY <1>1, <2>2, <3>1 DEF Asked, Answer, Row
  <2> QED BY <2>1, <2>2
<1>4. Asked' = Asked
  BY <1>3 DEF Asked
<1>5. Answer' = [i \in Slots |-> IF i \in batch THEN (IF bok THEN "row" ELSE "refused")
                                 ELSE Answer[i]]
  BY <1>3 DEF Answer
<1>6. Row' = [i \in Slots |-> IF i \in batch /\ bok THEN Asked[i] ELSE Row[i]]
  BY <1>3 DEF Row
<1>7. CASE batch = {}
  <2>1. Answer' = Answer
    BY <1>5, <1>7 DEF Answer
  <2>2. Row' = Row
    BY <1>6, <1>7 DEF Row
  <2> QED BY <1>1, <1>4, <1>7, <2>1, <2>2 DEF view
<1>8. CASE batch # {} /\ bok
  <2>1. Answer' = [i \in Slots |-> IF i \in batch THEN "row" ELSE Answer[i]]
    BY <1>5, <1>8
  <2>2. Row' = [i \in Slots |-> IF i \in batch THEN Asked[i] ELSE Row[i]]
    BY <1>6, <1>8
  <2> QED BY <1>1, <1>4, <1>8, <2>1, <2>2 DEF Service!Resolve, Asked, Answer, Row
<1>9. CASE batch # {} /\ ~bok
  <2>1. Answer' = [i \in Slots |-> IF i \in batch THEN "refused" ELSE Answer[i]]
    BY <1>5, <1>9
  <2>2. Row' = Row
    BY <1>6, <1>9 DEF Row
  <2> QED BY <1>1, <1>4, <1>9, <2>1, <2>2 DEF Service!Resolve, Asked, Answer, Row
<1> QED BY <1>7, <1>8, <1>9

LEMMA WorkerServes ==
  ASSUME Ctl, RowInv, Narrow, WorkerStep
  PROVE  Service!Next \/ UNCHANGED view
<1> USE DEF seqVars, workVars
<1>1. \A i \in batch : state[i] = "INFLIGHT"
  BY DEF Ctl, CtlType, QueueConsistent
<1>2. ASSUME GatherOrCut, logits' = logits, wpc \in {"look", "gather", "regather"}
      PROVE  Service!Take \/ UNCHANGED view
  <2>1. CASE Cut
    BY <1>2, <2>1, CutTakes
  <2>2. CASE UNCHANGED <<seqVars, workVars>>
    BY <1>2, <2>2, ViewKept
  <2> QED BY <1>2, <2>1, <2>2 DEF GatherOrCut
<1>3. CASE WorkerLook
  <2>1. CASE UNCHANGED <<seqVars, workVars>>
    BY <1>3, <2>1, ViewKept DEF WorkerLook
  <2>2. CASE GatherOrCut
    BY <1>2, <1>3, <2>2 DEF WorkerLook, Service!Next
  <2> QED BY <1>3, <2>1, <2>2 DEF WorkerLook
<1>4. CASE WorkerRelook
  BY <1>2, <1>4 DEF WorkerRelook, Service!Next
<1>5. CASE GatherTimeout
  BY <1>5, CutTakes DEF GatherTimeout, Service!Next
<1>6. CASE WorkerTake \/ WorkerAdmitted \/ DecodePass \/ WorkerGive
  BY <1>6, ViewKept DEF WorkerTake, WorkerAdmitted, DecodePass, WorkerGive
<1>7. CASE CopyHome
  <2>1. /\ logits' = [i \in Slots |-> IF i \in batch THEN RowAt(i) ELSE logits[i]]
        /\ UNCHANGED <<state, qpos, qok, batch>>
    BY <1>7 DEF CopyHome
  <2>2. \A i \in Slots : state[i] = "READY" => logits'[i] = logits[i]
    BY <1>1, <2>1
  <2> QED BY <2>1, <2>2, ViewKept
<1>8. CASE WorkerPost
  BY <1>8, PostResolves DEF Service!Next
<1> QED BY <1>3, <1>4, <1>5, <1>6, <1>7, <1>8 DEF WorkerStep

LEMMA SlotIsServed ==
  ASSUME Ctl, RowInv, NEW i \in Slots, SlotStep(i)
  PROVE  Service!Next \/ UNCHANGED view
<1> USE DEF seqVars, workVars, workerVars, kvVars
<1>1. /\ state \in [Slots -> {"OFF", "WAIT", "INFLIGHT", "READY"}]
      /\ pc \in [Slots -> SlotPc] /\ batch \in SUBSET Slots
      /\ state[i] # "OFF" <=> pc[i] = "await"
      /\ i \in batch <=> state[i] = "INFLIGHT"
      /\ qpos \in [Slots -> 0 .. MaxCtx] /\ qok \in [Slots -> BOOLEAN]
      /\ logits = [j \in Slots |-> logits[j]] /\ pos[i] \in 0 .. MaxCtx
  BY DEF Ctl, CtlType, QueueConsistent, RowInv, DataType
<1>2. CASE SlotTake(i) \/ SlotAdmitted(i) \/ Rewind(i) \/ PrefillOverflow(i) \/ PrefillChunk(i)
             \/ Begin(i) \/ StepDone(i) \/ StepAbandoned(i) \/ SoloForward(i) \/ SoloEnd(i)
             \/ Embed(i) \/ SlotExit(i)
  <2>1. UNCHANGED <<batch, state, qpos, qok, logits>>
    BY <1>2 DEF SlotTake, SlotAdmitted, Rewind, PrefillOverflow, PrefillChunk, Begin, StepDone,
       StepAbandoned, SoloForward, SoloEnd, Embed, SlotExit
  <2> QED BY <2>1, ViewKept
<1>3. CASE StepForward(i)
  <2>1. /\ state[i] = "OFF" /\ state' = [state EXCEPT ![i] = "WAIT"]
        /\ qpos' = [qpos EXCEPT ![i] = pos[i]] /\ UNCHANGED <<batch, qok, logits>>
    BY <1>1, <1>3 DEF StepForward
  <2>2. <<i, pos[i]>> \in Forwards \ {NoRow} /\ Asked[i] = NoRow
    BY <1>1, <2>1, SchedulerAssumption DEF Forwards, NoRow, Slots, Asked
  <2>3. ASSUME NEW j \in Slots
        PROVE  /\ Asked'[j] = IF j = i THEN <<i, pos[i]>> ELSE Asked[j]
               /\ Answer'[j] = Answer[j] /\ Row'[j] = Row[j]
    BY <1>1, <2>1 DEF Asked, Answer, Row
  <2>4. Asked' = [Asked EXCEPT ![i] = <<i, pos[i]>>]
    BY <2>3 DEF Asked
  <2>5. Answer' = Answer
    BY <2>3 DEF Answer
  <2>6. Row' = Row
    BY <2>3 DEF Row
  <2>7. Service!Ask(i)
    BY <2>1, <2>2, <2>4, <2>5, <2>6 DEF Service!Ask, Asked, Answer, Row
  <2> QED BY <2>7 DEF Service!Next
<1>4. CASE DropExpired(i)
  <2>1. /\ state[i] = "WAIT" /\ state' = [state EXCEPT ![i] = "OFF"]
        /\ UNCHANGED <<batch, qpos, qok, logits>>
    BY <1>1, <1>4 DEF DropExpired, CanDrop
  <2>2. i \in Service!Open \ batch
    BY <1>1, <2>1, OpenRequests
  <2>3. ASSUME NEW j \in Slots
        PROVE  /\ Asked'[j] = IF j = i THEN NoRow ELSE Asked[j]
               /\ Answer'[j] = Answer[j] /\ Row'[j] = Row[j]
    BY <1>1, <2>1 DEF Asked, Answer, Row
  <2>4. Asked' = [Asked EXCEPT ![i] = NoRow]
    BY <2>3 DEF Asked
  <2>5. Answer' = Answer
    BY <2>3 DEF Answer
  <2>6. Row' = Row
    BY <2>3 DEF Row
  <2>7. Service!Withdraw(i)
    BY <2>1, <2>2, <2>4, <2>5, <2>6 DEF Service!Withdraw, Asked, Answer, Row
  <2> QED BY <2>7 DEF Service!Next
<1>5. CASE ForwardReturns(i)
  <2>1. /\ state[i] = "READY" /\ state' = [state EXCEPT ![i] = "OFF"]
        /\ UNCHANGED <<batch, qpos, qok, logits>>
    <3>1. pc[i] = "await" /\ ~stop
      BY <1>5 DEF ForwardReturns, Ctl, StopIsLast
    <3> QED BY <1>5, <3>1 DEF ForwardReturns
  <2>2. Answer[i] # "none"
    BY <2>1 DEF Answer
  <2>3. ASSUME NEW j \in Slots
        PROVE  /\ Asked'[j] = IF j = i THEN NoRow ELSE Asked[j]
               /\ Answer'[j] = IF j = i THEN "none" ELSE Answer[j]
               /\ Row'[j] = IF j = i THEN NoRow ELSE Row[j]
    BY <1>1, <2>1 DEF Asked, Answer, Row
  <2>4. Asked' = [Asked EXCEPT ![i] = NoRow]
    BY <2>3 DEF Asked
  <2>5. Answer' = [Answer EXCEPT ![i] = "none"]
    BY <2>3 DEF Answer
  <2>6. Row' = [Row EXCEPT ![i] = NoRow]
    BY <2>3 DEF Row
  <2>7. Service!Collect(i)
    BY <2>1, <2>2, <2>4, <2>5, <2>6 DEF Service!Collect, Asked, Answer, Row
  <2> QED BY <2>7 DEF Service!Next
<1>6. CASE End(i)
  <2>1. /\ state[i] = "OFF" /\ UNCHANGED <<batch, state>>
        /\ qpos' = [qpos EXCEPT ![i] = 0] /\ qok' = [qok EXCEPT ![i] = FALSE]
        /\ logits' = [logits EXCEPT ![i] = NoRow]
    BY <1>1, <1>6 DEF End
  <2>2. \A j \in Slots \ {i} : qpos'[j] = qpos[j] /\ qok'[j] = qok[j] /\ logits'[j] = logits[j]
    BY <1>1, <2>1
  <2> QED BY <2>1, <2>2, ViewKept
<1> QED BY <1>2, <1>3, <1>4, <1>5, <1>6 DEF SlotStep

LEMMA ServiceStep ==
  ASSUME Ctl, RowInv, Narrow, [Next]_vars
  PROVE  Service!Next \/ UNCHANGED view
<1> USE DEF seqVars, workVars, workerVars, kvVars
<1>1. CASE WorkerStep
  BY <1>1, WorkerServes
<1>2. CASE \E i \in Slots : SlotStep(i)
  BY <1>2, SlotIsServed
<1>3. CASE MainStep \/ Ended \/ UNCHANGED vars
  BY <1>3, ViewKept DEF MainStep, SchedStop, SchedFree, Ended, vars
<1>4. CASE Environment
  BY <1>4, ViewKept DEF Environment, Arrive, Expire, HangUp, RequestStop, SpuriousWake
<1> QED BY <1>1, <1>2, <1>3, <1>4 DEF Next

LEMMA ServiceInit == Init => Service!Init
<1> SUFFICES ASSUME Init PROVE Service!Init
  OBVIOUS
<1>1. \A i \in Slots : state[i] = "OFF" /\ batch = {}
  BY DEF Init
<1>2. batch = {}
  BY DEF Init
<1> QED BY <1>1, <1>2 DEF Service!Init

\* sched_forward, the gathering, the passes, the copy home and the hand-back, with every
\* deadline, hang-up and stop between them, are the one-step decode service: a forward is
\* answered with its own row, or refused, or withdrawn before the cut.
THEOREM SchedulerImplementsDecodeService ==
  ASSUME Narrow PROVE Spec => RefinesDecodeService
<1>1. Ctl /\ RowInv /\ [Next]_vars => [Service!Next]_view
  BY ServiceStep
<1> QED BY <1>1, ServiceInit, ControlInvariant, RowInvariant, PTL
        DEF Spec, RefinesDecodeService, Service!Spec, Service!vars, view, Asked, Answer, Row

=============================================================================
