----------------------------- MODULE Scheduler -----------------------------
(***************************************************************************)
(* Continuous batching: src/src/scheduler.c with the prefill and generation *)
(* loops of the slot threads that call it (src/src/completion.c, engine.c)  *)
(* and the batched decode it drives (src/src/model.c, cuda.c).              *)
(*                                                                          *)
(* One decode worker forwards one token for every sequence that waits; one  *)
(* slot thread per slot does everything else of a request.  A critical      *)
(* section under SCH.mu, or under dev_mu, is one step.  A forward is named  *)
(* by <<slot, position>>: the token is data.  The device turn is Turnstile: *)
(* its threads are the slot threads and the decode worker.                  *)
(***************************************************************************)
EXTENDS Turnstile

CONSTANTS NSlots,      \* SV.n_slots
          BatchMax,    \* model_batch_max()
          MaxCtx,      \* the longest context, in prefill chunks and generated tokens
          Scenarios    \* what a behaviour is about: one of these sets

Kinds == {"batched", "solo", "embed"}          \* of requests that clients send
Faults == {"deadline", "hangup", "stop"}       \* what may happen to them

ASSUME SchedulerAssumption ==
  /\ NSlots \in Nat \ {0, 1}        \* sched_start refuses fewer than two slots
  /\ BatchMax \in Nat \ {0}
  /\ MaxCtx \in Nat \ {0}
  /\ Threads = 0 .. NSlots
  /\ Scenarios \subseteq SUBSET (Kinds \cup Faults \cup {"gpu", "short"})

Slots == 0 .. NSlots - 1
Worker == NSlots

VARIABLES
  scenario,    \* the kinds and faults that occur; "gpu" if slot 0's model is on one,
               \* "short" if its context is one position shorter
  phase,       \* "serving", "draining" (stop requested), "down" (SCH freed)
  stop,        \* SCH.stop
  n_wait,      \* SCH.n_wait
  n_active,    \* SCH.n_active
  state,       \* SCH.seq[i].state
  qpos,        \* SCH.seq[i].pos
  qok,         \* SCH.seq[i].ok
  logits,      \* SCH.seq[i].logits: the forward whose row was copied there
  wpc,         \* where the decode worker is
  batch,       \* w_idx[0..nb-1], in slot order
  done,        \* model_batch_decode's `done`
  bok,         \* decode_worker's `ok`
  stage,       \* the backend's host rows (gpu_batch.h_logits)
  out,         \* w_out[i]: the staging row it points at, or Own
  pc,          \* where each slot thread is
  cont,        \* what the slot does once it has the device turn
  kind,        \* kind of the slot's request
  deadline,    \* "none", "running", "passed"
  gone,        \* the client closed its connection (e->stop)
  late,        \* tokens generated since the deadline passed, capped at 2
  pos,         \* engine.pos
  pending,     \* engine.pending_pos
  kv           \* rows [0, kv) of the slot's KV cache hold computed values

seqVars == <<n_wait, n_active, state, qpos, qok>>
workVars == <<batch, done, bok, stage, out>>
reqVars == <<kind, deadline, gone, late>>
kvVars == <<pos, pending, kv>>
serverVars == <<phase, stop>>
workerVars == <<logits, wpc, workVars>>
slotVars == <<pc, cont, reqVars, kvVars>>
vars == <<scenario, serverVars, seqVars, workerVars, slotVars, turnVars>>

\* SCH.device_turn, set once by sched_start: only a model on a GPU needs the turn.
device_turn == "gpu" \in scenario

n_ctx == IF "short" \in scenario THEN MaxCtx - 1 ELSE MaxCtx

Rows == 0 .. BatchMax - 1
Own == -1                        \* out[i] points at the sequence's own logits
NoRow == <<-1, -1>>
Forwards == (Slots \X (0 .. MaxCtx)) \cup {NoRow}
PosType == 0 .. MaxCtx

Waiting == {i \in Slots : state[i] = "WAIT"}

-----------------------------------------------------------------------------
(* Condition variables and the device turn.                                *)

\* Mutant: only a gathering worker is woken.
SignalWorker_GatherOnly == wpc' = IF wpc = "gather" THEN "regather" ELSE wpc

\* pthread_cond_signal(&SCH.dec_cv): a blocked worker re-reads its condition.
SignalWorker ==
  wpc' = CASE wpc = "asleep" -> "look"
           [] wpc = "gather" -> "regather"
           [] OTHER -> wpc

DevDraw(t) == Draw(t)

DevGive(t) ==
  IF device_turn
    THEN /\ dev_serving' = Bump(dev_serving)
         /\ mine' = [mine EXCEPT ![t] = NoTicket]
         /\ UNCHANGED dev_next
    ELSE UNCHANGED turnVars

\* Slot i moves to `place`, through dev_take when the turn is needed at all.
EnterTurn(i, place) ==
  IF device_turn
    THEN pc' = [pc EXCEPT ![i] = "take"] /\ cont' = [cont EXCEPT ![i] = place]
    ELSE pc' = [pc EXCEPT ![i] = place] /\ UNCHANGED cont

-----------------------------------------------------------------------------
(* The decode worker.                                                      *)

\* Mutant: always wait for a full microbatch.
Want_Full == BatchMax

Want == IF n_active < BatchMax THEN n_active ELSE BatchMax

\* Every waiting sequence joins the microbatch; an empty one starts over.
Cut ==
  /\ batch' = Waiting
  /\ state' = [i \in Slots |-> IF i \in Waiting THEN "INFLIGHT" ELSE state[i]]
  /\ n_wait' = n_wait - Cardinality(Waiting)
  /\ wpc' = IF Waiting = {} THEN "look"
            ELSE IF device_turn THEN "take" ELSE "decode"
  /\ UNCHANGED <<n_active, qpos, qok, done, bok, stage, out>>

\* One evaluation of the gather loop's condition.
GatherOrCut ==
  IF stop \/ n_wait >= Want
    THEN Cut
    ELSE wpc' = "gather" /\ UNCHANGED <<seqVars, workVars>>

WorkerLook ==
  /\ wpc = "look"
  /\ \/ stop /\ wpc' = "exit" /\ UNCHANGED <<seqVars, workVars>>
     \/ ~stop /\ n_wait = 0 /\ wpc' = "asleep" /\ UNCHANGED <<seqVars, workVars>>
     \/ ~stop /\ n_wait # 0 /\ GatherOrCut
  /\ UNCHANGED <<serverVars, logits, slotVars, turnVars>>

WorkerRelook ==
  /\ wpc = "regather"
  /\ GatherOrCut
  /\ UNCHANGED <<serverVars, logits, slotVars, turnVars>>

\* SCHED_GATHER_S passed: cut what is there.
GatherTimeout ==
  /\ wpc = "gather"
  /\ Cut
  /\ UNCHANGED <<serverVars, logits, slotVars, turnVars>>

\* POSIX allows a condition wait to return unsignalled.
SpuriousWake ==
  /\ SignalWorker /\ wpc' # wpc
  /\ UNCHANGED <<serverVars, seqVars, logits, workVars, slotVars, turnVars>>

WorkerTake ==
  /\ wpc = "take" /\ wpc' = "turn"
  /\ DevDraw(Worker)
  /\ UNCHANGED <<serverVars, seqVars, logits, workVars, slotVars>>

\* Mutant: the worker does not wait for its ticket.
WorkerAdmitted_Barges ==
  /\ wpc = "turn" /\ wpc' = "decode"
  /\ UNCHANGED <<serverVars, seqVars, logits, workVars, slotVars, turnVars>>

WorkerAdmitted ==
  /\ wpc = "turn" /\ Served(Worker) /\ wpc' = "decode"
  /\ UNCHANGED <<serverVars, seqVars, logits, workVars, slotVars, turnVars>>

-----------------------------------------------------------------------------
(* model_batch_decode: passes of at most BatchMax sequences.               *)

Rank(i) == Cardinality({j \in batch : j < i})
PassSize == LET left == Cardinality(batch) - done
            IN  IF left > BatchMax THEN BatchMax ELSE left
Pass == {i \in batch : done <= Rank(i) /\ Rank(i) < done + PassSize}
Forward(i) == <<i, qpos[i]>>

\* Computing the forward of i writes the KV row at its position.
WriteKv(S) == kv' = [i \in Slots |-> IF i \in S THEN qpos[i] + 1 ELSE kv[i]]

\* A pass of one is a solo forward into the sequence's own logits.
Staged == PassSize # 1

\* gpu_batch_decode: one launch for the whole pass, whose rows go to the host
\* staging block from row 0 up.
PassOnDevice ==
  /\ device_turn
  /\ out' = [i \in Slots |->
       IF i \notin Pass THEN out[i] ELSE IF Staged THEN Rank(i) - done ELSE Own]
  /\ stage' = [r \in Rows |->
       IF Staged /\ \E i \in Pass : Rank(i) - done = r
         THEN Forward(CHOOSE i \in Pass : Rank(i) - done = r)
         ELSE stage[r]]
  /\ WriteKv(Pass)
  /\ done' = done + PassSize
  /\ UNCHANGED <<wpc, bok>>

\* The fallback: one model_forward per sequence, each into its own logits.
PassSequential ==
  /\ out' = [i \in Slots |-> IF i \in Pass THEN Own ELSE out[i]]
  /\ WriteKv(Pass)
  /\ done' = done + PassSize
  /\ UNCHANGED <<wpc, bok, stage>>

\* Mutant: the failure is not reported.
PassFails_Silently ==
  /\ \E k \in 0 .. PassSize - 1 : WriteKv({i \in Pass : Rank(i) - done < k})
  /\ wpc' = "give" /\ bok' = TRUE
  /\ UNCHANGED <<done, stage, out>>

\* A fallback forward fails: the sequences before it in the pass have advanced.
PassFails ==
  /\ \E k \in 0 .. PassSize - 1 : WriteKv({i \in Pass : Rank(i) - done < k})
  /\ wpc' = "give" /\ bok' = FALSE
  /\ UNCHANGED <<done, stage, out>>

DecodePass ==
  /\ wpc = "decode" /\ done < Cardinality(batch)
  /\ PassOnDevice \/ PassSequential \/ PassFails
  /\ UNCHANGED <<serverVars, seqVars, logits, batch, pc, cont, reqVars, pos,
                 pending, turnVars>>

\* Mutant: rows are not copied home.
RowAt_NotCopied(i) == logits[i]

RowAt(i) == IF out[i] = Own THEN Forward(i) ELSE stage[out[i]]

\* Every pass succeeded: each row is copied to its slot.
CopyHome ==
  /\ wpc = "decode" /\ done = Cardinality(batch)
  /\ logits' = [i \in Slots |-> IF i \in batch THEN RowAt(i) ELSE logits[i]]
  /\ wpc' = "give" /\ bok' = TRUE
  /\ UNCHANGED <<serverVars, seqVars, batch, done, stage, out, slotVars, turnVars>>

WorkerGive ==
  /\ wpc = "give" /\ wpc' = "post"
  /\ DevGive(Worker)
  /\ UNCHANGED <<serverVars, seqVars, logits, workVars, slotVars>>

\* The batch is handed back (scratch is dead from here on: the model clears it).
WorkerPost ==
  /\ wpc = "post" /\ wpc' = "look"
  /\ qok' = [i \in Slots |-> IF i \in batch THEN bok ELSE qok[i]]
  /\ state' = [i \in Slots |-> IF i \in batch THEN "READY" ELSE state[i]]
  /\ batch' = {} /\ done' = 0 /\ bok' = FALSE
  /\ stage' = [r \in Rows |-> NoRow]
  /\ out' = [i \in Slots |-> Own]
  /\ UNCHANGED <<serverVars, n_wait, n_active, qpos, logits, slotVars, turnVars>>

WorkerStep ==
  \/ WorkerLook \/ WorkerRelook \/ GatherTimeout \/ WorkerTake \/ WorkerAdmitted
  \/ DecodePass \/ CopyHome \/ WorkerGive \/ WorkerPost

-----------------------------------------------------------------------------
(* The slot threads: a request from its arrival to its answer.             *)

\* A connection is handled; `timeout` may give it a deadline.
Arrive(i) ==
  /\ pc[i] = "idle" /\ phase = "serving"
  /\ \E k \in Kinds \cap scenario, d \in {"none", "running"} :
       /\ d = "running" => "deadline" \in scenario
       /\ kind' = [kind EXCEPT ![i] = k]
       /\ deadline' = [deadline EXCEPT ![i] = d]
       /\ EnterTurn(i, IF k = "embed" THEN "embed" ELSE "rewind")
  /\ UNCHANGED <<serverVars, seqVars, workerVars, gone, late, kvVars, turnVars>>

SlotTake(i) ==
  /\ pc[i] = "take" /\ pc' = [pc EXCEPT ![i] = "turn"]
  /\ DevDraw(i)
  /\ UNCHANGED <<serverVars, seqVars, workerVars, cont, reqVars, kvVars>>

SlotAdmitted(i) ==
  /\ pc[i] = "turn" /\ Served(i)
  /\ pc' = [pc EXCEPT ![i] = cont[i]] /\ cont' = [cont EXCEPT ![i] = "none"]
  /\ UNCHANGED <<serverVars, seqVars, workerVars, reqVars, kvVars, turnVars>>

\* The request leaves the slot; what it kept in gen_ctx and client_stop dies.
Answered(i) ==
  /\ pc' = [pc EXCEPT ![i] = "idle"]
  /\ kind' = [kind EXCEPT ![i] = "none"]
  /\ deadline' = [deadline EXCEPT ![i] = "none"]
  /\ gone' = [gone EXCEPT ![i] = FALSE]
  /\ late' = [late EXCEPT ![i] = 0]

\* engine_rewind: keep any prefix of the slot's own cache.
Rewind(i) ==
  /\ pc[i] = "rewind" /\ pc' = [pc EXCEPT ![i] = "prefill"]
  /\ \E keep \in 0 .. pos[i] : pos' = [pos EXCEPT ![i] = keep]
  /\ UNCHANGED <<serverVars, seqVars, workerVars, cont, reqVars, pending, kv,
                 turnVars>>

\* Mutant: the early return forgets sched_prefill_end.
PrefillOverflow_KeepsTurn(i) ==
  /\ pc[i] = "prefill" /\ pos[i] = n_ctx
  /\ Answered(i)
  /\ UNCHANGED <<serverVars, seqVars, workerVars, cont, kvVars, turnVars>>

\* The prompt does not fit: engine_feed returns NULL and the client gets a 400.
PrefillOverflow(i) ==
  /\ pc[i] = "prefill" /\ pos[i] = n_ctx
  /\ DevGive(i)
  /\ Answered(i)
  /\ UNCHANGED <<serverVars, seqVars, workerVars, cont, kvVars>>

\* One model_forward_batch of engine_feed.  After the last chunk the turn is
\* given back and generation begins, unless the stream's header cannot be sent;
\* after any other one a vanished client ends the request and a live one yields:
\* give, then take again from the back.
PrefillChunk(i) ==
  /\ pc[i] = "prefill" /\ pos[i] < n_ctx
  /\ pos' = [pos EXCEPT ![i] = @ + 1]
  /\ kv' = [kv EXCEPT ![i] = pos[i] + 1]
  /\ DevGive(i)
  /\ \/ /\ IF kind[i] = "solo" THEN EnterTurn(i, "solo")
           ELSE pc' = [pc EXCEPT ![i] = "begin"] /\ UNCHANGED cont
        /\ UNCHANGED reqVars
     \/ gone[i] /\ Answered(i) /\ UNCHANGED cont
     \/ ~gone[i] /\ EnterTurn(i, "prefill") /\ UNCHANGED reqVars
  /\ UNCHANGED <<serverVars, seqVars, workerVars, pending>>

\* A token reached the client after the deadline had passed.
CountLate(i) ==
  late' = [late EXCEPT ![i] = IF deadline[i] = "passed" /\ @ < 2 THEN @ + 1 ELSE @]

\* sched_generate enters its loop: n_active++, engine_gen_begin.
Begin(i) ==
  /\ pc[i] = "begin" /\ pc' = [pc EXCEPT ![i] = "step"]
  /\ n_active' = n_active + 1
  /\ pending' = [pending EXCEPT ![i] = -1]
  /\ UNCHANGED <<serverVars, n_wait, state, qpos, qok, workerVars, cont, reqVars,
                 pos, kv, turnVars>>

\* engine_gen_step returns DONE: a stop token, the token budget, a finished
\* document, a failed write (each possibly after a last token) or a full context.
StepDone(i) ==
  /\ pc[i] = "step" /\ pc' = [pc EXCEPT ![i] = "end"]
  /\ pending' = [pending EXCEPT ![i] = -1]
  /\ UNCHANGED late \/ (pos[i] < n_ctx /\ CountLate(i))
  /\ UNCHANGED <<serverVars, seqVars, workerVars, cont, kind, deadline, gone,
                 pos, kv, turnVars>>

\* engine_gen_step hands out a row: pos++, pending_pos.
TakeRow(i) ==
  /\ pos[i] < n_ctx
  /\ pos' = [pos EXCEPT ![i] = @ + 1]
  /\ pending' = [pending EXCEPT ![i] = pos[i]]
  /\ CountLate(i)

\* Mutant: the loop does not look at the deadline.
Quits_ClientOnly(i) == gone[i]

\* The deadline or the client ends the loop of sched_generate.
Quits(i) == deadline[i] = "passed" \/ gone[i]

\* ... but the row is not forwarded any more.
StepAbandoned(i) ==
  /\ pc[i] = "step" /\ pc' = [pc EXCEPT ![i] = "end"]
  /\ TakeRow(i)
  /\ Quits(i)
  /\ UNCHANGED <<serverVars, seqVars, workerVars, cont, kind, deadline, gone, kv,
                 turnVars>>

\* ... and sched_forward queues it for the decode worker.
StepForward(i) ==
  /\ pc[i] = "step" /\ pc' = [pc EXCEPT ![i] = "await"]
  /\ TakeRow(i)
  /\ ~Quits(i)
  /\ state' = [state EXCEPT ![i] = "WAIT"]
  /\ qpos' = [qpos EXCEPT ![i] = pos[i]]
  /\ n_wait' = n_wait + 1
  /\ SignalWorker
  /\ UNCHANGED <<serverVars, n_active, qok, logits, workVars, cont, kind,
                 deadline, gone, kv, turnVars>>

\* Mutant: an expired request leaves in whatever state it is.
CanDrop_Inflight(i) == deadline[i] = "passed" /\ state[i] \in {"WAIT", "INFLIGHT"}

\* What sched_forward may take back once its deadline passed.
CanDrop(i) == deadline[i] = "passed" /\ state[i] = "WAIT"

\* Mutant: the pending count keeps the dropped sequence.
DropExpired_KeepsCount(i) ==
  /\ pc[i] = "await" /\ CanDrop(i) /\ ~stop
  /\ pc' = [pc EXCEPT ![i] = "end"]
  /\ state' = [state EXCEPT ![i] = "OFF"]
  /\ UNCHANGED <<serverVars, n_wait, n_active, qpos, qok, workerVars, cont,
                 reqVars, kvVars, turnVars>>

DropExpired(i) ==
  /\ pc[i] = "await" /\ CanDrop(i) /\ ~stop
  /\ pc' = [pc EXCEPT ![i] = "end"]
  /\ state' = [state EXCEPT ![i] = "OFF"]
  /\ n_wait' = n_wait - 1
  /\ UNCHANGED <<serverVars, n_active, qpos, qok, workerVars, cont, reqVars,
                 kvVars, turnVars>>

\* The wait of sched_forward ends: the row is ready, or the scheduler stops.
ForwardReturns(i) ==
  /\ pc[i] = "await" /\ (state[i] = "READY" \/ stop)
  /\ pc' = [pc EXCEPT ![i] =
       IF state[i] = "READY" /\ qok[i] THEN "step" ELSE "end"]
  /\ state' = [state EXCEPT ![i] = "OFF"]
  /\ UNCHANGED <<serverVars, n_wait, n_active, qpos, qok, workerVars, cont,
                 reqVars, kvVars, turnVars>>

\* Mutant: the abandoned row stays claimed.
GiveBack_Skipped(i) == UNCHANGED pos /\ pending' = [pending EXCEPT ![i] = -1]

\* engine_gen_end gives back a row that was never forwarded.
GiveBack(i) ==
  /\ pos' = IF pending[i] >= 0 THEN [pos EXCEPT ![i] = pending[i]] ELSE pos
  /\ pending' = [pending EXCEPT ![i] = -1]

\* The end of sched_generate; the queue fields of an OFF sequence are dead.
End(i) ==
  /\ pc[i] = "end"
  /\ GiveBack(i)
  /\ n_active' = n_active - 1
  /\ SignalWorker
  /\ Answered(i)
  /\ qpos' = [qpos EXCEPT ![i] = 0] /\ qok' = [qok EXCEPT ![i] = FALSE]
  /\ logits' = [logits EXCEPT ![i] = NoRow]
  /\ UNCHANGED <<serverVars, n_wait, state, workVars, cont, kv, turnVars>>

\* engine_generate (a speculative request) under the turn for its whole length:
\* it asks e->stop between its own forwards, and nothing else.
SoloForward(i) ==
  /\ pc[i] = "solo" /\ pos[i] < n_ctx /\ ~gone[i]
  /\ pos' = [pos EXCEPT ![i] = @ + 1]
  /\ kv' = [kv EXCEPT ![i] = pos[i] + 1]
  /\ CountLate(i)
  /\ UNCHANGED <<serverVars, seqVars, workerVars, pc, cont, kind, deadline, gone,
                 pending, turnVars>>

SoloEnd(i) ==
  /\ pc[i] = "solo"
  /\ DevGive(i)
  /\ Answered(i)
  /\ UNCHANGED <<serverVars, seqVars, workerVars, cont, kvVars>>

\* handle_embeddings: model_embed overwrites the cache from row 0 up and
\* engine_reset forgets it; the answer is written after the turn is given back.
Embed(i) ==
  /\ pc[i] = "embed"
  /\ pos' = [pos EXCEPT ![i] = 0] /\ kv' = [kv EXCEPT ![i] = 0]
  /\ DevGive(i)
  /\ Answered(i)
  /\ UNCHANGED <<serverVars, seqVars, workerVars, cont, pending>>

\* q_pop returns false once the listener is gone and the queue is drained.
SlotExit(i) ==
  /\ pc[i] = "idle" /\ phase = "draining"
  /\ pc' = [pc EXCEPT ![i] = "exit"]
  /\ UNCHANGED <<serverVars, seqVars, workerVars, cont, reqVars, kvVars, turnVars>>

SlotStep(i) ==
  \/ SlotTake(i) \/ SlotAdmitted(i) \/ Rewind(i) \/ PrefillOverflow(i)
  \/ PrefillChunk(i) \/ Begin(i) \/ StepDone(i) \/ StepAbandoned(i)
  \/ StepForward(i) \/ DropExpired(i) \/ ForwardReturns(i) \/ End(i)
  \/ SoloForward(i) \/ SoloEnd(i) \/ Embed(i) \/ SlotExit(i)

-----------------------------------------------------------------------------
(* The clients, the clock and server_run.                                  *)

InRequest(i) == pc[i] \notin {"idle", "exit"}

Expire(i) ==
  /\ InRequest(i) /\ deadline[i] = "running"
  /\ deadline' = [deadline EXCEPT ![i] = "passed"]
  /\ UNCHANGED <<serverVars, seqVars, workerVars, pc, cont, kind, gone, late,
                 kvVars, turnVars>>

HangUp(i) ==
  /\ "hangup" \in scenario /\ InRequest(i) /\ ~gone[i]
  /\ gone' = [gone EXCEPT ![i] = TRUE]
  /\ UNCHANGED <<serverVars, seqVars, workerVars, pc, cont, kind, deadline, late,
                 kvVars, turnVars>>

RequestStop ==
  /\ "stop" \in scenario /\ phase = "serving" /\ phase' = "draining"
  /\ UNCHANGED <<stop, seqVars, workerVars, slotVars, turnVars>>

\* Mutant: the flag is set without waking the worker.
SchedStop_NoBroadcast ==
  /\ phase = "draining" /\ ~stop
  /\ \A i \in Slots : pc[i] = "exit"
  /\ stop' = TRUE
  /\ UNCHANGED <<phase, seqVars, workerVars, slotVars, turnVars>>

\* server_run has joined every slot thread: sched_shutdown sets the flag.
SchedStop ==
  /\ phase = "draining" /\ ~stop
  /\ \A i \in Slots : pc[i] = "exit"
  /\ stop' = TRUE
  /\ SignalWorker
  /\ UNCHANGED <<phase, seqVars, logits, workVars, slotVars, turnVars>>

\* pthread_join, then every buffer and lock is destroyed.
SchedFree ==
  /\ stop /\ phase = "draining" /\ wpc = "exit"
  /\ phase' = "down"
  /\ UNCHANGED <<stop, seqVars, workerVars, slotVars, turnVars>>

MainStep == SchedStop \/ SchedFree

\* The process has ended.
Ended == phase = "down" /\ UNCHANGED vars

-----------------------------------------------------------------------------

Init ==
  /\ scenario \in Scenarios
  /\ phase = "serving" /\ stop = FALSE
  /\ n_wait = 0 /\ n_active = 0
  /\ state = [i \in Slots |-> "OFF"]
  /\ qpos = [i \in Slots |-> 0]
  /\ qok = [i \in Slots |-> FALSE]
  /\ logits = [i \in Slots |-> NoRow]
  /\ wpc = "look"
  /\ batch = {} /\ done = 0 /\ bok = FALSE
  /\ stage = [r \in Rows |-> NoRow]
  /\ out = [i \in Slots |-> Own]
  /\ pc = [i \in Slots |-> "idle"]
  /\ cont = [i \in Slots |-> "none"]
  /\ kind = [i \in Slots |-> "none"]
  /\ deadline = [i \in Slots |-> "none"]
  /\ gone = [i \in Slots |-> FALSE]
  /\ late = [i \in Slots |-> 0]
  /\ pos = [i \in Slots |-> 0]
  /\ pending = [i \in Slots |-> -1]
  /\ kv = [i \in Slots |-> 0]
  /\ TurnInit

Environment ==
  \/ \E i \in Slots : Arrive(i) \/ Expire(i) \/ HangUp(i)
  \/ RequestStop \/ SpuriousWake

Next ==
  /\ UNCHANGED scenario
  /\ \/ WorkerStep
     \/ \E i \in Slots : SlotStep(i)
     \/ MainStep
     \/ Environment
     \/ Ended

Spec == Init /\ [][Next]_vars

\* Threads run.  The timeout of the gather is a step of the worker: it comes unless
\* the worker is woken first, and then the 2 ms begin anew (decode_worker's ts_in).
FairSpec ==
  /\ Spec
  /\ WF_vars(WorkerStep /\ UNCHANGED scenario)
  /\ \A i \in Slots : WF_vars(SlotStep(i) /\ UNCHANGED scenario)
  /\ WF_vars(MainStep /\ UNCHANGED scenario)

-----------------------------------------------------------------------------
(* Properties.                                                             *)

SlotPc == {"idle", "take", "turn", "rewind", "prefill", "begin", "step",
           "await", "end", "solo", "embed", "exit"}
WorkerPc == {"look", "asleep", "gather", "regather", "take", "turn", "decode",
             "give", "post", "exit"}

\* The decode worker blocks without a timeout only while nobody waits for it
\* and nobody asked it to stop: no signal on dec_cv is lost (decode_worker's
\* first wait against sched_forward's and sched_shutdown's signals).
NoLostWakeup == wpc = "asleep" => Waiting = {} /\ ~stop

\* It holds a cut back only for a sequence that exists and is not here yet
\* ("only ever wait on sequences that actually exist", decode_worker).
InLoop == {i \in Slots : pc[i] \in {"step", "await", "end"}}
GatherIsJustified ==
  wpc = "gather" => /\ Cardinality(Waiting) < BatchMax
                    /\ InLoop \ Waiting # {}

\* The counters are the sets they count, a slot waits in sched_forward exactly
\* while its sequence is queued, and the worker's batch is exactly what is in
\* flight (n_wait++/--, n_active++/-- and the four assignments of `state`).
QueueConsistent ==
  /\ n_wait = Cardinality(Waiting) /\ n_active = Cardinality(InLoop)
  /\ \A i \in Slots : /\ state[i] # "OFF" <=> pc[i] = "await"
                      /\ state[i] = "INFLIGHT" <=> i \in batch
  /\ batch # {} => wpc \in {"take", "turn", "decode", "give", "post"}

\* A sequence of a batch is never abandoned by its slot, so while the worker
\* decodes with a slot's model, scratch and logits, that slot does not touch
\* them ("a sequence already INFLIGHT is waited out", sched_forward).
ModelHasOneUser ==
  \A i \in batch : pc[i] = "await" /\ state[i] = "INFLIGHT"

\* At most one thread launches work on the device at any moment, and it holds the
\* ticket being served: prefill, solo generation, embeddings and the microbatch
\* take turns (SCH.device_turn).
OnDevice ==
  {i \in Slots : pc[i] \in {"rewind", "prefill", "solo", "embed"}}
    \cup {t \in {Worker} : wpc \in {"decode", "give"}}
DeviceHasOneUser ==
  device_turn => /\ \A s, t \in OnDevice : s = t
                /\ \A t \in OnDevice : Served(t)

\* The row a slot samples from is the row of the forward it asked for: neither
\* another sequence's nor an older one of its own (CopyHome, sched_forward).
ReadsOwnRow ==
  \A i \in Slots : pc[i] = "step" /\ pending[i] >= 0
                      => logits[i] = <<i, pending[i]>>

\* Between requests engine.pos never claims a row that was not computed, and a
\* forward never leaves a gap (engine_gen_end's give-back of pending_pos).
CacheBacksPos ==
  \A i \in Slots :
    /\ ~InRequest(i) => pos[i] <= kv[i]
    /\ state[i] # "OFF" => qpos[i] <= kv[i]

\* A batched generation ends once its deadline passed: at most the token being sampled
\* at that moment is still sent, whatever the row was doing (sched_generate's loop and
\* sched_forward; README "timeout").  A speculative one does not: DeadlineEndsGeneration.
EndsAtDeadline == \A i \in Slots : kind[i] # "solo" => late[i] <= 1

\* "Every generating endpoint also accepts a per-request timeout" (README): the same of
\* every generation.  sched_generate hands a speculative one to engine_generate, which
\* is not told the deadline.
DeadlineEndsGeneration == \A i \in Slots : late[i] <= 1

\* The worker gathers for ever: each time before the 2 ms are over a signal or a spurious
\* wake-up makes it look again, and it waits again for the full time.
RearmedForEver == <>[](wpc \in {"gather", "regather"}) /\ []<>(wpc = "regather")

\* Every forward is answered (or refused, or withdrawn), sched_forward returns, unless
\* the gather is re-armed for ever: no other wait of the worker can hold a row back.
ForwardReturnsEventually == RearmedForEver \/ \A i \in Slots : []<>(pc[i] # "await")

\* Nobody waits for the device for ever: dev_take returns, so every path out of
\* prefill, solo generation and embedding gave the turn back, the failing and the
\* cancelled ones included, and no holder waits for a gather.
TurnComes == \A i \in Slots : []<>(pc[i] # "turn")

\* A stop request ends the process: slots drain, the worker exits, SCH is freed.  No
\* request arrives meanwhile, so only spurious wake-ups could re-arm a gather for ever.
StopCompletes == RearmedForEver \/ []<>(phase # "draining")

\* sched_forward and the worker implement the decode service.
Service == INSTANCE DecodeService WITH
  asked <- [i \in Slots |-> IF state[i] = "OFF" THEN NoRow ELSE <<i, qpos[i]>>],
  taken <- batch,
  answer <- [i \in Slots |->
    IF state[i] # "READY" THEN "none" ELSE IF qok[i] THEN "row" ELSE "refused"],
  row <- [i \in Slots |->
    IF state[i] = "READY" /\ qok[i] THEN logits[i] ELSE NoRow]

RefinesDecodeService == Service!Spec
=============================================================================
