# A TLA+ model of the Xyntetik Runner

The runner is one C executable that serves GGUF language models: a command
line, a desktop controller and an HTTP server. Its arithmetic is not modelled
here. What is modelled is the part that decides *who may do what when*, *which
sequence a computed row belongs to* and *what reaches the client*: the batching
scheduler and the device turn, the model registry with its deferred unloads, the
connection queue and the server's life cycle, the compute pool under every matrix
product, the bookkeeping of KV rows, recurrent folds, drafts and prefix snapshots,
the ledger of GPU memory that processes share, and the way of a generated byte
through constraint, thinking splitter and stop filter. Paths below are relative to
the repository (`src/src/...` in this tree).

Contents: [inventory](#the-system), [modules](#modules),
[runs](#runs-bounds-and-mutants), [fairness](#fairness), [proofs](#proofs),
[findings](#findings), [observations](#observations), [limits](#what-is-not-modelled-and-why),
[plan](#plan).

## The system

Threads of a server process: the main thread (`server_run`: accept loop, fast
answers, `POST /unload`, shutdown), N slot threads (`slot_worker`: one HTTP
request at a time, each with its own engine and KV cache), one decode worker
(`decode_worker`), one idle reaper (`ttl_reaper`), and the workers of the compute
pool. A signal handler (`server_request_stop`) may run on any of them. Several
server processes of one machine share a registry file of GPU memory.

| Component | State | Operations | What makes it correct |
|---|---|---|---|
| Device turn (`scheduler.c`) | `dev_next`, `dev_serving` | `dev_take`, `dev_give` | one holder at a time, first come first served, across the wrap of the counters |
| Batching scheduler (`scheduler.c`) | `seq[]` (OFF, WAIT, INFLIGHT, READY), `n_wait`, `n_active`, `stop` | `sched_start`, `sched_generate`, `sched_forward`, `decode_worker`, `sched_prefill_begin/yield/end`, `sched_solo_*`, `sched_shutdown` | no lost wake-up, counters true, a batch is never abandoned, every forward answered, shutdown ends |
| Batched decode (`model.c`, `cuda.c`) | host staging block, row pointers | `model_batch_decode`, `gpu_batch_decode` | each sequence reads the row of its own forward |
| Generation loop (`completion.c`, `engine.c`) | `engine.pos`, `pending_pos`, KV rows, deadline, `stop` callback | prefill in chunks, `engine_gen_begin/step/end`, `engine_rewind`, `engine_reset` | `pos` never claims a row that was not computed; every way out gives the turn back |
| Model registry (`registry.c`) | `resident`, `slots[0].m`, `draft`, `loading`, `pending_unload`, `load_cancel`, `active_requests` | `swap_to`, `handle_unload`, `apply_keep_alive`, `ttl_reaper`, the safe point of `handle_conn` | a handler finds the model it named; a deferred unload is carried out; a stop releases everything |
| Admission and life cycle (`server.c`, `registry.c`) | ring `SV.q`, `stop_requested`, `listener_fd` | `q_push`, `q_pop`, `queue_shutdown`, accept loop, stop handler | each connection closed once; no slot idle over a queued one; a stop always ends the process |
| Compute pool (`quants.c`) | `gen`, `n_done`, `n_sleeping`, `caller_parked`, `stop`, the job fields | `tpool_run`, `tp_worker`, `tpool_destroy` | a run returns when all items are done once; no lost wake-up on either side |
| Engine KV and prefix cache (`engine.c`, `model.c`, `cuda.c`) | `hist`, `pos`, KV rows and their device mirror, recurrent fold and its snapshot, draft and `dpos`; `PFX`: entries keyed by model, byte budget | `engine_rewind`, `engine_prefix_reuse`, `engine_prefix_publish`, `engine_feed`, `engine_generate_spec`, `spec_fold_sync`, expiry, trim, clear | logits come from the slot's own history; fold and draft match it; an entry serves only the model that wrote it; budget kept |
| GPU memory registry (`vramreg.c`, `compat.c`, `model.c`) | one locked file of claimed, committed and waiting entries; each load's lease | `vram_claim` (with `--wait-for-vram`), `vram_commit`, `vram_release`, reaping | no two runners are given the same memory; dead owners reaped; a waiter gets in; no priority inversion |
| JSON mode (`jsonmode.c`) | state, container stack, escape | `jsonv_feed`, `jsonv_trial`, `jsonv_close` | verdict and closing bytes agree with the reader for every split into tokens |
| JSON reader (`json.c`) | a cursor | `json_parse` | the reference of the above |
| Output path (`engine.c`, `template.c`, `completion.c`) | `constraint_phase`, recorded document, splitter buffer, `hold`, `out`, `reason` | `constraint_feed`, `constraint_finish_think`, `constraint_close`, `think_feed`, `stop_feed`, their ends | the client gets what the model said up to the first stop, in its channel, once; a cut document is completed from the copy the client has |
| Shared weights (`model.c`) | reference counts per file | lookup, share, release | freed once, after the last user |
| Instance records, tray (`instances.c`, `tray.c`) | one file per process | register, list, clean up, start, stop | a live record is never removed |
| Schema validator (`schema.c`) | nodes and cursor of a schema | feed, verdict, closing suffix | as JSON mode, for a schema |
| Everything else | tokenizer, sampler, templates, API translation, GGUF, kernels, GPU backends, converter, command line, Python package | | pure functions or platform code |

How they interact: the accept loop answers cheap requests itself, *including
`POST /unload`*, and pushes the rest onto the ring; a slot pops one, counts itself
in `active_requests`, calls `swap_to` (when the server has a registry), runs the
handler, and decides at its safe point whether a recorded unload is due. The
handler prefills under the device turn, then calls `sched_generate`, which queues
one row per token for the decode worker through `sched_forward`; the worker cuts a
microbatch, takes the turn, decodes, copies the rows home, and signals. The stop
signal closes the listener; the main thread refuses what is queued, cancels a
load, joins the slots, stops the decode worker and the reaper, and unloads.

Before prefill, the slot's engine rewinds onto what it still holds of the prompt or
forks a longer prefix from the shared store; after prefill it publishes the prompt.
A generated token is checked by the constraint layer, decoded to bytes, split into
thinking and content, filtered for stop sequences and sent; a stop reaches back and
truncates the validator's document, and the end of a generation closes it. A load
claims its memory in the registry file before it allocates, replaces the claim by
what the device really lost, and removes it after the model is freed.

Hard behaviours: two hand-written condition-variable protocols whose waiters are
signalled one at a time; fields that are read without a lock and acted on under
one; deadlines and hang-ups racing work that is in flight on a device; unloads
arriving from a thread that does not own the slot; a shutdown that must reach
threads asleep in five different places; sequence state that four operations move
independently (rows, mirror, fold, draft); processes that die with entries in a
shared file; three stages that each withhold bytes. `PROJECT.json` lists each hazard at its
line with the properties that cover it; a hazard without a property says why.

## Modules

| Module | Stands for | Abstract specification |
|---|---|---|
| `Turnstile` | the ticket lock `dev_take`/`dev_give` | `FifoTurn`: threads are admitted one at a time in the order they asked |
| `Scheduler` | scheduler, slot threads' generation loop, batched decode; extends `Turnstile`, whose threads are the slots and the worker | `DecodeService`: a forward is answered with its own row or refused, may be withdrawn until the batch is cut, and batches resolve as a whole |
| `Residency` | slot worker, main thread and reaper over the one model slot of a registry server | `ModelSlot`: a model is inserted or removed only while no request uses it |
| `Admission` | ring, accept loop, stop handler, slot threads as consumers | `FifoQueue`: a bounded queue that can be closed, each item given to one worker in order |
| `ThreadPool` | `tpool_run`, `tp_worker`, `tpool_destroy` | none: its promise is one invariant and two liveness properties |
| `SequenceCache` | one engine per slot with its rows, mirror, fold and draft, and the store of prefix snapshots; `MCSequenceCache` holds the setups | none: its properties compare every row with the sequence it should belong to |
| `VramRegistry` | the ledger file, the processes and their loads; `MCVramRegistry` | none |
| `JsonMode` | `jsonmode.c`: the byte machine and its closing | `JsonParser`: `json.c` as a recogniser |
| `Generation` | one generation from the sampler to the client, over `JsonMode`; `MCGeneration` | a batch reading of the whole text (`Reading`, `BeforeStop`) |
| `TurnstileProofs`, `SchedulerProofs`, `ResidencyProofs`, `AdmissionProofs`, `ThreadPoolProofs`, `VramRegistryProofs`, `SequenceCacheProofs`, `GenerationProofs` | the theorems about the module of that name | |

The detailed module and its promise are joined by an `INSTANCE ... WITH` at the end
of the detailed one; the implementation is checked as a property (`RefinesFifo`,
`RefinesDecodeService`, `RefinesModelSlot`, `RefinesFifoQueue`).

**Grain.** A critical section under a mutex is one step when nothing outside the
mutex can see its middle. Where an atomic is read or written without the lock
(`active_requests`, `load_cancel`, `resident`; all five atomics of the pool) each
access is a step of its own; that is where the races are. A condition wait is
"release and sleep", a signal wakes any one sleeper, and a sleeper may also wake
unsignalled. Operators with an underscore (`Want_Full`, `ReaperMay_Stale`) are not
part of the specification: each is a definition with a plausible mistake, and
`PROJECT.json` says which property notices it.

### Turnstile

`mine[t]` is the local variable of the thread between `dev_take` and `dev_give`.
`Draw` is the critical section that takes the ticket, `Served` the exit condition
of the wait, `Give` is `dev_give`. The counters wrap at `TicketMod` (2^32 in the
build); the only assumption is that there are fewer threads than counter values.

### Scheduler

One slot is one thread, one engine, one sequence entry. A slot's `pc` follows a
request: `take`/`turn` (waiting for the device), `rewind`, `prefill`, `begin`
(`sched_generate` entered), `step` (`engine_gen_step`), `await` (in
`sched_forward`), `end`; or `solo` (speculative, `engine_generate` under the turn)
and `embed`. The worker's `wpc` follows `decode_worker`: `look`, `asleep` (first
wait), `gather`/`regather` (timed wait), `take`, `turn`, `decode`, `give`, `post`.
Tokens are data: a forward is `<<slot, position>>`, a KV cache is the number of
rows that were computed, logits are the forward they came from. `stage` and `out`
are the backend's host rows and the pointers into them; `DecodePass` is one
iteration of `model_batch_decode` (device, sequential fallback, or a failure in the
middle), `CopyHome` the copy in `decode_worker` after the last pass.
`GatherTimeout` is the 2 ms deadline of one wait; a wake-up before it leads to
`regather`, and from there to a new wait with a new deadline, as in the code. The prompt
is any number of chunks up to the context, and the end of a generation (stop token,
budget, failed write) is a free choice of `StepDone`. `scenario` is chosen at the start
and never changes: which kinds of request come, which of deadline, hang-up and stop may
happen, whether the model is on a GPU (`device_turn`), and whether the context is one
position shorter. The actions are the same in all of them.

### Residency

Registry servers have one slot, so one worker thread. Its `wpc` walks `handle_conn`
and the two critical sections of `swap_to` with the unlocked load between them.
`AcceptUnload .. MainUnloadAnswers` is `handle_unload` on the main thread, and the
same handler exists on the worker (`ReadUnload`, `WorkerUnload`). The reaper asks for
the shutdown only at the head of its loop (`ReaperSleeps`, `ReaperExit`), sleeps its five
seconds through, reads `resident` and `active` before its `trylock` (`ReaperWakes`) and
again after (`ReaperMay`). `ttl` abstracts the idle time to "set or not"; `load_cancel` is set
by an unload and by the shutdown and cleared by `swap_to`. `snapshots` says whether
the prefix cache is empty. The load's failures (file, memory, tokenizer, envelope,
cancelled wait) are one outcome of `LoadEnds`.

### Admission

`fds`, `head`, `tail`, `count` are the ring; `listener` and `hpc` the descriptor
and the handler that closes it from any thread at any moment; `mpc` the main
thread's loop with `q_push`'s ten looks (`Retries`). What a handler says is in the
other modules; here `Handle` ends with the close. `closes` counts how often a
connection was closed by the server.

### ThreadPool

Every atomic access of the two handshakes is a step. Workers and caller first look
without the lock (spinning is any number of looks) and then park. `rows` counts how
often each item was computed in the current run, which is what `tpool_run` owes
its caller. `gen` is 64 bits wide and bounded by `MaxRuns`.

### SequenceCache

A KV row is the sequence it was computed from: the model's key and the tokens up to
its own. A fold is the sequence folded, a draft the tokens its rows were computed
from. `Forward` is `model_forward_batch`: it reads the rows before `pos` (on the
device, after the resync of `gpu_forward_batch`, which copies host rows only when
the position is not the next one), writes the new ones to both sides, and its
logits are the sequence read, or `<<"garbled">>` when the rows do not belong
together. `Begin` is the reuse a request asks for (`cache_prompt`, `prefix_cache`):
`EngineReset`, `EngineRewind`, or the rewind and then the store (`Matched`,
`MayFork`, `Fork`; `Disturb` is the forward at position 0 that forces the resync).
`Feed`, `Publish`, `GenStep`, `GenForward`, `GenAbandon` follow the request;
`SpecRound` is one round of `engine_generate_spec` with drafts of the draft model or
of the grammar, accepted in part. `Unexpired` lets any number of the oldest entries
expire. `Swap` installs another model, `GpuDisable` is the fallback to the host,
`Clear` an unload. Which tokens are sampled or drafted is free.

### VramRegistry

A read-modify-write of the file under its lock is one step, and everything between
two of them may be interleaved with other processes. `ld[l].phase` follows a load:
`claim` (polling in `vram_claim`), `granted` (admitted, not yet allocated),
`allocated`, `loaded`, `freed`. A poll is `PollAdmits`, `PollWaits` (leaves a marker),
`PollRefuses`, or `PollUnaccounted` when the file is unusable; `GiveUp` is the
deadline or a cancellation; `WithoutLease` what `model_vram_claim` does when no lease
came back. `Dies` keeps the entries and may leave an empty file, `PidReused` starts a
process under the old pid, `HourPasses` makes entries without a start time old.
`guarded` says whether the platform reports start times. `lost` and `loose` are
history: a write of the file failed, or a load is not fully in the file; the
properties that speak of accounting hold until then, which is what the code's
comments claim ("accounting is best-effort").

### JsonMode, JsonParser, Generation

`JsonMode` is `jsonmode.c` state by state, over bytes as one-character strings; the
two tables `EscapeMoves` and `NumberMoves` hold its small transitions. `JsonParser`
reads the same bytes the way `json.c` does. `Generation` puts the machine under the
three stages of the output path. One step is one token: `Sample(t)` runs
`constraint_accept`, `think_feed`, `stop_feed`, the end of the prelude and the count;
`ConstraintClose` is `engine_gen_end`; `Finish` is the end of `run_completion`
(`think_finish`, then the withheld bytes). A generation may be cut after any token
(deadline, shutdown, failed forward): `Sample` may always go on to `close`. The
operators of the sink take the pair of engine and response state, because a stop
reaches back into the engine (`Truncate`). `think_feed` turns around its loop once per
tag; `Split` is the function of those rounds. `fed` records what the model said; the
expected channels are computed from the whole of it by `Reading`, a function on texts
over the alphabet `Byte`, which knows nothing of tokens. `Setups` is what a response may
have: tags, stops, format and vocabulary, within `SetupsAssumption`. `LegalOutput` and
`ClosedDocumentParses` compare with `JsonParser` and stand in `MCGeneration`, whose
recursive operators the proofs do not reach.

A response is split (`Splits`: it has thinking tags and goes through `think_feed`),
filtered (it has stops), both or neither; `OneStage` says it is not both. The properties
differ in what they say of which:

* `ContentIsDelivered`: of a response in one stage, that it is exactly what was said up to
  the first stop. `Said` includes the closing bytes of a split response, which pass the
  splitter like the model's; those of another response follow as they are (`Appended`).
  Of a response that is both and was not closed: the same when no stop matched; when one
  did, that nothing before it is missing and no reasoning is made up. That nothing
  follows it is `StopEndsTheText`, which does not hold (finding 5).
* `LegalOutput` and `ClientHasDocument` speak of responses that are not split. For split
  ones both are false, see the observations.

For a streamed response (`api`), `EmitChannel` also sends a delta: `SendDelta` holds a
character back until its last byte has come, per channel (`u8_pend`), and `OpenItem`
closes the open item when the other channel speaks. `items` is what the client has been
sent. The items of `/v1/responses` and the blocks of `/v1/messages` follow one pattern
(`resp_open_item`, `anth_open_block`) and differ in the model only at the end, where a
message owes at least one block (`Terminal`).

## Runs, bounds and mutants

| Run | Instance | What it shows |
|---|---|---|
| `sched` | 2 slots, batch 2, context 3 or 2, tickets modulo 4, 5 scenarios | exclusion and FIFO order of the turn across the wrap; one thread on the device, one user per model, true counters, own rows, rows behind `pos`, deadlines of batched generations, no lost wake-up, nobody waited for in vain; implements `FifoTurn` and `DecodeService`; forwards answered, tickets served, stop completes |
| `residency` | 1 model served from the start, with or without a draft, or 2 models | right model while serving, recorded unloads owned, not lost and honoured, index and slot agree; implements `ModelSlot`; shutdown ends |
| `admission` | 4 connections, 2 slots, 3 cells, limit 2 | one owner, no idle slot, everybody answered, a stop ends; implements `FifoQueue` |
| `pool` | 3 threads, up to 5 items, 3 runs | complete runs; runs return, destroy joins |
| `vram` | 3 loads of 2 processes, 3 units of memory, 3 entries | admitted loads fit, no orphaned entry, no inversion, waiters proceed |
| `cache` | 8 setups: one and two slots, two models, long prompts, recurrent, GPU, speculation with each kind of draft | logits from the slot's own history, fold and draft match it, the store is lean |
| `generation` | 17 setups of one generation, 5 of them streamed, 3 with tags and stops | every byte delivered once in its channel and every character in one delta; in responses that are not split, legal documents and the validator at the end of the client's copy |
| `sched_overwide`, `sched_solo`, `cache_fold`, `gen_held`, `gen_past_stop` | | the five [findings](#findings) |

Every property of a passing run has a mutant of the code, in `PROJECT.json`, that
breaks it. Type invariants are clauses of the proved inductive invariants, so no run
spends a property on them.

Why the bounds are enough to see the interesting cases:

* *Turnstile*: two slots and the worker with four ticket values, the least the assumption
  allows, so the counters wrap while one, two and three threads hold tickets. The proof
  covers every other instance.
* *Scheduler*: two slots give every pairing of one slot's deadline, hang-up or end
  with the other's enqueue and with the worker; context 3 is the least in which a
  generation samples twice after its prompt (needed for a late token and for a
  reused row). The five scenarios hold every kind of request and every fault with and
  without a device, except that speculation does not meet deadlines: `sched_solo` is that
  case. The two largest, batched requests on a device with a deadline and with a stop
  beside speculation, have the short context, which still samples after the prompt;
  batched requests with deadlines have the long one without a device. Four
  waiting sequences are the least with two staged passes (`sched_overwide`).
  `late` is capped at 2, above the bound of 1 it is compared with.
* *Residency*: two models are needed for a swap; a third adds nothing that a name
  tells apart. There is one worker because a registry server has one slot.
* *Admission*: three cells with limit 2 keep limit and capacity distinct; four
  connections overflow the ring, wrap it and leave some in the backlog at a stop.
* *ThreadPool*: three threads are a caller and two workers, one of which can be late
  for a run that the other has finished; 2 to 5 items are below, at and above
  multiples of 3; three runs let a reset meet a straggler twice.

* *VramRegistry*: needs of 2, 2 and 1 out of 3 units: any two of the small ones fit,
  the large ones do not, so every pair is admitted, refused or queued somewhere. The
  budgets of claims, deaths and failed writes are separate setups, which keeps each
  hazard with enough claims around it. Three entries fill the file. Priorities differ
  between the two loads of one process and of two.
* *SequenceCache*: two tokens and prompts that share prefixes of every length up to
  4; chunks of 2, so a prefill can be left in the middle; a store of two entries with
  budgets below, at and above what two prompts need; three requests, the least in
  which one publishes, one disturbs and one forks.
* *Generation*: 4 to 7 tokens of 1 to 6 bytes reach every state of the JSON machine
  and cut tags, stops and escapes at every place, the opening tag in front of a json
  document too; stops overlap each other, the closing bytes and a tag; open and close tag share a first byte; characters of two and three bytes are cut inside,
  by the other channel and by the end.

Deadlock is checked in every run; the ends of the processes are explicit stuttering
steps (`Ended`), so any other stop would be reported.

## Fairness

Fairness is stated once per module, in `FairSpec`, and only for threads.

* A thread that can always take its next step takes it: weak fairness of the worker,
  each slot, the main thread, the reaper and the signal handler. Kernels, chunks,
  loads and socket writes end (the code bounds reads and writes by timeouts).
* The gather of the decode worker is *not* assumed to end. Its 2 ms are counted anew in
  every turn of the loop (`scheduler.c:178`), so signals and spurious wake-ups can re-arm
  it, and nothing in the code bounds how often. The worker is only weakly fair:
  `GatherTimeout` fires if the wait is left alone. `ForwardReturnsEventually` and
  `StopCompletes` except the behaviours in which the gather is re-armed for ever
  (`RearmedForEver`: the worker stays in it and is woken again and again) and show that no
  other wait holds a forward or the shutdown back. `TurnComes` needs no exception, since
  the worker gathers without the turn.
* The reaper of `Residency` is weakly fair in every step, since `nanosleep` returns.
* Waiters for a mutex that others hold only briefly have strong fairness: the worker
  and the main thread in `Residency` (`swap_mu`; the reaper comes every five
  seconds), each thread in `ThreadPool` (`tp->mu`). A pthread mutex promises no
  order; what is assumed is only that nobody loses every race for ever.
* `VramRegistry`: what a load does by itself once it has begun (poll, allocate, commit,
  be freed some day, release), and the passing of hours. Nobody owes a claim, a
  deadline of a wait, a cancellation or a death.
* `SequenceCache` and `Generation` state safety only, so no fairness.
* The environment owes nothing: no fairness for connections, requests, deadlines,
  hang-ups, unloads, keep-alives, spurious wake-ups, the stop signal, or the next
  `tpool_run`.

## Proofs

All proofs hold for every value of the constants that satisfies the module's named
assumption; no other assumption is used. A theorem with a hypothesis names it in its
statement.

**`TurnstileProofs`.** `TurnInv` (types and `TicketsContiguous`) is inductive: the
distances of the drawn tickets from the served one are exactly `0 .. k-1`, one
each. Exclusion alone is not inductive, since nothing in it forbids a duplicate
ticket waiting further back. `TurnIsExclusive` follows. With `NoTicketLost` (every
distance below the number drawn has a holder) the holders in the order of their
distances form a queue, and `TurnstileIsFifo` shows that `Draw` appends to it and
`Give` takes its head: the refinement of `FifoTurn`, across the wrap.

**`SchedulerProofs`.** `Ctl` is the control invariant: types of the control variables,
`QueueConsistent` (counters are cardinalities, WAIT/INFLIGHT/READY exactly while the
slot is in `sched_forward`, the batch is the set in flight), `NoLostWakeup`, and
`StopIsLast` (the scheduler's stop comes after every slot has exited; without it a
slot could leave a forward in flight through the `stop` exit of `sched_forward`).
Each action preserves it; lemmas about finite sets of slots carry the counting.
From it: `WorkerIsWoken`, `CountersAgree`, `BatchIsNotAbandoned`. On top of it:

* `GatherBelow`: while the worker gathers, `n_wait` is below what it wants. Gives
  `GatherWaitsForSomebody`.
* `TurnHeld`: a thread that is on the device holds the ticket being served, and a
  program counter that says so has one. Gives `DeviceIsExclusive`, and with it
  `SchedulerTakesTurns`: the scheduler implements `Turnstile`'s specification `TurnSpec`,
  so `TurnIsExclusive` and `TurnstileIsFifo` hold of it (`TurnsExclude`, `TurnsAreFair`).
* `RowInv`: where `pos`, `pending_pos` and the computed rows stand at every program
  counter of a slot, what each pass has left in the staging block, and which row a
  READY sequence will find. `CacheIsBacked` holds for every width. `RowIsOwn` and
  `SchedulerImplementsDecodeService` have the hypothesis `Narrow`: no model on a device,
  or at most `BatchMax + 1` slots (one staged pass and one forward alone). Past it the
  statement is false, which is finding 1.
* `LateInv`: nothing has been sampled past the deadline while a batched generation is in
  its loop, and at most one token once it has left. `BatchedEndsAtDeadline` is
  `EndsAtDeadline` without a hypothesis; that speculative generations do not look at the
  deadline is finding 2.

**`ResidencyProofs`.** `ResInv` adds to the types who holds the lock, when a worker counts
as active, that `loading` is exactly the load and the state after it, and the key
clause `Freeing`: between the decision to free (under `swap_mu`) and the freeing,
the worker cannot have passed `swap_to`, because passing it needs the lock, though
it may by then have raised `active_requests`. Without that clause the step
"reaper frees" cannot be shown to leave a serving handler alone. From it:
`RequestKeepsItsModel`, `DeferredUnloadIsOwned`, `SlotAgrees`, `ResidencyTypes`; the
action property `UnloadIsNotForgotten`, action by action from the same invariant
(the flag goes down where the memory is freed, or in `swap_to` on behalf of a later
request); and step by step
`ResidencyImplementsModelSlot`: every step is a step of `ModelSlot` or a stutter.

**`AdmissionProofs`.** `NoSlotIdles`: the queue is never longer than the number of slots
awake while another sleeps. The lemma that matters is the counting one: a signal
adds one to both sides, a pop or a late riser takes from both, and a slot falls
asleep only when the count is zero. `RingInv` says which cells of the ring are the
queue, modulo its capacity; `OwnerInv` that a connection is with the main thread, in
the ring, in a slot, among the refused, or closed, and in only one of these, which
needs the distinctness of each place. From both: `ConnectionsAreOwned` and the
refinement `RingImplementsFifoQueue`.

**`ThreadPoolProofs`.** `PoolInv`: unless the pool stops, a worker's generation is the
caller's or the one before it (`Generations`), `n_done` counts the workers that are
through with it (`DoneCounts`), and the rows computed are those of the caller and of
every worker past its work (`RowsComputed`). `RunComplete` follows. `ParkInv` counts the
sleepers as they go under the lock; with it `NoSleep`: a worker is parked only on a
generation it has seen, and the caller only on an unfinished run, unless the other side
is on its way to the broadcast. That is the safety half of `RunReturns`.

**`VramRegistryProofs`.** `LedgerInv` pairs each entry of the file with the load or the
dead process it belongs to, by pid, start time and phase; from it `EntriesAreOwned` and
the action property `NoneOvertakes`. `MemInv` is the account: as long as every load is in
the file, each admitted load has its reservation there and the device's free memory is
at least what is promised; so the memory a poll computes as available leaves out every
promise. `PromisesFit` follows, over sums of entries and of loads.

**`SequenceCacheProofs`.** `CacheInv` says of every slot that `Computed` holds (each host row
up to the computed position is the row of the slot's own tokens, a device that is
positioned to go on has the same rows, the fold and its snapshot are those of prefixes
of the history), that the draft has seen a prefix of it (`DraftOf`), and of every stored
entry that its rows and fold are those of its tokens (`EntryInv`). The steps with an
argument of their own are the rewind, the fork (with the forward that moves the device
off its position), and the speculative round, where a rejected draft leaves rows behind
and `spec_fold_sync` has three ways back. `ContextIsOwn` and `FoldIsOfHistory` have the
hypothesis `UncutFolds`: no prompt of a recurrent model is cut to fit half of the budget.
Past it they are false, which is finding 3. `DraftIsOfHistory` needs no hypothesis.
`StoreStaysLean`: budget, count and the absence of covered entries are inductive
together (`Lean`) and need no hypothesis; the rows of the entries do, like the fold.
That pfx_trim makes room for the entry it was asked for (`TrimFits`) and that an order of
a finite set exists (`InOrderIs`) are the lemmas under it.

**`GenerationProofs`.** For any texts of any length, cut into tokens anywhere. Besides
`ByteAssumption` (the bytes the machine names are in the alphabet) the module assumes of a
setup what the code gives it: tags come in pairs and no opening tag holds a `{`
(`model.c:1509`, `1562`, `1600`, `1734`, `2149`), control tokens decode to nothing
(`tokenizer.c:1261`), and no stop is empty.

* `SplitOrFilteredIsDelivered`: where the response is not both split and filtered (`OneStage`),
  `ContentIsDelivered`. `FlowInv` says what each stage owes
  after every token. The splitter (`Settled`): the reading of all that was said, whatever
  comes next, is what each channel got, followed by the reading of the kept bytes in the
  current section, and these hold no tag. The stop filter (`Filtered`): the withheld bytes
  are the end of the text, no stop is in it, and none can begin before them (`Quiet`), since
  what the filter keeps is the longest end that is the beginning of a stop. A stream
  (`Streams`): the deltas of a channel and its unfinished character are the channel's text,
  every delta is whole characters, and neighbouring items differ in kind. The closing bytes
  of a split response are one more round of the splitter (`ClosingRound`), and there
  is no filter behind it. That `Reading`
  satisfies its recursive equation, and that a cut before which no tag begins does not
  change the reading, are the lemmas under it.
* `ValidatorFollowsClient`: `ClientHasDocument`, which speaks of responses that are not
  split. `DocInv`: the validator's document is what has been delivered and what is withheld,
  also after a stop, when `Truncate` takes back as many bytes as the filter has dropped. A
  thinking model under a constraint passes through the probe first, which collects the bytes
  that may be an opening tag; the validator refuses every such byte, because no tag holds a
  `{`, so a document cannot have begun before the probe has decided.

**Inductions.** Facts about sums, orders, prefixes, joined sequences and rounds of a loop of
any length are proved by least counterexamples: the set of those that fail is empty, since
a smallest one (`WFMin` over the naturals or over finite subsets) would have a smaller one
below it. That a recursive function exists is shown the same way, from functions on the
shorter arguments that agree where both are defined.

Only model-checked: all liveness (`ForwardReturnsEventually`, `TurnComes`,
`StopCompletes`, `UnloadHonoured`, `ShutdownEnds`, `EveryoneAnswered`, `StopEnds`,
`RunReturns`, `DestroyEnds`, `WaiterProceeds`), which the prover has no rules for;
`LegalOutput`, which compares with the recursive parser, opaque to the prover; and
`ContentIsDelivered` of responses that are both split and filtered.

## Findings

Each is a run in which TLC finds a behaviour of the modelled code that breaks a
sentence of the repository.

1. `sched_overwide` / `ReadsOwnRow`: with more waiting sequences than one device pass
   holds, all passes share the staging block `h_logits`, and `decode_worker` copies
   rows out only after the last pass, so sequences of an earlier staged pass read a
   later one's rows. `model.h:779` calls the width "a performance boundary, not a
   limit on the caller".
2. `sched_solo` / `DeadlineEndsGeneration`: `sched_generate` hands a speculative generation
   to `engine_generate` (`scheduler.c:364`), which is not told the deadline, so it samples
   to its budget. `README.md:860` says "Every generating endpoint also accepts a
   per-request `"timeout"`", and that on expiry "generation ends". `EndsAtDeadline` is the
   same of batched generations, and holds.
3. `cache_fold` / `FoldMatchesHistory`: `engine_prefix_publish` cuts a prompt that needs
   more than half of the byte budget to fewer tokens, but the fold it saves with them
   is that of the whole prompt. A later prompt that matches the cut entry exactly
   restores a fold of tokens its history does not have. `engine.c:358` says "the live
   fold is at position n here". Only recurrent models keep folds.
4. `gen_held` / `ClosedDocumentParses`: `stop_feed` withholds bytes that may begin a stop
   and lets the closing bytes pass; the withheld ones are delivered after the
   generation has ended. A JSON response cut at that moment arrives with the closing
   bytes in front of its last bytes and does not parse. `engine.c:1559` closes it "so
   constrained output stays valid". `LegalOutput` leaves this case out.
5. `gen_past_stop` / `StopEndsTheText`: when a stop matches, the splitter in front of the
   filter keeps the rest of its text (`template.c:2005`, `2009`), and `think_finish`
   (`completion.c:1949`) gives it up through the emptied filter: the text `x/>` with the
   stop `x` and an opening tag of three bytes reaches the client as `/>`.
   `completion.c:35` calls a matched stop "excluded from output", and `engine.h:212` says
   the sink drops "the matched bytes and whatever was held behind them". The kept bytes
   also stay in the validator, which is taken back only by what the filter held.

## Observations

Met while modelling; the models keep the code's behaviour and no run is about them.

* *Scheduler*: the gather wait recomputes its deadline in every turn (`scheduler.c:178`), so
  every signal of another slot that enqueues or ends re-arms the full 2 ms. The comment at
  `scheduler.c:50` calls it "the safety net for a slot thread stuck on a slow socket
  write" of 2 ms; with other slots busy the wait can outlast them (`RearmedForEver`).
* *Residency*: `swap_to` clears `load_cancel` (`registry.c:161`), which the shutdown sets
  once (`server.c:1658`): a load that starts after it runs uncancelled. The draft is
  reloaded with `swap_mu` held (`registry.c:266`), although `registry.c:5` says loads
  run without it.
* *SequenceCache*: after a divergence of at least 16 tokens from a stored prompt nothing new
  is stored: the prompt is cut to the common part, and the entry it diverged from always
  covers that part, so the second scan (`engine.c:638`) refreshes it and returns. The
  comment above it speaks of storing to the divergence point. Entries the new prompt extends are dropped (`engine.c:611`) before it
  is known that the new one will be stored. Of equally long matches the code takes the
  one stored last; the model takes any. A hybrid model on the GPU keeps its fold on the
  device; the setups leave that combination out.
* *VramRegistry*: when the second claim of a load is refused too, the load goes on without
  a lease (`model.c:729`). A wait that was cancelled while nobody else holds memory
  also goes on (`model.c:727`). The commit measures a difference of free memory, so it
  also counts what other processes allocated meanwhile.
* *Generation*, json mode on a tagged chat model: a proper prefix of the opening tag
  followed by the document is hidden from the validator, which starts anew
  (`engine.c:1079-1127`), but not from the client, who gets a text like `<{..}`; and a
  thinking tag inside a JSON string is split away, after which the document no longer
  parses and the validator is ahead of the client. `README.md:1428` says "Syntax and schema
  shape are guaranteed". So `LegalOutput` and `ClientHasDocument` speak of responses that
  are not split. In a split response that is also filtered, the closing bytes push what
  the splitter keeps of the model's text out to the client past the filter
  (`completion.c:1113`), so a stop in it is not found; `ContentIsDelivered` leaves these
  closed responses out.
* *Generation*: an opening tag that begins with a space (` to=self`, `model.c:2149`) is
  never recognised in front of a document, because white space is skipped before the tag
  is matched (`engine.c:1090`); a prelude that uses up half of the budget may leave an
  empty document (`README.md:1427` says so); bytes of an unfinished character of the
  thinking channel are flushed at the end in an item of their own, which closes the message
  item before `completion.c:2014` can mark a cut one as incomplete. The machine accepts
  some texts `json.c` refuses: repeated names, numbers out of range, nesting over 128,
  invalid UTF-8.

## What is not modelled, and why

* Arithmetic (kernels, sampling, forward passes), parsing of model files, HTTP framing,
  templates and API translation: functions of one input without protocol state; the
  repository's unit tests and fuzzers enumerate their inputs.
* `schema.c`: several hundred states of a recursive validator; `json.c` beyond what it
  accepts (values, numbers, writing).
* In `Generation`: schemas and tool envelopes, log probabilities, speculation, the death
  of the client, allocation failures, tool items, the layout of the wire formats.
* In `SequenceCache`: saving and loading a prefix on disk (`engine.c:685-798`), which only
  tests call. In `VramRegistry`: the request to yield, which only tests send, and the
  text of the file and its listing.
* Shared weights: lookup, share and last release run under one mutex, and what is freed
  outside it cannot be found any more; a model would restate the mutex.
* Instance records: a reader tests a pid and removes the file without a lock, so it may
  remove the record of a process that took the pid over; a record longer than the
  reader's 16 KB buffer does not parse and is removed too. Tray: platform interfaces.
* GPU backends: apart from the staging of batched rows in `gpu_batch_decode`, device
  code and launch code are platform arithmetic.
* The double close of `listener_fd` by handler and main thread: `Admission` closes it
  idempotently. To matter it needs descriptor numbers that are reused in between.
* In `Scheduler`: what `SequenceCache` and `Generation` model: acceptance of speculative
  tokens, which prefix is reused (`Rewind` keeps any prefix of the slot's own cache),
  the bytes.
* In `Residency`: the clock behind the idle time; which memory a waiting load waits for.
* In `ThreadPool`: pools of one thread and runs of one item, which call the function
  directly; the memory order of the accesses that are not sequentially consistent
  (their order is fixed by the ones that are).
* Proofs of liveness, and of what `JsonMode` and `JsonParser` accept: see [proofs](#proofs).

## Plan

Proofs: responses that are both split and filtered, once the splitter's bytes are dropped
with a stop. That the byte machine and the reader agree is an induction over texts for
which both would have to be recursive functions.

Models: the schema validator on a fixed small schema, under `Generation`; the sweep of
instance records.
