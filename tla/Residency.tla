----------------------------- MODULE Residency -----------------------------
(***************************************************************************)
(* The model registry: src/src/registry.c with its callers in server.c.     *)
(*                                                                          *)
(* Three threads share the one model slot of a server that joined the       *)
(* registry: the slot worker (handle_conn and swap_to), the main thread     *)
(* (accept loop, POST /unload, shutdown) and the idle reaper.  swap_mu is   *)
(* the variable `lock`; active_requests, load_cancel and resident are       *)
(* atomics read and written without it, so a critical section that reads    *)
(* one and acts on it is at least two steps.                                *)
(***************************************************************************)
EXTENDS Integers

CONSTANTS Models,      \* the registry entries
          NoModel,     \* resident = -1, s->m = NULL
          YieldOnRequest  \* --yield-on-request

ASSUME ResidencyAssumption ==
  /\ Models # {} /\ NoModel \notin Models
  /\ YieldOnRequest \in BOOLEAN

VARIABLES
  single,     \* SV.single: one model, served from the start
  draft_path, \* SV.draft_path: with a draft model, loaded at the start
  lock,      \* holder of SV.swap_mu, or "free"
  resident,  \* SV.resident
  m,         \* SV.slots[0].m
  draft,     \* SV.draft # NULL
  snapshots, \* the prefix cache holds entries
  loading, pending_unload, load_cancel,
  ttl,       \* SV.ttl > 0
  active,    \* SV.active_requests
  q_shutdown, shutdown,
  wpc,       \* where the slot worker is
  want,      \* the model its request names
  keep,      \* its keep_alive: "none", "zero" or "seconds" (of either sign)
  mpc,       \* where the main thread is
  rpc        \* where the reaper is

confVars == <<single, draft_path>>
svVars == <<resident, m, draft, loading, pending_unload>>
atomVars == <<load_cancel, active, shutdown, q_shutdown>>
workerVars == <<wpc, want, keep>>
vars == <<confVars, lock, svVars, snapshots, ttl, atomVars, workerVars, mpc, rpc>>

Locked(t) == lock = "free" /\ lock' = t
Unlocked == lock' = "free"
Brief == lock = "free" /\ UNCHANGED lock    \* a whole critical section in a step

\* Mutant: the slot keeps its pointer.
UnloadResident_Dangling == resident' = NoModel /\ UNCHANGED m

UnloadResident == resident' = NoModel /\ m' = NoModel

UnloadDraft == draft' = FALSE

UnloadAll == UnloadResident /\ UnloadDraft

-----------------------------------------------------------------------------
(* handle_unload, from the accept loop or from the slot worker.            *)

\* Mutant: the memory is freed under a running request.
UnloadDefers_LoadOnly == loading

\* A load or a request in flight: the wish is recorded for the next safe point.
UnloadDefers == loading \/ active > 0

DeferUnload ==
  /\ UnloadDefers
  /\ pending_unload' = TRUE
  /\ load_cancel' = IF loading THEN TRUE ELSE load_cancel
  /\ UNCHANGED <<resident, m, draft, loading>>

-----------------------------------------------------------------------------
(* The slot worker.                                                        *)

\* q_pop hands it a connection; the request is still to be read.
Pop ==
  /\ wpc = "pop" /\ ~q_shutdown /\ wpc' = "read"
  /\ UNCHANGED <<lock, svVars, snapshots, ttl, atomVars, want, keep, mpc, rpc>>

\* handle_conn answers anything but an inference request, or gives up reading.
ReadOther ==
  /\ wpc = "read" /\ wpc' = "pop"
  /\ UNCHANGED <<lock, svVars, snapshots, ttl, atomVars, want, keep, mpc, rpc>>

\* POST /v1/runner/prefix-cache/clear
ReadClear ==
  /\ wpc = "read" /\ wpc' = "pop" /\ snapshots' = FALSE
  /\ UNCHANGED <<lock, svVars, ttl, atomVars, want, keep, mpc, rpc>>

\* A POST /unload that slipped past the accept loop.
ReadUnload ==
  /\ wpc = "read" /\ wpc' = "unload"
  /\ UNCHANGED <<lock, svVars, snapshots, ttl, atomVars, want, keep, mpc, rpc>>

WorkerUnload ==
  /\ wpc = "unload" /\ wpc' = "clear"
  /\ Brief
  /\ \/ DeferUnload
     \/ ~UnloadDefers /\ UnloadAll /\ UNCHANGED <<loading, pending_unload, load_cancel>>
  /\ UNCHANGED <<snapshots, ttl, active, shutdown, q_shutdown, want, keep, mpc, rpc>>

\* The models /v1/models lists; a single model is the one of the command line.
Entries == IF single THEN {CHOOSE x \in Models : TRUE} ELSE Models

\* An inference request; a name that is in no entry is answered at once.
ReadRequest ==
  /\ wpc = "read"
  /\ want' \in Entries \cup {NoModel}
  /\ keep' \in {"none", "zero", "seconds"}
  /\ active' = active + 1
  /\ wpc' = IF want' = NoModel THEN "done" ELSE "swap"
  /\ UNCHANGED <<lock, svVars, snapshots, ttl, load_cancel, shutdown, q_shutdown,
                 mpc, rpc>>

\* The first critical section of swap_to.
SwapTo ==
  /\ wpc = "swap"
  /\ Brief
  /\ pending_unload' = FALSE
  /\ IF resident = want
       THEN wpc' = "serve" /\ UNCHANGED <<resident, m, loading, load_cancel>>
       ELSE /\ UnloadResident
            /\ loading' = TRUE /\ load_cancel' = FALSE
            /\ wpc' = "load"
  /\ UNCHANGED <<draft, snapshots, ttl, active, shutdown, q_shutdown, want, keep,
                 mpc, rpc>>

\* model_load, the tokenizer and the envelope gate, without swap_mu: they end
\* well, or not, or are given up (a --wait-for-vram wait that is cancelled).
LoadEnds ==
  /\ wpc = "load" /\ wpc' \in {"loaded", "failed"}
  /\ UNCHANGED <<lock, svVars, snapshots, ttl, atomVars, want, keep, mpc, rpc>>

\* Mutant: what arrived during the load is not looked at.
Discard_Unchecked == FALSE

Discard == pending_unload \/ load_cancel

\* The load is not installed: it failed, or it is not wanted any more.
LoadDropped ==
  /\ wpc = "failed" \/ (wpc = "loaded" /\ Discard)
  /\ Brief
  /\ loading' = FALSE /\ pending_unload' = FALSE
  /\ wpc' = "done"
  /\ UNCHANGED <<resident, m, draft, snapshots, ttl, atomVars, want, keep, mpc, rpc>>

\* engine_init fails: the slot is left empty.
EngineFails ==
  /\ wpc = "loaded" /\ ~Discard
  /\ Brief
  /\ loading' = FALSE /\ pending_unload' = FALSE
  /\ wpc' = "done"
  /\ UNCHANGED <<resident, m, draft, snapshots, ttl, atomVars, want, keep, mpc, rpc>>

ReloadsDraft == single /\ ~draft /\ draft_path

Install ==
  /\ wpc = "loaded" /\ ~Discard /\ ~ReloadsDraft
  /\ Brief
  /\ loading' = FALSE /\ pending_unload' = FALSE
  /\ m' = want /\ resident' = want
  /\ wpc' = "serve"
  /\ UNCHANGED <<draft, snapshots, ttl, atomVars, want, keep, mpc, rpc>>

\* The draft comes back with its target; swap_mu is held for the whole load.
InstallAndLoadDraft ==
  /\ wpc = "loaded" /\ ~Discard /\ ReloadsDraft
  /\ Locked("worker")
  /\ loading' = FALSE /\ pending_unload' = FALSE
  /\ m' = want
  /\ wpc' = "draft"
  /\ UNCHANGED <<resident, draft, snapshots, ttl, atomVars, want, keep, mpc, rpc>>

DraftLoaded ==
  /\ wpc = "draft"
  /\ Unlocked
  /\ draft' \in BOOLEAN
  /\ resident' = want
  /\ wpc' = "serve"
  /\ UNCHANGED <<m, loading, pending_unload, snapshots, ttl, atomVars, want, keep,
                 mpc, rpc>>

\* The handler, which may publish its prompt as a snapshot.
Serve ==
  /\ wpc = "serve"
  /\ snapshots' \in {snapshots, TRUE}
  /\ wpc' = IF keep = "none" THEN "done" ELSE "keep"
  /\ UNCHANGED <<lock, svVars, ttl, atomVars, want, keep, mpc, rpc>>

KeepAlive ==
  /\ wpc = "keep" /\ wpc' = "done"
  /\ Brief
  /\ IF keep = "zero"
       THEN pending_unload' = TRUE /\ UNCHANGED ttl
       ELSE ttl' \in BOOLEAN /\ UNCHANGED pending_unload
  /\ UNCHANGED <<resident, m, draft, loading, snapshots, atomVars, want, keep, mpc, rpc>>

\* The request leaves the count before the bookkeeping lock is taken.
Done ==
  /\ wpc = "done" /\ wpc' = "safe"
  /\ active' = active - 1
  /\ want' = NoModel /\ keep' = "none"
  /\ UNCHANGED <<lock, svVars, snapshots, ttl, load_cancel, shutdown, q_shutdown,
                 mpc, rpc>>

\* Mutant: the count is dropped only after the safe point.
SafeToUnload_Counted == pending_unload /\ ~loading /\ active > 0

SafeToUnload == pending_unload /\ ~loading /\ active = 0

SafePoint ==
  /\ wpc = "safe"
  /\ Brief
  /\ IF SafeToUnload
       THEN UnloadAll /\ pending_unload' = FALSE /\ wpc' = "clear"
       ELSE wpc' = "pop" /\ UNCHANGED <<resident, m, draft, pending_unload>>
  /\ UNCHANGED <<loading, snapshots, ttl, atomVars, want, keep, mpc, rpc>>

\* prefix_cache_clear, after the lock.
ClearPrefixes ==
  /\ wpc = "clear" /\ wpc' = "pop"
  /\ snapshots' = FALSE
  /\ UNCHANGED <<lock, svVars, ttl, atomVars, want, keep, mpc, rpc>>

WorkerExit ==
  /\ wpc = "pop" /\ q_shutdown /\ wpc' = "exit"
  /\ UNCHANGED <<lock, svVars, snapshots, ttl, atomVars, want, keep, mpc, rpc>>

WorkerBusy ==
  \/ ReadOther \/ ReadClear \/ ReadUnload \/ WorkerUnload \/ ReadRequest \/ SwapTo
  \/ LoadEnds \/ LoadDropped \/ EngineFails \/ Install \/ InstallAndLoadDraft
  \/ DraftLoaded \/ Serve \/ KeepAlive \/ Done \/ SafePoint \/ ClearPrefixes
  \/ WorkerExit

-----------------------------------------------------------------------------
(* The main thread.                                                        *)

AcceptUnload ==
  /\ mpc = "accept" /\ mpc' = "unload"
  /\ UNCHANGED <<lock, svVars, snapshots, ttl, atomVars, workerVars, rpc>>

\* It takes the lock and looks.
MainUnloadDecides ==
  /\ mpc = "unload"
  /\ \/ DeferUnload /\ Brief /\ mpc' = "clear"
     \/ /\ ~UnloadDefers /\ Locked("main") /\ mpc' = "freeing"
        /\ UNCHANGED <<svVars, load_cancel>>
  /\ UNCHANGED <<snapshots, ttl, active, shutdown, q_shutdown, workerVars, rpc>>

MainUnloadFrees ==
  /\ mpc = "freeing" /\ mpc' = "clear"
  /\ UnloadAll
  /\ Unlocked
  /\ UNCHANGED <<loading, pending_unload, snapshots, ttl, atomVars, workerVars, rpc>>

\* prefix_cache_clear, then the answer.
MainUnloadAnswers ==
  /\ mpc = "clear" /\ mpc' = "accept"
  /\ snapshots' = FALSE
  /\ UNCHANGED <<lock, svVars, ttl, atomVars, workerVars, rpc>>

\* A stop was requested: accept() fails and queue_shutdown runs.
Stop ==
  /\ mpc = "accept" /\ mpc' = "cancel"
  /\ q_shutdown' = TRUE
  /\ UNCHANGED <<lock, svVars, snapshots, ttl, load_cancel, active, shutdown,
                 workerVars, rpc>>

CancelLoad ==
  /\ mpc = "cancel" /\ mpc' = "join"
  /\ load_cancel' = TRUE
  /\ UNCHANGED <<lock, svVars, snapshots, ttl, active, shutdown, q_shutdown,
                 workerVars, rpc>>

\* Mutant: the reaper is not told.
JoinWorker_NoFlag ==
  /\ mpc = "join" /\ wpc = "exit" /\ mpc' = "reaper"
  /\ UNCHANGED <<lock, svVars, snapshots, ttl, atomVars, workerVars, rpc>>

JoinWorker ==
  /\ mpc = "join" /\ wpc = "exit" /\ mpc' = "reaper"
  /\ shutdown' = TRUE
  /\ UNCHANGED <<lock, svVars, snapshots, ttl, load_cancel, active, q_shutdown,
                 workerVars, rpc>>

\* The reaper is joined, everything is unloaded and swap_mu destroyed.
Teardown ==
  /\ mpc = "reaper" /\ rpc = "exit" /\ mpc' = "ended"
  /\ Brief
  /\ UnloadAll
  /\ snapshots' = FALSE
  /\ UNCHANGED <<loading, pending_unload, ttl, atomVars, workerVars, rpc>>

MainBusy ==
  \/ MainUnloadDecides \/ MainUnloadFrees \/ MainUnloadAnswers \/ CancelLoad
  \/ JoinWorker \/ Teardown

-----------------------------------------------------------------------------
(* The reaper, every five seconds.                                         *)

\* The head of the loop is the only place that asks for a shutdown.
ReaperSleeps ==
  /\ rpc = "look" /\ ~shutdown /\ rpc' = "sleep"
  /\ UNCHANGED <<lock, svVars, snapshots, ttl, atomVars, workerVars, mpc>>

\* The first look, without the lock.
ReaperWakes ==
  /\ rpc = "sleep"
  /\ rpc' = IF resident # NoModel /\ active = 0 THEN "trylock" ELSE "look"
  /\ UNCHANGED <<lock, svVars, snapshots, ttl, atomVars, workerVars, mpc>>

\* trylock fails, or nothing is due.
ReaperSkips ==
  /\ rpc = "trylock" /\ rpc' = "look"
  /\ UNCHANGED <<lock, svVars, snapshots, ttl, atomVars, workerVars, mpc>>

\* Mutant: what was read before the lock is not read again.
ReaperMay_Stale == ttl \/ YieldOnRequest

\* The second look, under the lock: the model has been idle for ttl seconds, or
\* another process asked for its memory.
ReaperMay == resident # NoModel /\ active = 0 /\ (ttl \/ YieldOnRequest)

ReaperDecides ==
  /\ rpc = "trylock"
  /\ Locked("reaper")
  /\ ReaperMay
  /\ rpc' = "freeing"
  /\ UNCHANGED <<svVars, snapshots, ttl, atomVars, workerVars, mpc>>

\* unload_resident: the draft and the snapshots stay.
ReaperFrees ==
  /\ rpc = "freeing" /\ rpc' = "look"
  /\ UnloadResident
  /\ Unlocked
  /\ UNCHANGED <<draft, loading, pending_unload, snapshots, ttl, atomVars,
                 workerVars, mpc>>

ReaperExit ==
  /\ rpc = "look" /\ shutdown /\ rpc' = "exit"
  /\ UNCHANGED <<lock, svVars, snapshots, ttl, atomVars, workerVars, mpc>>

ReaperStep ==
  \/ ReaperSleeps \/ ReaperWakes \/ ReaperSkips \/ ReaperDecides \/ ReaperFrees
  \/ ReaperExit

Ended == mpc = "ended" /\ UNCHANGED vars

-----------------------------------------------------------------------------

Init ==
  /\ single \in BOOLEAN /\ draft_path \in BOOLEAN /\ (draft_path => single)
  /\ lock = "free"
  /\ resident \in IF single THEN Entries ELSE {NoModel}
  /\ m = resident
  /\ draft = draft_path
  /\ snapshots = FALSE
  /\ loading = FALSE /\ pending_unload = FALSE /\ load_cancel = FALSE
  /\ ttl \in BOOLEAN
  /\ active = 0
  /\ q_shutdown = FALSE /\ shutdown = FALSE
  /\ wpc = "pop" /\ want = NoModel /\ keep = "none"
  /\ mpc = "accept" /\ rpc = "look"

Next ==
  /\ UNCHANGED confVars
  /\ \/ Pop \/ WorkerBusy
     \/ AcceptUnload \/ Stop \/ MainBusy
     \/ ReaperStep
     \/ Ended

Spec == Init /\ [][Next]_vars

\* Loads and generations end and the threads run; nobody owes a request, an
\* unload, a stop or an idle period.  The critical sections are short and the
\* reaper's are seconds apart, so whoever waits for swap_mu gets it.
FairSpec ==
  /\ Spec
  /\ SF_vars(WorkerBusy /\ UNCHANGED confVars)
  /\ SF_vars(MainBusy /\ UNCHANGED confVars)
  /\ WF_vars(ReaperStep /\ UNCHANGED confVars)

-----------------------------------------------------------------------------
(* Properties.                                                             *)

WorkerPc == {"pop", "read", "unload", "clear", "swap", "load", "loaded", "failed",
             "draft", "serve", "keep", "done", "safe", "exit"}
Counted == {"swap", "load", "loaded", "failed", "draft", "serve", "keep", "done"}

TypeOK ==
  /\ single \in BOOLEAN /\ draft_path \in BOOLEAN
  /\ lock \in {"free", "worker", "main", "reaper"}
  /\ resident \in Models \cup {NoModel} /\ m \in Models \cup {NoModel}
  /\ draft \in BOOLEAN /\ snapshots \in BOOLEAN
  /\ loading \in BOOLEAN /\ pending_unload \in BOOLEAN /\ load_cancel \in BOOLEAN
  /\ ttl \in BOOLEAN /\ active \in 0 .. 1
  /\ q_shutdown \in BOOLEAN /\ shutdown \in BOOLEAN
  /\ wpc \in WorkerPc
  /\ want \in Models \cup {NoModel} /\ keep \in {"none", "zero", "seconds"}
  /\ mpc \in {"accept", "unload", "freeing", "clear", "cancel", "join", "reaper", "ended"}
  /\ rpc \in {"look", "sleep", "trylock", "freeing", "exit"}

\* While a handler runs, the slot holds the model its request named: no unload,
\* idle expiry or yield takes it away (active_requests, the deferral in
\* handle_unload and the second look of ttl_reaper).
ServesItsModel == wpc = "serve" => m = want /\ resident = want

\* A recorded unload always has somebody to carry it out: a counted request, or
\* one on its way to the safe point of handle_conn.
PendingHasOwner == pending_unload => active > 0 \/ wpc = "safe"

\* The published index and the slot agree whenever the installing worker does not
\* hold swap_mu, and both are empty during a load (swap_to: "While `loading` is
\* set, the resident is -1 and slot 0 has no model").
SlotMatchesResident ==
  /\ lock # "worker" => m = resident
  /\ loading => m = NoModel /\ resident = NoModel

\* A recorded unload is dropped only by freeing the memory or by a later request
\* for a model ("A request supersedes any unload that was still pending").
PendingNeverLost ==
  [][pending_unload /\ ~pending_unload' => m' = NoModel \/ wpc = "swap"]_vars

\* An unload answered "deferred" is honoured or superseded.
UnloadHonoured == pending_unload ~> ~pending_unload

\* A stop ends the process: worker and reaper are joined.
ShutdownEnds == q_shutdown ~> mpc = "ended"

\* The three threads implement the one-model slot.
Slot == INSTANCE ModelSlot WITH
  model <- m, using <- IF wpc = "serve" THEN want ELSE NoModel

RefinesModelSlot == Slot!Spec
=============================================================================
