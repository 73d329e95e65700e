-------------------------- MODULE ResidencyProofs --------------------------
(***************************************************************************)
(* Theorems about Residency for any registry, with and without a draft      *)
(* model: no model is taken from under a running request, a recorded unload *)
(* always has an owner, and the three threads implement ModelSlot.          *)
(*                                                                          *)
(* What makes the invariant inductive is Freeing: between the look of       *)
(* handle_unload or ttl_reaper at active_requests and the unload itself a   *)
(* request may arrive and be counted, but swap_mu stops it in swap_to.      *)
(***************************************************************************)
EXTENDS Residency, TLAPS

\* Where the worker may be while another thread frees the slot.
Outside == {"pop", "read", "unload", "clear", "swap", "done", "safe", "exit"}

Freeing == mpc = "freeing" \/ rpc = "freeing" => wpc \in Outside

Holder ==
  /\ lock = "worker" <=> wpc = "draft"
  /\ lock = "main" <=> mpc = "freeing"
  /\ lock = "reaper" <=> rpc = "freeing"

Counting == active = IF wpc \in Counted THEN 1 ELSE 0

Loading ==
  /\ loading <=> wpc \in {"load", "loaded", "failed"}
  /\ wpc \in {"swap", "load", "loaded", "draft", "serve"} => want \in Models
  /\ wpc = "draft" => m = want

\* TypeOK in two halves: SMT reasons about one, Zenon about the other.
Flags ==
  /\ single \in BOOLEAN /\ draft_path \in BOOLEAN
  /\ draft \in BOOLEAN /\ snapshots \in BOOLEAN
  /\ loading \in BOOLEAN /\ pending_unload \in BOOLEAN /\ load_cancel \in BOOLEAN
  /\ ttl \in BOOLEAN /\ q_shutdown \in BOOLEAN /\ shutdown \in BOOLEAN

Values ==
  /\ lock \in {"free", "worker", "main", "reaper"}
  /\ resident \in Models \cup {NoModel} /\ m \in Models \cup {NoModel}
  /\ active \in 0 .. 1
  /\ wpc \in WorkerPc
  /\ want \in Models \cup {NoModel} /\ keep \in {"none", "zero", "seconds"}
  /\ mpc \in {"accept", "unload", "freeing", "clear", "cancel", "join", "reaper", "ended"}
  /\ rpc \in {"look", "sleep", "trylock", "freeing", "exit"}

\* Teardown runs after the worker has been joined.
Joined == mpc \in {"reaper", "ended"} => wpc = "exit"

Core ==
  /\ Values /\ Holder /\ Counting /\ Loading /\ Freeing /\ Joined
  /\ PendingHasOwner /\ SlotMatchesResident /\ ServesItsModel

ResInv == Flags /\ Core

LEMMA TypeParts == TypeOK <=> Flags /\ Values
BY DEF TypeOK, Flags, Values

LEMMA EntriesAreModels == Entries # {} /\ Entries \subseteq Models
BY ResidencyAssumption DEF Entries

LEMMA InitResInv == Init => ResInv
<1> SUFFICES ASSUME Init PROVE ResInv
  OBVIOUS
<1>1. resident \in Models \cup {NoModel} /\ m = resident
  BY EntriesAreModels DEF Init
<1>2. Flags
  BY Zenon DEF Init, Flags
<1>3. Values
  BY <1>1 DEF Init, Values, WorkerPc
<1>4. Holder /\ Counting /\ Loading /\ Freeing /\ Joined
  BY DEF Init, Holder, Counting, Loading, Freeing, Joined, Counted
<1>5. PendingHasOwner /\ SlotMatchesResident /\ ServesItsModel
  BY <1>1 DEF Init, PendingHasOwner, SlotMatchesResident, ServesItsModel
<1> QED BY <1>2, <1>3, <1>4, <1>5 DEF ResInv, Core

\* Every step of the slot worker.
LEMMA WorkerKeeps ==
  ASSUME ResInv, UNCHANGED confVars,
         \/ Pop \/ ReadOther \/ ReadClear \/ ReadUnload \/ WorkerUnload
         \/ ReadRequest \/ SwapTo \/ LoadEnds \/ LoadDropped
         \/ EngineFails \/ Install \/ InstallAndLoadDraft \/ DraftLoaded
         \/ Serve \/ KeepAlive \/ Done \/ SafePoint \/ ClearPrefixes
         \/ WorkerExit
  PROVE  ResInv'
<1> USE DEF confVars, ResInv, Core, Values, WorkerPc, Counted, Outside, Holder, Counting,
            Loading, Freeing, Joined, PendingHasOwner, SlotMatchesResident,
            ServesItsModel, svVars, atomVars, workerVars, Brief, Locked, Unlocked,
            UnloadAll, UnloadResident, UnloadDraft, DeferUnload, UnloadDefers
<1>1. CASE Pop
  <2>1. Flags'
    BY <1>1, Zenon DEF Flags, Pop
  <2> QED BY <1>1, <2>1 DEF Pop
<1>2. CASE ReadOther
  <2>1. Flags'
    BY <1>2, Zenon DEF Flags, ReadOther
  <2> QED BY <1>2, <2>1 DEF ReadOther
<1>3. CASE ReadClear
  <2>1. Flags'
    BY <1>3, Zenon DEF Flags, ReadClear
  <2> QED BY <1>3, <2>1 DEF ReadClear
<1>4. CASE ReadUnload
  <2>1. Flags'
    BY <1>4, Zenon DEF Flags, ReadUnload
  <2> QED BY <1>4, <2>1 DEF ReadUnload
<1>5. CASE WorkerUnload
  <2>1. Flags'
    BY <1>5, Zenon DEF Flags, WorkerUnload
  <2> QED BY <1>5, <2>1 DEF WorkerUnload
<1>6. CASE ReadRequest
  <2>1. Flags'
    BY <1>6, Zenon DEF Flags, ReadRequest
  <2> QED BY <1>6, <2>1, EntriesAreModels, ResidencyAssumption DEF ReadRequest
<1>7. CASE SwapTo
  <2>1. Flags'
    BY <1>7, Zenon DEF Flags, SwapTo
  <2> QED BY <1>7, <2>1, ResidencyAssumption DEF SwapTo
<1>8. CASE LoadEnds
  <2>1. Flags'
    BY <1>8, Zenon DEF Flags, LoadEnds
  <2> QED BY <1>8, <2>1 DEF LoadEnds
<1>9. CASE LoadDropped
  <2>1. Flags'
    BY <1>9, Zenon DEF Flags, LoadDropped
  <2> QED BY <1>9, <2>1 DEF LoadDropped
<1>10. CASE EngineFails
  <2>1. Flags'
    BY <1>10, Zenon DEF Flags, EngineFails
  <2> QED BY <1>10, <2>1 DEF EngineFails
<1>11. CASE Install
  <2>1. Flags'
    BY <1>11, Zenon DEF Flags, Install
  <2> QED BY <1>11, <2>1, ResidencyAssumption DEF Install
<1>12. CASE InstallAndLoadDraft
  <2>1. Flags'
    BY <1>12, Zenon DEF Flags, InstallAndLoadDraft
  <2> QED BY <1>12, <2>1, ResidencyAssumption DEF InstallAndLoadDraft
<1>13. CASE DraftLoaded
  <2>1. Flags'
    BY <1>13, Zenon DEF Flags, DraftLoaded
  <2> QED BY <1>13, <2>1, ResidencyAssumption DEF DraftLoaded
<1>14. CASE Serve
  <2>1. Flags'
    BY <1>14, Zenon DEF Flags, Serve
  <2> QED BY <1>14, <2>1 DEF Serve
<1>15. CASE KeepAlive
  <2>1. Flags'
    BY <1>15, Zenon DEF Flags, KeepAlive
  <2> QED BY <1>15, <2>1 DEF KeepAlive
<1>16. CASE Done
  <2>1. Flags'
    BY <1>16, Zenon DEF Flags, Done
  <2> QED BY <1>16, <2>1 DEF Done
<1>17. CASE SafePoint
  <2>1. Flags'
    BY <1>17, Zenon DEF Flags, SafePoint
  <2>2. CASE SafeToUnload
    <3>1. UnloadAll /\ pending_unload' = FALSE /\ wpc' = "clear"
      BY <1>17, <2>2 DEF SafePoint
    <3> QED BY <1>17, <2>1, <3>1 DEF SafePoint
  <2>3. CASE ~SafeToUnload
    <3>1. wpc = "safe" /\ active = 0 /\ ~loading
      BY <1>17 DEF SafePoint
    <3>2. ~pending_unload
      BY <2>3, <3>1 DEF SafeToUnload
    <3>3. wpc' = "pop" /\ UNCHANGED <<resident, m, draft, pending_unload>>
      BY <1>17, <2>3 DEF SafePoint
    <3> QED BY <1>17, <2>1, <3>1, <3>2, <3>3 DEF SafePoint
  <2> QED BY <2>2, <2>3
<1>18. CASE ClearPrefixes
  <2>1. Flags'
    BY <1>18, Zenon DEF Flags, ClearPrefixes
  <2> QED BY <1>18, <2>1 DEF ClearPrefixes
<1>19. CASE WorkerExit
  <2>1. Flags'
    BY <1>19, Zenon DEF Flags, WorkerExit
  <2> QED BY <1>19, <2>1 DEF WorkerExit
<1> QED BY <1>1, <1>2, <1>3, <1>4, <1>5, <1>6, <1>7, <1>8, <1>9, <1>10, <1>11,
           <1>12, <1>13, <1>14, <1>15, <1>16, <1>17, <1>18, <1>19

\* Every step of the main thread.
LEMMA MainKeeps ==
  ASSUME ResInv, UNCHANGED confVars,
         \/ AcceptUnload \/ MainUnloadDecides \/ MainUnloadFrees
         \/ MainUnloadAnswers \/ Stop \/ CancelLoad \/ JoinWorker
         \/ Teardown
  PROVE  ResInv'
<1> USE DEF confVars, ResInv, Core, Values, WorkerPc, Counted, Outside, Holder, Counting,
            Loading, Freeing, Joined, PendingHasOwner, SlotMatchesResident,
            ServesItsModel, svVars, atomVars, workerVars, Brief, Locked, Unlocked,
            UnloadAll, UnloadResident, UnloadDraft, DeferUnload, UnloadDefers
<1>1. CASE AcceptUnload
  <2>1. Flags'
    BY <1>1, Zenon DEF Flags, AcceptUnload
  <2> QED BY <1>1, <2>1 DEF AcceptUnload
<1>2. CASE MainUnloadDecides
  <2>1. Flags'
    BY <1>2, Zenon DEF Flags, MainUnloadDecides
  <2>2. CASE DeferUnload /\ Brief /\ mpc' = "clear"
    BY <1>2, <2>1, <2>2 DEF MainUnloadDecides
  <2>3. CASE ~UnloadDefers /\ Locked("main") /\ mpc' = "freeing"
    BY <1>2, <2>1, <2>3 DEF MainUnloadDecides
  <2> QED BY <1>2, <2>2, <2>3 DEF MainUnloadDecides
<1>3. CASE MainUnloadFrees
  <2>1. Flags'
    BY <1>3, Zenon DEF Flags, MainUnloadFrees
  <2> QED BY <1>3, <2>1 DEF MainUnloadFrees
<1>4. CASE MainUnloadAnswers
  <2>1. Flags'
    BY <1>4, Zenon DEF Flags, MainUnloadAnswers
  <2> QED BY <1>4, <2>1 DEF MainUnloadAnswers
<1>5. CASE Stop
  <2>1. Flags'
    BY <1>5, Zenon DEF Flags, Stop
  <2> QED BY <1>5, <2>1 DEF Stop
<1>6. CASE CancelLoad
  <2>1. Flags'
    BY <1>6, Zenon DEF Flags, CancelLoad
  <2> QED BY <1>6, <2>1 DEF CancelLoad
<1>7. CASE JoinWorker
  <2>1. Flags'
    BY <1>7, Zenon DEF Flags, JoinWorker
  <2> QED BY <1>7, <2>1 DEF JoinWorker
<1>8. CASE Teardown
  <2>1. Flags'
    BY <1>8, Zenon DEF Flags, Teardown
  <2> QED BY <1>8, <2>1 DEF Teardown
<1> QED BY <1>1, <1>2, <1>3, <1>4, <1>5, <1>6, <1>7, <1>8

\* Every step of the reaper.
LEMMA ReaperKeeps ==
  ASSUME ResInv, UNCHANGED confVars,
         \/ ReaperSleeps \/ ReaperWakes \/ ReaperSkips \/ ReaperDecides
         \/ ReaperFrees \/ ReaperExit
  PROVE  ResInv'
<1> USE DEF confVars, ResInv, Core, Values, WorkerPc, Counted, Outside, Holder, Counting,
            Loading, Freeing, Joined, PendingHasOwner, SlotMatchesResident,
            ServesItsModel, svVars, atomVars, workerVars, Brief, Locked, Unlocked,
            UnloadAll, UnloadResident, UnloadDraft, DeferUnload, UnloadDefers
<1>1. CASE ReaperWakes
  <2>1. Flags'
    BY <1>1, Zenon DEF Flags, ReaperWakes
  <2> QED BY <1>1, <2>1 DEF ReaperWakes
<1>2. CASE ReaperSkips
  <2>1. Flags'
    BY <1>2, Zenon DEF Flags, ReaperSkips
  <2> QED BY <1>2, <2>1 DEF ReaperSkips
<1>3. CASE ReaperDecides
  <2>1. Flags'
    BY <1>3, Zenon DEF Flags, ReaperDecides
  <2> QED BY <1>3, <2>1 DEF ReaperDecides, ReaperMay
<1>4. CASE ReaperFrees
  <2>1. Flags'
    BY <1>4, Zenon DEF Flags, ReaperFrees
  <2> QED BY <1>4, <2>1 DEF ReaperFrees
<1>5. CASE ReaperExit
  <2>1. Flags'
    BY <1>5, Zenon DEF Flags, ReaperExit
  <2> QED BY <1>5, <2>1 DEF ReaperExit
<1>6. CASE ReaperSleeps
  <2>1. Flags'
    BY <1>6, Zenon DEF Flags, ReaperSleeps
  <2> QED BY <1>6, <2>1 DEF ReaperSleeps
<1> QED BY <1>1, <1>2, <1>3, <1>4, <1>5, <1>6

LEMMA NextResInv == ResInv /\ [Next]_vars => ResInv'
<1> SUFFICES ASSUME ResInv, [Next]_vars PROVE ResInv'
  OBVIOUS
<1>0. UNCHANGED confVars
  BY DEF Next, vars
<1>1. CASE Pop \/ WorkerBusy
  BY <1>1, <1>0, WorkerKeeps DEF WorkerBusy
<1>2. CASE AcceptUnload \/ Stop \/ MainBusy
  BY <1>2, <1>0, MainKeeps DEF MainBusy
<1>3. CASE ReaperStep
  BY <1>3, <1>0, ReaperKeeps DEF ReaperStep
<1>4. CASE UNCHANGED vars
  BY <1>4, <1>0 DEF vars, confVars, svVars, atomVars, workerVars, ResInv, Core, Flags, Values, Holder,
              Counting, Loading, Freeing, Joined, PendingHasOwner,
              SlotMatchesResident, ServesItsModel
<1> QED BY <1>1, <1>2, <1>3, <1>4 DEF Next, Ended

\* The inductive invariant holds throughout.
THEOREM ResidencyInvariant == Spec => []ResInv
BY InitResInv, NextResInv, PTL DEF Spec

\* No unload, idle expiry or yield takes the model of a running request away.
THEOREM RequestKeepsItsModel == Spec => []ServesItsModel
<1>1. ResInv => ServesItsModel
  BY DEF ResInv, Core
<1> QED BY <1>1, ResidencyInvariant, PTL

\* An unload answered "deferred" always has somebody to carry it out.
THEOREM DeferredUnloadIsOwned == Spec => []PendingHasOwner
<1>1. ResInv => PendingHasOwner
  BY DEF ResInv, Core
<1> QED BY <1>1, ResidencyInvariant, PTL

\* The index the reaper and /health read agrees with the slot, and the slot is
\* empty while a load runs without the lock.
THEOREM SlotAgrees == Spec => []SlotMatchesResident
<1>1. ResInv => SlotMatchesResident
  BY DEF ResInv, Core
<1> QED BY <1>1, ResidencyInvariant, PTL

\* Every variable keeps its type; active_requests counts the one request.
THEOREM ResidencyTypes == Spec => []TypeOK
<1>1. ResInv => TypeOK
  BY TypeParts DEF ResInv, Core
<1> QED BY <1>1, ResidencyInvariant, PTL

\* What a recorded unload asked for is done, or a later request wants a model:
\* swap_to looks at pending_unload again before it installs what it loaded.
THEOREM UnloadIsNotForgotten == Spec => PendingNeverLost
<1> DEFINE Kept == pending_unload /\ ~pending_unload' => m' = NoModel \/ wpc = "swap"
<1>1. ASSUME ResInv, [Next]_vars PROVE Kept
  <2> USE DEF svVars, atomVars, workerVars
  <2>1. CASE \/ SafePoint \/ LoadDropped \/ EngineFails \/ Install
             \/ InstallAndLoadDraft
    <3>1. loading => m = NoModel
      BY <1>1 DEF ResInv, Core, SlotMatchesResident
    <3>2. wpc \in {"loaded", "failed"} => loading
      BY <1>1 DEF ResInv, Core, Loading
    <3> QED BY <2>1, <3>1, <3>2
            DEF SafePoint, LoadDropped, EngineFails, Install, InstallAndLoadDraft,
                Discard, UnloadAll, UnloadResident
  <2>2. CASE \/ Pop \/ ReadOther \/ ReadClear \/ ReadUnload \/ WorkerUnload
             \/ ReadRequest \/ SwapTo \/ LoadEnds \/ DraftLoaded \/ Serve
             \/ KeepAlive \/ Done \/ ClearPrefixes \/ WorkerExit
    BY <2>2 DEF Pop, ReadOther, ReadClear, ReadUnload, WorkerUnload, ReadRequest,
                SwapTo, LoadEnds, DraftLoaded, Serve, KeepAlive, Done, ClearPrefixes,
                WorkerExit, DeferUnload
  <2>3. CASE \/ AcceptUnload \/ MainUnloadDecides \/ MainUnloadFrees
             \/ MainUnloadAnswers \/ Stop \/ CancelLoad \/ JoinWorker \/ Teardown
    BY <2>3 DEF AcceptUnload, MainUnloadDecides, MainUnloadFrees, MainUnloadAnswers,
                Stop, CancelLoad, JoinWorker, Teardown, DeferUnload
  <2>4. CASE ReaperStep \/ UNCHANGED vars
    BY <2>4 DEF ReaperSleeps, ReaperWakes, ReaperStep, ReaperSkips, ReaperDecides, ReaperFrees,
                ReaperExit, vars
  <2> QED BY <1>1, <2>1, <2>2, <2>3, <2>4 DEF Next, WorkerBusy, MainBusy, Ended
<1>2. ResInv /\ [Next]_vars => [Kept]_vars
  BY <1>1
<1> QED BY <1>2, ResidencyInvariant, PTL DEF Spec, PendingNeverLost

-----------------------------------------------------------------------------
(* The refinement of ModelSlot.                                            *)

Using == IF wpc = "serve" THEN want ELSE NoModel

LEMMA SlotInit == Init => Slot!Init
BY ResidencyAssumption, EntriesAreModels DEF Init, Slot!Init

\* Every step is a step of the abstract slot, or none.
LEMMA SlotStep ==
  ASSUME ResInv, [Next]_vars
  PROVE  [Slot!Next]_<<m, Using>>
<1> USE DEF ResInv, Core, Values, Counted, Outside, Holder, Counting, Loading, Freeing,
            Joined, SlotMatchesResident, ServesItsModel, svVars, atomVars, workerVars,
            Brief, Locked, Unlocked, UnloadAll, UnloadResident, UnloadDraft,
            DeferUnload, UnloadDefers, Using
<1>1. CASE SwapTo
  <2>1. CASE resident = want
    <3>1. Slot!Start
      BY <1>1, <2>1, ResidencyAssumption DEF SwapTo, Slot!Start
    <3> QED BY <3>1 DEF Slot!Next
  <2>2. CASE resident # want
    <3>1. Slot!Remove
      BY <1>1, <2>2 DEF SwapTo, Slot!Remove
    <3> QED BY <3>1 DEF Slot!Next
  <2> QED BY <2>1, <2>2
<1>2. CASE Install
  <2>1. Slot!InsertAndStart
    BY <1>2 DEF Install, Slot!InsertAndStart
  <2> QED BY <2>1 DEF Slot!Next
<1>3. CASE InstallAndLoadDraft
  <2>1. Slot!Insert
    BY <1>3 DEF InstallAndLoadDraft, Slot!Insert
  <2> QED BY <2>1 DEF Slot!Next
<1>4. CASE DraftLoaded
  <2>1. Slot!Start
    BY <1>4, ResidencyAssumption DEF DraftLoaded, Slot!Start
  <2> QED BY <2>1 DEF Slot!Next
<1>5. CASE Serve
  <2>1. Slot!Finish
    BY <1>5 DEF Serve, Slot!Finish
  <2> QED BY <2>1 DEF Slot!Next
<1>6. CASE WorkerUnload \/ SafePoint \/ MainUnloadFrees \/ Teardown \/ ReaperFrees
  <2>1. Slot!Remove \/ UNCHANGED <<m, Using>>
    BY <1>6 DEF WorkerUnload, SafePoint, MainUnloadFrees, Teardown, ReaperFrees,
                Slot!Remove
  <2> QED BY <2>1 DEF Slot!Next
<1>7. CASE \/ Pop \/ ReadOther \/ ReadClear \/ ReadUnload \/ ReadRequest \/ LoadEnds
           \/ LoadDropped \/ EngineFails \/ KeepAlive \/ Done \/ ClearPrefixes
           \/ WorkerExit
  BY <1>7 DEF Pop, ReadOther, ReadClear, ReadUnload, ReadRequest, LoadEnds, LoadDropped,
              EngineFails, KeepAlive, Done, ClearPrefixes, WorkerExit
<1>8. CASE \/ AcceptUnload \/ MainUnloadDecides \/ MainUnloadAnswers \/ Stop
           \/ CancelLoad \/ JoinWorker \/ ReaperSleeps \/ ReaperWakes \/ ReaperSkips
           \/ ReaperDecides \/ ReaperExit \/ UNCHANGED vars
  BY <1>8 DEF AcceptUnload, MainUnloadDecides, MainUnloadAnswers, Stop, CancelLoad,
              JoinWorker, ReaperSleeps, ReaperWakes, ReaperSkips, ReaperDecides, ReaperExit, vars
<1> QED BY <1>1, <1>2, <1>3, <1>4, <1>5, <1>6, <1>7, <1>8
        DEF Next, WorkerBusy, MainBusy, ReaperStep, Ended

\* The three threads implement the one-model slot.
THEOREM ResidencyImplementsModelSlot == Spec => RefinesModelSlot
<1>1. ResInv /\ [Next]_vars => [Slot!Next]_<<m, Using>>
  BY SlotStep
<1> QED BY <1>1, SlotInit, ResidencyInvariant, PTL
        DEF Spec, RefinesModelSlot, Slot!Spec, Using
=============================================================================
