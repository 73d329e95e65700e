---------------------------- MODULE VramRegistry ----------------------------
(***************************************************************************)
(* The GPU memory ledger that runner processes share: src/src/vramreg.c,    *)
(* plat_file_rmw in compat.c, and the load and free paths of model.c that   *)
(* claim, commit and release.                                               *)
(*                                                                          *)
(* Everything a process learns of the others is in one file, read and       *)
(* rewritten under its lock; a read-modify-write is one step.  Processes    *)
(* die with entries in the file, their pids are used again, the file may be *)
(* unusable, and device memory moves between two looks at the file.         *)
(***************************************************************************)
EXTENDS Integers, FiniteSets, FiniteSetsExt

CONSTANTS
  Pids, Loads,     \* processes, and the model loads that happen in them
  PidOf, Need, Priority,  \* of a load
  Starts,          \* which processes are started with --wait-for-vram
  Total,           \* device memory that other programs leave to the runners
  MaxEntries,      \* REG_MAX_ENTRIES
  Budgets          \* bounds of the model: claims, deaths and failed writes

ASSUME RegistryAssumption ==
  /\ IsFiniteSet(Loads)
  /\ PidOf \in [Loads -> Pids] /\ Need \in [Loads -> Nat] /\ Priority \in [Loads -> Int]
  /\ Starts \subseteq [Pids -> BOOLEAN] /\ Total \in Nat /\ MaxEntries \in Nat
  /\ Budgets \subseteq [claims : Nat, deaths : Nat, faults : Nat]

VARIABLES
  ledger,   \* the entries of the file
  guarded,  \* the platform reports process start times
  queues,   \* of a pid: its runners are started with --wait-for-vram
  alive, started,  \* of a pid: is there a process, and which one (0: the first)
  ld,       \* each load: see Idle
  claims, deaths, faults,  \* what is left of the budget
  lost,     \* history: a write of the file failed
  loose     \* history: a load is not, or not fully, in the file

osVars == <<guarded, queues, alive, started, claims, deaths>>
vars == <<ledger, osVars, ld, faults, lost, loose>>

Idle ==
  [phase |-> "idle", need |-> 0, waiting |-> FALSE, second |-> FALSE,
   marked |-> FALSE,              \* history: its last poll left a marker
   avail |-> 0, holders |-> FALSE, \* vram_status
   lease |-> FALSE, got |-> 0]    \* m->vram, and what gpu_init took

\* A load's claims follow one another, so the load stands for the sequence number.
Entry(l, state) ==
  [pid |-> PidOf[l], seq |-> l, state |-> state, bytes |-> ld[l].need,
   procstart |-> IF guarded THEN started[PidOf[l]] + 1 ELSE 0,
   priority |-> Priority[l], old |-> FALSE]

Mine(l, x) == x.pid = PidOf[l] /\ x.seq = l
Bytes(S) == MapThenSumSet(LAMBDA x : x.bytes, S)
DeviceFree == Total - MapThenSumSet(LAMBDA l : ld[l].got, Loads)

\* Admitted, and neither allocated nor given up.
Granted == {l \in Loads : ld[l].phase = "granted"}
Promised == MapThenSumSet(LAMBDA l : ld[l].need, Granted)

-----------------------------------------------------------------------------
(* Under the lock.                                                         *)

\* Mutant: entries without a guard are kept as long as their pid is somebody's.
Reaped_Ageless ==
  {x \in ledger : alive[x.pid] /\ (x.procstart # 0 => x.procstart = started[x.pid] + 1)}

\* reap: the owner is gone, its pid is another process's, or the entry has no
\* guard and is older than any load can be.
Reaped ==
  {x \in ledger :
     /\ alive[x.pid]
     /\ x.procstart # 0 => x.procstart = started[x.pid] + 1
     /\ ~(x.procstart = 0 /\ x.state \in {"P", "W"} /\ x.old)}

\* Mutant: the wrong state is summed.
Pending_WaitersOnly(S) == {x \in S : x.state = "W"}

\* Claimed, and not yet visible in what the driver says is free.
Pending(S) == {x \in S : x.state = "P"}

Available(S) == Max({0, DeviceFree - Bytes(Pending(S))})

Outranked(l, S) ==
  \E x \in S : x.state = "W" /\ x.priority > Priority[l] /\ x.bytes <= Available(S)

\* What claim_rmw sees: the caller's own marker is dropped first.
Seen(l) ==
  {x \in Reaped : ~(ld[l].waiting /\ x.state = "W" /\ Mine(l, x))}

Admitted(l) ==
  /\ ld[l].need <= Available(Seen(l))
  /\ ld[l].waiting => ~Outranked(l, Seen(l))

\* edit_rmw
Committed(l) ==
  {IF Mine(l, x) THEN [x EXCEPT !.state = "C", !.bytes = ld[l].got] ELSE x : x \in Reaped}

Removed(l) == {x \in Reaped : ~Mine(l, x)}

\* A write of the file: done, or not for want of a usable file.  Nobody looks at
\* the difference but the first claim.
Writes(S) ==
  \/ ledger' = S /\ UNCHANGED <<faults, lost>>
  \/ faults > 0 /\ faults' = faults - 1 /\ lost' = TRUE /\ UNCHANGED ledger

-----------------------------------------------------------------------------
(* vram_claim, as model_vram_claim calls it.                               *)

Claiming(l, need, waiting, second) ==
  [Idle EXCEPT !.phase = "claim", !.need = need, !.waiting = waiting, !.second = second]

\* A load begins.
Claim(l) ==
  /\ ld[l].phase = "idle" /\ alive[PidOf[l]]
  /\ claims > 0 /\ claims' = claims - 1
  /\ ld' = [ld EXCEPT ![l] = Claiming(l, Need[l], queues[PidOf[l]], FALSE)]
  /\ UNCHANGED <<ledger, guarded, queues, alive, started, deaths, faults, lost, loose>>

HasRoom(l) == Cardinality(Seen(l)) < MaxEntries

\* What a poll reports beside its verdict.
Looked(l) ==
  [ld[l] EXCEPT !.avail = Available(Seen(l)),
                !.holders = \E x \in Seen(l) : x.state # "W" /\ x.pid # PidOf[l]]

\* A full file admits without an entry.
PollAdmits(l) ==
  /\ ld[l].phase = "claim" /\ Admitted(l)
  /\ ledger' = Seen(l) \cup (IF HasRoom(l) THEN {Entry(l, "P")} ELSE {})
  /\ ld' = [ld EXCEPT ![l] = [Looked(l) EXCEPT !.phase = "granted", !.lease = TRUE,
                                               !.marked = FALSE]]
  /\ loose' = (loose \/ ~HasRoom(l))
  /\ UNCHANGED <<osVars, faults, lost>>

\* No usable file: admitted and unaccounted.
PollUnaccounted(l) ==
  /\ ld[l].phase = "claim" /\ faults > 0
  /\ faults' = faults - 1 /\ lost' = TRUE /\ loose' = TRUE
  /\ ld' = [ld EXCEPT ![l] = [@ EXCEPT !.phase = "granted", !.lease = TRUE, !.marked = FALSE]]
  /\ UNCHANGED <<ledger, osVars>>

\* Mutant: a refused poll takes the marker of the one before and leaves none.
Marker_FirstPollOnly(l) == IF ld[l].marked THEN {} ELSE {Entry(l, "W")}

Marker(l) == {Entry(l, "W")}

\* A queueing claim leaves its marker and sleeps.
PollWaits(l) ==
  /\ ld[l].phase = "claim" /\ ld[l].waiting /\ ~Admitted(l)
  /\ ledger' = Seen(l) \cup (IF HasRoom(l) THEN Marker(l) ELSE {})
  /\ ld' = [ld EXCEPT ![l] = [Looked(l) EXCEPT !.marked = TRUE]]
  /\ loose' = (loose \/ ~HasRoom(l))
  /\ UNCHANGED <<osVars, faults, lost>>

\* vram_claim returned no lease.  The first time, the load fails if the holders
\* can be named, and otherwise claims what was available; the second time it goes
\* on without one.
WithoutLease(l, r) ==
  \/ /\ ~r.second /\ r.holders
     /\ ld' = [ld EXCEPT ![l] = Idle]
     /\ UNCHANGED <<loose>>
  \/ /\ ~r.second /\ ~r.holders
     /\ ld' = [ld EXCEPT ![l] = Claiming(l, r.avail, FALSE, TRUE)]
     /\ loose' = TRUE
  \/ /\ r.second
     /\ ld' = [ld EXCEPT ![l] = [r EXCEPT !.phase = "granted", !.lease = FALSE]]
     /\ UNCHANGED <<loose>>

\* It does not queue: reaping is worth writing back all the same.
PollRefuses(l) ==
  /\ ld[l].phase = "claim" /\ ~ld[l].waiting /\ ~Admitted(l)
  /\ ledger' = Seen(l)
  /\ WithoutLease(l, Looked(l))
  /\ UNCHANGED <<osVars, faults, lost>>

\* Cancelled or out of time.
GiveUp(l) ==
  /\ ld[l].phase = "claim" /\ ld[l].marked
  /\ Writes(Removed(l))
  /\ WithoutLease(l, ld[l])
  /\ UNCHANGED osVars

\* Mutant: the claim of a lease that could not be allocated stays.
RolledBack_Not(l) == Reaped

\* RNR-013
RolledBack(l) == Removed(l)

\* Admitted, but there is no memory for the lease.
LeaseFails(l) ==
  /\ ld[l].phase = "granted" /\ ld[l].lease
  /\ Writes(RolledBack(l))
  /\ WithoutLease(l, ld[l])
  /\ UNCHANGED osVars

-----------------------------------------------------------------------------
(* The load, and the end of the model.                                     *)

\* gpu_init sizes itself by the device and takes what a full offload needs, or
\* what there is.
Allocate(l) ==
  /\ ld[l].phase = "granted"
  /\ ld' = [ld EXCEPT ![l] = [Idle EXCEPT !.phase = "allocated", !.lease = ld[l].lease,
                                           !.got = Min({Need[l], DeviceFree})]]
  /\ UNCHANGED <<ledger, osVars, faults, lost, loose>>

\* model_vram_commit
Commit(l) ==
  /\ ld[l].phase = "allocated"
  /\ IF ld[l].lease THEN Writes(Committed(l)) ELSE UNCHANGED <<ledger, faults, lost>>
  /\ ld' = [ld EXCEPT ![l] = [@ EXCEPT !.phase = "loaded"]]
  /\ UNCHANGED <<osVars, loose>>

\* model_free: the memory first ...
Free(l) ==
  /\ ld[l].phase = "loaded"
  /\ ld' = [ld EXCEPT ![l].phase = "freed", ![l].got = 0]
  /\ UNCHANGED <<ledger, osVars, faults, lost, loose>>

\* ... then vram_release.
Release(l) ==
  /\ ld[l].phase = "freed"
  /\ IF ld[l].lease THEN Writes(Removed(l)) ELSE UNCHANGED <<ledger, faults, lost>>
  /\ ld' = [ld EXCEPT ![l] = Idle]
  /\ UNCHANGED <<osVars, loose>>

-----------------------------------------------------------------------------
(* The world.                                                              *)

\* A process is killed: the driver takes its memory back, its entries stay, and
\* a write it was in the middle of leaves an empty file.
Dies(p) ==
  /\ alive[p] /\ deaths > 0
  /\ deaths' = deaths - 1
  /\ alive' = [alive EXCEPT ![p] = FALSE]
  /\ ld' = [l \in Loads |-> IF PidOf[l] = p THEN Idle ELSE ld[l]]
  /\ \/ UNCHANGED <<ledger, lost>>
     \/ ledger' = {} /\ lost' = TRUE
  /\ UNCHANGED <<guarded, queues, started, claims, faults, loose>>

\* A runner starts with the pid of a dead one, and counts from one again.
PidReused(p) ==
  /\ ~alive[p]
  /\ alive' = [alive EXCEPT ![p] = TRUE]
  /\ started' = [started EXCEPT ![p] = @ + 1]
  /\ UNCHANGED <<ledger, guarded, queues, claims, deaths, ld, faults, lost, loose>>

\* What an hour makes old: entries without a guard, except the markers that their
\* waiters write anew at every poll.
Ageing ==
  {x \in ledger : /\ x.procstart = 0 /\ x.state # "C" /\ ~x.old
                  /\ \A l \in Loads : ~(x.state = "W" /\ Mine(l, x) /\ ld[l].marked)}

\* "No load -- even one queued behind --wait-for-vram -- is still pending after an
\* hour."
HourPasses ==
  /\ Ageing # {}
  /\ \A l \in Loads : ld[l].phase \notin {"granted", "allocated"}
  /\ ledger' = (ledger \ Ageing) \cup {[x EXCEPT !.old = TRUE] : x \in Ageing}
  /\ UNCHANGED <<osVars, ld, faults, lost, loose>>

\* The bound of the model.
Rest ==
  /\ claims = 0 /\ \A l \in Loads : ld[l].phase = "idle"
  /\ UNCHANGED vars

-----------------------------------------------------------------------------

Init ==
  /\ ledger = {}
  /\ guarded \in BOOLEAN
  /\ queues \in Starts
  /\ alive = [p \in Pids |-> TRUE] /\ started = [p \in Pids |-> 0]
  /\ ld = [l \in Loads |-> Idle]
  /\ \E b \in Budgets : claims = b.claims /\ deaths = b.deaths /\ faults = b.faults
  /\ lost = FALSE /\ loose = FALSE

\* What a load does by itself once it has begun.
Proceeds(l) ==
  \/ PollAdmits(l) \/ PollWaits(l) \/ PollRefuses(l) \/ PollUnaccounted(l)
  \/ Allocate(l) \/ Commit(l) \/ Free(l) \/ Release(l)

Next ==
  \/ \E l \in Loads : Claim(l) \/ Proceeds(l) \/ GiveUp(l) \/ LeaseFails(l)
  \/ \E p \in Pids : Dies(p) \/ PidReused(p)
  \/ HourPasses \/ Rest

Spec == Init /\ [][Next]_vars

\* Waiters keep polling, loads end, and loaded models are freed some day.  Nobody
\* owes a deadline, a death or a new claim.
FairSpec ==
  /\ Spec
  /\ \A l \in Loads : WF_vars(Proceeds(l))
  /\ WF_vars(HourPasses)

-----------------------------------------------------------------------------
(* Properties.                                                             *)

\* As long as every load is in the file, what is promised and what is taken fit
\* the device together: no two runners are given the same memory, whatever dies,
\* wakes or allocates between two claims (claim_rmw, vram_commit, model_free).
AdmittedFits == ~lost /\ ~loose => DeviceFree >= Promised

\* No reservation or marker of a live process outlasts the claim that left it
\* ("this live process will never be dead-PID reaped", RNR-013).
EntryHasOwner ==
  ~lost => \A x \in ledger :
    x.state \in {"P", "W"} /\ alive[x.pid] /\ x.procstart = started[x.pid] + 1 =>
      \E l \in Loads :
        /\ Mine(l, x)
        /\ ld[l].phase \in IF x.state = "P" THEN {"granted", "allocated"} ELSE {"claim"}

\* A queued claim is not admitted past a live waiter that outranks it and whose
\* request fits what is free beyond the pending claims (the rule of vram_claim).
NoInversion ==
  [][ \A l, h \in Loads :
        /\ ~lost /\ ~loose
        /\ ld[l].phase = "claim" /\ ld[l].waiting /\ ld'[l].phase = "granted"
        /\ ld[h].marked /\ Priority[h] > Priority[l]
        => lost' \/ ~(ld[h].need <= Available(Reaped)) ]_vars

\* Whatever died in front of it, a waiter that does not give up is admitted once
\* the holders have left: no entry of a dead process blocks it for ever.
WaiterProceeds ==
  \A l \in Loads : ld[l].phase = "claim" /\ ld[l].waiting ~> ~ld[l].waiting \/ lost
=============================================================================
