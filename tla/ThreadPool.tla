----------------------------- MODULE ThreadPool -----------------------------
(***************************************************************************)
(* The compute pool of src/src/quants.c: tpool_run hands the rows of one    *)
(* matrix operation to its workers and waits for them.  Either side spins   *)
(* for a while on an atomic and then parks on a condition variable, and     *)
(* either side skips the wake-up when it sees nobody parked.                *)
(*                                                                          *)
(* gen, n_done, n_sleeping, caller_parked and stop are C11 atomics; those   *)
(* the two handshakes rest on are sequentially consistent, so each access   *)
(* is a step of its own.  Spinning is any number of looks.                  *)
(***************************************************************************)
EXTENDS Integers, FiniteSets

CONSTANTS NThreads,  \* tp->n_threads, the caller included
          MaxItems,  \* bound on n_items
          MaxRuns    \* bound on the number of runs (gen is 64 bits wide)

ASSUME ThreadPoolAssumption ==
  /\ NThreads \in Nat \ {0, 1}  \* with one thread tpool_run calls fn itself
  /\ MaxItems \in Nat \ {0, 1}  \* as it does for fewer than two items
  /\ MaxRuns \in Nat

Workers == 1 .. NThreads - 1
Items == 0 .. MaxItems - 1
Caller == 0
Nobody == -1

VARIABLES
  mu,            \* who holds tp->mu
  gen, n_done, n_sleeping, caller_parked, stop,
  n_items,       \* tp->n_items, for fn, ctx and n_items
  rows,          \* how often fn has computed each item in this run
  wpc,           \* where each worker is
  seen,          \* its `seen`
  n,             \* its copy of n_items
  cpc            \* where the caller is

atomics == <<gen, n_done, n_sleeping, caller_parked, stop>>
workerVars == <<wpc, seen, n>>
vars == <<mu, atomics, n_items, rows, workerVars, cpc>>

Goto(w, place) == wpc' = [wpc EXCEPT ![w] = place]
Target == NThreads - 1

\* pthread_cond_broadcast(&tp->cv_work): the parked workers contend for the lock.
WakeWorkers == [w \in Workers |-> IF wpc[w] = "asleep" THEN "woken" ELSE wpc[w]]

-----------------------------------------------------------------------------
(* Which thread computes which items.                                      *)

Least(a, b) == IF a < b THEN a ELSE b

\* Mutant: the division rounds down.
Per_Floor(count) == count \div NThreads

Per(count) == (count + NThreads - 1) \div NThreads

Slice(idx, count) ==
  {r \in Items : Least(idx * Per(count), count) <= r
                 /\ r < Least(idx * Per(count) + Per(count), count)}

\* fn over the slice of thread idx
Compute(idx, count) ==
  rows' = [r \in Items |-> IF r \in Slice(idx, count) THEN rows[r] + 1 ELSE rows[r]]

-----------------------------------------------------------------------------
(* tp_worker.                                                              *)

\* One look at gen: new work ends the wait.
Spin(w) ==
  /\ wpc[w] = "spin"
  /\ IF gen # seen[w]
       THEN Goto(w, "go") /\ seen' = [seen EXCEPT ![w] = gen]
       ELSE Goto(w, "spun") /\ UNCHANGED seen
  /\ UNCHANGED <<mu, atomics, n_items, rows, n, cpc>>

\* Nothing yet: stop, spin on, or give up spinning.
Spun(w) ==
  /\ wpc[w] = "spun"
  /\ IF stop THEN Goto(w, "exit") ELSE Goto(w, "spin") \/ Goto(w, "park")
  /\ UNCHANGED <<mu, atomics, n_items, rows, seen, n, cpc>>

Park(w) ==
  /\ wpc[w] = "park" /\ mu = Nobody
  /\ mu' = w
  /\ n_sleeping' = n_sleeping + 1
  /\ Goto(w, "look")
  /\ UNCHANGED <<gen, n_done, caller_parked, stop, n_items, rows, seen, n, cpc>>

\* The condition of the parked wait.
ParkedLook(w) ==
  /\ wpc[w] = "look"
  /\ IF gen = seen[w] /\ ~stop
       THEN Goto(w, "doze") /\ UNCHANGED seen
       ELSE Goto(w, "rise") /\ seen' = [seen EXCEPT ![w] = gen]
  /\ UNCHANGED <<mu, atomics, n_items, rows, n, cpc>>

\* pthread_cond_wait releases the lock and blocks, in one.
Doze(w) ==
  /\ wpc[w] = "doze"
  /\ mu' = Nobody
  /\ Goto(w, "asleep")
  /\ UNCHANGED <<atomics, n_items, rows, seen, n, cpc>>

Wake(w) ==
  /\ wpc[w] = "woken" /\ mu = Nobody
  /\ mu' = w
  /\ Goto(w, "look")
  /\ UNCHANGED <<atomics, n_items, rows, seen, n, cpc>>

Rise(w) ==
  /\ wpc[w] = "rise"
  /\ n_sleeping' = n_sleeping - 1
  /\ mu' = Nobody
  /\ Goto(w, "go")
  /\ UNCHANGED <<gen, n_done, caller_parked, stop, n_items, rows, seen, n, cpc>>

\* stop is asked once more; then the job is read.
Go(w) ==
  /\ wpc[w] = "go"
  /\ IF stop THEN Goto(w, "exit") /\ UNCHANGED n
             ELSE Goto(w, "work") /\ n' = [n EXCEPT ![w] = n_items]
  /\ UNCHANGED <<mu, atomics, n_items, rows, seen, cpc>>

Work(w) ==
  /\ wpc[w] = "work"
  /\ Compute(w, n[w])
  /\ Goto(w, "count")
  /\ UNCHANGED <<mu, atomics, n_items, seen, n, cpc>>

Count(w) ==
  /\ wpc[w] = "count"
  /\ n_done' = n_done + 1
  /\ Goto(w, IF n_done' = Target THEN "last" ELSE "spin")
  /\ UNCHANGED <<mu, gen, n_sleeping, caller_parked, stop, n_items, rows, seen, n, cpc>>

\* The last one in looks whether the caller has parked.
Last(w) ==
  /\ wpc[w] = "last"
  /\ Goto(w, IF caller_parked THEN "notify" ELSE "spin")
  /\ UNCHANGED <<mu, atomics, n_items, rows, seen, n, cpc>>

Notify(w) ==
  /\ wpc[w] = "notify" /\ mu = Nobody
  /\ cpc' = IF cpc = "asleep" THEN "woken" ELSE cpc
  /\ Goto(w, "spin")
  /\ UNCHANGED <<mu, atomics, n_items, rows, seen, n>>

WorkerStep(w) ==
  \/ Spin(w) \/ Spun(w) \/ Park(w) \/ ParkedLook(w) \/ Doze(w) \/ Wake(w) \/ Rise(w)
  \/ Go(w) \/ Work(w) \/ Count(w) \/ Last(w) \/ Notify(w)

-----------------------------------------------------------------------------
(* tpool_run and tpool_destroy.                                            *)

\* The job and the two resets, before anybody can see them.
Run ==
  /\ cpc = "idle" /\ gen < MaxRuns
  /\ n_items' \in 2 .. MaxItems
  /\ n_done' = 0 /\ caller_parked' = FALSE
  /\ rows' = [r \in Items |-> 0]
  /\ cpc' = "publish"
  /\ UNCHANGED <<mu, gen, n_sleeping, stop, workerVars>>

Publish ==
  /\ cpc = "publish" /\ cpc' = "sleepers"
  /\ gen' = gen + 1
  /\ UNCHANGED <<mu, n_done, n_sleeping, caller_parked, stop, n_items, rows, workerVars>>

\* Mutant: only a pool that is wholly asleep is woken.
Sleepers_AllOnly ==
  /\ cpc = "sleepers"
  /\ cpc' = IF n_sleeping = Target THEN "rouse" ELSE "slice"
  /\ UNCHANGED <<mu, atomics, n_items, rows, workerVars>>

\* A hot pool is not broadcast to.
Sleepers ==
  /\ cpc = "sleepers"
  /\ cpc' = IF n_sleeping > 0 THEN "rouse" ELSE "slice"
  /\ UNCHANGED <<mu, atomics, n_items, rows, workerVars>>

Rouse ==
  /\ cpc = "rouse" /\ mu = Nobody /\ cpc' = "slice"
  /\ wpc' = WakeWorkers
  /\ UNCHANGED <<mu, atomics, n_items, rows, seen, n>>

OwnSlice ==
  /\ cpc = "slice" /\ cpc' = "poll"
  /\ Compute(Caller, n_items)
  /\ UNCHANGED <<mu, atomics, n_items, workerVars>>

Finished == n_done >= Target

\* One look at n_done: return, look again, or give up spinning.
Poll ==
  /\ cpc = "poll"
  /\ IF Finished THEN cpc' = "idle" ELSE cpc' = "park"
  /\ UNCHANGED <<mu, atomics, n_items, rows, workerVars>>

CallerParks ==
  /\ cpc = "park" /\ mu = Nobody /\ cpc' = "look"
  /\ mu' = Caller
  /\ caller_parked' = TRUE
  /\ UNCHANGED <<gen, n_done, n_sleeping, stop, n_items, rows, workerVars>>

\* The condition of its parked wait.
CallerLook ==
  /\ cpc = "look"
  /\ cpc' = IF Finished THEN "rise" ELSE "doze"
  /\ UNCHANGED <<mu, atomics, n_items, rows, workerVars>>

CallerDoze ==
  /\ cpc = "doze" /\ cpc' = "asleep"
  /\ mu' = Nobody
  /\ UNCHANGED <<atomics, n_items, rows, workerVars>>

CallerWakes ==
  /\ cpc = "woken" /\ mu = Nobody /\ cpc' = "look"
  /\ mu' = Caller
  /\ UNCHANGED <<atomics, n_items, rows, workerVars>>

CallerRises ==
  /\ cpc = "rise" /\ cpc' = "idle"
  /\ caller_parked' = FALSE
  /\ mu' = Nobody
  /\ UNCHANGED <<gen, n_done, n_sleeping, stop, n_items, rows, workerVars>>

\* Mutant: the sleepers are not told.
Destroy_Silent ==
  /\ cpc = "idle" /\ mu = Nobody /\ cpc' = "join"
  /\ stop' = TRUE
  /\ UNCHANGED <<mu, gen, n_done, n_sleeping, caller_parked, n_items, rows, workerVars>>

\* tpool_destroy, up to the joins.
Destroy ==
  /\ cpc = "idle" /\ mu = Nobody /\ cpc' = "join"
  /\ stop' = TRUE
  /\ wpc' = WakeWorkers
  /\ UNCHANGED <<mu, gen, n_done, n_sleeping, caller_parked, n_items, rows, seen, n>>

Free ==
  /\ cpc = "join" /\ cpc' = "gone"
  /\ \A w \in Workers : wpc[w] = "exit"
  /\ UNCHANGED <<mu, atomics, n_items, rows, workerVars>>

RunStep ==
  \/ Publish \/ Sleepers \/ Rouse \/ OwnSlice \/ Poll \/ CallerParks \/ CallerLook
  \/ CallerDoze \/ CallerWakes \/ CallerRises \/ Free

\* POSIX allows a condition wait to return unsignalled.
SpuriousWake ==
  \/ /\ \E w \in Workers : wpc[w] = "asleep" /\ Goto(w, "woken")
     /\ UNCHANGED <<mu, atomics, n_items, rows, seen, n, cpc>>
  \/ /\ cpc = "asleep" /\ cpc' = "woken"
     /\ UNCHANGED <<mu, atomics, n_items, rows, workerVars>>

\* The pool is freed.
Ended == cpc = "gone" /\ UNCHANGED vars

-----------------------------------------------------------------------------

Init ==
  /\ mu = Nobody
  /\ gen = 0 /\ n_done = 0 /\ n_sleeping = 0
  /\ caller_parked = FALSE /\ stop = FALSE
  /\ n_items = 0 /\ rows = [r \in Items |-> 0]
  /\ wpc = [w \in Workers |-> "spin"]
  /\ seen = [w \in Workers |-> 0]
  /\ n = [w \in Workers |-> 0]
  /\ cpc = "idle"

Next ==
  \/ \E w \in Workers : WorkerStep(w)
  \/ Run \/ RunStep \/ Destroy \/ SpuriousWake
  \/ Ended

Spec == Init /\ [][Next]_vars

\* The threads run, and whoever waits for tp->mu, which is never held for long,
\* gets it: strong fairness, since another thread may hold it now and then.  How long
\* anybody spins is left open.  Nobody owes a run.
FairSpec ==
  /\ Spec
  /\ \A w \in Workers : SF_vars(WorkerStep(w))
  /\ SF_vars(RunStep)

-----------------------------------------------------------------------------
(* Properties.                                                             *)

\* When tpool_run returns, every item has been computed, once, and no worker is
\* still at it (the caller reuses ctx, which lives on its stack).
Busy == {w \in Workers : wpc[w] \in {"go", "work", "count"}}
RunIsComplete ==
  cpc = "idle" => /\ Busy = {}
                  /\ \A r \in Items : rows[r] = IF r < n_items THEN 1 ELSE 0

\* tpool_run returns, and tpool_destroy joins every worker.
RunReturns == cpc = "publish" ~> cpc = "idle"
DestroyEnds == stop ~> cpc = "gone"
=============================================================================
