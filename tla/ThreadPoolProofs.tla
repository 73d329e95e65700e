-------------------------- MODULE ThreadPoolProofs --------------------------
(***************************************************************************)
(* Theorems about ThreadPool for any number of threads, items and runs.     *)
(*                                                                          *)
(* While the pool lives, n_done counts the workers that have seen the       *)
(* current generation and are through with it, rows says which threads have *)
(* computed their slice, and the two locks-and-counters of the parked waits *)
(* (n_sleeping, caller_parked, mu) say who is parked.  The first two give   *)
(* RunIsComplete, the third that nobody sleeps through a wake-up.           *)
(***************************************************************************)
EXTENDS ThreadPool, FiniteSetTheorems, TLAPS

WorkerPlaces == {"spin", "spun", "park", "look", "doze", "asleep", "woken", "rise", "go",
                 "work", "count", "last", "notify", "exit"}
RunPlaces == {"sleepers", "rouse", "slice", "poll", "park", "look", "doze", "asleep",
              "woken", "rise"}

PoolType ==
  /\ mu \in Workers \cup {Caller, Nobody}
  /\ gen \in Nat /\ n_done \in Nat /\ n_sleeping \in Int
  /\ caller_parked \in BOOLEAN /\ stop \in BOOLEAN
  /\ n_items \in Nat
  /\ rows \in [Items -> Nat]
  /\ wpc \in [Workers -> WorkerPlaces]
  /\ seen \in [Workers -> Nat] /\ n \in [Workers -> Nat]
  /\ cpc \in RunPlaces \cup {"idle", "publish", "join", "gone"}
  /\ stop <=> cpc \in {"join", "gone"}

\* Where a worker is that has taken up the job and not yet counted itself out.
AtIt == {"rise", "go", "work", "count"}
Counted == {w \in Workers : seen[w] = gen /\ wpc[w] \notin AtIt}

\* Who has computed its slice of this run.
Computed(t) ==
  IF t = Caller THEN cpc \notin {"publish", "sleepers", "rouse", "slice"}
                ELSE seen[t] = gen /\ wpc[t] \notin {"rise", "go", "work"}

\* No worker leaves a pool that lives, and each is at most one generation behind,
\* and then only during a run it has not taken up yet.
Generations ==
  \A w \in Workers :
    /\ wpc[w] # "exit"
    /\ \/ seen[w] = gen
       \/ seen[w] = gen - 1 /\ cpc \in RunPlaces /\ wpc[w] \notin AtIt

\* n_done is the number of workers through with the run, and no run is left before
\* all of them are.
DoneCounts ==
  /\ cpc \in RunPlaces => n_done = Cardinality(Counted)
  /\ cpc = "publish" => n_done = 0
  /\ cpc \in {"idle", "publish", "rise"} => Counted = Workers

\* What has been computed is what the threads through with their slice own.
RowsComputed ==
  /\ cpc = "publish" => \A r \in Items : rows[r] = 0
  /\ cpc \in RunPlaces \cup {"idle"} =>
       \A r \in Items :
         rows[r] = IF \E t \in 0 .. NThreads - 1 : Computed(t) /\ r \in Slice(t, n_items)
                     THEN 1 ELSE 0
  /\ \A w \in Workers : wpc[w] \in {"work", "count"} => n[w] = n_items

PoolInv == PoolType /\ (~stop => Generations /\ DoneCounts /\ RowsComputed)

-----------------------------------------------------------------------------
(* The parked waits.                                                       *)

Parked == {w \in Workers : wpc[w] \in {"look", "doze", "asleep", "woken", "rise"}}

\* n_sleeping counts the workers inside the parked wait, caller_parked tells whether
\* the caller is in its own, and tp->mu is held exactly where the code holds it.
ParkInv ==
  /\ n_sleeping = Cardinality(Parked)
  /\ \A w \in Workers : mu = w <=> wpc[w] \in {"look", "doze", "rise"}
  /\ mu = Caller <=> cpc \in {"look", "doze", "rise"}
  /\ caller_parked <=> cpc \in {"look", "doze", "asleep", "woken", "rise"}

\* A worker is parked on work it has not seen, or on a stop, only until the caller has
\* looked for sleepers; and the caller is parked on a finished run only while a worker
\* is on its way to tell it.
NoSleepThroughWork ==
  /\ \A w \in Workers :
       wpc[w] \in {"doze", "asleep"} /\ (seen[w] # gen \/ stop) => cpc \in {"sleepers", "rouse"}
  /\ cpc \in {"doze", "asleep"} /\ Finished => \E w \in Workers : wpc[w] \in {"last", "notify"}

-----------------------------------------------------------------------------
(* Slices.                                                                 *)

LEMMA Division ==
  ASSUME NEW a \in Nat, NEW b \in Nat \ {0}
  PROVE  a \div b \in Nat /\ (a \div b) * b <= a /\ a < (a \div b) * b + b
<1>1. a = b * (a \div b) + (a % b) /\ (a % b) \in 0 .. (b - 1)
  OBVIOUS
<1> QED BY <1>1

LEMMA NextMultiple ==
  ASSUME NEW s \in Nat, NEW t \in Nat, NEW p \in Nat, t < s
  PROVE  t * p + p <= s * p
<1>1. PICK d \in Nat : s = t + 1 + d
  <2>1. s - t - 1 \in Nat /\ s = t + 1 + (s - t - 1)
    OBVIOUS
  <2> QED BY <2>1
<1>2. s * p = t * p + p + d * p /\ d * p \in Nat
  BY <1>1
<1> QED BY <1>2

\* Per rounds up: NThreads slices of that size hold all the items.
LEMMA PerCovers ==
  ASSUME NEW count \in Nat
  PROVE  Per(count) \in Nat /\ count <= NThreads * Per(count)
<1> DEFINE P == Per(count)
<1>1. NThreads \in Nat \ {0} /\ count + NThreads - 1 \in Nat
  BY ThreadPoolAssumption
<1>2. P \in Nat /\ count + NThreads - 1 < P * NThreads + NThreads
  BY <1>1, Division DEF Per
<1>3. P * NThreads = NThreads * P /\ P * NThreads \in Nat
  BY <1>1, <1>2
<1> HIDE DEF P
<1>4. count <= NThreads * P
  BY <1>1, <1>2, <1>3
<1> QED BY <1>2, <1>4 DEF P

\* The bounds of a slice without the two minima.
LEMMA SliceBounds ==
  ASSUME NEW t \in Nat, NEW count \in Nat, NEW r \in Items
  PROVE  r \in Slice(t, count) <=>
           r < count /\ t * Per(count) <= r /\ r < t * Per(count) + Per(count)
<1> DEFINE P == Per(count)
<1>1. P \in Nat /\ r \in Nat
  BY PerCovers, ThreadPoolAssumption DEF Items
<1>2. t * P \in Nat
  BY <1>1
<1> DEFINE x == t * P
<1>3. r \in Slice(t, count) <=> Least(x, count) <= r /\ r < Least(x + P, count)
  BY DEF Slice
<1> HIDE DEF x, P
<1>4. Least(x, count) <= r /\ r < Least(x + P, count) <=> r < count /\ x <= r /\ r < x + P
  BY <1>1, <1>2 DEF Least, x
<1> QED BY <1>3, <1>4 DEF x, P

\* No item belongs to two threads.
LEMMA SlicesDisjoint ==
  ASSUME NEW s \in Nat, NEW t \in Nat, s # t, NEW count \in Nat, NEW r \in Items
  PROVE  ~(r \in Slice(s, count) /\ r \in Slice(t, count))
<1> DEFINE P == Per(count)
<1>1. P \in Nat /\ r \in Int
  BY PerCovers, ThreadPoolAssumption DEF Items
<1>2. s * P + P <= t * P \/ t * P + P <= s * P
  BY <1>1, NextMultiple
<1>3. s * P \in Nat /\ t * P \in Nat
  BY <1>1
<1>4. /\ r \in Slice(s, count) => s * P <= r /\ r < s * P + P
      /\ r \in Slice(t, count) => t * P <= r /\ r < t * P + P
  BY SliceBounds
<1> DEFINE x == s * P  y == t * P
<1>5. /\ x \in Nat /\ y \in Nat /\ (x + P <= y \/ y + P <= x)
      /\ r \in Slice(s, count) => x <= r /\ r < x + P
      /\ r \in Slice(t, count) => y <= r /\ r < y + P
  BY <1>2, <1>3, <1>4
<1> HIDE DEF x, y, P
<1> QED BY <1>1, <1>5

\* Every item below the count belongs to one of the threads.
LEMMA SlicesCover ==
  ASSUME NEW count \in Nat, NEW r \in Items
  PROVE  (\E t \in 0 .. NThreads - 1 : r \in Slice(t, count)) <=> r < count
<1> DEFINE P == Per(count)
<1>1. /\ P \in Nat /\ r \in Nat /\ NThreads \in Nat /\ NThreads - 1 \in Nat
      /\ count <= NThreads * P
  BY PerCovers, ThreadPoolAssumption DEF Items
<1>2. ASSUME NEW t \in 0 .. NThreads - 1, r \in Slice(t, count) PROVE r < count
  BY <1>1, <1>2, SliceBounds
<1>3. ASSUME r < count PROVE \E t \in 0 .. NThreads - 1 : r \in Slice(t, count)
  <2>1. P # 0
    BY <1>1, <1>3
  <2> DEFINE t == r \div P
  <2>2. t \in Nat /\ t * P <= r /\ r < t * P + P
    BY <1>1, <2>1, Division
  <2>3. r \in Slice(t, count)
    BY <1>3, <2>2, SliceBounds
  <2> HIDE DEF t
  <2>4. t < NThreads
    <3> SUFFICES ASSUME NThreads <= t PROVE FALSE
      BY <1>1, <2>2
    <3>1. NThreads * P <= t * P
      <4>1. CASE NThreads = t
        BY <4>1, <1>1, <2>2
      <4>2. CASE NThreads < t
        <5>1. NThreads * P + P <= t * P
          BY <4>2, <1>1, <2>2, NextMultiple
        <5>2. NThreads * P \in Nat /\ t * P \in Nat
          BY <1>1, <2>2
        <5> QED BY <5>1, <5>2, <1>1
      <4> QED BY <4>1, <4>2, <1>1, <2>2
    <3>2. NThreads * P \in Nat /\ t * P \in Nat
      BY <1>1, <2>2
    <3> QED BY <3>1, <3>2, <1>1, <1>3, <2>2
  <2> QED BY <2>2, <2>3, <2>4, <1>1
<1> QED BY <1>2, <1>3

-----------------------------------------------------------------------------
(* Counting workers.                                                       *)

LEMMA WorkersCount ==
  /\ IsFiniteSet(Workers) /\ Cardinality(Workers) = Target /\ Target \in Nat
  /\ \A T \in SUBSET Workers :
       /\ IsFiniteSet(T) /\ Cardinality(T) \in Nat /\ Cardinality(T) <= Target
       /\ Cardinality(T) = Target => T = Workers
<1>1. NThreads \in Nat /\ NThreads >= 2
  BY ThreadPoolAssumption
<1>2. IsFiniteSet(1 .. NThreads - 1) /\ Cardinality(1 .. NThreads - 1) = NThreads - 1
  BY <1>1, FS_Interval
<1>3. ASSUME NEW T \in SUBSET Workers
      PROVE  /\ IsFiniteSet(T) /\ Cardinality(T) \in Nat /\ Cardinality(T) <= Target
             /\ Cardinality(T) = Target => T = Workers
  <2>1. IsFiniteSet(T) /\ Cardinality(T) <= Target /\ (Cardinality(T) = Target => T = Workers)
    BY <1>2, FS_Subset DEF Workers, Target
  <2> QED BY <2>1, FS_CardinalityType
<1> QED BY <1>1, <1>2, <1>3 DEF Workers, Target

LEMMA WorkersAddRemove ==
  ASSUME NEW T \in SUBSET Workers, NEW w \in Workers
  PROVE  /\ w \notin T => Cardinality(T \cup {w}) = Cardinality(T) + 1
         /\ w \in T => Cardinality(T \ {w}) = Cardinality(T) - 1
BY WorkersCount, FS_AddElement, FS_RemoveElement

-----------------------------------------------------------------------------
(* The invariant holds initially and every step preserves it.              *)

LEMMA InitPool == Init => PoolInv
<1> SUFFICES ASSUME Init PROVE PoolInv
  OBVIOUS
<1>1. PoolType
  <2>1. rows \in [Items -> Nat] /\ wpc \in [Workers -> WorkerPlaces]
    BY DEF Init, WorkerPlaces
  <2>2. seen \in [Workers -> Nat] /\ n \in [Workers -> Nat]
    BY DEF Init
  <2>3. stop <=> cpc \in {"join", "gone"}
    BY DEF Init
  <2>4. /\ mu \in Workers \cup {Caller, Nobody}
        /\ gen \in Nat /\ n_done \in Nat /\ n_sleeping \in Int /\ n_items \in Nat
        /\ cpc \in RunPlaces \cup {"idle", "publish", "join", "gone"}
    BY DEF Init
  <2>5. caller_parked \in BOOLEAN /\ stop \in BOOLEAN
    BY DEF Init
  <2> QED BY <2>1, <2>2, <2>3, <2>4, <2>5 DEF PoolType
<1>2. Counted = Workers
  BY DEF Init, Counted, AtIt
<1>3. Generations /\ DoneCounts
  BY <1>2 DEF Init, Generations, DoneCounts, RunPlaces
<1>4. ASSUME NEW r \in Items PROVE ~\E t \in 0 .. NThreads - 1 : r \in Slice(t, n_items)
  BY SlicesCover DEF Init, Items
<1>5. RowsComputed
  BY <1>4 DEF Init, RowsComputed, RunPlaces
<1> QED BY <1>1, <1>3, <1>5 DEF PoolInv

\* Types.
LEMMA PoolTypeStep == ASSUME PoolType, Next PROVE PoolType'
<1> USE DEF PoolType, RunPlaces, Caller, Nobody
<1>1. ASSUME NEW w \in Workers, WorkerStep(w) PROVE PoolType'
  <2> USE DEF atomics, workerVars, Goto, WorkerPlaces
  <2>1. CASE Spin(w)        BY <2>1 DEF Spin
  <2>2. CASE Spun(w)        BY <2>2 DEF Spun
  <2>3. CASE Park(w)        BY <2>3 DEF Park
  <2>4. CASE ParkedLook(w)  BY <2>4 DEF ParkedLook
  <2>5. CASE Doze(w)        BY <2>5 DEF Doze
  <2>6. CASE Wake(w)        BY <2>6 DEF Wake
  <2>7. CASE Rise(w)        BY <2>7 DEF Rise
  <2>8. CASE Go(w)          BY <2>8 DEF Go
  <2>9. CASE Work(w)        BY <2>9 DEF Work, Compute
  <2>10. CASE Count(w)      BY <2>10 DEF Count
  <2>11. CASE Last(w)       BY <2>11 DEF Last
  <2>12. CASE Notify(w)     BY <2>12 DEF Notify
  <2> QED BY <1>1, <2>1, <2>2, <2>3, <2>4, <2>5, <2>6, <2>7, <2>8, <2>9, <2>10, <2>11, <2>12
          DEF WorkerStep
<1>2. CASE Run
  <2>1. rows' \in [Items -> Nat] /\ n_items' \in Nat
    BY <1>2, ThreadPoolAssumption DEF Run
  <2> QED BY <1>2, <2>1 DEF Run, workerVars
<1>3. CASE RunStep
  <2> USE DEF atomics, workerVars
  <2>1. CASE Publish      BY <2>1 DEF Publish
  <2>2. CASE Sleepers     BY <2>2 DEF Sleepers
  <2>3. CASE Rouse        BY <2>3 DEF Rouse, WakeWorkers, WorkerPlaces
  <2>4. CASE OwnSlice     BY <2>4 DEF OwnSlice, Compute
  <2>5. CASE Poll         BY <2>5 DEF Poll
  <2>6. CASE CallerParks  BY <2>6 DEF CallerParks
  <2>7. CASE CallerLook   BY <2>7 DEF CallerLook
  <2>8. CASE CallerDoze   BY <2>8 DEF CallerDoze
  <2>9. CASE CallerWakes  BY <2>9 DEF CallerWakes
  <2>10. CASE CallerRises BY <2>10 DEF CallerRises
  <2>11. CASE Free        BY <2>11 DEF Free
  <2> QED BY <1>3, <2>1, <2>2, <2>3, <2>4, <2>5, <2>6, <2>7, <2>8, <2>9, <2>10, <2>11
          DEF RunStep
<1>4. CASE Destroy
  BY <1>4 DEF Destroy, WakeWorkers, WorkerPlaces
<1>5. CASE SpuriousWake
  BY <1>5 DEF SpuriousWake, Goto, WorkerPlaces, atomics, workerVars
<1>6. CASE Ended
  BY <1>6 DEF Ended, vars, atomics, workerVars
<1> QED BY <1>1, <1>2, <1>3, <1>4, <1>5, <1>6 DEF Next

\* A step that takes nobody into the job or out of it, and computes nothing.
LEMMA PoolQuiet ==
  ASSUME PoolInv, PoolType',
         UNCHANGED <<gen, n_done, stop, n_items, rows, seen, n>>,
         \A w \in Workers :
           /\ wpc'[w] \in AtIt <=> wpc[w] \in AtIt
           /\ wpc'[w] \in {"work", "count"} <=> wpc[w] \in {"work", "count"}
           /\ wpc'[w] = "count" <=> wpc[w] = "count"
           /\ ~stop /\ wpc'[w] = "exit" => wpc[w] = "exit",
         cpc' = "publish" <=> cpc = "publish",
         ~stop => (cpc' \in {"sleepers", "rouse", "slice"} <=>
                   cpc \in {"sleepers", "rouse", "slice"}),
         ~stop => (cpc' \in RunPlaces => cpc \in RunPlaces),
         cpc' \in {"idle", "rise"} /\ ~stop /\ cpc' # cpc => Counted = Workers,
         cpc' = "idle" => cpc \in RunPlaces \cup {"idle"},
         ~stop /\ cpc \in RunPlaces /\ cpc' \notin RunPlaces => Counted = Workers
  PROVE  PoolInv'
<1> SUFFICES ASSUME ~stop PROVE (Generations /\ DoneCounts /\ RowsComputed)'
  BY DEF PoolInv
<1>1. Generations /\ DoneCounts /\ RowsComputed
  BY DEF PoolInv
<1>2. Counted' = Counted
  BY DEF Counted
<1>3. Generations'
  BY <1>1, <1>2 DEF Generations, Counted
<1>4. DoneCounts'
  BY <1>1, <1>2 DEF DoneCounts
<1>5. ASSUME NEW t \in 0 .. NThreads - 1, ~(cpc' \in {"join", "gone"}) PROVE Computed(t)' <=> Computed(t)
  <2>1. t = Caller \/ t \in Workers
    BY ThreadPoolAssumption DEF Caller, Workers
  <2>2. cpc \notin {"join", "gone"}
    BY DEF PoolInv, PoolType
  <2> QED BY <2>1, <2>2, <1>5 DEF Computed, AtIt
<1>6. RowsComputed'
  BY <1>1, <1>5 DEF RowsComputed, RunPlaces
<1> QED BY <1>3, <1>4, <1>6


\* A worker that sees the new generation leaves its wait for the job.
LEMMA PoolTakesUp ==
  ASSUME PoolInv, PoolType', NEW w \in Workers, seen[w] # gen, ~stop,
         NEW p \in {"go", "rise"}, Goto(w, p), seen' = [seen EXCEPT ![w] = gen],
         wpc[w] \notin AtIt,
         UNCHANGED <<gen, n_done, stop, n_items, rows, n, cpc>>
  PROVE  PoolInv'
<1>1. Generations /\ DoneCounts /\ RowsComputed /\ PoolType
  BY DEF PoolInv
<1>2. cpc \in RunPlaces /\ cpc # "rise"
  BY <1>1 DEF Generations, DoneCounts, Counted
<1>3. \A v \in Workers : /\ wpc'[v] = IF v = w THEN p ELSE wpc[v]
                         /\ seen'[v] = IF v = w THEN gen ELSE seen[v]
  BY <1>1 DEF PoolType, Goto
<1>4. Counted' = Counted
  BY <1>3 DEF Counted, AtIt
<1>5. Generations'
  BY <1>1, <1>3 DEF Generations, AtIt
<1>6. DoneCounts'
  BY <1>1, <1>2, <1>4 DEF DoneCounts, RunPlaces
<1>7. ASSUME NEW t \in 0 .. NThreads - 1 PROVE Computed(t)' <=> Computed(t)
  <2>1. t = Caller \/ t \in Workers
    BY ThreadPoolAssumption DEF Caller, Workers
  <2> QED BY <2>1, <1>3 DEF Computed, AtIt
<1>8. RowsComputed'
  BY <1>1, <1>2, <1>3, <1>7 DEF RowsComputed, RunPlaces
<1> QED BY <1>5, <1>6, <1>8 DEF PoolInv

\* A worker reads the job it is to do.
LEMMA PoolGo ==
  ASSUME PoolInv, PoolType', NEW w \in Workers, Go(w), ~stop
  PROVE  PoolInv'
<1> USE DEF Go, Goto, atomics
<1>1. Generations /\ DoneCounts /\ RowsComputed /\ PoolType
  BY DEF PoolInv
<1>2. \A v \in Workers : /\ wpc'[v] = IF v = w THEN "work" ELSE wpc[v]
                         /\ n'[v] = IF v = w THEN n_items ELSE n[v]
  BY <1>1 DEF PoolType
<1>3. Counted' = Counted
  BY <1>2 DEF Counted, AtIt
<1>4. Generations'
  BY <1>1, <1>2 DEF Generations, AtIt
<1>5. DoneCounts'
  BY <1>1, <1>3 DEF DoneCounts
<1>6. ASSUME NEW t \in 0 .. NThreads - 1 PROVE Computed(t)' <=> Computed(t)
  <2>1. t = Caller \/ t \in Workers
    BY ThreadPoolAssumption DEF Caller, Workers
  <2> QED BY <2>1, <1>2 DEF Computed
<1>7. RowsComputed'
  BY <1>1, <1>2, <1>6 DEF RowsComputed
<1> QED BY <1>4, <1>5, <1>7 DEF PoolInv

\* One more thread has computed its slice, which nobody else's overlaps.
LEMMA RowsGrow ==
  ASSUME PoolType, NEW idx \in 0 .. NThreads - 1, n_items' = n_items,
         Compute(idx, n_items), ~Computed(idx), Computed(idx)',
         \A t \in (0 .. NThreads - 1) \ {idx} : Computed(t)' <=> Computed(t),
         \A r \in Items :
           rows[r] = IF \E t \in 0 .. NThreads - 1 : Computed(t) /\ r \in Slice(t, n_items)
                       THEN 1 ELSE 0
  PROVE  \A r \in Items :
           rows'[r] = IF \E t \in 0 .. NThreads - 1 : Computed(t)' /\ r \in Slice(t, n_items')
                        THEN 1 ELSE 0
<1> SUFFICES ASSUME NEW r \in Items
             PROVE  rows'[r] = IF \E t \in 0 .. NThreads - 1 :
                                    Computed(t)' /\ r \in Slice(t, n_items)
                                 THEN 1 ELSE 0
  OBVIOUS
<1>1. rows'[r] = IF r \in Slice(idx, n_items) THEN rows[r] + 1 ELSE rows[r]
  BY DEF Compute
<1>2. idx \in Nat /\ (\A t \in 0 .. NThreads - 1 : t \in Nat) /\ n_items \in Nat
  BY ThreadPoolAssumption DEF PoolType
<1>3. CASE r \in Slice(idx, n_items)
  <2>1. ASSUME NEW t \in 0 .. NThreads - 1, t # idx PROVE r \notin Slice(t, n_items)
    BY <1>2, <1>3, <2>1, SlicesDisjoint
  <2>2. rows[r] = 0
    BY <2>1
  <2> QED BY <1>1, <1>3, <2>2
<1>4. CASE r \notin Slice(idx, n_items)
  BY <1>1, <1>4
<1> QED BY <1>3, <1>4

\* A worker computes its slice.
LEMMA PoolWork ==
  ASSUME PoolInv, PoolType', NEW w \in Workers, Work(w), ~stop
  PROVE  PoolInv'
<1> USE DEF Work, Goto, atomics
<1>1. Generations /\ DoneCounts /\ RowsComputed /\ PoolType
  BY DEF PoolInv
<1>2. \A v \in Workers : wpc'[v] = IF v = w THEN "count" ELSE wpc[v]
  BY <1>1 DEF PoolType
<1>3. Counted' = Counted
  BY <1>2 DEF Counted, AtIt
<1>4. Generations'
  BY <1>1, <1>2 DEF Generations, AtIt
<1>5. DoneCounts'
  BY <1>1, <1>3 DEF DoneCounts
<1>6. w \in 0 .. NThreads - 1 /\ w # Caller
  BY ThreadPoolAssumption DEF Caller, Workers
<1>7. seen[w] = gen /\ cpc \in RunPlaces
  BY <1>1 DEF Generations, AtIt, DoneCounts, Counted, PoolType
<1>8. ~Computed(w) /\ Computed(w)'
  BY <1>2, <1>6, <1>7 DEF Computed
<1>9. ASSUME NEW t \in (0 .. NThreads - 1) \ {w} PROVE Computed(t)' <=> Computed(t)
  <2>1. t = Caller \/ t \in Workers
    BY ThreadPoolAssumption DEF Caller, Workers
  <2> QED BY <2>1, <1>2 DEF Computed
<1>10. n[w] = n_items
  BY <1>1 DEF RowsComputed
<1>11. \A r \in Items :
         rows'[r] = IF \E t \in 0 .. NThreads - 1 : Computed(t)' /\ r \in Slice(t, n_items')
                      THEN 1 ELSE 0
  BY <1>1, <1>6, <1>7, <1>8, <1>9, <1>10, RowsGrow DEF RowsComputed
<1>12. RowsComputed'
  BY <1>1, <1>2, <1>7, <1>10, <1>11 DEF RowsComputed, RunPlaces
<1> QED BY <1>4, <1>5, <1>12 DEF PoolInv

\* A worker counts itself out.
LEMMA PoolCount ==
  ASSUME PoolInv, PoolType', NEW w \in Workers, Count(w), ~stop
  PROVE  PoolInv'
<1> USE DEF Count, Goto
<1>1. Generations /\ DoneCounts /\ RowsComputed /\ PoolType
  BY DEF PoolInv
<1>2. \A v \in Workers \ {w} : wpc'[v] = wpc[v]
  BY <1>1 DEF PoolType
<1>3. wpc'[w] \in {"last", "spin"}
  BY <1>1 DEF PoolType
<1>4. seen[w] = gen /\ cpc \in RunPlaces /\ cpc # "rise"
  BY <1>1 DEF Generations, AtIt, DoneCounts, Counted, PoolType
<1>5. Counted' = Counted \cup {w} /\ w \notin Counted
  BY <1>2, <1>3, <1>4 DEF Counted, AtIt
<1>6. n_done' = Cardinality(Counted')
  BY <1>1, <1>4, <1>5, WorkersAddRemove DEF DoneCounts, Counted
<1>7. Generations'
  BY <1>1, <1>2, <1>3 DEF Generations, AtIt
<1>8. DoneCounts'
  BY <1>4, <1>6 DEF DoneCounts, RunPlaces
<1>9. ASSUME NEW t \in 0 .. NThreads - 1 PROVE Computed(t)' <=> Computed(t)
  <2>1. t = Caller \/ t \in Workers
    BY ThreadPoolAssumption DEF Caller, Workers
  <2> QED BY <2>1, <1>2, <1>3 DEF Computed
<1>10. RowsComputed'
  BY <1>1, <1>2, <1>3, <1>9 DEF RowsComputed
<1> QED BY <1>7, <1>8, <1>10 DEF PoolInv


\* The caller starts a run.
LEMMA PoolRun == ASSUME PoolInv, PoolType', Run PROVE PoolInv'
<1> USE DEF Run, workerVars
<1>1. ~stop
  BY DEF PoolInv, PoolType
<1>2. Generations /\ DoneCounts /\ RowsComputed
  BY <1>1 DEF PoolInv
<1>3. Counted' = Counted /\ Counted = Workers
  BY <1>2 DEF DoneCounts, Counted
<1>4. Generations'
  BY <1>2, <1>3 DEF Generations, Counted
<1>5. DoneCounts'
  BY <1>3 DEF DoneCounts, RunPlaces
<1>6. RowsComputed'
  BY <1>3 DEF RowsComputed, RunPlaces, Counted, AtIt
<1> QED BY <1>4, <1>5, <1>6 DEF PoolInv

\* gen moves on, and nobody has seen it yet.
LEMMA PoolPublish == ASSUME PoolInv, PoolType', Publish PROVE PoolInv'
<1> USE DEF Publish, workerVars
<1>1. ~stop
  BY DEF PoolInv, PoolType
<1>2. Generations /\ DoneCounts /\ RowsComputed /\ PoolType
  BY <1>1 DEF PoolInv
<1>3. \A w \in Workers : seen'[w] = gen /\ wpc[w] \notin AtIt /\ gen # gen'
  BY <1>2 DEF DoneCounts, Counted, PoolType
<1>4. Counted' = {}
  BY <1>3 DEF Counted
<1>5. Generations'
  BY <1>2, <1>3 DEF Generations, RunPlaces, PoolType
<1>6. DoneCounts'
  BY <1>2, <1>4, FS_EmptySet DEF DoneCounts, RunPlaces
<1>7. ASSUME NEW t \in 0 .. NThreads - 1 PROVE ~Computed(t)'
  <2>1. t = Caller \/ t \in Workers
    BY ThreadPoolAssumption DEF Caller, Workers
  <2> QED BY <2>1, <1>3 DEF Computed
<1>8. RowsComputed'
  BY <1>2, <1>3, <1>7 DEF RowsComputed, AtIt
<1> QED BY <1>5, <1>6, <1>8 DEF PoolInv

\* The caller computes its own slice.
LEMMA PoolOwnSlice == ASSUME PoolInv, PoolType', OwnSlice PROVE PoolInv'
<1> USE DEF OwnSlice, atomics, workerVars
<1>1. ~stop
  BY DEF PoolInv, PoolType
<1>2. Generations /\ DoneCounts /\ RowsComputed /\ PoolType
  BY <1>1 DEF PoolInv
<1>3. Counted' = Counted
  BY DEF Counted
<1>4. Generations'
  BY <1>2 DEF Generations, RunPlaces
<1>5. DoneCounts'
  BY <1>2, <1>3 DEF DoneCounts, RunPlaces
<1>6. Caller \in 0 .. NThreads - 1
  BY ThreadPoolAssumption DEF Caller
<1>7. ~Computed(Caller) /\ Computed(Caller)'
  BY DEF Computed
<1>8. ASSUME NEW t \in (0 .. NThreads - 1) \ {Caller} PROVE Computed(t)' <=> Computed(t)
  BY DEF Computed
<1>9. \A r \in Items :
        rows'[r] = IF \E t \in 0 .. NThreads - 1 : Computed(t)' /\ r \in Slice(t, n_items')
                     THEN 1 ELSE 0
  BY <1>2, <1>6, <1>7, <1>8, RowsGrow DEF RowsComputed, RunPlaces
<1>10. RowsComputed'
  BY <1>2, <1>9 DEF RowsComputed
<1> QED BY <1>4, <1>5, <1>10 DEF PoolInv

\* A worker's step.
LEMMA PoolWorkerStep ==
  ASSUME PoolInv, PoolType', ~stop, NEW w \in Workers, WorkerStep(w)
  PROVE  PoolInv'
<1> USE DEF Goto, atomics, workerVars
<1>0. PoolType /\ (cpc \in RunPlaces \/ cpc \in {"idle", "publish"})
  BY DEF PoolInv, PoolType
<1>1. ASSUME NEW p \in WorkerPlaces, p # "exit", wpc[w] # "exit",
             wpc' = [wpc EXCEPT ![w] = p],
             \/ wpc[w] \notin AtIt /\ p \notin AtIt
             \/ wpc[w] = "rise" /\ p = "go",
             UNCHANGED <<gen, n_done, stop, n_items, rows, seen, n>>,
             cpc' = cpc \/ (cpc = "asleep" /\ cpc' = "woken")
      PROVE  PoolInv'
  <2>1. \A v \in Workers : wpc'[v] = IF v = w THEN p ELSE wpc[v]
    BY <1>0, <1>1 DEF PoolType
  <2> QED BY <1>0, <1>1, <2>1, PoolQuiet DEF AtIt, RunPlaces
<1>2. CASE Spin(w)
  <2>1. CASE gen # seen[w]
    BY <1>2, <2>1, PoolTakesUp DEF Spin, AtIt
  <2>2. CASE gen = seen[w]
    BY <1>1, <1>2, <2>2 DEF Spin, AtIt, WorkerPlaces
  <2> QED BY <2>1, <2>2
<1>3. CASE Spun(w)
  BY <1>1, <1>3 DEF Spun, AtIt, WorkerPlaces
<1>4. CASE Park(w)
  BY <1>1, <1>4 DEF Park, AtIt, WorkerPlaces
<1>5. CASE ParkedLook(w)
  <2>1. CASE gen # seen[w]
    BY <1>5, <2>1, PoolTakesUp DEF ParkedLook, AtIt
  <2>2. CASE gen = seen[w]
    BY <1>1, <1>5, <2>2 DEF ParkedLook, AtIt, WorkerPlaces
  <2> QED BY <2>1, <2>2
<1>6. CASE Doze(w)
  BY <1>1, <1>6 DEF Doze, AtIt, WorkerPlaces
<1>7. CASE Wake(w)
  BY <1>1, <1>7 DEF Wake, AtIt, WorkerPlaces
<1>8. CASE Rise(w)
  BY <1>1, <1>8 DEF Rise, AtIt, WorkerPlaces
<1>9. CASE Last(w)
  BY <1>1, <1>9 DEF Last, AtIt, WorkerPlaces
<1>10. CASE Notify(w)
  BY <1>1, <1>10 DEF Notify, AtIt, WorkerPlaces
<1> QED BY <1>2, <1>3, <1>4, <1>5, <1>6, <1>7, <1>8, <1>9, <1>10, PoolGo, PoolWork,
           PoolCount DEF WorkerStep

\* The caller's step.  A run ends only when n_done has reached its target, that is,
\* when every worker is counted.
LEMMA PoolRunStep == ASSUME PoolInv, PoolType', ~stop, RunStep PROVE PoolInv'
<1> USE DEF atomics, workerVars
<1>1. PoolType /\ DoneCounts
  BY DEF PoolInv
<1>2. ASSUME Finished, cpc \in RunPlaces PROVE Counted = Workers
  <2>1. Cardinality(Counted) >= Target
    BY <1>1, <1>2 DEF DoneCounts, Finished
  <2>2. Counted \in SUBSET Workers
    BY DEF Counted
  <2> QED BY <2>1, <2>2, WorkersCount
<1>3. ASSUME NEW p, NEW q, cpc = p, cpc' = q,
             \/ p = "sleepers" /\ q \in {"rouse", "slice"}
             \/ p = "rouse" /\ q = "slice"
             \/ /\ p \in {"poll", "park", "look", "doze", "woken"}
                /\ q \in {"park", "look", "doze", "asleep"}
             \/ /\ p \in {"poll", "look", "rise"} /\ q \in {"rise", "idle"}
                /\ Counted = Workers,
             wpc' = wpc \/ wpc' = WakeWorkers,
             UNCHANGED <<gen, n_done, stop, n_items, rows, seen, n>>
      PROVE  PoolInv'
  <2>1. \A v \in Workers : wpc'[v] = wpc[v] \/ (wpc[v] = "asleep" /\ wpc'[v] = "woken")
    BY <1>3 DEF WakeWorkers
  <2> QED BY <1>3, <2>1, PoolQuiet DEF AtIt, RunPlaces
<1>4. CASE Publish
  BY <1>4, PoolPublish
<1>5. CASE Sleepers
  BY <1>3, <1>5 DEF Sleepers
<1>6. CASE Rouse
  BY <1>3, <1>6 DEF Rouse
<1>7. CASE OwnSlice
  BY <1>7, PoolOwnSlice
<1>8. CASE Poll
  BY <1>2, <1>3, <1>8 DEF Poll, RunPlaces
<1>9. CASE CallerParks
  BY <1>3, <1>9 DEF CallerParks
<1>10. CASE CallerLook
  BY <1>2, <1>3, <1>10 DEF CallerLook, RunPlaces
<1>11. CASE CallerDoze
  BY <1>3, <1>11 DEF CallerDoze
<1>12. CASE CallerWakes
  BY <1>3, <1>12 DEF CallerWakes
<1>13. CASE CallerRises
  BY <1>1, <1>3, <1>13 DEF CallerRises, DoneCounts
<1>14. CASE Free
  BY <1>14 DEF Free, PoolInv, PoolType
<1> QED BY <1>4, <1>5, <1>6, <1>7, <1>8, <1>9, <1>10, <1>11, <1>12, <1>13, <1>14 DEF RunStep

LEMMA PoolStep == PoolInv /\ [Next]_vars => PoolInv'
<1> SUFFICES ASSUME PoolInv, [Next]_vars PROVE PoolInv'
  OBVIOUS
<1>1. CASE UNCHANGED vars
  BY <1>1 DEF vars, atomics, workerVars, PoolInv, PoolType, Generations, DoneCounts,
              RowsComputed, Counted, Computed
<1>2. CASE Next
  <2>1. PoolType'
    BY <1>2, PoolTypeStep DEF PoolInv
  <2>2. CASE stop
    <3>1. cpc \in {"join", "gone"}
      BY <2>2 DEF PoolInv, PoolType
    <3>2. ASSUME NEW w \in Workers, WorkerStep(w) PROVE stop'
      BY <2>2, <3>2 DEF WorkerStep, Spin, Spun, Park, ParkedLook, Doze, Wake, Rise, Go, Work,
                        Count, Last, Notify, atomics
    <3>3. ASSUME RunStep PROVE stop'
      BY <2>2, <3>1, <3>3 DEF RunStep, Publish, Sleepers, Rouse, OwnSlice, Poll,
           CallerParks, CallerLook, CallerDoze, CallerWakes, CallerRises, Free, atomics
    <3>4. stop'
      BY <1>2, <2>2, <3>1, <3>2, <3>3
         DEF Next, Run, Destroy, SpuriousWake, Ended, vars, atomics, workerVars
    <3> QED BY <2>1, <3>4 DEF PoolInv
  <2>3. CASE ~stop
    <3>1. CASE Destroy
      BY <2>1, <3>1 DEF Destroy, PoolInv
    <3>2. CASE SpuriousWake
      <4>1. \A v \in Workers : wpc'[v] = wpc[v] \/ (wpc[v] = "asleep" /\ wpc'[v] = "woken")
        BY <3>2 DEF SpuriousWake, Goto, workerVars, PoolInv, PoolType
      <4>2. cpc' = cpc \/ (cpc = "asleep" /\ cpc' = "woken")
        BY <3>2 DEF SpuriousWake
      <4>3. UNCHANGED <<gen, n_done, stop, n_items, rows, seen, n>>
        BY <3>2 DEF SpuriousWake, atomics, workerVars
      <4>4. cpc \in RunPlaces \/ cpc \in {"idle", "publish"}
        BY <2>3 DEF PoolInv, PoolType
      <4> QED BY <2>1, <4>1, <4>2, <4>3, <4>4, PoolQuiet DEF AtIt, RunPlaces
    <3>3. CASE Ended
      BY <2>3, <3>3 DEF Ended, PoolInv, PoolType
    <3> QED BY <1>2, <2>1, <2>3, <3>1, <3>2, <3>3, PoolWorkerStep, PoolRun, PoolRunStep
            DEF Next
  <2> QED BY <2>2, <2>3
<1> QED BY <1>1, <1>2

-----------------------------------------------------------------------------
(* Theorems.                                                               *)

\* Types, and that the workers and n_done agree about who is through with the run
\* (quants.c, tp_worker and tpool_run).
THEOREM PoolInvariant == Spec => []PoolInv
<1>1. Init => PoolInv
  BY InitPool
<1>2. PoolInv /\ [Next]_vars => PoolInv'
  BY PoolStep
<1> QED BY <1>1, <1>2, PTL DEF Spec

\* When tpool_run returns, every item has been computed, once, and nobody is still
\* at it, however the workers spin, park and wake, and however the items fall on
\* the threads.
THEOREM RunComplete == Spec => []RunIsComplete
<1>1. ASSUME PoolInv PROVE RunIsComplete
  <2> SUFFICES ASSUME cpc = "idle"
               PROVE  Busy = {} /\ \A r \in Items : rows[r] = IF r < n_items THEN 1 ELSE 0
    BY DEF RunIsComplete
  <2>1. Generations /\ DoneCounts /\ RowsComputed /\ PoolType
    BY <1>1 DEF PoolInv, PoolType
  <2>2. \A w \in Workers : seen[w] = gen /\ wpc[w] \notin AtIt
    BY <2>1 DEF DoneCounts, Counted
  <2>3. Busy = {}
    BY <2>2 DEF Busy, AtIt
  <2>4. ASSUME NEW t \in 0 .. NThreads - 1 PROVE Computed(t)
    <3>1. t = Caller \/ t \in Workers
      BY ThreadPoolAssumption DEF Caller, Workers
    <3> QED BY <2>2, <3>1 DEF Computed, AtIt
  <2>5. ASSUME NEW r \in Items PROVE rows[r] = IF r < n_items THEN 1 ELSE 0
    <3>1. rows[r] = IF \E t \in 0 .. NThreads - 1 : r \in Slice(t, n_items) THEN 1 ELSE 0
      BY <2>1, <2>4 DEF RowsComputed
    <3>2. (\E t \in 0 .. NThreads - 1 : r \in Slice(t, n_items)) <=> r < n_items
      BY <2>1, SlicesCover DEF PoolType
    <3> QED BY <3>1, <3>2
  <2> QED BY <2>3, <2>5
<1> QED BY <1>1, PoolInvariant, PTL

-----------------------------------------------------------------------------
(* The parked waits.                                                       *)

LEMMA InitPark == Init => ParkInv /\ NoSleepThroughWork
<1> SUFFICES ASSUME Init PROVE ParkInv /\ NoSleepThroughWork
  OBVIOUS
<1>1. Parked = {}
  BY DEF Init, Parked
<1>2. \A w \in Workers : w # Nobody
  BY ThreadPoolAssumption DEF Workers, Nobody
<1>3. ParkInv
  BY <1>1, <1>2, FS_EmptySet DEF Init, ParkInv, Nobody, Caller
<1>4. NoSleepThroughWork
  BY DEF Init, NoSleepThroughWork
<1> QED BY <1>3, <1>4

\* Nobody enters or leaves a parked wait or the lock.
LEMMA ParkQuiet ==
  ASSUME ParkInv,
         UNCHANGED <<mu, n_sleeping, caller_parked>>,
         \A w \in Workers : /\ w \in Parked' <=> w \in Parked
                            /\ wpc'[w] \in {"look", "doze", "rise"} <=>
                               wpc[w] \in {"look", "doze", "rise"},
         cpc' \in {"look", "doze", "rise"} <=> cpc \in {"look", "doze", "rise"},
         cpc' \in {"asleep", "woken"} <=> cpc \in {"asleep", "woken"}
  PROVE  ParkInv'
<1>1. Parked' = Parked
  BY DEF Parked
<1> QED BY <1>1 DEF ParkInv

\* A worker's step through the parked wait.
LEMMA ParkWorkerStep ==
  ASSUME PoolType, ParkInv, NEW w \in Workers, WorkerStep(w)
  PROVE  ParkInv'
<1> USE DEF Goto, atomics, PoolType
<1>1. Caller # Nobody /\ \A v \in Workers : v # Nobody /\ v # Caller
  BY ThreadPoolAssumption DEF Workers, Nobody, Caller
<1>2. Parked \in SUBSET Workers
  BY DEF Parked
<1>3. ASSUME NEW p, wpc' = [wpc EXCEPT ![w] = p],
             p \notin {"look", "doze", "asleep", "woken", "rise"}, w \notin Parked,
             UNCHANGED <<mu, n_sleeping, caller_parked>>,
             cpc' = cpc \/ (cpc = "asleep" /\ cpc' = "woken")
      PROVE  ParkInv'
  <2>1. \A v \in Workers : wpc'[v] = IF v = w THEN p ELSE wpc[v]
    BY <1>3
  <2> QED BY <1>3, <2>1, ParkQuiet DEF Parked
<1>4. CASE Spin(w)   BY <1>3, <1>4 DEF Spin, Parked
<1>5. CASE Spun(w)   BY <1>3, <1>5 DEF Spun, Parked
<1>6. CASE Park(w)
  <2>1. Parked' = Parked \cup {w} /\ w \notin Parked
    BY <1>6 DEF Park, Parked
  <2>2. n_sleeping' = Cardinality(Parked')
    BY <1>2, <1>6, <2>1, WorkersAddRemove DEF Park, ParkInv
  <2>3. /\ \A v \in Workers : mu' = v <=> wpc'[v] \in {"look", "doze", "rise"}
        /\ mu' = Caller <=> cpc' \in {"look", "doze", "rise"}
        /\ caller_parked' <=> cpc' \in {"look", "doze", "asleep", "woken", "rise"}
    <3>1. \A v \in Workers : mu' = v <=> wpc'[v] \in {"look", "doze", "rise"}
      BY <1>1, <1>6 DEF Park, ParkInv
    <3>2. mu' = Caller <=> cpc' \in {"look", "doze", "rise"}
      BY <1>1, <1>6 DEF Park, ParkInv
    <3> QED BY <1>6, <3>1, <3>2 DEF Park, ParkInv
  <2> QED BY <2>2, <2>3 DEF ParkInv
<1>7. CASE ParkedLook(w)
  <2>1. PICK p \in {"doze", "rise"} : wpc' = [wpc EXCEPT ![w] = p]
    BY <1>7 DEF ParkedLook
  <2>2. \A v \in Workers : wpc'[v] = IF v = w THEN p ELSE wpc[v]
    BY <2>1
  <2> QED BY <1>7, <2>2, ParkQuiet DEF ParkedLook, Parked
<1>8. CASE Doze(w)
  <2>1. Parked' = Parked
    BY <1>8 DEF Doze, Parked
  <2>2. /\ \A v \in Workers : mu' = v <=> wpc'[v] \in {"look", "doze", "rise"}
        /\ mu' = Caller <=> cpc' \in {"look", "doze", "rise"}
        /\ caller_parked' <=> cpc' \in {"look", "doze", "asleep", "woken", "rise"}
    BY <1>1, <1>8, ThreadPoolAssumption DEF Doze, ParkInv, Workers, Nobody, Caller
  <2> QED BY <1>8, <2>1, <2>2 DEF Doze, ParkInv
<1>9. CASE Wake(w)
  <2>1. Parked' = Parked
    BY <1>9 DEF Wake, Parked
  <2>2. /\ \A v \in Workers : mu' = v <=> wpc'[v] \in {"look", "doze", "rise"}
        /\ mu' = Caller <=> cpc' \in {"look", "doze", "rise"}
        /\ caller_parked' <=> cpc' \in {"look", "doze", "asleep", "woken", "rise"}
    <3>1. \A v \in Workers : mu' = v <=> wpc'[v] \in {"look", "doze", "rise"}
      BY <1>1, <1>9 DEF Wake, ParkInv
    <3>2. mu' = Caller <=> cpc' \in {"look", "doze", "rise"}
      BY <1>1, <1>9 DEF Wake, ParkInv
    <3> QED BY <1>9, <3>1, <3>2 DEF Wake, ParkInv
  <2> QED BY <1>9, <2>1, <2>2 DEF Wake, ParkInv
<1>10. CASE Rise(w)
  <2>1. Parked' = Parked \ {w} /\ w \in Parked
    BY <1>10 DEF Rise, Parked
  <2>2. n_sleeping' = Cardinality(Parked')
    BY <1>2, <1>10, <2>1, WorkersAddRemove DEF Rise, ParkInv
  <2>3. /\ \A v \in Workers : mu' = v <=> wpc'[v] \in {"look", "doze", "rise"}
        /\ mu' = Caller <=> cpc' \in {"look", "doze", "rise"}
        /\ caller_parked' <=> cpc' \in {"look", "doze", "asleep", "woken", "rise"}
    BY <1>1, <1>10, ThreadPoolAssumption DEF Rise, ParkInv, Workers, Nobody, Caller
  <2> QED BY <2>2, <2>3 DEF ParkInv
<1>11. CASE Go(w)     BY <1>3, <1>11 DEF Go, Parked
<1>12. CASE Work(w)   BY <1>3, <1>12 DEF Work, Parked
<1>13. CASE Count(w)  BY <1>3, <1>13 DEF Count, Parked
<1>14. CASE Last(w)   BY <1>3, <1>14 DEF Last, Parked
<1>15. CASE Notify(w) BY <1>3, <1>15 DEF Notify, Parked
<1> QED BY <1>4, <1>5, <1>6, <1>7, <1>8, <1>9, <1>10, <1>11, <1>12, <1>13, <1>14, <1>15
        DEF WorkerStep

\* Every other step.
LEMMA ParkStep == ASSUME PoolType, ParkInv, Next PROVE ParkInv'
<1>1. Caller # Nobody /\ \A w \in Workers : w # Nobody /\ w # Caller
  BY ThreadPoolAssumption DEF Workers, Nobody, Caller
<1>2. ASSUME wpc' = WakeWorkers, UNCHANGED <<mu, n_sleeping, caller_parked>>,
             cpc' \in {"look", "doze", "rise"} <=> cpc \in {"look", "doze", "rise"},
             cpc' \in {"asleep", "woken"} <=> cpc \in {"asleep", "woken"}
      PROVE  ParkInv'
  BY <1>2, ParkQuiet DEF WakeWorkers, Parked
<1>3. ASSUME wpc' = wpc, n_sleeping' = n_sleeping,
             mu' = Caller <=> cpc' \in {"look", "doze", "rise"},
             mu' = mu \/ (mu = Nobody /\ mu' = Caller) \/ (mu = Caller /\ mu' = Nobody),
             caller_parked' <=> cpc' \in {"look", "doze", "asleep", "woken", "rise"}
      PROVE  ParkInv'
  <2>1. Parked' = Parked
    BY <1>3 DEF Parked
  <2> QED BY <1>1, <1>3, <2>1 DEF ParkInv
<1>4. CASE Run
  BY <1>3, <1>4 DEF Run, workerVars, ParkInv
<1>5. CASE RunStep
  <2> USE DEF atomics, workerVars, ParkInv
  <2>1. CASE Publish      BY <1>3, <2>1 DEF Publish
  <2>2. CASE Sleepers     BY <1>3, <2>2 DEF Sleepers
  <2>3. CASE Rouse        BY <1>2, <2>3 DEF Rouse
  <2>4. CASE OwnSlice     BY <1>3, <2>4 DEF OwnSlice
  <2>5. CASE Poll         BY <1>3, <2>5 DEF Poll
  <2>6. CASE CallerParks  BY <1>3, <2>6 DEF CallerParks
  <2>7. CASE CallerLook   BY <1>3, <2>7 DEF CallerLook
  <2>8. CASE CallerDoze   BY <1>1, <1>3, <2>8 DEF CallerDoze
  <2>9. CASE CallerWakes  BY <1>3, <2>9 DEF CallerWakes
  <2>10. CASE CallerRises BY <1>1, <1>3, <2>10 DEF CallerRises
  <2>11. CASE Free        BY <1>3, <2>11 DEF Free
  <2> QED BY <1>5, <2>1, <2>2, <2>3, <2>4, <2>5, <2>6, <2>7, <2>8, <2>9, <2>10, <2>11
          DEF RunStep
<1>6. CASE Destroy
  BY <1>2, <1>6 DEF Destroy
<1>7. CASE SpuriousWake
  <2>1. ASSUME NEW w \in Workers, wpc[w] = "asleep", Goto(w, "woken"),
               UNCHANGED <<mu, atomics, cpc>>
        PROVE  ParkInv'
    <3>1. \A v \in Workers : wpc'[v] = IF v = w THEN "woken" ELSE wpc[v]
      BY <2>1 DEF Goto, PoolType
    <3> QED BY <2>1, <3>1, ParkQuiet DEF Parked, atomics
  <2>2. CASE cpc = "asleep" /\ cpc' = "woken" /\ UNCHANGED <<mu, atomics, workerVars>>
    BY <1>3, <2>2 DEF atomics, workerVars, ParkInv
  <2> QED BY <1>7, <2>1, <2>2 DEF SpuriousWake
<1>8. CASE Ended
  BY <1>3, <1>8 DEF Ended, vars, atomics, workerVars, ParkInv
<1> QED BY <1>4, <1>5, <1>6, <1>7, <1>8, ParkWorkerStep DEF Next

\* The wake-up that either side skips when it sees nobody parked is never missed.
LEMMA NoSleepStep ==
  ASSUME PoolType, ParkInv, NoSleepThroughWork, Next
  PROVE  NoSleepThroughWork'
<1> USE DEF PoolType
<1>1. Caller # Nobody /\ \A w \in Workers : w # Nobody /\ w # Caller
  BY ThreadPoolAssumption DEF Workers, Nobody, Caller
<1> DEFINE Woken(w) == wpc[w] \in {"doze", "asleep"} /\ (seen[w] # gen \/ stop)
                         => cpc \in {"sleepers", "rouse"}
           CallerTold == cpc \in {"doze", "asleep"} /\ Finished =>
                           \E w \in Workers : wpc[w] \in {"last", "notify"}
<1>2. /\ CallerTold
      /\ \A w \in Workers : Woken(w)
  BY DEF NoSleepThroughWork
<1> SUFFICES CallerTold' /\ \A w \in Workers : Woken(w)'
  BY DEF NoSleepThroughWork
<1>3. ASSUME NEW w \in Workers, WorkerStep(w)
      PROVE  CallerTold' /\ \A v \in Workers : Woken(v)'
  <2> USE DEF Goto, atomics
  <2>0. /\ \A v \in Workers \ {w} : wpc'[v] = wpc[v] /\ seen'[v] = seen[v]
        /\ gen' = gen /\ stop' = stop
    BY <1>3 DEF WorkerStep, Spin, Spun, Park, ParkedLook, Doze, Wake, Rise, Go, Work, Count,
                Last, Notify
  <2>1. ASSUME wpc'[w] \notin {"doze", "asleep"}, cpc' = cpc, n_done' = n_done,
               wpc[w] \notin {"last", "notify"}
        PROVE  CallerTold' /\ \A v \in Workers : Woken(v)'
    <3>1. \A v \in Workers : Woken(v)'
      BY <1>2, <2>0, <2>1
    <3>2. CallerTold'
      BY <1>2, <2>0, <2>1 DEF Finished
    <3> QED BY <3>1, <3>2
  <2>2. CASE Spin(w)  BY <2>1, <2>2 DEF Spin
  <2>3. CASE Spun(w)  BY <2>1, <2>3 DEF Spun
  <2>4. CASE Park(w)  BY <2>1, <2>4 DEF Park
  <2>5. CASE ParkedLook(w)
    <3>1. CASE gen = seen[w] /\ ~stop
      <4>1. wpc'[w] = "doze" /\ seen'[w] = seen[w]
        BY <2>5, <3>1 DEF ParkedLook
      <4>2. \A v \in Workers : Woken(v)'
        BY <1>2, <2>0, <2>5, <3>1, <4>1 DEF ParkedLook
      <4>3. CallerTold'
        BY <1>2, <2>0, <2>5, <4>1 DEF ParkedLook, Finished
      <4> QED BY <4>2, <4>3
    <3>2. CASE ~(gen = seen[w] /\ ~stop)
      BY <2>1, <2>5, <3>2 DEF ParkedLook
    <3> QED BY <3>1, <3>2
  <2>6. CASE Doze(w)
    <3>1. wpc[w] = "doze" /\ wpc'[w] = "asleep"
      BY <2>6 DEF Doze
    <3>2. \A v \in Workers : Woken(v)'
      BY <1>2, <2>0, <2>6, <3>1 DEF Doze
    <3>3. CallerTold'
      BY <1>2, <2>0, <2>6, <3>1 DEF Doze, Finished
    <3> QED BY <3>2, <3>3
  <2>7. CASE Wake(w)  BY <2>1, <2>7 DEF Wake
  <2>8. CASE Rise(w)  BY <2>1, <2>8 DEF Rise
  <2>9. CASE Go(w)    BY <2>1, <2>9 DEF Go
  <2>10. CASE Work(w) BY <2>1, <2>10 DEF Work
  <2>11. CASE Count(w)
    <3>1. wpc'[w] = IF n_done' = Target THEN "last" ELSE "spin"
      BY <2>11 DEF Count
    <3>2. \A v \in Workers : Woken(v)'
      BY <1>2, <2>0, <2>11, <3>1 DEF Count
    <3>3. CallerTold'
      <4> SUFFICES ASSUME cpc \in {"doze", "asleep"}, n_done' >= Target
                   PROVE  \E v \in Workers : wpc'[v] \in {"last", "notify"}
        BY <2>11 DEF Count, Finished
      <4>1. CASE n_done' = Target
        BY <3>1, <4>1
      <4>2. CASE n_done' # Target
        <5>1. Finished
          BY <2>11, <4>2, WorkersCount DEF Count, Finished
        <5>2. PICK v \in Workers : wpc[v] \in {"last", "notify"}
          BY <1>2, <5>1
        <5>3. v # w
          BY <2>11, <5>2 DEF Count
        <5> QED BY <2>0, <5>2, <5>3
      <4> QED BY <4>1, <4>2
    <3> QED BY <3>2, <3>3
  <2>12. CASE Last(w)
    <3>1. wpc'[w] = IF caller_parked THEN "notify" ELSE "spin"
      BY <2>12 DEF Last
    <3>2. \A v \in Workers : Woken(v)'
      BY <1>2, <2>0, <2>12, <3>1 DEF Last
    <3>3. cpc \in {"doze", "asleep"} => caller_parked
      BY DEF ParkInv
    <3>4. CallerTold'
      BY <2>12, <3>1, <3>3 DEF Last, Finished
    <3> QED BY <3>2, <3>4
  <2>13. CASE Notify(w)
    <3>1. wpc'[w] = "spin" /\ mu = Nobody
      BY <2>13 DEF Notify
    <3>2. \A v \in Workers : Woken(v)'
      BY <1>2, <2>0, <2>13, <3>1 DEF Notify
    <3>3. cpc # "doze"
      BY <1>1, <3>1 DEF ParkInv
    <3>4. cpc' \notin {"doze", "asleep"}
      BY <2>13, <3>3 DEF Notify
    <3> QED BY <3>2, <3>4
  <2> QED BY <1>3, <2>2, <2>3, <2>4, <2>5, <2>6, <2>7, <2>8, <2>9, <2>10, <2>11, <2>12, <2>13
          DEF WorkerStep
<1>4. ASSUME wpc' = wpc, seen' = seen, gen' = gen, stop' = stop, n_done' = n_done,
             cpc \in {"sleepers", "rouse"} => cpc' \in {"sleepers", "rouse"},
             cpc' \in {"doze", "asleep"} => cpc \in {"doze", "asleep"}
      PROVE  CallerTold' /\ \A v \in Workers : Woken(v)'
  BY <1>2, <1>4 DEF Finished
<1>5. CASE Run
  BY <1>2, <1>5 DEF Run, workerVars
<1>6. ASSUME mu = Nobody, wpc' = WakeWorkers, cpc' \notin {"doze", "asleep"}
      PROVE  CallerTold' /\ \A v \in Workers : Woken(v)'
  <2>1. \A v \in Workers : wpc[v] # "doze"
    BY <1>1, <1>6 DEF ParkInv
  <2>2. \A v \in Workers : wpc'[v] \notin {"doze", "asleep"}
    BY <1>6, <2>1 DEF WakeWorkers
  <2> QED BY <1>6, <2>2
<1>7. CASE RunStep
  <2> USE DEF atomics, workerVars
  <2>1. CASE Publish      BY <2>1 DEF Publish
  <2>2. CASE Sleepers
    <3>1. CASE n_sleeping > 0
      BY <1>4, <2>2, <3>1 DEF Sleepers
    <3>2. CASE ~(n_sleeping > 0)
      <4>1. Parked \in SUBSET Workers
        BY DEF Parked
      <4>2. Cardinality(Parked) = 0 /\ IsFiniteSet(Parked)
        BY <3>2, <4>1, WorkersCount DEF ParkInv
      <4>3. Parked = {}
        BY <4>2, FS_EmptySet
      <4> QED BY <2>2, <4>3 DEF Sleepers, Parked
    <3> QED BY <3>1, <3>2
  <2>3. CASE Rouse        BY <1>6, <2>3 DEF Rouse
  <2>4. CASE OwnSlice     BY <1>4, <2>4 DEF OwnSlice
  <2>5. CASE Poll         BY <1>4, <2>5 DEF Poll
  <2>6. CASE CallerParks  BY <1>4, <2>6 DEF CallerParks
  <2>7. CASE CallerLook   BY <1>2, <2>7 DEF CallerLook, Finished
  <2>8. CASE CallerDoze   BY <1>4, <2>8 DEF CallerDoze
  <2>9. CASE CallerWakes  BY <1>4, <2>9 DEF CallerWakes
  <2>10. CASE CallerRises BY <1>4, <2>10 DEF CallerRises
  <2>11. CASE Free        BY <1>4, <2>11 DEF Free
  <2> QED BY <1>7, <2>1, <2>2, <2>3, <2>4, <2>5, <2>6, <2>7, <2>8, <2>9, <2>10, <2>11
          DEF RunStep
<1>8. CASE Destroy
  BY <1>6, <1>8 DEF Destroy
<1>9. CASE SpuriousWake
  <2>1. ASSUME NEW w \in Workers, wpc[w] = "asleep", Goto(w, "woken"),
               UNCHANGED <<mu, atomics, seen, cpc>>
        PROVE  CallerTold' /\ \A v \in Workers : Woken(v)'
    <3>1. \A v \in Workers : wpc'[v] = IF v = w THEN "woken" ELSE wpc[v]
      BY <2>1 DEF Goto
    <3>2. \A v \in Workers : Woken(v)'
      BY <1>2, <2>1, <3>1 DEF atomics
    <3>3. CallerTold'
      BY <1>2, <2>1, <3>1 DEF atomics, Finished
    <3> QED BY <3>2, <3>3
  <2>2. CASE cpc = "asleep" /\ cpc' = "woken" /\ UNCHANGED <<mu, atomics, workerVars>>
    BY <1>4, <2>2 DEF atomics, workerVars
  <2> QED BY <1>9, <2>1, <2>2 DEF SpuriousWake
<1>10. CASE Ended
  BY <1>4, <1>10 DEF Ended, vars, atomics, workerVars
<1> QED BY <1>3, <1>5, <1>7, <1>8, <1>9, <1>10 DEF Next

\* No wake-up is lost: a worker stays parked only on a generation it has seen, and
\* the caller only on a run that is not finished, or the other side is about to
\* broadcast.  This is what the liveness the run checks rests on.
THEOREM NoSleep == Spec => []NoSleepThroughWork
<1> DEFINE Inv == PoolInv /\ ParkInv /\ NoSleepThroughWork
<1>1. Init => Inv
  BY InitPool, InitPark
<1>2. Inv /\ [Next]_vars => Inv'
  <2> SUFFICES ASSUME Inv, [Next]_vars PROVE Inv'
    OBVIOUS
  <2>1. PoolType
    BY DEF PoolInv
  <2>2. PoolInv'
    BY PoolStep
  <2>3. CASE Next
    BY <2>1, <2>2, <2>3, ParkStep, NoSleepStep
  <2>4. CASE UNCHANGED vars
    BY <2>2, <2>4 DEF vars, atomics, workerVars, ParkInv, Parked, NoSleepThroughWork, Finished
  <2> QED BY <2>3, <2>4
<1>3. Inv => NoSleepThroughWork
  OBVIOUS
<1> QED BY <1>1, <1>2, <1>3, PTL DEF Spec
=============================================================================
