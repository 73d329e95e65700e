------------------------- MODULE VramRegistryProofs -------------------------
(***************************************************************************)
(* Theorems about VramRegistry for any processes, loads, sizes and          *)
(* priorities: who owns an entry of the ledger, that no queued claim passes *)
(* a waiter that outranks it, and that what is promised to the admitted     *)
(* loads fits in the free memory.                                           *)
(*                                                                          *)
(* A sum of bytes is compared with another one load at a time.              *)
(***************************************************************************)
EXTENDS VramRegistry, Integers, FiniteSetTheorems, WellFoundedInduction, TLAPS

-----------------------------------------------------------------------------
(* Sums over finite sets, as MapThenSumSet of FiniteSetsExt defines them:     *)
(* that they exist, that any element can be taken out first, and that one is  *)
(* at most another whose terms dominate its own.  Nothing here is by          *)
(* induction over an operator: each statement about all subsets of a finite   *)
(* set is shown from a smallest counterexample.                               *)

\* The element that MapThenFoldSet takes next.
Next1(s) == CHOOSE x \in s : TRUE

\* g adds up f over the subsets of U, one element at a time.
Adds(f, U, g) ==
  g = [s \in SUBSET U |-> IF s = {} THEN 0 ELSE f[Next1(s)] + g[s \ {Next1(s)}]]

\* The sum of f over U, as MapThenSumSet defines it.
Sum(f, U) == (CHOOSE g : Adds(f, U, g))[U]

\* A property of some subsets of a finite set holds of a smallest one.
LEMMA Smallest ==
  ASSUME NEW U, IsFiniteSet(U), NEW T \in SUBSET SUBSET U, T # {}
  PROVE  \E s \in T : \A t \in SUBSET s : t # s => t \notin T
<1>1. IsWellFoundedOn(StrictSubsetOrdering(U), FiniteSubsetsOf(U))
  BY FS_StrictSubsetOrderingWellFounded
<1>2. FiniteSubsetsOf(U) = SUBSET U
  BY FS_FiniteSubsetsOfFinite
<1>3. PICK s \in T : \A t \in T : ~(<<t, s>> \in StrictSubsetOrdering(U))
  BY <1>1, <1>2, WFMin
<1> QED BY <1>3 DEF StrictSubsetOrdering

LEMMA NextIn == \A s : s # {} => Next1(s) \in s
  BY DEF Next1

LEMMA AddsAt ==
  ASSUME NEW f, NEW U, NEW g, Adds(f, U, g)
  PROVE  /\ g[{}] = 0
         /\ \A s \in SUBSET U : s # {} => g[s] = f[Next1(s)] + g[s \ {Next1(s)}]
<1>1. g = [s \in SUBSET U |-> IF s = {} THEN 0 ELSE f[Next1(s)] + g[s \ {Next1(s)}]]
  BY DEF Adds
<1>2. \A s \in SUBSET U : g[s] = IF s = {} THEN 0 ELSE f[Next1(s)] + g[s \ {Next1(s)}]
  BY <1>1
<1> QED BY <1>2

\* Two functions that agree on a set add up to the same over it.
LEMMA AddsAgree ==
  ASSUME NEW U, NEW V, NEW f, NEW h, NEW g, NEW k, Adds(f, U, g), Adds(h, V, k),
         NEW W, IsFiniteSet(W), W \subseteq U, W \subseteq V, \A x \in W : f[x] = h[x]
  PROVE  g[W] = k[W]
<1> DEFINE T == {s \in SUBSET W : g[s] # k[s]}
<1> SUFFICES ASSUME T # {} PROVE FALSE
  OBVIOUS
<1>1. PICK s \in T : \A t \in SUBSET s : t # s => t \notin T
  <2> HIDE DEF T
  <2>1. T \in SUBSET SUBSET W
    BY DEF T
  <2> QED BY <2>1, Smallest
<1>2. s # {}
  BY AddsAt
<1>3. Next1(s) \in s
  BY <1>2, NextIn
<1>4. g[s \ {Next1(s)}] = k[s \ {Next1(s)}]
  BY <1>1, <1>3
<1>5. g[s] = f[Next1(s)] + g[s \ {Next1(s)}] /\ k[s] = h[Next1(s)] + k[s \ {Next1(s)}]
  BY <1>2, AddsAt
<1>6. f[Next1(s)] = h[Next1(s)]
  BY <1>3
<1> QED BY <1>4, <1>5, <1>6

\* Every finite set has a sum.
LEMMA AddsExists ==
  ASSUME NEW f, NEW U, IsFiniteSet(U)
  PROVE  \E g : Adds(f, U, g)
<1> DEFINE T == {V \in SUBSET U : ~\E g : Adds(f, V, g)}
<1> SUFFICES ASSUME T # {} PROVE FALSE
  OBVIOUS
<1>1. PICK V \in T : \A W \in SUBSET V : W # V => W \notin T
  <2> HIDE DEF T
  <2>1. T \in SUBSET SUBSET U
    BY DEF T
  <2> QED BY <2>1, Smallest
<1> DEFINE G(W) == CHOOSE g : Adds(f, W, g)
           g == [s \in SUBSET V |-> IF s = {} THEN 0
                   ELSE f[Next1(s)] + G(s \ {Next1(s)})[s \ {Next1(s)}]]
<1>2. \A W \in SUBSET V : W # V => Adds(f, W, G(W))
  BY <1>1
<1> HIDE DEF G
<1>3. \A s \in SUBSET V : s # {} => g[s \ {Next1(s)}] = G(s \ {Next1(s)})[s \ {Next1(s)}]
  <2> SUFFICES ASSUME NEW s \in SUBSET V, s # {}
               PROVE  g[s \ {Next1(s)}] = G(s \ {Next1(s)})[s \ {Next1(s)}]
    OBVIOUS
  <2> DEFINE t == s \ {Next1(s)}
  <2> SUFFICES g[t] = G(t)[t]
    OBVIOUS
  <2>1. t \in SUBSET V /\ t # V /\ IsFiniteSet(t)
    BY NextIn, FS_Subset
  <2>2. Adds(f, t, G(t))
    BY <1>2, <2>1
  <2>3. CASE t = {}
    BY <2>1, <2>2, <2>3, AddsAt
  <2>4. CASE t # {}
    <3> DEFINE r == t \ {Next1(t)}
    <3>1. r \in SUBSET V /\ r # V /\ r \subseteq t /\ IsFiniteSet(r)
      BY <2>1, <2>4, NextIn, FS_Subset
    <3>2. G(t)[t] = f[Next1(t)] + G(t)[r]
      <4>1. \A q \in SUBSET t : q # {} => G(t)[q] = f[Next1(q)] + G(t)[q \ {Next1(q)}]
        BY <2>2, AddsAt
      <4> QED BY <2>4, <4>1
    <3>3. Adds(f, r, G(r))
      BY <1>2, <3>1
    <3>4. g[t] = f[Next1(t)] + G(r)[r]
      BY <2>1, <2>4
    <3> HIDE DEF r, t, g
    <3>5. G(t)[r] = G(r)[r]
      BY <2>2, <3>1, <3>3, AddsAgree
    <3> QED BY <3>2, <3>4, <3>5
  <2> QED BY <2>3, <2>4
<1>4. g = [s \in SUBSET V |-> IF s = {} THEN 0 ELSE f[Next1(s)] + g[s \ {Next1(s)}]]
  BY <1>3
<1> HIDE DEF g
<1>5. Adds(f, V, g)
  BY <1>4 DEF Adds
<1> QED BY <1>5

LEMMA SumAdds ==
  ASSUME NEW f, NEW U, IsFiniteSet(U), NEW g, Adds(f, U, g), NEW S \in SUBSET U
  PROVE  Sum(f, S) = g[S]
<1> DEFINE h == CHOOSE k : Adds(f, S, k)
<1>1. IsFiniteSet(S)
  BY FS_Subset
<1>2. Adds(f, S, h)
  BY <1>1, AddsExists
<1>3. Sum(f, S) = h[S]
  BY DEF Sum
<1> HIDE DEF h
<1> QED BY <1>1, <1>2, <1>3, AddsAgree

\* The sum of integers, or of naturals, is one; any element can be taken out first.
LEMMA SumIn ==
  ASSUME NEW U, IsFiniteSet(U), NEW f, \A x \in U : f[x] \in Int
  PROVE  /\ Sum(f, {}) = 0 /\ Sum(f, U) \in Int
         /\ \A x \in U : Sum(f, U) = f[x] + Sum(f, U \ {x}) /\ Sum(f, U \ {x}) \in Int
<1>1. PICK g : Adds(f, U, g)
  BY AddsExists
<1>2. \A S \in SUBSET U : Sum(f, S) = g[S]
  BY <1>1, SumAdds
<1>3. \A S \in SUBSET U : g[S] \in Int
  <2> DEFINE T == {s \in SUBSET U : g[s] \notin Int}
  <2> SUFFICES ASSUME T # {} PROVE FALSE
    OBVIOUS
  <2>1. PICK s \in T : \A t \in SUBSET s : t # s => t \notin T
    <3> HIDE DEF T
    <3>1. T \in SUBSET SUBSET U
      BY DEF T
    <3> QED BY <3>1, Smallest
  <2>2. s # {}
    <3>1. g[{}] = 0
      BY <1>1, AddsAt
    <3> QED BY <3>1
  <2>3. Next1(s) \in s /\ f[Next1(s)] \in Int
    BY <2>2, NextIn
  <2>4. g[s \ {Next1(s)}] \in Int
    BY <2>1, <2>3
  <2>5. g[s] = f[Next1(s)] + g[s \ {Next1(s)}]
    BY <1>1, <2>2, AddsAt
  <2> QED BY <2>3, <2>4, <2>5
<1>4. ASSUME NEW S \in SUBSET U, NEW y \in S PROVE g[S] = f[y] + g[S \ {y}]
  <2> DEFINE T == {s \in SUBSET S : \E x \in s : g[s] # f[x] + g[s \ {x}]}
  <2> SUFFICES ASSUME T # {} PROVE FALSE
    OBVIOUS
  <2>1. PICK s \in T : \A t \in SUBSET s : t # s => t \notin T
    <3> HIDE DEF T
    <3>1. T \in SUBSET SUBSET S /\ IsFiniteSet(S)
      BY FS_Subset DEF T
    <3> QED BY <3>1, Smallest
  <2>2. PICK x \in s : g[s] # f[x] + g[s \ {x}]
    OBVIOUS
  <2> DEFINE c == Next1(s)
             r == (s \ {x}) \ {c}
  <2>3. s \in SUBSET U /\ c \in s /\ g[s] = f[c] + g[s \ {c}]
    BY <1>1, <2>2, AddsAt, NextIn
  <2> HIDE DEF c
  <2>4. x # c
    BY <2>2, <2>3
  <2>5. g[s \ {c}] = f[x] + g[(s \ {c}) \ {x}]
    <3>1. s \ {c} \in SUBSET s /\ s \ {c} # s /\ x \in s \ {c}
      BY <2>3, <2>4
    <3> QED BY <2>1, <3>1
  <2>6. g[s \ {x}] = f[c] + g[r]
    <3>1. s \ {x} \in SUBSET s /\ s \ {x} # s /\ c \in s \ {x}
      BY <2>3, <2>4
    <3> QED BY <2>1, <3>1
  <2>7. (s \ {c}) \ {x} = r
    OBVIOUS
  <2>8. f[x] \in Int /\ f[c] \in Int /\ g[r] \in Int
    BY <1>3, <2>3
  <2>9. g[s \ {c}] = f[x] + g[r]
    BY <2>5, <2>7
  <2> HIDE DEF r, T
  <2> QED BY <2>2, <2>3, <2>6, <2>8, <2>9
<1>5. g[{}] = 0
  BY <1>1, AddsAt
<1> QED BY <1>2, <1>3, <1>4, <1>5

LEMMA SumNat ==
  ASSUME NEW U, IsFiniteSet(U), NEW f, \A x \in U : f[x] \in Nat
  PROVE  Sum(f, U) \in Nat
<1> DEFINE T == {s \in SUBSET U : Sum(f, s) \notin Nat}
<1> SUFFICES ASSUME T # {} PROVE FALSE
  OBVIOUS
<1>1. PICK s \in T : \A t \in SUBSET s : t # s => t \notin T
  <2> HIDE DEF T
  <2>1. T \in SUBSET SUBSET U
    BY DEF T
  <2> QED BY <2>1, Smallest
<1>2. IsFiniteSet(s) /\ s \in SUBSET U
  BY FS_Subset
<1>3. Sum(f, {}) = 0
  BY <1>2, SumIn
<1>4. PICK x \in s : TRUE
  BY <1>3
<1>5. Sum(f, s) = f[x] + Sum(f, s \ {x}) /\ f[x] \in Nat
  BY <1>2, <1>4, SumIn
<1>6. Sum(f, s \ {x}) \in Nat
  BY <1>1, <1>4
<1> HIDE DEF T
<1>7. Sum(f, s) \in Nat
  BY <1>5, <1>6
<1> QED BY <1>7 DEF T

\* A sum is at most another whose terms dominate its own, one for one.
LEMMA SumInto ==
  ASSUME NEW U, IsFiniteSet(U), NEW V, IsFiniteSet(V), NEW f, NEW h, NEW e \in [U -> V],
         \A x, y \in U : e[x] = e[y] => x = y,
         \A x \in U : f[x] \in Int /\ f[x] <= h[e[x]], \A y \in V : h[y] \in Nat
  PROVE  Sum(f, U) <= Sum(h, V)
<1> DEFINE Into(s, W) == \A x \in s : e[x] \in W
           T == {s \in SUBSET U : \E W \in SUBSET V : Into(s, W) /\ ~(Sum(f, s) <= Sum(h, W))}
<1> SUFFICES ASSUME T # {} PROVE FALSE
  <2>1. Into(U, V)
    OBVIOUS
  <2> QED BY <2>1
<1>1. PICK s \in T : \A t \in SUBSET s : t # s => t \notin T
  <2> HIDE DEF T
  <2>1. T \in SUBSET SUBSET U
    BY DEF T
  <2> QED BY <2>1, Smallest
<1>2. PICK W \in SUBSET V : Into(s, W) /\ ~(Sum(f, s) <= Sum(h, W))
  OBVIOUS
<1>3. s \in SUBSET U /\ IsFiniteSet(s) /\ IsFiniteSet(W)
  BY FS_Subset
<1>4. Sum(h, W) \in Nat
  BY <1>3, SumNat
<1>5. s # {}
  <2>1. Sum(f, {}) = 0
    BY <1>3, SumIn
  <2> QED BY <1>2, <1>4, <2>1
<1>6. PICK x \in s : TRUE
  BY <1>5
<1> DEFINE y == e[x]
<1>7. y \in W /\ f[x] \in Int /\ f[x] <= h[y] /\ h[y] \in Nat
  BY <1>2, <1>3, <1>6
<1>8. Sum(f, s) = f[x] + Sum(f, s \ {x}) /\ Sum(f, s \ {x}) \in Int
  BY <1>3, <1>6, SumIn
<1>9. Sum(h, W) = h[y] + Sum(h, W \ {y}) /\ Sum(h, W \ {y}) \in Int
  <2>1. \A z \in W : h[z] \in Int
    OBVIOUS
  <2> HIDE DEF y
  <2> QED BY <1>3, <1>7, <2>1, SumIn
<1>10. Sum(f, s \ {x}) <= Sum(h, W \ {y})
  <2>1. Into(s \ {x}, W \ {y})
    BY <1>2, <1>3, <1>6
  <2>2. s \ {x} \in SUBSET s /\ s \ {x} # s /\ s \ {x} \in SUBSET U
    BY <1>3, <1>6
  <2>3. W \ {y} \in SUBSET V
    OBVIOUS
  <2>4. s \ {x} \notin T
    BY <1>1, <2>2
  <2> HIDE DEF y
  <2> QED BY <2>1, <2>2, <2>3, <2>4
<1> HIDE DEF T, y
<1> QED BY <1>2, <1>7, <1>8, <1>9, <1>10

\* A sum depends on the terms only.
LEMMA SumSame ==
  ASSUME NEW U, IsFiniteSet(U), NEW f, NEW h, \A x \in U : f[x] = h[x]
  PROVE  Sum(f, U) = Sum(h, U)
<1>1. Adds(f, U, CHOOSE g : Adds(f, U, g)) /\ Adds(h, U, CHOOSE g : Adds(h, U, g))
  BY AddsExists
<1> QED BY <1>1, AddsAgree DEF Sum

-----------------------------------------------------------------------------

\* The fields of an entry and of a load.
EntryShape(x) ==
  x = [pid |-> x.pid, seq |-> x.seq, state |-> x.state, bytes |-> x.bytes,
       procstart |-> x.procstart, priority |-> x.priority, old |-> x.old]
LoadShape(r) ==
  DOMAIN r = {"phase", "need", "waiting", "second", "marked", "avail", "holders",
              "lease", "got"}

WorldType ==
  /\ alive \in [Pids -> BOOLEAN] /\ started \in [Pids -> Nat]
  /\ ld = [l \in Loads |-> ld[l]]

\* A load waits, and is marked, only while it claims, and for the first time; it is in
\* a living process.
LoadInv(l) ==
  /\ LoadShape(ld[l])
  /\ ld[l].second => ~ld[l].waiting
  /\ ld[l].marked => ld[l].phase = "claim" /\ ld[l].waiting
  /\ ld[l].phase # "idle" => alive[PidOf[l]]

\* Every entry was written by a load of a process that has been started.
EntryInv(x) ==
  /\ EntryShape(x) /\ x.seq \in Loads /\ x.pid = PidOf[x.seq]
  /\ x.procstart \in Nat /\ x.procstart <= started[x.pid] + 1

\* What a reservation or a marker of a living process stands for.
Live(x) == alive[x.pid] /\ x.procstart = started[x.pid] + 1
OwnedEntry(x) ==
  /\ x.state = "P" /\ Live(x) => /\ ld[x.seq].phase \in {"granted", "allocated"}
                                 /\ ld[x.seq].lease
  /\ x.state = "W" /\ Live(x) => ld[x.seq].phase = "claim" /\ ld[x.seq].waiting

LedgerInv ==
  /\ WorldType
  /\ \A l \in Loads : LoadInv(l)
  /\ \A x \in ledger : EntryInv(x)
  /\ ~lost => \A x \in ledger : OwnedEntry(x)
  /\ ~lost /\ ~loose => \A l \in Loads : ld[l].marked => Entry(l, "W") \in ledger

LEMMA PidsOfLoads == \A l \in Loads : PidOf[l] \in Pids
BY RegistryAssumption

LEMMA InitLedger == Init => LedgerInv
<1> SUFFICES ASSUME Init PROVE LedgerInv
  OBVIOUS
<1>1. WorldType
  BY DEF Init, WorldType
<1>2. ASSUME NEW l \in Loads PROVE LoadInv(l) /\ ~ld[l].marked
  <2>1. ld[l] = Idle
    BY DEF Init
  <2> QED BY <2>1 DEF Idle, LoadInv, LoadShape
<1>3. ledger = {}
  BY DEF Init
<1> QED BY <1>1, <1>2, <1>3 DEF LedgerInv

\* What a process leaves in the file when it writes it for load l: entries of the others
\* that it did not reap, and perhaps one of its own.
LEMMA LedgerStep ==
  ASSUME LedgerInv, NEW l \in Loads,
         UNCHANGED <<guarded, alive, started>>,
         ld' = [m \in Loads |-> ld'[m]], LoadInv(l)',
         \A m \in Loads \ {l} : ld'[m] = ld[m],
         \A x \in ledger' : EntryInv(x)' /\ (~lost' => OwnedEntry(x)'),
         lost => lost', loose => loose',
         \A m \in Loads \ {l} : ~lost' /\ ld[m].marked /\ Entry(m, "W") \in ledger
                                   => Entry(m, "W") \in ledger',
         ~lost' /\ ~loose' /\ ld'[l].marked => Entry(l, "W")' \in ledger'
  PROVE  LedgerInv'
<1>1. WorldType'
  BY DEF LedgerInv, WorldType
<1>2. ASSUME NEW m \in Loads PROVE LoadInv(m)'
  <2>1. CASE m # l
    BY <2>1 DEF LedgerInv, LoadInv
  <2> QED BY <2>1
<1>3. ASSUME ~lost', ~loose', NEW m \in Loads, ld'[m].marked PROVE Entry(m, "W")' \in ledger'
  <2>1. CASE m # l
    <3>1. ld'[m] = ld[m] /\ Entry(m, "W")' = Entry(m, "W")
      BY <2>1 DEF Entry
    <3>2. Entry(m, "W") \in ledger
      BY <1>3, <3>1 DEF LedgerInv
    <3> QED BY <1>3, <2>1, <3>1, <3>2
  <2> QED BY <1>3, <2>1
<1> QED BY <1>1, <1>2, <1>3 DEF LedgerInv

-----------------------------------------------------------------------------
(* What the writes keep.                                                   *)

\* Reaping spares the marker of a waiter, and another load's edits do not touch it.
LEMMA MarkerIsKept ==
  ASSUME LedgerInv, NEW l \in Loads, NEW m \in Loads \ {l},
         ld[m].marked, Entry(m, "W") \in ledger
  PROVE  Entry(m, "W") \in Reaped /\ ~Mine(l, Entry(m, "W"))
<1> DEFINE x == Entry(m, "W")
<1>1. /\ x.pid = PidOf[m] /\ x.seq = m /\ x.old = FALSE
      /\ x.procstart = IF guarded THEN started[PidOf[m]] + 1 ELSE 0
  BY DEF Entry
<1>2. alive[PidOf[m]] /\ started[PidOf[m]] \in Nat
  BY PidsOfLoads DEF LedgerInv, LoadInv, WorldType
<1>3. x \in ledger
  OBVIOUS
<1> HIDE DEF x
<1>4. x.procstart # 0 => x.procstart = started[x.pid] + 1
  BY <1>1
<1>5. x \in Reaped /\ ~Mine(l, x)
  BY <1>1, <1>2, <1>3, <1>4 DEF Reaped, Mine
<1> QED BY <1>5 DEF x

\* The entries that stay keep their owner as long as they are not the load's own.
LEMMA OthersOwned ==
  ASSUME LedgerInv, NEW l \in Loads, NEW x \in ledger,
         UNCHANGED <<alive, started>>, lost => lost',
         \A m \in Loads \ {l} : ld'[m] = ld[m],
         ~lost' /\ x.seq = l => OwnedEntry(x)'
  PROVE  EntryInv(x)' /\ (~lost' => OwnedEntry(x)')
<1>1. EntryInv(x) /\ (~lost => OwnedEntry(x))
  BY DEF LedgerInv
<1>2. EntryInv(x)'
  BY <1>1 DEF EntryInv, EntryShape
<1>3. ASSUME ~lost', x.seq # l PROVE OwnedEntry(x)'
  <2>1. ld'[x.seq] = ld[x.seq] /\ OwnedEntry(x)
    BY <1>1, <1>3 DEF EntryInv
  <2> QED BY <2>1 DEF OwnedEntry, Live
<1> QED BY <1>2, <1>3

\* A load that is not about to claim, allocate or commit has no entry but a committed one.
LEMMA NoneOutstanding ==
  ASSUME LedgerInv, ~lost, NEW x \in ledger, Live(x)
  PROVE  /\ x.state = "P" => ld[x.seq].phase \in {"granted", "allocated"} /\ ld[x.seq].lease
         /\ x.state = "W" => ld[x.seq].phase = "claim" /\ ld[x.seq].waiting
BY DEF LedgerInv, OwnedEntry

LEMMA EntryFields ==
  ASSUME LedgerInv, NEW l \in Loads, NEW s
  PROVE  /\ Entry(l, s).pid = PidOf[l] /\ Entry(l, s).seq = l /\ Entry(l, s).state = s
         /\ EntryInv(Entry(l, s))
<1>1. started[PidOf[l]] \in Nat
  BY PidsOfLoads DEF LedgerInv, WorldType
<1>2. EntryShape(Entry(l, s))
  BY DEF Entry, EntryShape
<1>3. /\ Entry(l, s).pid = PidOf[l] /\ Entry(l, s).seq = l /\ Entry(l, s).state = s
      /\ Entry(l, s).procstart = IF guarded THEN started[PidOf[l]] + 1 ELSE 0
  BY DEF Entry
<1>4. Entry(l, s).procstart \in Nat /\ Entry(l, s).procstart <= started[Entry(l, s).pid] + 1
  BY <1>1, <1>3
<1> QED BY <1>2, <1>3, <1>4 DEF EntryInv

\* A write of the file that drops the load's own entries, or is lost.
LEMMA RemovedKeeps ==
  ASSUME LedgerInv, NEW l \in Loads, Writes(Removed(l)),
         UNCHANGED osVars,
         ld' = [m \in Loads |-> ld'[m]], LoadInv(l)', ~ld'[l].marked,
         \A m \in Loads \ {l} : ld'[m] = ld[m],
         loose => loose'
  PROVE  LedgerInv'
<1> USE DEF osVars
<1>1. lost => lost'
  BY DEF Writes
<1>2. ledger' = Removed(l) \/ (lost' /\ ledger' = ledger)
  BY DEF Writes
<1>3. Removed(l) \subseteq ledger /\ \A x \in Removed(l) : ~Mine(l, x)
  BY DEF Removed, Reaped
<1>4. ASSUME NEW x \in ledger' PROVE EntryInv(x)' /\ (~lost' => OwnedEntry(x)')
  <2>1. x \in ledger
    BY <1>2, <1>3
  <2>2. ~lost' => x.seq # l
    BY <1>2, <1>3, <2>1 DEF Mine, LedgerInv, EntryInv
  <2> QED BY <1>1, <2>1, <2>2, OthersOwned
<1>5. ASSUME NEW m \in Loads \ {l}, ~lost', ld[m].marked, Entry(m, "W") \in ledger
      PROVE  Entry(m, "W") \in ledger'
  BY <1>2, <1>5, MarkerIsKept DEF Removed
<1> QED BY <1>1, <1>4, <1>5, LedgerStep

\* A poll writes what it saw, and perhaps an entry of its own.
LEMMA SeenKeeps ==
  ASSUME LedgerInv, NEW l \in Loads, ld[l].phase = "claim",
         NEW A, ledger' = Seen(l) \cup A,
         \A x \in A : EntryInv(x)' /\ (~lost' => OwnedEntry(x)'),
         UNCHANGED osVars, UNCHANGED lost,
         ld' = [m \in Loads |-> ld'[m]], LoadInv(l)',
         \A m \in Loads \ {l} : ld'[m] = ld[m],
         loose => loose',
         ~loose' /\ ld'[l].marked => Entry(l, "W")' \in ledger'
  PROVE  LedgerInv'
<1> USE DEF osVars
<1>1. ASSUME NEW x \in Seen(l) PROVE EntryInv(x)' /\ (~lost' => OwnedEntry(x)')
  <2>1. x \in ledger /\ ~(ld[l].waiting /\ x.state = "W" /\ Mine(l, x))
    BY DEF Seen, Reaped
  <2>2. EntryInv(x)
    BY <2>1 DEF LedgerInv
  <2>3. ASSUME ~lost', x.seq = l PROVE OwnedEntry(x)'
    <3>1. Mine(l, x)
      BY <2>2, <2>3 DEF Mine, EntryInv
    <3>2. Live(x) => x.state \notin {"P", "W"}
      BY <2>1, <2>3, <3>1, NoneOutstanding
    <3>3. Live(x)' <=> Live(x)
      BY DEF Live
    <3> QED BY <3>2, <3>3 DEF OwnedEntry
  <2> QED BY <2>1, <2>3, OthersOwned
<1>2. ASSUME NEW m \in Loads \ {l}, ~lost', ld[m].marked, Entry(m, "W") \in ledger
      PROVE  Entry(m, "W") \in ledger'
  BY <1>2, MarkerIsKept DEF Seen
<1> QED BY <1>1, <1>2, LedgerStep

-----------------------------------------------------------------------------
(* The steps of a load.                                                    *)

LEMMA LoadMoves ==
  ASSUME LedgerInv, NEW l \in Loads, NEW r, ld' = [ld EXCEPT ![l] = r]
  PROVE  /\ ld' = [m \in Loads |-> ld'[m]] /\ ld'[l] = r
         /\ \A m \in Loads \ {l} : ld'[m] = ld[m]
BY DEF LedgerInv, WorldType

\* The ledger stays; what the load has in it still stands for something.
LEMMA LedgerStays ==
  ASSUME LedgerInv, NEW l \in Loads, NEW r, ld' = [ld EXCEPT ![l] = r],
         UNCHANGED <<ledger, guarded, alive, started>>, lost => lost', loose => loose',
         LoadInv(l)', ~r.marked,
         ~lost' => \A x \in ledger : x.seq = l => OwnedEntry(x)'
  PROVE  LedgerInv'
<1>1. /\ ld' = [m \in Loads |-> ld'[m]] /\ ld'[l] = r
      /\ \A m \in Loads \ {l} : ld'[m] = ld[m]
  BY LoadMoves
<1>2. ASSUME NEW x \in ledger' PROVE EntryInv(x)' /\ (~lost' => OwnedEntry(x)')
  BY <1>1, OthersOwned
<1> QED BY <1>1, <1>2, LedgerStep

LEMMA LedgerClaim == ASSUME LedgerInv, NEW l \in Loads, Claim(l) PROVE LedgerInv'
<1> DEFINE r == Claiming(l, Need[l], queues[PidOf[l]], FALSE)
<1>1. /\ ld[l].phase = "idle" /\ alive[PidOf[l]] /\ ld' = [ld EXCEPT ![l] = r]
      /\ UNCHANGED <<ledger, guarded, alive, started, lost, loose>>
  BY DEF Claim
<1>2. /\ r.phase = "claim" /\ r.second = FALSE /\ r.marked = FALSE /\ LoadShape(r)
  BY DEF Claiming, Idle, LoadShape
<1>3. LoadInv(l)'
  <2>1. ld'[l] = r
    BY <1>1, LoadMoves
  <2> HIDE DEF r
  <2> QED BY <1>1, <1>2, <2>1 DEF LoadInv, LoadShape
<1>4. ASSUME ~lost', NEW x \in ledger, x.seq = l PROVE OwnedEntry(x)'
  <2>1. Live(x) => x.state \notin {"P", "W"}
    BY <1>1, <1>4, NoneOutstanding
  <2> QED BY <1>1, <2>1 DEF OwnedEntry, Live
<1> HIDE DEF r
<1> QED BY <1>1, <1>2, <1>3, <1>4, LedgerStays

LEMMA LedgerAllocate == ASSUME LedgerInv, NEW l \in Loads, Allocate(l) PROVE LedgerInv'
<1> DEFINE r == [Idle EXCEPT !.phase = "allocated", !.lease = ld[l].lease,
                             !.got = Min({Need[l], DeviceFree})]
<1>1. /\ ld[l].phase = "granted" /\ ld' = [ld EXCEPT ![l] = r]
      /\ UNCHANGED <<ledger, guarded, alive, started, lost, loose>>
  BY DEF Allocate, osVars
<1>2. /\ r.phase = "allocated" /\ r.second = FALSE /\ r.marked = FALSE
      /\ r.lease = ld[l].lease /\ LoadShape(r)
  BY DEF Idle, LoadShape
<1> HIDE DEF r
<1>3. ld'[l] = r
  BY <1>1, LoadMoves
<1>4. LoadInv(l)'
  BY <1>1, <1>2, <1>3 DEF LedgerInv, LoadInv, LoadShape
<1>5. ASSUME ~lost', NEW x \in ledger, x.seq = l PROVE OwnedEntry(x)'
  <2>1. Live(x) => x.state # "W" /\ (x.state = "P" => ld[l].lease)
    BY <1>1, <1>5, NoneOutstanding
  <2> QED BY <1>1, <1>2, <1>3, <1>5, <2>1 DEF OwnedEntry, Live
<1> QED BY <1>1, <1>2, <1>4, <1>5, LedgerStays

\* A step of a load that has neither a reservation nor a marker.
LEMMA LedgerQuiet ==
  ASSUME LedgerInv, NEW l \in Loads, ld[l].phase \in {"allocated", "loaded", "freed"},
         ld[l].phase = "allocated" => ~ld[l].lease,
         NEW r, LoadShape(r), ~r.second, ~r.marked, r.phase # "idle" => alive[PidOf[l]],
         ld' = [ld EXCEPT ![l] = r],
         UNCHANGED <<ledger, guarded, alive, started, lost, loose>>
  PROVE  LedgerInv'
<1>1. ld'[l] = r
  BY LoadMoves
<1>2. LoadInv(l)'
  BY <1>1 DEF LoadInv, LoadShape
<1>3. ASSUME ~lost', NEW x \in ledger, x.seq = l PROVE OwnedEntry(x)'
  <2>1. Live(x) => x.state \notin {"P", "W"}
    BY <1>3, NoneOutstanding
  <2> QED BY <2>1 DEF OwnedEntry, Live
<1> QED BY <1>2, <1>3, LedgerStays

LEMMA LedgerCommit == ASSUME LedgerInv, NEW l \in Loads, Commit(l) PROVE LedgerInv'
<1> DEFINE r == [ld[l] EXCEPT !.phase = "loaded"]
<1>1. /\ ld[l].phase = "allocated" /\ ld' = [ld EXCEPT ![l] = r]
      /\ UNCHANGED <<guarded, alive, started, loose>>
  BY DEF Commit, osVars
<1>2. LoadInv(l)
  BY DEF LedgerInv
<1>3. /\ LoadShape(r) /\ r.phase = "loaded" /\ r.second = ld[l].second
      /\ r.waiting = ld[l].waiting /\ r.marked = ld[l].marked
  BY <1>2 DEF LoadInv, LoadShape
<1> HIDE DEF r
<1>4. /\ ld' = [m \in Loads |-> ld'[m]] /\ ld'[l] = r
      /\ \A m \in Loads \ {l} : ld'[m] = ld[m]
  BY <1>1, LoadMoves
<1>5. LoadInv(l)' /\ ~r.marked
  BY <1>1, <1>2, <1>3, <1>4 DEF LoadInv, LoadShape
<1>6. CASE ~ld[l].lease
  <2>1. UNCHANGED <<ledger, faults, lost>>
    BY <1>6 DEF Commit
  <2>2. ASSUME ~lost', NEW x \in ledger, x.seq = l PROVE OwnedEntry(x)'
    <3>1. Live(x) => x.state \notin {"P", "W"}
      BY <1>1, <1>6, <2>1, <2>2, NoneOutstanding
    <3> QED BY <1>1, <3>1 DEF OwnedEntry, Live
  <2> QED BY <1>1, <1>5, <2>1, <2>2, LedgerStays
<1>7. CASE ld[l].lease
  <2>1. Writes(Committed(l))
    BY <1>7 DEF Commit
  <2>2. lost => lost'
    BY <2>1 DEF Writes
  <2>3. ledger' = Committed(l) \/ (lost' /\ ledger' = ledger)
    BY <2>1 DEF Writes
  <2>4. ASSUME NEW x \in ledger' PROVE EntryInv(x)' /\ (~lost' => OwnedEntry(x)')
    <3>1. CASE lost' /\ x \in ledger
      BY <1>1, <1>4, <2>2, <3>1, OthersOwned
    <3>2. ASSUME NEW y \in ledger, Mine(l, y),
                 x = [y EXCEPT !.state = "C", !.bytes = ld[l].got]
          PROVE  EntryInv(x)' /\ OwnedEntry(x)'
      <4>1. EntryInv(y)
        BY DEF LedgerInv
      <4>2. /\ x.state = "C" /\ x.pid = y.pid /\ x.seq = y.seq /\ x.procstart = y.procstart
            /\ EntryShape(x)
        BY <3>2, <4>1 DEF EntryInv, EntryShape
      <4> QED BY <1>1, <4>1, <4>2 DEF EntryInv, EntryShape, OwnedEntry
    <3>3. CASE x \in ledger /\ ~Mine(l, x)
      <4>1. x.seq # l
        BY <3>3 DEF LedgerInv, EntryInv, Mine
      <4> QED BY <1>1, <1>4, <2>2, <3>3, <4>1, OthersOwned
    <3>4. CASE ledger' = Committed(l)
      <4>1. PICK y \in Reaped :
              x = IF Mine(l, y) THEN [y EXCEPT !.state = "C", !.bytes = ld[l].got] ELSE y
        BY <3>4 DEF Committed
      <4>2. y \in ledger
        BY DEF Reaped
      <4> QED BY <3>2, <3>3, <4>1, <4>2
    <3> QED BY <2>3, <3>1, <3>4
  <2>5. ASSUME NEW m \in Loads \ {l}, ~lost', ld[m].marked, Entry(m, "W") \in ledger
        PROVE  Entry(m, "W") \in ledger'
    <3>1. Entry(m, "W") \in Reaped /\ ~Mine(l, Entry(m, "W"))
      BY <2>5, MarkerIsKept
    <3>2. Entry(m, "W") \in Committed(l)
      BY <3>1 DEF Committed
    <3> QED BY <2>3, <2>5, <3>2
  <2> QED BY <1>1, <1>4, <1>5, <2>2, <2>4, <2>5, LedgerStep
<1> QED BY <1>6, <1>7

LEMMA LedgerFree == ASSUME LedgerInv, NEW l \in Loads, Free(l) PROVE LedgerInv'
<1>1. LoadInv(l) /\ ld[l].phase = "loaded"
  BY DEF LedgerInv, Free
<1> DEFINE r == [ld[l] EXCEPT !.phase = "freed", !.got = 0]
<1>2. ld' = [ld EXCEPT ![l] = r] /\ UNCHANGED <<ledger, guarded, alive, started, lost, loose>>
  BY DEF Free, osVars, LedgerInv, WorldType
<1>3. /\ LoadShape(r) /\ r.phase = "freed" /\ r.second = ld[l].second
      /\ r.waiting = ld[l].waiting /\ r.marked = ld[l].marked
  BY <1>1 DEF LoadInv, LoadShape
<1> HIDE DEF r
<1>4. ld'[l] = r
  BY <1>2, LoadMoves
<1>5. LoadInv(l)' /\ ~r.marked
  BY <1>1, <1>2, <1>3, <1>4 DEF LoadInv, LoadShape
<1>6. ASSUME ~lost', NEW x \in ledger, x.seq = l PROVE OwnedEntry(x)'
  <2>1. Live(x) => x.state \notin {"P", "W"}
    BY <1>1, <1>2, <1>6, NoneOutstanding
  <2> QED BY <1>2, <2>1 DEF OwnedEntry, Live
<1> QED BY <1>2, <1>5, <1>6, LedgerStays

LEMMA LedgerRelease == ASSUME LedgerInv, NEW l \in Loads, Release(l) PROVE LedgerInv'
<1>1. ld[l].phase = "freed" /\ ld' = [ld EXCEPT ![l] = Idle] /\ UNCHANGED <<osVars, loose>>
  BY DEF Release
<1>2. /\ LoadShape(Idle) /\ Idle.phase = "idle" /\ Idle.second = FALSE /\ Idle.marked = FALSE
  BY DEF Idle, LoadShape
<1>3. CASE ~ld[l].lease
  BY <1>1, <1>2, <1>3, LedgerQuiet DEF Release, osVars
<1>4. CASE ld[l].lease
  <2>0. UNCHANGED osVars /\ UNCHANGED loose /\ Writes(Removed(l))
    BY <1>1, <1>4 DEF Release
  <2>1. /\ ld' = [m \in Loads |-> ld'[m]] /\ ld'[l] = Idle
        /\ \A m \in Loads \ {l} : ld'[m] = ld[m]
    BY <1>1, LoadMoves
  <2>2. LoadInv(l)'
    BY <1>2, <2>1 DEF LoadInv, LoadShape
  <2> QED BY <1>2, <2>0, <2>1, <2>2, RemovedKeeps
<1> QED BY <1>3, <1>4

\* A claim that got no lease: the load fails, claims what was available, or goes on.
LEMMA NoLease ==
  ASSUME LedgerInv, NEW l \in Loads, NEW r, LoadShape(r), ld[l].phase # "idle",
         r.second => ~r.waiting /\ ~r.marked,
         WithoutLease(l, r), alive' = alive
  PROVE  /\ ld' = [m \in Loads |-> ld'[m]] /\ \A m \in Loads \ {l} : ld'[m] = ld[m]
         /\ LoadInv(l)' /\ ~ld'[l].marked /\ (loose => loose')
         /\ r.waiting => ld'[l].phase # "granted"
<1>0. alive[PidOf[l]]
  BY DEF LedgerInv, LoadInv
<1>1. CASE ld' = [ld EXCEPT ![l] = Idle] /\ UNCHANGED loose
  <2>1. /\ ld' = [m \in Loads |-> ld'[m]] /\ ld'[l] = Idle
        /\ \A m \in Loads \ {l} : ld'[m] = ld[m]
    BY <1>1, LoadMoves
  <2>2. /\ Idle.second = FALSE /\ Idle.marked = FALSE /\ Idle.phase = "idle" /\ LoadShape(Idle)
    BY DEF Idle, LoadShape
  <2>3. LoadInv(l)'
    BY <2>1, <2>2 DEF LoadInv, LoadShape
  <2> QED BY <1>1, <2>1, <2>2, <2>3
<1>2. CASE ld' = [ld EXCEPT ![l] = Claiming(l, r.avail, FALSE, TRUE)] /\ loose' = TRUE
  <2> DEFINE c == Claiming(l, r.avail, FALSE, TRUE)
  <2>1. c.waiting = FALSE /\ c.marked = FALSE /\ c.phase = "claim" /\ LoadShape(c)
    BY DEF Claiming, Idle, LoadShape
  <2>2. ld' = [ld EXCEPT ![l] = c]
    BY <1>2
  <2> HIDE DEF c
  <2>3. /\ ld' = [m \in Loads |-> ld'[m]] /\ ld'[l] = c
        /\ \A m \in Loads \ {l} : ld'[m] = ld[m]
    BY <2>2, LoadMoves
  <2>4. LoadInv(l)'
    BY <1>0, <2>1, <2>3 DEF LoadInv, LoadShape
  <2> QED BY <1>2, <2>1, <2>3, <2>4
<1>3. CASE r.second /\ ld' = [ld EXCEPT ![l] = [r EXCEPT !.phase = "granted", !.lease = FALSE]]
             /\ UNCHANGED loose
  <2> DEFINE c == [r EXCEPT !.phase = "granted", !.lease = FALSE]
  <2>1. /\ c.waiting = r.waiting /\ c.marked = r.marked /\ c.phase = "granted"
        /\ LoadShape(c)
    BY DEF LoadShape
  <2>2. ld' = [ld EXCEPT ![l] = c]
    BY <1>3
  <2> HIDE DEF c
  <2>3. /\ ld' = [m \in Loads |-> ld'[m]] /\ ld'[l] = c
        /\ \A m \in Loads \ {l} : ld'[m] = ld[m]
    BY <2>2, LoadMoves
  <2>4. LoadInv(l)'
    BY <1>0, <1>3, <2>1, <2>3 DEF LoadInv, LoadShape
  <2> QED BY <1>3, <2>1, <2>3, <2>4
<1> QED BY <1>1, <1>2, <1>3 DEF WithoutLease

\* What a poll remembers of the file does not matter here.
LEMMA LookedFields ==
  ASSUME LedgerInv, NEW l \in Loads
  PROVE  /\ LoadShape(Looked(l)) /\ Looked(l).phase = ld[l].phase
         /\ Looked(l).need = ld[l].need /\ Looked(l).second = ld[l].second
         /\ Looked(l).waiting = ld[l].waiting /\ Looked(l).marked = ld[l].marked
<1>1. LoadShape(ld[l])
  BY DEF LedgerInv, LoadInv
<1> QED BY <1>1 DEF Looked, LoadShape

LEMMA LedgerAdmits == ASSUME LedgerInv, NEW l \in Loads, PollAdmits(l) PROVE LedgerInv'
<1> DEFINE r == [Looked(l) EXCEPT !.phase = "granted", !.lease = TRUE, !.marked = FALSE]
           A == IF HasRoom(l) THEN {Entry(l, "P")} ELSE {}
<1>1. /\ ld[l].phase = "claim" /\ ledger' = Seen(l) \cup A /\ ld' = [ld EXCEPT ![l] = r]
      /\ loose' = (loose \/ ~HasRoom(l)) /\ UNCHANGED osVars /\ UNCHANGED lost
  BY DEF PollAdmits
<1>2. LoadInv(l)
  BY DEF LedgerInv
<1>3. /\ r.phase = "granted" /\ r.lease = TRUE /\ r.marked = FALSE
      /\ r.second = ld[l].second /\ r.waiting = ld[l].waiting /\ LoadShape(r)
  BY LookedFields DEF LoadShape
<1> HIDE DEF r
<1>4. /\ ld' = [m \in Loads |-> ld'[m]] /\ ld'[l] = r
      /\ \A m \in Loads \ {l} : ld'[m] = ld[m]
  BY <1>1, LoadMoves
<1>5. UNCHANGED <<guarded, alive, started>>
  BY <1>1 DEF osVars
<1>6. LoadInv(l)'
  BY <1>1, <1>2, <1>3, <1>4, <1>5 DEF LoadInv, LoadShape
<1>7. ASSUME NEW x \in A PROVE EntryInv(x)' /\ (~lost' => OwnedEntry(x)')
  <2>1. x = Entry(l, "P")
    OBVIOUS
  <2>2. x.seq = l /\ x.state = "P" /\ EntryInv(x)
    BY <2>1, EntryFields
  <2> QED BY <1>3, <1>4, <1>5, <2>2 DEF EntryInv, EntryShape, OwnedEntry
<1> HIDE DEF A
<1> QED BY <1>1, <1>3, <1>4, <1>6, <1>7, SeenKeeps

LEMMA LedgerUnaccounted ==
  ASSUME LedgerInv, NEW l \in Loads, PollUnaccounted(l) PROVE LedgerInv'
<1> DEFINE r == [ld[l] EXCEPT !.phase = "granted", !.lease = TRUE, !.marked = FALSE]
<1>1. /\ ld[l].phase = "claim" /\ ld' = [ld EXCEPT ![l] = r] /\ lost' = TRUE /\ loose' = TRUE
      /\ UNCHANGED <<ledger, guarded, alive, started>>
  BY DEF PollUnaccounted, osVars, LedgerInv, WorldType
<1>2. LoadInv(l)
  BY DEF LedgerInv
<1>3. /\ r.phase = "granted" /\ r.marked = FALSE /\ r.second = ld[l].second
      /\ r.waiting = ld[l].waiting /\ LoadShape(r)
  BY <1>2 DEF LoadInv, LoadShape
<1> HIDE DEF r
<1>4. ld'[l] = r
  BY <1>1, LoadMoves
<1>5. LoadInv(l)'
  BY <1>1, <1>2, <1>3, <1>4 DEF LoadInv, LoadShape
<1> QED BY <1>1, <1>3, <1>5, LedgerStays

LEMMA LedgerWaits == ASSUME LedgerInv, NEW l \in Loads, PollWaits(l) PROVE LedgerInv'
<1> DEFINE r == [Looked(l) EXCEPT !.marked = TRUE]
           A == IF HasRoom(l) THEN Marker(l) ELSE {}
<1>1. /\ ld[l].phase = "claim" /\ ld[l].waiting /\ ledger' = Seen(l) \cup A
      /\ ld' = [ld EXCEPT ![l] = r]
      /\ loose' = (loose \/ ~HasRoom(l)) /\ UNCHANGED osVars /\ UNCHANGED lost
  BY DEF PollWaits
<1>2. LoadInv(l)
  BY DEF LedgerInv
<1>3. /\ r.phase = ld[l].phase /\ r.marked = TRUE /\ r.need = ld[l].need
      /\ r.second = ld[l].second /\ r.waiting = ld[l].waiting /\ LoadShape(r)
  BY LookedFields DEF LoadShape
<1> HIDE DEF r
<1>4. /\ ld' = [m \in Loads |-> ld'[m]] /\ ld'[l] = r
      /\ \A m \in Loads \ {l} : ld'[m] = ld[m]
  BY <1>1, LoadMoves
<1>5. UNCHANGED <<guarded, alive, started>>
  BY <1>1 DEF osVars
<1>6. LoadInv(l)'
  BY <1>1, <1>2, <1>3, <1>4, <1>5 DEF LoadInv, LoadShape
<1>7. ASSUME NEW x \in A PROVE EntryInv(x)' /\ (~lost' => OwnedEntry(x)')
  <2>1. x = Entry(l, "W")
    BY DEF Marker
  <2>2. x.seq = l /\ x.state = "W" /\ EntryInv(x)
    BY <2>1, EntryFields
  <2> QED BY <1>1, <1>3, <1>4, <1>5, <2>2 DEF EntryInv, EntryShape, OwnedEntry
<1>8. ~loose' => Entry(l, "W")' \in ledger'
  <2>1. Entry(l, "W")' = Entry(l, "W")
    BY <1>3, <1>4, <1>5 DEF Entry
  <2>2. ~loose' => Entry(l, "W") \in A
    BY <1>1 DEF Marker
  <2> QED BY <1>1, <2>1, <2>2
<1> HIDE DEF A
<1> QED BY <1>1, <1>3, <1>4, <1>6, <1>7, <1>8, SeenKeeps

LEMMA LedgerRefuses == ASSUME LedgerInv, NEW l \in Loads, PollRefuses(l) PROVE LedgerInv'
<1> DEFINE r == Looked(l)
           A == {}
<1>1. /\ ld[l].phase = "claim" /\ ~ld[l].waiting /\ ledger' = Seen(l) \cup A
      /\ WithoutLease(l, r) /\ UNCHANGED osVars /\ UNCHANGED lost
  BY DEF PollRefuses
<1>2. LoadInv(l) /\ alive' = alive /\ ld[l].phase # "idle"
  BY <1>1 DEF LedgerInv, osVars
<1>3. LoadShape(r) /\ r.second = ld[l].second /\ r.waiting = ld[l].waiting
      /\ r.marked = ld[l].marked
  BY LookedFields
<1>6. \A x \in A : EntryInv(x)' /\ (~lost' => OwnedEntry(x)')
  OBVIOUS
<1> HIDE DEF r, A
<1>4. r.second => ~r.waiting /\ ~r.marked
  BY <1>2, <1>3 DEF LoadInv
<1>5. /\ ld' = [m \in Loads |-> ld'[m]] /\ \A m \in Loads \ {l} : ld'[m] = ld[m]
      /\ LoadInv(l)' /\ ~ld'[l].marked /\ (loose => loose')
  BY <1>1, <1>2, <1>3, <1>4, NoLease
<1> QED BY <1>1, <1>5, <1>6, SeenKeeps

LEMMA LedgerGivesUp ==
  ASSUME LedgerInv, NEW l \in Loads, GiveUp(l) \/ LeaseFails(l) PROVE LedgerInv'
<1>1. /\ ld[l].phase \in {"claim", "granted"} /\ Writes(Removed(l))
      /\ WithoutLease(l, ld[l]) /\ UNCHANGED osVars
  BY DEF GiveUp, LeaseFails, RolledBack
<1>2. LoadInv(l) /\ alive' = alive
  BY <1>1 DEF LedgerInv, osVars
<1>3. ld[l].second => ~ld[l].waiting /\ ~ld[l].marked
  BY <1>2 DEF LoadInv
<1>4. /\ ld' = [m \in Loads |-> ld'[m]] /\ \A m \in Loads \ {l} : ld'[m] = ld[m]
      /\ LoadInv(l)' /\ ~ld'[l].marked /\ (loose => loose')
  BY <1>1, <1>2, <1>3, NoLease DEF LoadInv
<1> QED BY <1>1, <1>4, RemovedKeeps

-----------------------------------------------------------------------------
(* The world.                                                              *)

LEMMA LedgerDies == ASSUME LedgerInv, NEW p \in Pids, Dies(p) PROVE LedgerInv'
<1>1. /\ alive' = [alive EXCEPT ![p] = FALSE]
      /\ ld' = [l \in Loads |-> IF PidOf[l] = p THEN Idle ELSE ld[l]]
      /\ UNCHANGED <<guarded, started, loose>>
      /\ (ledger' = ledger /\ lost' = lost) \/ (ledger' = {} /\ lost' = TRUE)
  BY DEF Dies
<1>2. WorldType'
  BY <1>1 DEF LedgerInv, WorldType
<1>3. \A q \in Pids : alive'[q] = IF q = p THEN FALSE ELSE alive[q]
  BY <1>1 DEF LedgerInv, WorldType
<1>4. /\ Idle.second = FALSE /\ Idle.marked = FALSE /\ Idle.phase = "idle" /\ LoadShape(Idle)
  BY DEF Idle, LoadShape
<1>5. ASSUME NEW l \in Loads PROVE LoadInv(l)'
  <2>1. CASE PidOf[l] = p
    <3>1. ld'[l] = Idle
      BY <1>1, <2>1
    <3> QED BY <1>4, <3>1 DEF LoadInv, LoadShape
  <2>2. CASE PidOf[l] # p
    <3>1. ld'[l] = ld[l] /\ (alive[PidOf[l]] => alive'[PidOf[l]])
      BY <1>1, <1>3, <2>2, PidsOfLoads
    <3> QED BY <3>1 DEF LedgerInv, LoadInv, LoadShape
  <2> QED BY <2>1, <2>2
<1>6. ASSUME NEW x \in ledger PROVE EntryInv(x)' /\ (~lost' => OwnedEntry(x)')
  <2>1. EntryInv(x)'
    BY <1>1 DEF LedgerInv, EntryInv, EntryShape
  <2>2. ASSUME ~lost' PROVE OwnedEntry(x)'
    <3>1. OwnedEntry(x) /\ x.pid = PidOf[x.seq] /\ x.seq \in Loads /\ x.pid \in Pids
      BY <1>1, <2>2, PidsOfLoads DEF LedgerInv, EntryInv
    <3>2. CASE x.pid = p
      BY <1>3, <3>1, <3>2 DEF OwnedEntry, Live
    <3>3. CASE x.pid # p
      <4>1. ld'[x.seq] = ld[x.seq] /\ (Live(x)' <=> Live(x))
        BY <1>1, <1>3, <3>1, <3>3 DEF Live
      <4> QED BY <3>1, <4>1 DEF OwnedEntry
    <3> QED BY <3>2, <3>3
  <2> QED BY <2>1, <2>2
<1>7. ASSUME ~lost', ~loose', NEW l \in Loads, ld'[l].marked PROVE Entry(l, "W")' \in ledger'
  <2>1. ld'[l] = ld[l]
    BY <1>1, <1>4, <1>7
  <2>2. Entry(l, "W")' = Entry(l, "W")
    BY <1>1, <2>1 DEF Entry
  <2> QED BY <1>1, <1>7, <2>1, <2>2 DEF LedgerInv
<1>8. \A x \in ledger' : x \in ledger
  BY <1>1
<1> QED BY <1>2, <1>5, <1>6, <1>7, <1>8 DEF LedgerInv

LEMMA LedgerReused == ASSUME LedgerInv, NEW p \in Pids, PidReused(p) PROVE LedgerInv'
<1>1. /\ ~alive[p] /\ alive' = [alive EXCEPT ![p] = TRUE]
      /\ started' = [started EXCEPT ![p] = started[p] + 1]
      /\ UNCHANGED <<ledger, guarded, ld, lost, loose>>
  BY DEF PidReused, LedgerInv, WorldType
<1>2. alive \in [Pids -> BOOLEAN] /\ started \in [Pids -> Nat]
  BY DEF LedgerInv, WorldType
<1>3. /\ \A q \in Pids : alive'[q] = IF q = p THEN TRUE ELSE alive[q]
      /\ \A q \in Pids : started[q] \in Nat /\ started'[q] = IF q = p THEN started[q] + 1 ELSE started[q]
  BY <1>1, <1>2
<1>4. WorldType'
  <2>1. started' \in [Pids -> Nat]
    BY <1>1, <1>2
  <2>2. alive' \in [Pids -> BOOLEAN]
    BY <1>1, <1>2
  <2> QED BY <1>1, <2>1, <2>2 DEF LedgerInv, WorldType
<1>5. ASSUME NEW l \in Loads PROVE LoadInv(l)'
  <2>1. alive[PidOf[l]] => alive'[PidOf[l]]
    BY <1>3, PidsOfLoads
  <2> QED BY <1>1, <2>1 DEF LedgerInv, LoadInv, LoadShape
<1>6. ASSUME NEW x \in ledger PROVE EntryInv(x)' /\ (Live(x)' => Live(x))
  <2>1. EntryInv(x) /\ x.pid \in Pids
    BY PidsOfLoads DEF LedgerInv, EntryInv
  <2>2. x.procstart \in Nat /\ x.procstart <= started[x.pid] + 1
    BY <2>1 DEF EntryInv
  <2>3. started'[x.pid] \in Nat /\ started[x.pid] <= started'[x.pid]
    BY <1>3, <2>1
  <2>4. x.procstart <= started'[x.pid] + 1
    BY <1>3, <2>1, <2>2, <2>3
  <2>5. EntryInv(x)'
    BY <2>1, <2>2, <2>4 DEF EntryInv, EntryShape
  <2>6. CASE x.pid = p
    BY <1>3, <2>1, <2>2, <2>5, <2>6 DEF Live
  <2>7. CASE x.pid # p
    BY <1>3, <2>1, <2>5, <2>7 DEF Live
  <2> QED BY <2>6, <2>7
<1>7. ASSUME ~lost', NEW x \in ledger PROVE OwnedEntry(x)'
  BY <1>1, <1>6, <1>7 DEF LedgerInv, OwnedEntry
<1>8. ASSUME ~lost', ~loose', NEW l \in Loads, ld'[l].marked PROVE Entry(l, "W")' \in ledger'
  <2>1. alive[PidOf[l]] /\ Entry(l, "W") \in ledger
    BY <1>1, <1>8 DEF LedgerInv, LoadInv
  <2>2. PidOf[l] # p
    BY <1>1, <2>1
  <2>3. started'[PidOf[l]] = started[PidOf[l]] /\ guarded' = guarded /\ ld'[l] = ld[l]
    BY <1>1, <1>3, <2>2, PidsOfLoads
  <2>4. Entry(l, "W")' = Entry(l, "W")
    BY <2>3 DEF Entry
  <2> QED BY <1>1, <2>1, <2>4
<1> QED BY <1>1, <1>4, <1>5, <1>6, <1>7, <1>8 DEF LedgerInv

LEMMA LedgerAges == ASSUME LedgerInv, HourPasses PROVE LedgerInv'
<1>1. /\ ledger' = (ledger \ Ageing) \cup {[x EXCEPT !.old = TRUE] : x \in Ageing}
      /\ UNCHANGED <<guarded, alive, started, ld, lost, loose>>
  BY DEF HourPasses, osVars
<1>2. Ageing \subseteq ledger
  BY DEF Ageing
<1>3. ASSUME NEW x \in ledger' PROVE EntryInv(x)' /\ (~lost' => OwnedEntry(x)')
  <2>1. CASE x \in ledger
    BY <1>1, <2>1 DEF LedgerInv, EntryInv, EntryShape, OwnedEntry, Live
  <2>2. ASSUME NEW y \in Ageing, x = [y EXCEPT !.old = TRUE]
        PROVE  EntryInv(x)' /\ (~lost' => OwnedEntry(x)')
    <3>1. EntryInv(y) /\ (~lost => OwnedEntry(y))
      BY <1>2 DEF LedgerInv
    <3>2. /\ x.state = y.state /\ x.pid = y.pid /\ x.seq = y.seq /\ x.procstart = y.procstart
          /\ EntryShape(x)
      BY <2>2, <3>1 DEF EntryInv, EntryShape
    <3> QED BY <1>1, <3>1, <3>2 DEF EntryInv, EntryShape, OwnedEntry, Live
  <2> QED BY <1>1, <2>1, <2>2
<1>4. ASSUME ~lost', ~loose', NEW l \in Loads, ld'[l].marked PROVE Entry(l, "W")' \in ledger'
  <2>1. Entry(l, "W") \in ledger /\ Entry(l, "W")' = Entry(l, "W")
    BY <1>1, <1>4 DEF LedgerInv, Entry
  <2>2. Entry(l, "W").state = "W" /\ Mine(l, Entry(l, "W"))
    BY EntryFields DEF Mine
  <2>3. Entry(l, "W") \notin Ageing
    BY <1>1, <1>4, <2>2 DEF Ageing
  <2> QED BY <1>1, <2>1, <2>3
<1>5. WorldType' /\ \A l \in Loads : LoadInv(l)'
  BY <1>1 DEF LedgerInv, WorldType, LoadInv, LoadShape
<1> QED BY <1>3, <1>4, <1>5 DEF LedgerInv

LEMMA NextLedger == LedgerInv /\ [Next]_vars => LedgerInv'
<1> SUFFICES ASSUME LedgerInv, [Next]_vars PROVE LedgerInv'
  OBVIOUS
<1>1. CASE UNCHANGED vars
  BY <1>1 DEF vars, osVars, LedgerInv, WorldType, LoadInv, LoadShape, EntryInv, EntryShape,
     OwnedEntry, Live, Entry
<1>2. CASE Rest
  BY <1>1, <1>2 DEF Rest
<1>3. CASE HourPasses
  BY <1>3, LedgerAges
<1>4. CASE \E p \in Pids : Dies(p) \/ PidReused(p)
  BY <1>4, LedgerDies, LedgerReused
<1>5. CASE \E l \in Loads : Claim(l) \/ Proceeds(l) \/ GiveUp(l) \/ LeaseFails(l)
  BY <1>5, LedgerClaim, LedgerAdmits, LedgerWaits, LedgerRefuses, LedgerUnaccounted,
     LedgerAllocate, LedgerCommit, LedgerFree, LedgerRelease, LedgerGivesUp DEF Proceeds
<1> QED BY <1>1, <1>2, <1>3, <1>4, <1>5 DEF Next

-----------------------------------------------------------------------------

\* The ledger's inductive invariant: entries, loads and processes agree.
THEOREM LedgerInvariant == Spec => []LedgerInv
BY InitLedger, NextLedger, PTL DEF Spec

\* No reservation or marker of a living process outlasts the claim that left it, unless
\* a write of the file was lost (vram_claim, vram_commit, RNR-013).
THEOREM EntriesAreOwned == Spec => []EntryHasOwner
<1>1. LedgerInv => EntryHasOwner
  <2> SUFFICES ASSUME LedgerInv, ~lost, NEW x \in ledger, x.state \in {"P", "W"}, Live(x)
               PROVE  \E l \in Loads :
                        /\ Mine(l, x)
                        /\ ld[l].phase \in IF x.state = "P" THEN {"granted", "allocated"}
                                           ELSE {"claim"}
    BY DEF EntryHasOwner, Live
  <2>1. x.seq \in Loads /\ Mine(x.seq, x)
    BY DEF LedgerInv, EntryInv, Mine
  <2> QED BY <2>1, NoneOutstanding
<1> QED BY <1>1, LedgerInvariant, PTL

\* A queued claim is not admitted past a waiter that outranks it and whose request would
\* fit (claim_rmw's two rules).
THEOREM NoneOvertakes == Spec => NoInversion
<1>1. ASSUME LedgerInv, [Next]_vars, NEW l \in Loads, NEW h \in Loads,
             ~lost, ~loose, ld[l].phase = "claim", ld[l].waiting, ld'[l].phase = "granted",
             ld[h].marked, Priority[h] > Priority[l], ~lost'
      PROVE  ~(ld[h].need <= Available(Reaped))
  <2>1. h # l
    BY <1>1, RegistryAssumption
  <2>2. PollAdmits(l)
    <3>1. LoadInv(l)
      BY <1>1 DEF LedgerInv
    <3>2. ~GiveUp(l)
      <4>1. SUFFICES ASSUME GiveUp(l) PROVE FALSE
        OBVIOUS
      <4>2. WithoutLease(l, ld[l]) /\ alive' = alive
        BY <4>1 DEF GiveUp, osVars
      <4>3. ld[l].second => ~ld[l].waiting /\ ~ld[l].marked
        BY <3>1 DEF LoadInv
      <4>4. ld'[l].phase # "granted"
        BY <1>1, <3>1, <4>2, <4>3, NoLease DEF LoadInv
      <4> QED BY <1>1, <4>4
    <3>3. ASSUME NEW m \in Loads, m # l, Claim(m) \/ Proceeds(m) \/ GiveUp(m) \/ LeaseFails(m)
          PROVE  FALSE
      <4>1. ld'[l] = ld[l]
        BY <1>1, <3>3 DEF Claim, Proceeds, GiveUp, LeaseFails, PollAdmits, PollWaits, PollRefuses,
           PollUnaccounted, Allocate, Commit, Free, Release, WithoutLease, LedgerInv, WorldType
      <4> QED BY <1>1, <4>1
    <3>4. ~Claim(l) /\ ~LeaseFails(l) /\ ~PollRefuses(l) /\ ~PollUnaccounted(l)
            /\ ~Allocate(l) /\ ~Commit(l) /\ ~Free(l) /\ ~Release(l)
      BY <1>1 DEF Claim, LeaseFails, PollRefuses, PollUnaccounted, Allocate, Commit, Free, Release
    <3>5. ~PollWaits(l)
      <4>1. SUFFICES ASSUME PollWaits(l) PROVE FALSE
        OBVIOUS
      <4> DEFINE r == [Looked(l) EXCEPT !.marked = TRUE]
      <4>2. ld' = [ld EXCEPT ![l] = r] /\ r.phase = "claim"
        BY <1>1, <4>1, LookedFields DEF PollWaits, LoadShape
      <4> HIDE DEF r
      <4>3. ld'[l].phase = "claim"
        BY <1>1, <4>2, LoadMoves
      <4> QED BY <1>1, <4>3
    <3>6. ~(\E p \in Pids : Dies(p) \/ PidReused(p)) /\ ~HourPasses /\ ~Rest /\ ~UNCHANGED vars
      <4>1. Idle.phase = "idle"
        BY DEF Idle
      <4>2. \A p \in Pids : ~Dies(p)
        BY <1>1, <4>1 DEF Dies
      <4> QED BY <1>1, <4>2 DEF PidReused, HourPasses, Rest, vars
    <3> QED BY <1>1, <3>2, <3>3, <3>4, <3>5, <3>6 DEF Next, Proceeds
  <2> DEFINE x == Entry(h, "W")
  <2>3. x \in Reaped /\ ~Mine(l, x)
    BY <1>1, <2>1, MarkerIsKept DEF LedgerInv
  <2>4. x.state = "W" /\ x.priority = Priority[h] /\ x.bytes = ld[h].need
    BY DEF Entry
  <2> HIDE DEF x
  <2>5. x \in Seen(l)
    BY <2>3 DEF Seen
  <2>6. Pending(Seen(l)) = Pending(Reaped)
    BY DEF Pending, Seen
  <2>7. Available(Seen(l)) = Available(Reaped)
    BY <2>6 DEF Available
  <2>8. ~Outranked(l, Seen(l))
    BY <1>1, <2>2 DEF PollAdmits, Admitted
  <2>9. x.priority > Priority[l]
    BY <1>1, <2>4
  <2>10. ~(x.bytes <= Available(Seen(l)))
    BY <2>4, <2>5, <2>8, <2>9 DEF Outranked
  <2> QED BY <2>4, <2>7, <2>10
<1>2. LedgerInv /\ [Next]_vars =>
        [ \A l, h \in Loads :
            /\ ~lost /\ ~loose
            /\ ld[l].phase = "claim" /\ ld[l].waiting /\ ld'[l].phase = "granted"
            /\ ld[h].marked /\ Priority[h] > Priority[l]
            => lost' \/ ~(ld[h].need <= Available(Reaped)) ]_vars
  BY <1>1
<1> QED BY <1>2, LedgerInvariant, PTL DEF Spec, NoInversion

-----------------------------------------------------------------------------
(* The sums of the model.                                                  *)

LEMMA BytesIsSum ==
  ASSUME NEW S, IsFiniteSet(S)
  PROVE  Bytes(S) = Sum([x \in S |-> x.bytes], S)
<1> DEFINE f == [x \in S |-> x.bytes]
           B(g) == [s \in SUBSET S |->
                      IF s = {} THEN 0
                      ELSE (CHOOSE x \in s : TRUE).bytes + g[s \ {CHOOSE x \in s : TRUE}]]
           G == CHOOSE g : g = B(g)
<1>1. Bytes(S) = G[S]
  BY DEF Bytes, MapThenSumSet, MapThenFoldSet
<1>2. \A g : Adds(f, S, g) <=> g = B(g)
  BY NextIn DEF Adds, Next1
<1> HIDE DEF B
<1>3. \E g : Adds(f, S, g)
  BY AddsExists
<1>4. Adds(f, S, G)
  <2>1. \E g : g = B(g)
    BY <1>2, <1>3
  <2>2. G = B(G)
    BY <2>1
  <2> HIDE DEF G
  <2> QED BY <1>2, <2>2
<1> HIDE DEF f, G
<1> QED BY <1>1, <1>4, SumAdds DEF f

LEMMA TakenIsSum ==
  DeviceFree = Total - Sum([l \in Loads |-> ld[l].got], Loads)
<1> DEFINE f == [l \in Loads |-> ld[l].got]
           B(g) == [s \in SUBSET Loads |->
                      IF s = {} THEN 0
                      ELSE ld[CHOOSE x \in s : TRUE].got + g[s \ {CHOOSE x \in s : TRUE}]]
           G == CHOOSE g : g = B(g)
<1>1. DeviceFree = Total - G[Loads]
  BY DEF DeviceFree, MapThenSumSet, MapThenFoldSet
<1>2. \A g : Adds(f, Loads, g) <=> g = B(g)
  BY NextIn DEF Adds, Next1
<1> HIDE DEF B
<1>3. \E g : Adds(f, Loads, g)
  BY AddsExists, RegistryAssumption
<1>4. Adds(f, Loads, G)
  <2>1. \E g : g = B(g)
    BY <1>2, <1>3
  <2>2. G = B(G)
    BY <2>1
  <2> HIDE DEF G
  <2> QED BY <1>2, <2>2
<1> HIDE DEF f, G
<1> QED BY <1>1, <1>4, SumAdds, RegistryAssumption DEF f

LEMMA PromisedIsSum ==
  Promised = Sum([l \in Loads |-> ld[l].need], Granted)
<1> DEFINE f == [l \in Loads |-> ld[l].need]
           B(g) == [s \in SUBSET Granted |->
                      IF s = {} THEN 0
                      ELSE ld[CHOOSE x \in s : TRUE].need + g[s \ {CHOOSE x \in s : TRUE}]]
           G == CHOOSE g : g = B(g)
<1>1. Promised = G[Granted]
  BY DEF Promised, MapThenSumSet, MapThenFoldSet
<1>2. \A g : Adds(f, Granted, g) <=> g = B(g)
  BY NextIn DEF Adds, Next1, Granted
<1> HIDE DEF B
<1>3. IsFiniteSet(Granted)
  BY FS_Subset, RegistryAssumption DEF Granted
<1>4. \E g : Adds(f, Granted, g)
  BY <1>3, AddsExists
<1>5. Adds(f, Granted, G)
  <2>1. \E g : g = B(g)
    BY <1>2, <1>4
  <2>2. G = B(G)
    BY <2>1
  <2> HIDE DEF G
  <2> QED BY <1>2, <2>2
<1> HIDE DEF f, G
<1> QED BY <1>1, <1>3, <1>5, SumAdds DEF f

-----------------------------------------------------------------------------
(* What is promised fits.                                                  *)

\* Until a load is not in the file, each load that was admitted has its reservation
\* there, so the free memory that a poll computes leaves out all that is promised.
MemInv ==
  /\ IsFiniteSet(ledger) /\ DeviceFree \in Nat
  /\ \A l \in Loads : /\ ld[l].got \in Nat
                      /\ ld[l].got # 0 => ld[l].phase \in {"allocated", "loaded"}
  /\ ~loose => /\ \A l \in Loads : ~ld[l].second /\ ld[l].need \in Nat
               /\ \A l \in Loads : ld[l].phase \in {"claim", "granted"} => ld[l].need = Need[l]
               /\ \A x \in ledger : x.bytes \in Nat
  /\ ~lost /\ ~loose => /\ \A l \in Granted : Entry(l, "P") \in ledger
                        /\ DeviceFree >= Promised

LEMMA SumsNext ==
  /\ DeviceFree' = Total - Sum([l \in Loads |-> ld'[l].got], Loads)
  /\ Promised' = Sum([l \in Loads |-> ld'[l].need], Granted')
<1>1. (DeviceFree = Total - Sum([l \in Loads |-> ld[l].got], Loads))'
  BY TakenIsSum, PTL
<1>2. (Promised = Sum([l \in Loads |-> ld[l].need], Granted))'
  BY PromisedIsSum, PTL
<1> QED BY <1>1, <1>2 DEF Sum, Adds

LEMMA GrantedFinite == IsFiniteSet(Granted) /\ Granted \subseteq Loads
  BY FS_Subset, RegistryAssumption DEF Granted

\* One load takes or gives back memory.
LEMMA FreeMoves ==
  ASSUME MemInv, NEW l \in Loads, \A m \in Loads \ {l} : ld'[m] = ld[m], ld'[l].got \in Nat
  PROVE  DeviceFree' = DeviceFree + ld[l].got - ld'[l].got
<1> DEFINE f == [m \in Loads |-> ld[m].got]
           h == [m \in Loads |-> ld'[m].got]
<1>1. IsFiniteSet(Loads) /\ IsFiniteSet(Loads \ {l}) /\ Total \in Nat
  BY FS_Subset, RegistryAssumption
<1>2. /\ \A m \in Loads : f[m] \in Int /\ h[m] \in Int
      /\ f[l] = ld[l].got /\ h[l] = ld'[l].got
      /\ \A m \in Loads \ {l} : f[m] = h[m]
  BY DEF MemInv
<1>3. DeviceFree = Total - Sum(f, Loads) /\ DeviceFree' = Total - Sum(h, Loads)
  BY TakenIsSum, SumsNext
<1> HIDE DEF f, h
<1>4. Sum(f, Loads) = f[l] + Sum(f, Loads \ {l}) /\ Sum(f, Loads \ {l}) \in Int
  BY <1>1, <1>2, SumIn
<1>5. Sum(h, Loads) = h[l] + Sum(h, Loads \ {l}) /\ Sum(h, Loads \ {l}) \in Int
  BY <1>1, <1>2, SumIn
<1>6. Sum(f, Loads \ {l}) = Sum(h, Loads \ {l})
  BY <1>1, <1>2, SumSame
<1>7. f[l] \in Int /\ h[l] \in Int
  BY <1>2
<1> QED BY <1>1, <1>2, <1>3, <1>4, <1>5, <1>6, <1>7

\* Fewer loads are promised memory, and no more to each.
LEMMA PromisedLess ==
  ASSUME MemInv, ~loose, Granted' \subseteq Granted,
         \A m \in Granted' : ld'[m].need = ld[m].need
  PROVE  Promised' \in Nat /\ Promised \in Nat /\ Promised' <= Promised
<1> DEFINE f == [m \in Loads |-> ld'[m].need]
           h == [m \in Loads |-> ld[m].need]
           e == [m \in Granted' |-> m]
<1>1. IsFiniteSet(Granted) /\ IsFiniteSet(Granted') /\ Granted \subseteq Loads
  BY GrantedFinite, FS_Subset
<1>2. /\ \A m \in Granted : h[m] \in Nat
      /\ \A m \in Granted' : f[m] = h[m] /\ f[m] \in Nat
  BY <1>1 DEF MemInv
<1>3. Promised = Sum(h, Granted) /\ Promised' = Sum(f, Granted')
  BY PromisedIsSum, SumsNext
<1>4. e \in [Granted' -> Granted] /\ \A m \in Granted' : e[m] = m
  OBVIOUS
<1> HIDE DEF f, h, e
<1>5. \A m \in Granted' : f[m] \in Int /\ f[m] <= h[e[m]]
  BY <1>2, <1>4
<1>6. Sum(f, Granted') <= Sum(h, Granted)
  BY <1>1, <1>2, <1>4, <1>5, SumInto
<1>7. Sum(f, Granted') \in Nat /\ Sum(h, Granted) \in Nat
  BY <1>1, <1>2, SumNat
<1> QED BY <1>3, <1>6, <1>7

\* One load more is promised memory, or one less.
LEMMA PromisedMore ==
  ASSUME MemInv, ~loose, NEW l \in Loads, l \notin Granted, Granted' = Granted \cup {l},
         \A m \in Granted : ld'[m].need = ld[m].need, ld'[l].need \in Nat
  PROVE  Promised \in Nat /\ Promised' = ld'[l].need + Promised
<1> DEFINE f == [m \in Loads |-> ld'[m].need]
           h == [m \in Loads |-> ld[m].need]
<1>1. IsFiniteSet(Granted) /\ IsFiniteSet(Granted') /\ Granted \subseteq Loads
  BY GrantedFinite, FS_AddElement
<1>2. /\ \A m \in Granted : h[m] \in Nat /\ f[m] = h[m]
      /\ f[l] = ld'[l].need /\ \A m \in Granted' : f[m] \in Int
  BY <1>1 DEF MemInv
<1>3. Promised = Sum(h, Granted) /\ Promised' = Sum(f, Granted')
  BY PromisedIsSum, SumsNext
<1> HIDE DEF f, h
<1>4. Sum(f, Granted') = f[l] + Sum(f, Granted' \ {l})
  <2> DEFINE U == Granted'
  <2>1. l \in U /\ IsFiniteSet(U) /\ \A m \in U : f[m] \in Int
    BY <1>1, <1>2
  <2> HIDE DEF U
  <2>2. Sum(f, U) = f[l] + Sum(f, U \ {l})
    BY <2>1, SumIn
  <2> QED BY <2>2 DEF U
<1>5. Granted' \ {l} = Granted
  OBVIOUS
<1>6. Sum(f, Granted) = Sum(h, Granted) /\ Sum(h, Granted) \in Nat
  BY <1>1, <1>2, SumSame, SumNat
<1> QED BY <1>2, <1>3, <1>4, <1>5, <1>6

LEMMA PromisedOff ==
  ASSUME MemInv, ~loose, NEW l \in Granted, Granted' = Granted \ {l},
         \A m \in Granted' : ld'[m].need = ld[m].need
  PROVE  Promised' \in Nat /\ Promised = ld[l].need + Promised'
<1> DEFINE f == [m \in Loads |-> ld'[m].need]
           h == [m \in Loads |-> ld[m].need]
<1>1. IsFiniteSet(Granted) /\ IsFiniteSet(Granted') /\ Granted \subseteq Loads
  BY GrantedFinite, FS_Subset
<1>2. /\ \A m \in Granted : h[m] \in Nat
      /\ h[l] = ld[l].need /\ \A m \in Granted' : f[m] = h[m]
  BY <1>1 DEF MemInv
<1>3. Promised = Sum(h, Granted) /\ Promised' = Sum(f, Granted')
  BY PromisedIsSum, SumsNext
<1> HIDE DEF f, h
<1>4. Sum(h, Granted) = h[l] + Sum(h, Granted \ {l})
  <2>1. \A m \in Granted : h[m] \in Int
    BY <1>2
  <2> QED BY <1>1, <2>1, SumIn
<1>5. Sum(f, Granted') = Sum(h, Granted') /\ Sum(h, Granted') \in Nat
  BY <1>1, <1>2, SumSame, SumNat
<1> QED BY <1>2, <1>3, <1>4, <1>5

\* A step of load l that promises it nothing new and leaves the others' reservations.
LEMMA MemStep ==
  ASSUME LedgerInv, MemInv, NEW l \in Loads,
         UNCHANGED <<guarded, started>>, \A m \in Loads \ {l} : ld'[m] = ld[m],
         lost => lost', loose => loose',
         IsFiniteSet(ledger'), DeviceFree' \in Nat, ld'[l].got \in Nat,
         ld'[l].got # 0 => ld'[l].phase \in {"allocated", "loaded"},
         ~loose' => /\ ~ld'[l].second /\ ld'[l].need \in Nat
                    /\ ld'[l].phase \in {"claim", "granted"} => ld'[l].need = Need[l]
                    /\ \A x \in ledger' : x.bytes \in Nat,
         ~lost' /\ ~loose' =>
           /\ \A m \in Granted \ {l} : Entry(m, "P") \in ledger => Entry(m, "P") \in ledger'
           /\ ld'[l].phase = "granted" => Entry(l, "P")' \in ledger'
           /\ DeviceFree' >= Promised'
  PROVE  MemInv'
<1>1. ASSUME NEW m \in Loads
      PROVE  /\ ld'[m].got \in Nat
             /\ ld'[m].got # 0 => ld'[m].phase \in {"allocated", "loaded"}
             /\ ~loose' => /\ ~ld'[m].second /\ ld'[m].need \in Nat
                           /\ ld'[m].phase \in {"claim", "granted"} => ld'[m].need = Need[m]
  <2>1. CASE m = l
    BY <2>1
  <2>2. CASE m # l
    BY <2>2 DEF MemInv
  <2> QED BY <2>1, <2>2
<1>2. ASSUME ~lost', ~loose', NEW m \in Granted' PROVE Entry(m, "P")' \in ledger'
  <2>1. m \in Loads /\ ld'[m].phase = "granted"
    BY DEF Granted
  <2>2. CASE m = l
    BY <1>2, <2>1, <2>2
  <2>3. CASE m # l
    <3>1. ld'[m] = ld[m] /\ m \in Granted \ {l}
      BY <2>1, <2>3 DEF Granted
    <3>2. Entry(m, "P")' = Entry(m, "P")
      BY <3>1 DEF Entry
    <3>3. Entry(m, "P") \in ledger
      BY <1>2, <3>1 DEF MemInv
    <3> QED BY <1>2, <3>1, <3>2, <3>3
  <2> QED BY <2>2, <2>3
<1> QED BY <1>1, <1>2 DEF MemInv

\* One that takes no memory either.
LEMMA MemQuiet ==
  ASSUME LedgerInv, MemInv, NEW l \in Loads,
         UNCHANGED <<guarded, started>>, \A m \in Loads \ {l} : ld'[m] = ld[m],
         lost => lost', loose => loose',
         IsFiniteSet(ledger'), ld'[l].got = ld[l].got,
         ld'[l].got # 0 => ld'[l].phase \in {"allocated", "loaded"},
         ~loose' => /\ ~ld'[l].second /\ ld'[l].need \in Nat
                    /\ ld'[l].phase \in {"claim", "granted"} => ld'[l].need = Need[l]
                    /\ ld'[l].phase # "granted"
                    /\ \A x \in ledger' : x.bytes \in Nat,
         ~lost' /\ ~loose' =>
           \A m \in Granted \ {l} : Entry(m, "P") \in ledger => Entry(m, "P") \in ledger'
  PROVE  MemInv'
<1>1. ld'[l].got \in Nat /\ DeviceFree' = DeviceFree
  <2>1. ld[l].got \in Nat /\ DeviceFree \in Nat
    BY DEF MemInv
  <2>2. DeviceFree' = DeviceFree + ld[l].got - ld'[l].got
    BY <2>1, FreeMoves
  <2> QED BY <2>1, <2>2
<1>2. ASSUME ~lost', ~loose' PROVE DeviceFree' >= Promised'
  <2>1. Granted' \subseteq Granted \ {l}
    BY <1>2 DEF Granted
  <2>2. \A m \in Granted' : ld'[m].need = ld[m].need
    BY <2>1 DEF Granted
  <2>3. Promised' \in Nat /\ Promised \in Nat /\ Promised' <= Promised
    BY <1>2, <2>1, <2>2, PromisedLess
  <2>4. DeviceFree >= Promised /\ DeviceFree \in Nat
    BY <1>2 DEF MemInv
  <2> QED BY <1>1, <2>3, <2>4
<1>3. DeviceFree' \in Nat
  BY <1>1 DEF MemInv
<1> QED BY <1>1, <1>2, <1>3, MemStep

\* Reaping and another load's edits spare the entry of a load in progress.
LEMMA EntryIsKept ==
  ASSUME LedgerInv, NEW l \in Loads, NEW m \in Loads \ {l}, NEW s,
         ld[m].phase # "idle", Entry(m, s) \in ledger
  PROVE  Entry(m, s) \in Reaped /\ ~Mine(l, Entry(m, s))
<1> DEFINE x == Entry(m, s)
<1>1. /\ x.pid = PidOf[m] /\ x.seq = m /\ x.old = FALSE
      /\ x.procstart = IF guarded THEN started[PidOf[m]] + 1 ELSE 0
  BY DEF Entry
<1>2. alive[PidOf[m]] /\ started[PidOf[m]] \in Nat
  BY PidsOfLoads DEF LedgerInv, LoadInv, WorldType
<1>3. x \in ledger
  OBVIOUS
<1> HIDE DEF x
<1>4. x.procstart # 0 => x.procstart = started[x.pid] + 1
  BY <1>1
<1>5. x \in Reaped /\ ~Mine(l, x)
  BY <1>1, <1>2, <1>3, <1>4 DEF Reaped, Mine
<1> QED BY <1>5 DEF x

\* What is left of the file after reaping.
LEMMA ReapedMem ==
  ASSUME MemInv
  PROVE  /\ IsFiniteSet(ledger)
         /\ \A S : S \subseteq Reaped => IsFiniteSet(S)
         /\ Reaped \subseteq ledger
  BY FS_Subset DEF MemInv, Reaped

LEMMA SeenMem ==
  ASSUME LedgerInv, MemInv, NEW l \in Loads
  PROVE  /\ IsFiniteSet(Seen(l)) /\ Seen(l) \subseteq ledger
         /\ IsFiniteSet(Removed(l)) /\ Removed(l) \subseteq ledger
         /\ \A m \in Granted \ {l} : Entry(m, "P") \in ledger =>
              Entry(m, "P") \in Seen(l) /\ Entry(m, "P") \in Removed(l)
<1>1. Seen(l) \subseteq Reaped /\ Removed(l) \subseteq Reaped
  BY DEF Seen, Removed
<1>2. ASSUME NEW m \in Granted \ {l}, Entry(m, "P") \in ledger
      PROVE  Entry(m, "P") \in Seen(l) /\ Entry(m, "P") \in Removed(l)
  <2>1. m \in Loads \ {l} /\ ld[m].phase # "idle"
    BY DEF Granted
  <2>2. Entry(m, "P") \in Reaped /\ ~Mine(l, Entry(m, "P"))
    BY <1>2, <2>1, EntryIsKept
  <2> QED BY <2>2 DEF Seen, Removed
<1> QED BY <1>1, <1>2, ReapedMem

\* A write that drops the load's own entries, or is lost.
LEMMA RemovedMem ==
  ASSUME LedgerInv, MemInv, NEW l \in Loads, Writes(Removed(l))
  PROVE  /\ lost => lost'
         /\ IsFiniteSet(ledger') /\ ledger' \subseteq ledger
         /\ \A m \in Granted \ {l} : Entry(m, "P") \in ledger => Entry(m, "P") \in ledger'
  BY SeenMem, ReapedMem DEF Writes

\* A claim that got no lease promises nothing.
LEMMA WithoutLeaseMem ==
  ASSUME LedgerInv, MemInv, NEW l \in Loads, ld[l].phase \in {"claim", "granted"},
         NEW r, LoadShape(r), r.got = ld[l].got, r.second = ld[l].second,
         WithoutLease(l, r)
  PROVE  /\ \A m \in Loads \ {l} : ld'[m] = ld[m]
         /\ ld'[l].got = ld[l].got /\ ld[l].got = 0 /\ (loose => loose')
         /\ ~loose' => /\ ~ld'[l].second /\ ld'[l].need \in Nat /\ ld'[l].phase = "idle"
<1>1. r.got = 0 /\ (~loose => ~r.second)
  BY DEF MemInv
<1>2. CASE ld' = [ld EXCEPT ![l] = Idle] /\ UNCHANGED loose
  <2>1. ld'[l] = Idle /\ \A m \in Loads \ {l} : ld'[m] = ld[m]
    BY <1>2, LoadMoves
  <2>2. Idle.got = 0 /\ Idle.second = FALSE /\ Idle.need = 0 /\ Idle.phase = "idle"
    BY DEF Idle
  <2> QED BY <1>1, <1>2, <2>1, <2>2
<1>3. CASE ld' = [ld EXCEPT ![l] = Claiming(l, r.avail, FALSE, TRUE)] /\ loose' = TRUE
  <2> DEFINE c == Claiming(l, r.avail, FALSE, TRUE)
  <2>1. c.got = 0
    BY DEF Claiming, Idle
  <2>2. ld' = [ld EXCEPT ![l] = c]
    BY <1>3
  <2> HIDE DEF c
  <2>3. ld'[l] = c /\ \A m \in Loads \ {l} : ld'[m] = ld[m]
    BY <2>2, LoadMoves
  <2> QED BY <1>1, <1>3, <2>1, <2>3
<1>4. CASE /\ r.second /\ UNCHANGED loose
           /\ ld' = [ld EXCEPT ![l] = [r EXCEPT !.phase = "granted", !.lease = FALSE]]
  <2> DEFINE c == [r EXCEPT !.phase = "granted", !.lease = FALSE]
  <2>1. c.got = r.got
    BY DEF LoadShape
  <2>2. ld' = [ld EXCEPT ![l] = c]
    BY <1>4
  <2> HIDE DEF c
  <2>3. ld'[l] = c /\ \A m \in Loads \ {l} : ld'[m] = ld[m]
    BY <2>2, LoadMoves
  <2> QED BY <1>1, <1>4, <2>1, <2>3
<1> QED BY <1>2, <1>3, <1>4 DEF WithoutLease

LEMMA ImageFinite ==
  ASSUME NEW S, IsFiniteSet(S), NEW f, NEW T, T \subseteq {f[x] : x \in S}
  PROVE  IsFiniteSet(T)
<1> DEFINE I == {f[x] : x \in S}
           g == [x \in S |-> f[x]]
<1>1. g \in Surjection(S, I)
  BY DEF Surjection
<1>2. IsFiniteSet(I)
  BY <1>1, FS_Surjection
<1> QED BY <1>2, FS_Subset

LEMMA MemClaim == ASSUME LedgerInv, MemInv, NEW l \in Loads, Claim(l) PROVE MemInv'
<1> DEFINE r == Claiming(l, Need[l], queues[PidOf[l]], FALSE)
<1>1. /\ ld[l].phase = "idle" /\ ld' = [ld EXCEPT ![l] = r]
      /\ UNCHANGED <<ledger, guarded, started, lost, loose>>
  BY DEF Claim
<1>2. r.phase = "claim" /\ r.second = FALSE /\ r.need = Need[l] /\ r.got = 0
  BY DEF Claiming, Idle
<1> HIDE DEF r
<1>3. ld'[l] = r /\ \A m \in Loads \ {l} : ld'[m] = ld[m]
  BY <1>1, LoadMoves
<1>4. Need[l] \in Nat
  BY RegistryAssumption
<1>5. ld'[l].got = ld[l].got /\ ld'[l].got = 0
  BY <1>1, <1>2, <1>3 DEF MemInv
<1>6. IsFiniteSet(ledger') /\ (~loose' => \A x \in ledger' : x.bytes \in Nat)
  BY <1>1 DEF MemInv
<1> QED BY <1>1, <1>2, <1>3, <1>4, <1>5, <1>6, MemQuiet

\* An admitted load's need fits beside every claim that the poll saw.
LEMMA AvailableFits ==
  ASSUME MemInv, NEW S, IsFiniteSet(Pending(S)), \A x \in Pending(S) : x.bytes \in Nat,
         NEW n \in Nat, n <= Available(S)
  PROVE  /\ Bytes(Pending(S)) \in Nat
         /\ n = 0 \/ n + Bytes(Pending(S)) <= DeviceFree
<1>1. Bytes(Pending(S)) \in Nat
  <2> DEFINE f == [x \in Pending(S) |-> x.bytes]
  <2>1. \A x \in Pending(S) : f[x] \in Nat
    OBVIOUS
  <2>2. Bytes(Pending(S)) = Sum(f, Pending(S))
    BY BytesIsSum
  <2> HIDE DEF f
  <2> QED BY <2>1, <2>2, SumNat
<1>2. DeviceFree \in Nat
  BY DEF MemInv
<1>3. \A a \in Int : Max({0, a}) = IF a >= 0 THEN a ELSE 0
  <2> SUFFICES ASSUME NEW a \in Int PROVE Max({0, a}) = IF a >= 0 THEN a ELSE 0
    OBVIOUS
  <2> DEFINE m == IF a >= 0 THEN a ELSE 0
  <2>1. m \in {0, a} /\ \A y \in {0, a} : m >= y
    OBVIOUS
  <2>2. \A x \in {0, a} : (\A y \in {0, a} : x >= y) => x = m
    OBVIOUS
  <2> HIDE DEF m
  <2>3. Max({0, a}) = m
    BY <2>1, <2>2 DEF Max
  <2> QED BY <2>3 DEF m
<1>4. Available(S) = IF DeviceFree - Bytes(Pending(S)) >= 0
                       THEN DeviceFree - Bytes(Pending(S)) ELSE 0
  BY <1>1, <1>2, <1>3 DEF Available
<1> QED BY <1>1, <1>2, <1>4

\* What was promised before is in the file, and so in what the poll counted.
LEMMA PromisedIsPending ==
  ASSUME LedgerInv, MemInv, ~lost, ~loose, NEW l \in Loads, l \notin Granted
  PROVE  /\ IsFiniteSet(Pending(Seen(l))) /\ \A x \in Pending(Seen(l)) : x.bytes \in Nat
         /\ Promised <= Bytes(Pending(Seen(l)))
<1> DEFINE P == Pending(Seen(l))
           f == [m \in Loads |-> ld[m].need]
           h == [x \in P |-> x.bytes]
           e == [m \in Granted |-> Entry(m, "P")]
<1>1. IsFiniteSet(P) /\ \A x \in P : x.bytes \in Nat
  <2>1. P \subseteq Seen(l) /\ Seen(l) \subseteq ledger /\ IsFiniteSet(Seen(l))
    BY SeenMem DEF Pending
  <2> QED BY <2>1, FS_Subset DEF MemInv
<1>2. \A m \in Granted : Entry(m, "P") \in P
  <2> SUFFICES ASSUME NEW m \in Granted PROVE Entry(m, "P") \in P
    OBVIOUS
  <2>1. Entry(m, "P") \in Seen(l)
    BY SeenMem DEF MemInv
  <2>2. Entry(m, "P").state = "P"
    BY DEF Entry
  <2> QED BY <2>1, <2>2 DEF Pending
<1>3. \A m \in Granted : Entry(m, "P").bytes = ld[m].need /\ Entry(m, "P").seq = m
  BY DEF Entry
<1>4. e \in [Granted -> P] /\ \A m \in Granted : e[m] = Entry(m, "P")
  BY <1>2
<1>5. IsFiniteSet(Granted) /\ Granted \subseteq Loads
  BY GrantedFinite
<1>6. \A m \in Granted : f[m] \in Nat /\ f[m] = ld[m].need
  BY <1>5 DEF MemInv
<1>7. \A x \in P : h[x] = x.bytes
  OBVIOUS
<1>8. \A m \in Granted : f[m] \in Int /\ f[m] <= h[e[m]]
  BY <1>2, <1>3, <1>4, <1>6, <1>7
<1>9. \A m, k \in Granted : e[m] = e[k] => m = k
  BY <1>3, <1>4
<1>10. Promised = Sum(f, Granted) /\ Bytes(P) = Sum(h, P)
  BY <1>1, PromisedIsSum, BytesIsSum
<1>11. \A x \in P : h[x] \in Nat
  BY <1>1, <1>7
<1> HIDE DEF P, f, h, e
<1>12. Sum(f, Granted) <= Sum(h, P)
  BY <1>1, <1>4, <1>5, <1>8, <1>9, <1>11, SumInto
<1> QED BY <1>1, <1>10, <1>12 DEF P

LEMMA MemAdmits == ASSUME LedgerInv, MemInv, NEW l \in Loads, PollAdmits(l) PROVE MemInv'
<1> DEFINE r == [Looked(l) EXCEPT !.phase = "granted", !.lease = TRUE, !.marked = FALSE]
           A == IF HasRoom(l) THEN {Entry(l, "P")} ELSE {}
<1>1. /\ ld[l].phase = "claim" /\ ledger' = Seen(l) \cup A /\ ld' = [ld EXCEPT ![l] = r]
      /\ loose' = (loose \/ ~HasRoom(l)) /\ lost' = lost
      /\ UNCHANGED <<guarded, started>> /\ ld[l].need <= Available(Seen(l))
  BY DEF PollAdmits, osVars, Admitted
<1>2. LoadShape(ld[l])
  BY DEF LedgerInv, LoadInv
<1>3. /\ r.phase = "granted" /\ r.second = ld[l].second /\ r.need = ld[l].need
      /\ r.got = ld[l].got
  BY <1>2 DEF Looked, LoadShape
<1> HIDE DEF r
<1>4. ld'[l] = r /\ \A m \in Loads \ {l} : ld'[m] = ld[m]
  BY <1>1, LoadMoves
<1>5. ld[l].got = 0 /\ DeviceFree \in Nat
  BY <1>1 DEF MemInv
<1>6. DeviceFree' = DeviceFree
  BY <1>3, <1>4, <1>5, FreeMoves
<1>7. IsFiniteSet(ledger')
  <2>1. IsFiniteSet(A)
    BY FS_EmptySet, FS_Singleton
  <2> QED BY <1>1, <2>1, SeenMem, FS_Union
<1>8. ASSUME ~loose'
      PROVE  /\ HasRoom(l) /\ ~loose /\ ~ld[l].second /\ ld[l].need \in Nat /\ ld[l].need = Need[l]
             /\ \A x \in ledger' : x.bytes \in Nat
  <2>1. HasRoom(l) /\ ~loose /\ ~ld[l].second /\ ld[l].need \in Nat /\ ld[l].need = Need[l]
    BY <1>1, <1>8 DEF MemInv
  <2>2. Entry(l, "P").bytes = ld[l].need
    BY DEF Entry
  <2>3. \A x \in Seen(l) : x.bytes \in Nat
    BY <2>1, SeenMem DEF MemInv
  <2> QED BY <1>1, <2>1, <2>2, <2>3
<1>9. ASSUME ~lost', ~loose'
      PROVE  /\ \A m \in Granted \ {l} : Entry(m, "P") \in ledger => Entry(m, "P") \in ledger'
             /\ Entry(l, "P")' \in ledger'
             /\ DeviceFree' >= Promised'
  <2>1. Entry(l, "P")' = Entry(l, "P")
    BY <1>1, <1>3, <1>4 DEF Entry
  <2>2. l \notin Granted /\ Granted' = Granted \cup {l}
    BY <1>1, <1>3, <1>4 DEF Granted
  <2>3. \A m \in Granted : ld'[m].need = ld[m].need
    BY <1>4, <2>2 DEF Granted
  <2>4. Promised \in Nat /\ Promised' = ld[l].need + Promised
    BY <1>3, <1>4, <1>8, <1>9, <2>2, <2>3, PromisedMore
  <2>5. /\ IsFiniteSet(Pending(Seen(l))) /\ \A x \in Pending(Seen(l)) : x.bytes \in Nat
        /\ Promised <= Bytes(Pending(Seen(l)))
    BY <1>1, <1>8, <1>9, <2>2, PromisedIsPending
  <2>6. /\ Bytes(Pending(Seen(l))) \in Nat
        /\ ld[l].need = 0 \/ ld[l].need + Bytes(Pending(Seen(l))) <= DeviceFree
    BY <1>1, <1>8, <1>9, <2>5, AvailableFits
  <2>7. DeviceFree >= Promised /\ ld[l].need \in Nat
    BY <1>1, <1>8, <1>9 DEF MemInv
  <2>8. DeviceFree' >= Promised'
    BY <1>5, <1>6, <2>4, <2>5, <2>6, <2>7
  <2>9. \A m \in Granted \ {l} : Entry(m, "P") \in ledger => Entry(m, "P") \in ledger'
    BY <1>1, SeenMem
  <2>10. Entry(l, "P") \in ledger'
    BY <1>1, <1>8, <1>9
  <2> QED BY <2>1, <2>8, <2>9, <2>10
<1> HIDE DEF A
<1>10. DeviceFree' \in Nat /\ ld'[l].got \in Nat /\ ld'[l].got = 0
  BY <1>3, <1>4, <1>5, <1>6
<1> QED BY <1>1, <1>3, <1>4, <1>7, <1>8, <1>9, <1>10, MemStep

LEMMA MemUnaccounted ==
  ASSUME LedgerInv, MemInv, NEW l \in Loads, PollUnaccounted(l) PROVE MemInv'
<1> DEFINE r == [ld[l] EXCEPT !.phase = "granted", !.lease = TRUE, !.marked = FALSE]
<1>1. /\ ld[l].phase = "claim" /\ ld' = [ld EXCEPT ![l] = r] /\ lost' /\ loose'
      /\ UNCHANGED <<ledger, guarded, started>>
  BY DEF PollUnaccounted, osVars, LedgerInv, WorldType
<1>2. r.got = ld[l].got
  BY DEF LedgerInv, LoadInv, LoadShape
<1> HIDE DEF r
<1>3. ld'[l] = r /\ \A m \in Loads \ {l} : ld'[m] = ld[m]
  BY <1>1, LoadMoves
<1>4. ld'[l].got = ld[l].got /\ ld'[l].got = 0
  BY <1>1, <1>2, <1>3 DEF MemInv
<1>5. IsFiniteSet(ledger')
  BY <1>1 DEF MemInv
<1> QED BY <1>1, <1>3, <1>4, <1>5, MemQuiet

LEMMA MemWaits == ASSUME LedgerInv, MemInv, NEW l \in Loads, PollWaits(l) PROVE MemInv'
<1> DEFINE r == [Looked(l) EXCEPT !.marked = TRUE]
           A == IF HasRoom(l) THEN Marker(l) ELSE {}
<1>1. /\ ld[l].phase = "claim" /\ ledger' = Seen(l) \cup A /\ ld' = [ld EXCEPT ![l] = r]
      /\ loose' = (loose \/ ~HasRoom(l)) /\ lost' = lost /\ UNCHANGED <<guarded, started>>
  BY DEF PollWaits, osVars
<1>2. LoadShape(ld[l])
  BY DEF LedgerInv, LoadInv
<1>3. /\ r.phase = "claim" /\ r.second = ld[l].second /\ r.need = ld[l].need
      /\ r.got = ld[l].got
  BY <1>1, <1>2 DEF Looked, LoadShape
<1> HIDE DEF r
<1>4. ld'[l] = r /\ \A m \in Loads \ {l} : ld'[m] = ld[m]
  BY <1>1, LoadMoves
<1>5. ld[l].got = 0
  BY <1>1 DEF MemInv
<1>6. IsFiniteSet(ledger')
  <2>1. IsFiniteSet(A)
    BY FS_EmptySet, FS_Singleton DEF Marker
  <2> QED BY <1>1, <2>1, SeenMem, FS_Union
<1>7. ASSUME ~loose'
      PROVE  /\ ~ld[l].second /\ ld[l].need \in Nat /\ ld[l].need = Need[l]
             /\ \A x \in ledger' : x.bytes \in Nat
  <2>1. ~loose /\ ~ld[l].second /\ ld[l].need \in Nat /\ ld[l].need = Need[l]
    BY <1>1, <1>7 DEF MemInv
  <2>2. Entry(l, "W").bytes = ld[l].need
    BY DEF Entry
  <2>3. \A x \in Seen(l) : x.bytes \in Nat
    BY <2>1, SeenMem DEF MemInv
  <2>4. \A x \in A : x = Entry(l, "W")
    BY DEF Marker
  <2> HIDE DEF A
  <2> QED BY <1>1, <2>1, <2>2, <2>3, <2>4
<1> HIDE DEF A
<1>8. \A m \in Granted \ {l} : Entry(m, "P") \in ledger => Entry(m, "P") \in ledger'
  BY <1>1, SeenMem
<1> QED BY <1>1, <1>3, <1>4, <1>5, <1>6, <1>7, <1>8, MemQuiet

LEMMA MemRefuses == ASSUME LedgerInv, MemInv, NEW l \in Loads, PollRefuses(l) PROVE MemInv'
<1> DEFINE r == Looked(l)
<1>1. /\ ld[l].phase \in {"claim", "granted"} /\ ledger' = Seen(l) /\ WithoutLease(l, r)
      /\ UNCHANGED <<guarded, started, lost>>
  BY DEF PollRefuses, osVars
<1>2. LoadShape(r) /\ r.second = ld[l].second /\ r.got = ld[l].got
  BY LookedFields DEF Looked, LedgerInv, LoadInv, LoadShape
<1> HIDE DEF r
<1>3. /\ \A m \in Loads \ {l} : ld'[m] = ld[m]
      /\ ld'[l].got = ld[l].got /\ ld[l].got = 0 /\ (loose => loose')
      /\ ~loose' => /\ ~ld'[l].second /\ ld'[l].need \in Nat /\ ld'[l].phase = "idle"
  BY <1>1, <1>2, WithoutLeaseMem
<1>4. IsFiniteSet(ledger') /\ ledger' \subseteq ledger
  BY <1>1, SeenMem
<1>5. ~loose' => \A x \in ledger' : x.bytes \in Nat
  BY <1>3, <1>4 DEF MemInv
<1>6. \A m \in Granted \ {l} : Entry(m, "P") \in ledger => Entry(m, "P") \in ledger'
  BY <1>1, SeenMem
<1> QED BY <1>1, <1>3, <1>4, <1>5, <1>6, MemQuiet

LEMMA MemGivesUp ==
  ASSUME LedgerInv, MemInv, NEW l \in Loads, GiveUp(l) \/ LeaseFails(l) PROVE MemInv'
<1>1. /\ ld[l].phase \in {"claim", "granted"} /\ Writes(Removed(l))
      /\ WithoutLease(l, ld[l]) /\ UNCHANGED <<guarded, started>>
  BY DEF GiveUp, LeaseFails, RolledBack, osVars
<1>2. LoadShape(ld[l])
  BY DEF LedgerInv, LoadInv
<1>3. /\ \A m \in Loads \ {l} : ld'[m] = ld[m]
      /\ ld'[l].got = ld[l].got /\ ld[l].got = 0 /\ (loose => loose')
      /\ ~loose' => /\ ~ld'[l].second /\ ld'[l].need \in Nat /\ ld'[l].phase = "idle"
  BY <1>1, <1>2, WithoutLeaseMem
<1>4. /\ IsFiniteSet(ledger') /\ ledger' \subseteq ledger /\ (lost => lost')
      /\ \A m \in Granted \ {l} : Entry(m, "P") \in ledger => Entry(m, "P") \in ledger'
  BY <1>1, RemovedMem
<1>5. ~loose' => \A x \in ledger' : x.bytes \in Nat
  BY <1>3, <1>4 DEF MemInv
<1> QED BY <1>1, <1>3, <1>4, <1>5, MemQuiet

\* A load takes no more than it was promised.
LEMMA MemAllocate == ASSUME LedgerInv, MemInv, NEW l \in Loads, Allocate(l) PROVE MemInv'
<1> DEFINE r == [Idle EXCEPT !.phase = "allocated", !.lease = ld[l].lease,
                             !.got = Min({Need[l], DeviceFree})]
           n == Min({Need[l], DeviceFree})
<1>1. /\ ld[l].phase = "granted" /\ ld' = [ld EXCEPT ![l] = r]
      /\ UNCHANGED <<ledger, guarded, started, lost, loose>>
  BY DEF Allocate, osVars
<1>2. r.phase = "allocated" /\ r.second = FALSE /\ r.need = 0 /\ r.got = n
  BY DEF Idle
<1> HIDE DEF r
<1>3. ld'[l] = r /\ \A m \in Loads \ {l} : ld'[m] = ld[m]
  BY <1>1, LoadMoves
<1>4. DeviceFree \in Nat /\ Need[l] \in Nat /\ ld[l].got = 0
  BY <1>1, RegistryAssumption DEF MemInv
<1>5. n \in Nat /\ n <= Need[l] /\ n <= DeviceFree
  <2>1. \E x \in {Need[l], DeviceFree} : \A y \in {Need[l], DeviceFree} : x =< y
    BY <1>4
  <2>2. n \in {Need[l], DeviceFree} /\ \A y \in {Need[l], DeviceFree} : n =< y
    BY <2>1 DEF Min
  <2> HIDE DEF n
  <2> QED BY <1>4, <2>2
<1> HIDE DEF n
<1>6. ld'[l].got = n
  BY <1>2, <1>3
<1>7. DeviceFree' = DeviceFree - n /\ DeviceFree' \in Nat
  <2>1. DeviceFree' = DeviceFree + ld[l].got - ld'[l].got
    BY <1>3, <1>5, <1>6, FreeMoves
  <2> QED BY <1>4, <1>5, <1>6, <2>1
<1>8. ASSUME ~lost', ~loose' PROVE DeviceFree' >= Promised'
  <2>1. l \in Granted /\ Granted' = Granted \ {l}
    BY <1>1, <1>2, <1>3 DEF Granted
  <2>2. \A m \in Granted' : ld'[m].need = ld[m].need
    BY <1>3, <2>1 DEF Granted
  <2>3. Promised' \in Nat /\ Promised = ld[l].need + Promised'
    BY <1>1, <1>8, <2>1, <2>2, PromisedOff
  <2>4. DeviceFree >= Promised /\ ld[l].need = Need[l]
    BY <1>1, <1>8 DEF MemInv
  <2> QED BY <1>4, <1>5, <1>7, <2>3, <2>4
<1>9. IsFiniteSet(ledger') /\ (~loose' => \A x \in ledger' : x.bytes \in Nat)
  BY <1>1 DEF MemInv
<1> QED BY <1>1, <1>2, <1>3, <1>5, <1>6, <1>7, <1>8, <1>9, MemStep

LEMMA MemCommit == ASSUME LedgerInv, MemInv, NEW l \in Loads, Commit(l) PROVE MemInv'
<1> DEFINE r == [ld[l] EXCEPT !.phase = "loaded"]
<1>1. /\ ld[l].phase = "allocated" /\ ld' = [ld EXCEPT ![l] = r]
      /\ UNCHANGED <<guarded, started, loose>>
  BY DEF Commit, osVars, LedgerInv, WorldType
<1>2. /\ r.phase = "loaded" /\ r.second = ld[l].second /\ r.need = ld[l].need
      /\ r.got = ld[l].got
  BY DEF LedgerInv, LoadInv, LoadShape
<1> HIDE DEF r
<1>3. ld'[l] = r /\ \A m \in Loads \ {l} : ld'[m] = ld[m]
  BY <1>1, LoadMoves
<1> DEFINE New(x) == IF Mine(l, x) THEN [x EXCEPT !.state = "C", !.bytes = ld[l].got] ELSE x
           f == [x \in ledger |-> New(x)]
<1>4. Reaped \subseteq ledger /\ IsFiniteSet(ledger)
  BY ReapedMem
<1>5. IsFiniteSet(Committed(l))
  <2>1. Committed(l) \subseteq {f[x] : x \in ledger}
    BY <1>4 DEF Committed
  <2> HIDE DEF f
  <2> QED BY <1>4, <2>1, ImageFinite
<1>6. ~loose => \A x \in Committed(l) : x.bytes \in Nat
  <2> SUFFICES ASSUME ~loose, NEW y \in Reaped PROVE New(y).bytes \in Nat
    BY DEF Committed
  <2>1. y.bytes \in Nat /\ ld[l].got \in Nat /\ EntryShape(y)
    BY <1>4 DEF MemInv, LedgerInv, EntryInv
  <2> QED BY <2>1 DEF EntryShape
<1>7. /\ lost => lost'
      /\ ledger' = Committed(l) \/ ledger' = ledger
      /\ ledger' = Committed(l) \/ lost' \/ ledger' = ledger
  BY DEF Commit, Writes
<1>8. ASSUME NEW m \in Granted \ {l}, Entry(m, "P") \in ledger
      PROVE  Entry(m, "P") \in ledger'
  <2>1. m \in Loads \ {l} /\ ld[m].phase # "idle"
    BY DEF Granted
  <2>2. Entry(m, "P") \in Reaped /\ ~Mine(l, Entry(m, "P"))
    BY <1>8, <2>1, EntryIsKept
  <2>3. Entry(m, "P") \in Committed(l)
    BY <2>2 DEF Committed
  <2> QED BY <1>7, <1>8, <2>3
<1> HIDE DEF f
<1>9. IsFiniteSet(ledger')
  BY <1>4, <1>5, <1>7
<1>10. ~loose' => /\ ~ld'[l].second /\ ld'[l].need \in Nat
                  /\ \A x \in ledger' : x.bytes \in Nat
  BY <1>1, <1>2, <1>3, <1>6, <1>7 DEF MemInv
<1> QED BY <1>1, <1>2, <1>3, <1>7, <1>8, <1>9, <1>10, MemQuiet

LEMMA MemFree == ASSUME LedgerInv, MemInv, NEW l \in Loads, Free(l) PROVE MemInv'
<1> DEFINE r == [ld[l] EXCEPT !.phase = "freed", !.got = 0]
<1>1. /\ ld[l].phase = "loaded" /\ ld' = [ld EXCEPT ![l] = r]
      /\ UNCHANGED <<ledger, guarded, started, lost, loose>>
  BY DEF Free, osVars, LedgerInv, WorldType
<1>2. r.phase = "freed" /\ r.second = ld[l].second /\ r.need = ld[l].need /\ r.got = 0
  BY DEF LedgerInv, LoadInv, LoadShape
<1> HIDE DEF r
<1>3. ld'[l] = r /\ \A m \in Loads \ {l} : ld'[m] = ld[m]
  BY <1>1, LoadMoves
<1>4. DeviceFree' \in Nat /\ DeviceFree' >= DeviceFree /\ DeviceFree \in Nat
  <2>1. ld'[l].got = 0 /\ ld[l].got \in Nat /\ DeviceFree \in Nat
    BY <1>2, <1>3 DEF MemInv
  <2>2. DeviceFree' = DeviceFree + ld[l].got - ld'[l].got
    BY <1>3, <2>1, FreeMoves
  <2> QED BY <2>1, <2>2
<1>5. ASSUME ~lost', ~loose' PROVE DeviceFree' >= Promised'
  <2>1. Granted' \subseteq Granted /\ \A m \in Granted' : ld'[m].need = ld[m].need
    BY <1>1, <1>2, <1>3 DEF Granted
  <2>2. Promised' \in Nat /\ Promised \in Nat /\ Promised' <= Promised
    BY <1>1, <1>5, <2>1, PromisedLess
  <2>3. DeviceFree >= Promised
    BY <1>1, <1>5 DEF MemInv
  <2> QED BY <1>4, <2>2, <2>3
<1>6. /\ IsFiniteSet(ledger')
      /\ ~loose' => /\ ~ld'[l].second /\ ld'[l].need \in Nat
                    /\ \A x \in ledger' : x.bytes \in Nat
  BY <1>1, <1>2, <1>3 DEF MemInv
<1> QED BY <1>1, <1>2, <1>3, <1>4, <1>5, <1>6, MemStep

LEMMA MemRelease == ASSUME LedgerInv, MemInv, NEW l \in Loads, Release(l) PROVE MemInv'
<1>1. /\ ld[l].phase = "freed" /\ ld' = [ld EXCEPT ![l] = Idle]
      /\ UNCHANGED <<guarded, started, loose>>
      /\ Writes(Removed(l)) \/ UNCHANGED <<ledger, lost>>
  BY DEF Release, osVars
<1>2. Idle.phase = "idle" /\ Idle.second = FALSE /\ Idle.need = 0 /\ Idle.got = 0
  BY DEF Idle
<1>3. ld'[l] = Idle /\ \A m \in Loads \ {l} : ld'[m] = ld[m]
  BY <1>1, LoadMoves
<1>4. ld[l].got = 0
  BY <1>1 DEF MemInv
<1>5. /\ IsFiniteSet(ledger') /\ ledger' \subseteq ledger /\ (lost => lost')
      /\ \A m \in Granted \ {l} : Entry(m, "P") \in ledger => Entry(m, "P") \in ledger'
  BY <1>1, RemovedMem, ReapedMem
<1>6. ~loose' => \A x \in ledger' : x.bytes \in Nat
  BY <1>1, <1>5 DEF MemInv
<1> QED BY <1>1, <1>2, <1>3, <1>4, <1>5, <1>6, MemQuiet

LEMMA MemDies == ASSUME LedgerInv, MemInv, NEW p \in Pids, Dies(p) PROVE MemInv'
<1>1. /\ ld' = [l \in Loads |-> IF PidOf[l] = p THEN Idle ELSE ld[l]]
      /\ UNCHANGED <<guarded, started, loose>>
      /\ (ledger' = ledger /\ lost' = lost) \/ (ledger' = {} /\ lost' = TRUE)
  BY DEF Dies
<1>2. Idle.phase = "idle" /\ Idle.second = FALSE /\ Idle.need = 0 /\ Idle.got = 0
  BY DEF Idle
<1>3. \A l \in Loads : ld'[l] = Idle \/ ld'[l] = ld[l]
  BY <1>1
<1>4. DeviceFree' \in Nat /\ DeviceFree \in Nat /\ DeviceFree' >= DeviceFree
  <2> DEFINE f == [l \in Loads |-> ld'[l].got]
             h == [l \in Loads |-> ld[l].got]
             e == [l \in Loads |-> l]
  <2>1. IsFiniteSet(Loads) /\ Total \in Nat
    BY RegistryAssumption
  <2>2. \A l \in Loads : f[l] \in Nat /\ f[l] <= h[l] /\ h[l] \in Nat
    BY <1>2, <1>3 DEF MemInv
  <2>3. DeviceFree = Total - Sum(h, Loads) /\ DeviceFree' = Total - Sum(f, Loads)
    BY TakenIsSum, SumsNext
  <2>4. e \in [Loads -> Loads] /\ \A l \in Loads : e[l] = l
    OBVIOUS
  <2> HIDE DEF f, h, e
  <2>5. \A l \in Loads : f[l] \in Int /\ f[l] <= h[e[l]]
    BY <2>2, <2>4
  <2>6. Sum(f, Loads) <= Sum(h, Loads)
    BY <2>1, <2>2, <2>4, <2>5, SumInto
  <2>7. Sum(f, Loads) \in Nat /\ Sum(h, Loads) \in Nat /\ DeviceFree \in Nat
    BY <2>1, <2>2, SumNat DEF MemInv
  <2> QED BY <2>1, <2>3, <2>6, <2>7
<1>5. ASSUME ~lost', ~loose'
      PROVE  /\ \A m \in Granted' : Entry(m, "P")' \in ledger'
             /\ DeviceFree' >= Promised'
  <2>1. Granted' \subseteq Granted /\ \A m \in Granted' : ld'[m] = ld[m]
    BY <1>2, <1>3 DEF Granted
  <2>2. \A m \in Granted' : Entry(m, "P")' = Entry(m, "P")
    BY <1>1, <2>1 DEF Entry
  <2>3. Promised' \in Nat /\ Promised \in Nat /\ Promised' <= Promised
    BY <1>1, <1>5, <2>1, PromisedLess
  <2>4. DeviceFree >= Promised /\ \A m \in Granted : Entry(m, "P") \in ledger
    BY <1>1, <1>5 DEF MemInv
  <2> QED BY <1>1, <1>4, <1>5, <2>1, <2>2, <2>3, <2>4
<1>6. IsFiniteSet(ledger') /\ (~loose' => \A x \in ledger' : x.bytes \in Nat)
  BY <1>1, FS_EmptySet DEF MemInv
<1>7. ASSUME NEW l \in Loads
      PROVE  /\ ld'[l].got \in Nat
             /\ ld'[l].got # 0 => ld'[l].phase \in {"allocated", "loaded"}
             /\ ~loose' => /\ ~ld'[l].second /\ ld'[l].need \in Nat
                           /\ ld'[l].phase \in {"claim", "granted"} => ld'[l].need = Need[l]
  BY <1>1, <1>2, <1>3 DEF MemInv
<1> QED BY <1>4, <1>5, <1>6, <1>7 DEF MemInv

LEMMA MemReused == ASSUME LedgerInv, MemInv, NEW p \in Pids, PidReused(p) PROVE MemInv'
<1>1. /\ ~alive[p] /\ started' = [started EXCEPT ![p] = started[p] + 1]
      /\ UNCHANGED <<ledger, guarded, ld, lost, loose>>
  BY DEF PidReused, LedgerInv, WorldType
<1>2. \A m \in Granted : Entry(m, "P")' = Entry(m, "P")
  <2> SUFFICES ASSUME NEW m \in Granted PROVE Entry(m, "P")' = Entry(m, "P")
    OBVIOUS
  <2>1. alive[PidOf[m]] /\ PidOf[m] \in Pids
    BY PidsOfLoads DEF Granted, LedgerInv, LoadInv
  <2>2. started'[PidOf[m]] = started[PidOf[m]] /\ guarded' = guarded /\ ld' = ld
    BY <1>1, <2>1 DEF LedgerInv, WorldType
  <2> QED BY <2>2 DEF Entry
<1>3. Granted' = Granted
  BY <1>1 DEF Granted
<1>4. DeviceFree' = DeviceFree /\ Promised' = Promised
  BY <1>1, <1>3, TakenIsSum, PromisedIsSum, SumsNext
<1> QED BY <1>1, <1>2, <1>3, <1>4 DEF MemInv

LEMMA MemAges == ASSUME LedgerInv, MemInv, HourPasses PROVE MemInv'
<1>1. /\ ledger' = (ledger \ Ageing) \cup {[x EXCEPT !.old = TRUE] : x \in Ageing}
      /\ \A l \in Loads : ld[l].phase \notin {"granted", "allocated"}
      /\ UNCHANGED <<guarded, started, ld, lost, loose>>
  BY DEF HourPasses, osVars
<1>2. Granted = {} /\ Granted' = {}
  BY <1>1 DEF Granted
<1> DEFINE f == [x \in ledger |-> [x EXCEPT !.old = TRUE]]
<1>3. Ageing \subseteq ledger
  BY DEF Ageing
<1>4. IsFiniteSet(ledger')
  <2>1. {[x EXCEPT !.old = TRUE] : x \in Ageing} \subseteq {f[x] : x \in ledger}
    BY <1>3
  <2>2. IsFiniteSet({[x EXCEPT !.old = TRUE] : x \in Ageing})
    <3> HIDE DEF f
    <3> QED BY <2>1, ReapedMem, ImageFinite
  <2>3. IsFiniteSet(ledger \ Ageing)
    BY FS_Difference DEF MemInv
  <2> QED BY <1>1, <2>2, <2>3, FS_Union
<1>5. ~loose => \A x \in ledger' : x.bytes \in Nat
  <2>1. ASSUME NEW y \in ledger PROVE [y EXCEPT !.old = TRUE].bytes = y.bytes
    <3>1. EntryShape(y)
      BY DEF LedgerInv, EntryInv
    <3>2. "bytes" \in DOMAIN y
      BY <3>1 DEF EntryShape
    <3> QED BY <3>2
  <2>2. ASSUME NEW x \in ledger' PROVE \E y \in ledger : x.bytes = y.bytes
    <3>1. CASE x \in ledger
      BY <3>1
    <3>2. CASE x \in {[y EXCEPT !.old = TRUE] : y \in Ageing}
      <4>1. PICK y \in Ageing : x = [y EXCEPT !.old = TRUE]
        BY <3>2
      <4> QED BY <1>3, <2>1, <4>1
    <3> QED BY <1>1, <3>1, <3>2
  <2> QED BY <2>2 DEF MemInv
<1>6. DeviceFree' = DeviceFree /\ Promised' = Promised
  BY <1>1, <1>2, TakenIsSum, PromisedIsSum, SumsNext
<1> QED BY <1>1, <1>2, <1>4, <1>5, <1>6 DEF MemInv

LEMMA InitMem == Init => MemInv
<1> SUFFICES ASSUME Init PROVE MemInv
  OBVIOUS
<1>1. \A l \in Loads : /\ ld[l].phase = "idle" /\ ld[l].got = 0 /\ ld[l].need = 0
                       /\ ld[l].second = FALSE
  BY DEF Init, Idle
<1>2. Granted = {} /\ ledger = {}
  BY <1>1 DEF Granted, Init
<1>3. DeviceFree = Total /\ Total \in Nat
  <2> DEFINE f == [l \in Loads |-> ld[l].got]
             S == {l \in Loads : FALSE}
             e == [l \in Loads |-> l]
             z == [l \in Loads |-> 0]
  <2>1. \A l \in Loads : f[l] = 0
    BY <1>1
  <2>2. Sum(f, Loads) = 0
    <3> DEFINE T == {s \in SUBSET Loads : Sum(f, s) # 0}
    <3> SUFFICES ASSUME T # {} PROVE FALSE
      OBVIOUS
    <3> HIDE DEF f
    <3>1. PICK s \in T : \A t \in SUBSET s : t # s => t \notin T
      <4> HIDE DEF T
      <4>1. T \in SUBSET SUBSET Loads
        BY DEF T
      <4> QED BY <4>1, Smallest, RegistryAssumption
    <3>2. IsFiniteSet(s) /\ \A x \in s : f[x] \in Int
      BY <2>1, FS_Subset, RegistryAssumption
    <3>3. s # {}
      BY <3>2, SumIn
    <3>4. PICK x \in s : TRUE
      BY <3>3
    <3>5. Sum(f, s) = f[x] + Sum(f, s \ {x}) /\ f[x] = 0
      BY <2>1, <3>2, <3>4, SumIn
    <3>6. Sum(f, s \ {x}) = 0
      BY <3>1, <3>4
    <3> QED BY <3>5, <3>6
  <2>3. DeviceFree = Total - Sum(f, Loads)
    BY TakenIsSum
  <2> HIDE DEF f
  <2> QED BY <2>2, <2>3, RegistryAssumption
<1>4. Promised = 0
  <2>1. Promised = Sum([l \in Loads |-> ld[l].need], {})
    BY <1>2, PromisedIsSum
  <2> QED BY <2>1, SumIn, FS_EmptySet
<1> QED BY <1>1, <1>2, <1>3, <1>4, FS_EmptySet DEF MemInv

LEMMA NextMem == LedgerInv /\ MemInv /\ [Next]_vars => MemInv'
<1> SUFFICES ASSUME LedgerInv, MemInv, [Next]_vars PROVE MemInv'
  OBVIOUS
<1>1. CASE UNCHANGED vars
  <2>1. DeviceFree' = DeviceFree /\ Promised' = Promised /\ Granted' = Granted
    BY <1>1, TakenIsSum, PromisedIsSum, SumsNext DEF vars, osVars, Granted
  <2> QED BY <1>1, <2>1 DEF vars, osVars, MemInv, Entry
<1>2. CASE Rest
  BY <1>1, <1>2 DEF Rest
<1>3. CASE HourPasses
  BY <1>3, MemAges
<1>4. CASE \E p \in Pids : Dies(p) \/ PidReused(p)
  BY <1>4, MemDies, MemReused
<1>5. CASE \E l \in Loads : Claim(l) \/ Proceeds(l) \/ GiveUp(l) \/ LeaseFails(l)
  BY <1>5, MemClaim, MemAdmits, MemWaits, MemRefuses, MemUnaccounted,
     MemAllocate, MemCommit, MemFree, MemRelease, MemGivesUp DEF Proceeds
<1> QED BY <1>1, <1>2, <1>3, <1>4, <1>5 DEF Next

\* As long as every load is in the file, what is promised and what is taken fit the
\* device together, whatever dies, wakes or allocates between two claims (claim_rmw,
\* vram_commit, model_free).
THEOREM PromisesFit == Spec => []AdmittedFits
<1>1. MemInv => AdmittedFits
  BY DEF MemInv, AdmittedFits
<1> QED BY <1>1, LedgerInvariant, InitMem, NextMem, PTL DEF Spec
====
