------------------------ MODULE SequenceCacheProofs ------------------------
(***************************************************************************)
(* Theorems about SequenceCache for any slots, tokens, prompts, contexts    *)
(* and budgets: what the rows, the fold and the draft of a slot and the      *)
(* entries of the store stand for, and that the store keeps to its bounds.  *)
(***************************************************************************)
EXTENDS SequenceCache, Integers, SequenceTheorems, FiniteSetTheorems, WellFoundedInduction, TLAPS

-----------------------------------------------------------------------------
(* Sums over finite sets, as MapThenSumSet of FiniteSetsExt defines them:     *)
(* that they exist, that any element can be taken out first, and that one is  *)
(* at most another whose terms dominate its own.  Nothing here is by          *)
(* induction over an operator: each statement about all subsets of a finite   *)
(* set is shown from a smallest counterexample.                               *)

\* The element that MapThenFoldSet takes next.
Next1(s) == CHOOSE x \in s : TRUE

\* g adds up f over the subsets of U, one element at a time.
Adds(f, U, g) ==
  g = [s \in SUBSET U |-> IF s = {} THEN 0 ELSE f[Next1(s)] + g[s \ {Next1(s)}]]

\* The sum of f over U, as MapThenSumSet defines it.
Sum(f, U) == (CHOOSE g : Adds(f, U, g))[U]

\* A property of some subsets of a finite set holds of a smallest one.
LEMMA Smallest ==
  ASSUME NEW U, IsFiniteSet(U), NEW T \in SUBSET SUBSET U, T # {}
  PROVE  \E s \in T : \A t \in SUBSET s : t # s => t \notin T
<1>1. IsWellFoundedOn(StrictSubsetOrdering(U), FiniteSubsetsOf(U))
  BY FS_StrictSubsetOrderingWellFounded
<1>2. FiniteSubsetsOf(U) = SUBSET U
  BY FS_FiniteSubsetsOfFinite
<1>3. PICK s \in T : \A t \in T : ~(<<t, s>> \in StrictSubsetOrdering(U))
  BY <1>1, <1>2, WFMin
<1> QED BY <1>3 DEF StrictSubsetOrdering

LEMMA NextIn == \A s : s # {} => Next1(s) \in s
  BY DEF Next1

LEMMA AddsAt ==
  ASSUME NEW f, NEW U, NEW g, Adds(f, U, g)
  PROVE  /\ g[{}] = 0
         /\ \A s \in SUBSET U : s # {} => g[s] = f[Next1(s)] + g[s \ {Next1(s)}]
<1>1. g = [s \in SUBSET U |-> IF s = {} THEN 0 ELSE f[Next1(s)] + g[s \ {Next1(s)}]]
  BY DEF Adds
<1>2. \A s \in SUBSET U : g[s] = IF s = {} THEN 0 ELSE f[Next1(s)] + g[s \ {Next1(s)}]
  BY <1>1
<1> QED BY <1>2

\* Two functions that agree on a set add up to the same over it.
LEMMA AddsAgree ==
  ASSUME NEW U, NEW V, NEW f, NEW h, NEW g, NEW k, Adds(f, U, g), Adds(h, V, k),
         NEW W, IsFiniteSet(W), W \subseteq U, W \subseteq V, \A x \in W : f[x] = h[x]
  PROVE  g[W] = k[W]
<1> DEFINE T == {s \in SUBSET W : g[s] # k[s]}
<1> SUFFICES ASSUME T # {} PROVE FALSE
  OBVIOUS
<1>1. PICK s \in T : \A t \in SUBSET s : t # s => t \notin T
  <2> HIDE DEF T
  <2>1. T \in SUBSET SUBSET W
    BY DEF T
  <2> QED BY <2>1, Smallest
<1>2. s # {}
  BY AddsAt
<1>3. Next1(s) \in s
  BY <1>2, NextIn
<1>4. g[s \ {Next1(s)}] = k[s \ {Next1(s)}]
  BY <1>1, <1>3
<1>5. g[s] = f[Next1(s)] + g[s \ {Next1(s)}] /\ k[s] = h[Next1(s)] + k[s \ {Next1(s)}]
  BY <1>2, AddsAt
<1>6. f[Next1(s)] = h[Next1(s)]
  BY <1>3
<1> QED BY <1>4, <1>5, <1>6

\* Every finite set has a sum.
LEMMA AddsExists ==
  ASSUME NEW f, NEW U, IsFiniteSet(U)
  PROVE  \E g : Adds(f, U, g)
<1> DEFINE T == {V \in SUBSET U : ~\E g : Adds(f, V, g)}
<1> SUFFICES ASSUME T # {} PROVE FALSE
  OBVIOUS
<1>1. PICK V \in T : \A W \in SUBSET V : W # V => W \notin T
  <2> HIDE DEF T
  <2>1. T \in SUBSET SUBSET U
    BY DEF T
  <2> QED BY <2>1, Smallest
<1> DEFINE G(W) == CHOOSE g : Adds(f, W, g)
           g == [s \in SUBSET V |-> IF s = {} THEN 0
                   ELSE f[Next1(s)] + G(s \ {Next1(s)})[s \ {Next1(s)}]]
<1>2. \A W \in SUBSET V : W # V => Adds(f, W, G(W))
  BY <1>1
<1> HIDE DEF G
<1>3. \A s \in SUBSET V : s # {} => g[s \ {Next1(s)}] = G(s \ {Next1(s)})[s \ {Next1(s)}]
  <2> SUFFICES ASSUME NEW s \in SUBSET V, s # {}
               PROVE  g[s \ {Next1(s)}] = G(s \ {Next1(s)})[s \ {Next1(s)}]
    OBVIOUS
  <2> DEFINE t == s \ {Next1(s)}
  <2> SUFFICES g[t] = G(t)[t]
    OBVIOUS
  <2>1. t \in SUBSET V /\ t # V /\ IsFiniteSet(t)
    BY NextIn, FS_Subset
  <2>2. Adds(f, t, G(t))
    BY <1>2, <2>1
  <2>3. CASE t = {}
    BY <2>1, <2>2, <2>3, AddsAt
  <2>4. CASE t # {}
    <3> DEFINE r == t \ {Next1(t)}
    <3>1. r \in SUBSET V /\ r # V /\ r \subseteq t /\ IsFiniteSet(r)
      BY <2>1, <2>4, NextIn, FS_Subset
    <3>2. G(t)[t] = f[Next1(t)] + G(t)[r]
      <4>1. \A q \in SUBSET t : q # {} => G(t)[q] = f[Next1(q)] + G(t)[q \ {Next1(q)}]
        BY <2>2, AddsAt
      <4> QED BY <2>4, <4>1
    <3>3. Adds(f, r, G(r))
      BY <1>2, <3>1
    <3>4. g[t] = f[Next1(t)] + G(r)[r]
      BY <2>1, <2>4
    <3> HIDE DEF r, t, g
    <3>5. G(t)[r] = G(r)[r]
      BY <2>2, <3>1, <3>3, AddsAgree
    <3> QED BY <3>2, <3>4, <3>5
  <2> QED BY <2>3, <2>4
<1>4. g = [s \in SUBSET V |-> IF s = {} THEN 0 ELSE f[Next1(s)] + g[s \ {Next1(s)}]]
  BY <1>3
<1> HIDE DEF g
<1>5. Adds(f, V, g)
  BY <1>4 DEF Adds
<1> QED BY <1>5

LEMMA SumAdds ==
  ASSUME NEW f, NEW U, IsFiniteSet(U), NEW g, Adds(f, U, g), NEW S \in SUBSET U
  PROVE  Sum(f, S) = g[S]
<1> DEFINE h == CHOOSE k : Adds(f, S, k)
<1>1. IsFiniteSet(S)
  BY FS_Subset
<1>2. Adds(f, S, h)
  BY <1>1, AddsExists
<1>3. Sum(f, S) = h[S]
  BY DEF Sum
<1> HIDE DEF h
<1> QED BY <1>1, <1>2, <1>3, AddsAgree

\* The sum of integers, or of naturals, is one; any element can be taken out first.
LEMMA SumIn ==
  ASSUME NEW U, IsFiniteSet(U), NEW f, \A x \in U : f[x] \in Int
  PROVE  /\ Sum(f, {}) = 0 /\ Sum(f, U) \in Int
         /\ \A x \in U : Sum(f, U) = f[x] + Sum(f, U \ {x}) /\ Sum(f, U \ {x}) \in Int
<1>1. PICK g : Adds(f, U, g)
  BY AddsExists
<1>2. \A S \in SUBSET U : Sum(f, S) = g[S]
  BY <1>1, SumAdds
<1>3. \A S \in SUBSET U : g[S] \in Int
  <2> DEFINE T == {s \in SUBSET U : g[s] \notin Int}
  <2> SUFFICES ASSUME T # {} PROVE FALSE
    OBVIOUS
  <2>1. PICK s \in T : \A t \in SUBSET s : t # s => t \notin T
    <3> HIDE DEF T
    <3>1. T \in SUBSET SUBSET U
      BY DEF T
    <3> QED BY <3>1, Smallest
  <2>2. s # {}
    <3>1. g[{}] = 0
      BY <1>1, AddsAt
    <3> QED BY <3>1
  <2>3. Next1(s) \in s /\ f[Next1(s)] \in Int
    BY <2>2, NextIn
  <2>4. g[s \ {Next1(s)}] \in Int
    BY <2>1, <2>3
  <2>5. g[s] = f[Next1(s)] + g[s \ {Next1(s)}]
    BY <1>1, <2>2, AddsAt
  <2> QED BY <2>3, <2>4, <2>5
<1>4. ASSUME NEW S \in SUBSET U, NEW y \in S PROVE g[S] = f[y] + g[S \ {y}]
  <2> DEFINE T == {s \in SUBSET S : \E x \in s : g[s] # f[x] + g[s \ {x}]}
  <2> SUFFICES ASSUME T # {} PROVE FALSE
    OBVIOUS
  <2>1. PICK s \in T : \A t \in SUBSET s : t # s => t \notin T
    <3> HIDE DEF T
    <3>1. T \in SUBSET SUBSET S /\ IsFiniteSet(S)
      BY FS_Subset DEF T
    <3> QED BY <3>1, Smallest
  <2>2. PICK x \in s : g[s] # f[x] + g[s \ {x}]
    OBVIOUS
  <2> DEFINE c == Next1(s)
             r == (s \ {x}) \ {c}
  <2>3. s \in SUBSET U /\ c \in s /\ g[s] = f[c] + g[s \ {c}]
    BY <1>1, <2>2, AddsAt, NextIn
  <2> HIDE DEF c
  <2>4. x # c
    BY <2>2, <2>3
  <2>5. g[s \ {c}] = f[x] + g[(s \ {c}) \ {x}]
    <3>1. s \ {c} \in SUBSET s /\ s \ {c} # s /\ x \in s \ {c}
      BY <2>3, <2>4
    <3> QED BY <2>1, <3>1
  <2>6. g[s \ {x}] = f[c] + g[r]
    <3>1. s \ {x} \in SUBSET s /\ s \ {x} # s /\ c \in s \ {x}
      BY <2>3, <2>4
    <3> QED BY <2>1, <3>1
  <2>7. (s \ {c}) \ {x} = r
    OBVIOUS
  <2>8. f[x] \in Int /\ f[c] \in Int /\ g[r] \in Int
    BY <1>3, <2>3
  <2>9. g[s \ {c}] = f[x] + g[r]
    BY <2>5, <2>7
  <2> HIDE DEF r, T
  <2> QED BY <2>2, <2>3, <2>6, <2>8, <2>9
<1>5. g[{}] = 0
  BY <1>1, AddsAt
<1> QED BY <1>2, <1>3, <1>4, <1>5

LEMMA SumNat ==
  ASSUME NEW U, IsFiniteSet(U), NEW f, \A x \in U : f[x] \in Nat
  PROVE  Sum(f, U) \in Nat
<1> DEFINE T == {s \in SUBSET U : Sum(f, s) \notin Nat}
<1> SUFFICES ASSUME T # {} PROVE FALSE
  OBVIOUS
<1>1. PICK s \in T : \A t \in SUBSET s : t # s => t \notin T
  <2> HIDE DEF T
  <2>1. T \in SUBSET SUBSET U
    BY DEF T
  <2> QED BY <2>1, Smallest
<1>2. IsFiniteSet(s) /\ s \in SUBSET U
  BY FS_Subset
<1>3. Sum(f, {}) = 0
  BY <1>2, SumIn
<1>4. PICK x \in s : TRUE
  BY <1>3
<1>5. Sum(f, s) = f[x] + Sum(f, s \ {x}) /\ f[x] \in Nat
  BY <1>2, <1>4, SumIn
<1>6. Sum(f, s \ {x}) \in Nat
  BY <1>1, <1>4
<1> HIDE DEF T
<1>7. Sum(f, s) \in Nat
  BY <1>5, <1>6
<1> QED BY <1>7 DEF T

\* A sum is at most another whose terms dominate its own, one for one.
LEMMA SumInto ==
  ASSUME NEW U, IsFiniteSet(U), NEW V, IsFiniteSet(V), NEW f, NEW h, NEW image \in [U -> V],
         \A x, y \in U : image[x] = image[y] => x = y,
         \A x \in U : f[x] \in Int /\ f[x] <= h[image[x]], \A y \in V : h[y] \in Nat
  PROVE  Sum(f, U) <= Sum(h, V)
<1> DEFINE Into(s, W) == \A x \in s : image[x] \in W
           T == {s \in SUBSET U : \E W \in SUBSET V : Into(s, W) /\ ~(Sum(f, s) <= Sum(h, W))}
<1> SUFFICES ASSUME T # {} PROVE FALSE
  <2>1. Into(U, V)
    OBVIOUS
  <2> QED BY <2>1
<1>1. PICK s \in T : \A t \in SUBSET s : t # s => t \notin T
  <2> HIDE DEF T
  <2>1. T \in SUBSET SUBSET U
    BY DEF T
  <2> QED BY <2>1, Smallest
<1>2. PICK W \in SUBSET V : Into(s, W) /\ ~(Sum(f, s) <= Sum(h, W))
  OBVIOUS
<1>3. s \in SUBSET U /\ IsFiniteSet(s) /\ IsFiniteSet(W)
  BY FS_Subset
<1>4. Sum(h, W) \in Nat
  BY <1>3, SumNat
<1>5. s # {}
  <2>1. Sum(f, {}) = 0
    BY <1>3, SumIn
  <2> QED BY <1>2, <1>4, <2>1
<1>6. PICK x \in s : TRUE
  BY <1>5
<1> DEFINE y == image[x]
<1>7. y \in W /\ f[x] \in Int /\ f[x] <= h[y] /\ h[y] \in Nat
  BY <1>2, <1>3, <1>6
<1>8. Sum(f, s) = f[x] + Sum(f, s \ {x}) /\ Sum(f, s \ {x}) \in Int
  BY <1>3, <1>6, SumIn
<1>9. Sum(h, W) = h[y] + Sum(h, W \ {y}) /\ Sum(h, W \ {y}) \in Int
  <2>1. \A z \in W : h[z] \in Int
    OBVIOUS
  <2> HIDE DEF y
  <2> QED BY <1>3, <1>7, <2>1, SumIn
<1>10. Sum(f, s \ {x}) <= Sum(h, W \ {y})
  <2>1. Into(s \ {x}, W \ {y})
    BY <1>2, <1>3, <1>6
  <2>2. s \ {x} \in SUBSET s /\ s \ {x} # s /\ s \ {x} \in SUBSET U
    BY <1>3, <1>6
  <2>3. W \ {y} \in SUBSET V
    OBVIOUS
  <2>4. s \ {x} \notin T
    BY <1>1, <2>2
  <2> HIDE DEF y
  <2> QED BY <2>1, <2>2, <2>3, <2>4
<1> HIDE DEF T, y
<1> QED BY <1>2, <1>7, <1>8, <1>9, <1>10

\* A sum depends on the terms only.
LEMMA SumSame ==
  ASSUME NEW U, IsFiniteSet(U), NEW f, NEW h, \A x \in U : f[x] = h[x]
  PROVE  Sum(f, U) = Sum(h, U)
<1>1. Adds(f, U, CHOOSE g : Adds(f, U, g)) /\ Adds(h, U, CHOOSE g : Adds(h, U, g))
  BY AddsExists
<1> QED BY <1>1, AddsAgree DEF Sum

-----------------------------------------------------------------------------

Keys == UNION {c.keys : c \in Setups}

\* The sequence of the first q tokens of h, as the model of key k sees it.
Line(k, h, q) == <<k>> \o Prefix(h, q)

-----------------------------------------------------------------------------
(* Prefixes.                                                               *)

LEMMA PrefixFacts == ASSUME NEW S, NEW h \in Seq(S), NEW n \in 0 .. Len(h)
                     PROVE  /\ Prefix(h, n) \in Seq(S) /\ Len(Prefix(h, n)) = n
                            /\ \A i \in 1 .. n : Prefix(h, n)[i] = h[i]
<1>1. \A i \in 1 .. n : h[i] \in S
  BY ElementOfSeq
<1>2. /\ SubSeq(h, 1, n) \in Seq(S)
      /\ Len(SubSeq(h, 1, n)) = IF 1 <= n THEN n - 1 + 1 ELSE 0
      /\ \A i \in 1 .. n - 1 + 1 : SubSeq(h, 1, n)[i] = h[1 + i - 1]
  BY <1>1, SubSeqProperties
<1> QED BY <1>2 DEF Prefix

LEMMA PrefixWhole == ASSUME NEW S, NEW h \in Seq(S) PROVE Prefix(h, Len(h)) = h
  BY SubSeqFull DEF Prefix

LEMMA PrefixPrefix == ASSUME NEW S, NEW h \in Seq(S), NEW n \in 0 .. Len(h), NEW q \in 0 .. n
                      PROVE  Prefix(Prefix(h, n), q) = Prefix(h, q)
<1> DEFINE p == Prefix(h, n)
           a == Prefix(p, q)
           b == Prefix(h, q)
<1>1. p \in Seq(S) /\ Len(p) = n /\ \A i \in 1 .. n : p[i] = h[i]
  BY PrefixFacts
<1>2. Len(h) \in Nat /\ q \in 0 .. Len(p) /\ q \in 0 .. Len(h)
  BY <1>1, LenProperties
<1>3. a \in Seq(S) /\ Len(a) = q /\ \A i \in 1 .. q : a[i] = p[i]
  <2> HIDE DEF p
  <2> QED BY <1>1, <1>2, PrefixFacts
<1>4. b \in Seq(S) /\ Len(b) = q /\ \A i \in 1 .. q : b[i] = h[i]
  BY <1>2, PrefixFacts
<1> HIDE DEF p, a, b
<1>5. \A i \in 1 .. Len(a) : a[i] = b[i]
  BY <1>1, <1>2, <1>3, <1>4
<1> QED BY <1>3, <1>4, <1>5, SeqEqual DEF a, b, p

LEMMA PrefixConcat == ASSUME NEW S, NEW h \in Seq(S), NEW t \in Seq(S), NEW q \in 0 .. Len(h)
                      PROVE  Prefix(h \o t, q) = Prefix(h, q)
<1> DEFINE p == h \o t
           a == Prefix(p, q)
           b == Prefix(h, q)
<1>1. /\ p \in Seq(S) /\ Len(p) = Len(h) + Len(t)
      /\ \A i \in 1 .. Len(h) + Len(t) : p[i] = IF i <= Len(h) THEN h[i] ELSE t[i - Len(h)]
  BY ConcatProperties
<1>2. Len(h) \in Nat /\ Len(t) \in Nat
  BY LenProperties
<1> HIDE DEF p
<1>3. q \in 0 .. Len(p)
  BY <1>1, <1>2
<1>4. a \in Seq(S) /\ Len(a) = q /\ \A i \in 1 .. q : a[i] = p[i]
  BY <1>1, <1>3, PrefixFacts
<1>5. b \in Seq(S) /\ Len(b) = q /\ \A i \in 1 .. q : b[i] = h[i]
  BY PrefixFacts
<1> HIDE DEF a, b
<1>6. \A i \in 1 .. Len(a) : a[i] = b[i]
  BY <1>1, <1>2, <1>4, <1>5
<1> QED BY <1>4, <1>5, <1>6, SeqEqual DEF a, b, p

\* Past the first sequence, a prefix of a concatenation goes on in the second one.
LEMMA PrefixBeyond == ASSUME NEW S, NEW h \in Seq(S), NEW t \in Seq(S), NEW j \in 0 .. Len(t)
                      PROVE  Prefix(h \o t, Len(h) + j) = h \o Prefix(t, j)
<1> DEFINE p == h \o t
           n == Len(h) + j
           a == Prefix(p, n)
           u == Prefix(t, j)
           b == h \o u
<1>1. /\ p \in Seq(S) /\ Len(p) = Len(h) + Len(t)
      /\ \A i \in 1 .. Len(h) + Len(t) : p[i] = IF i <= Len(h) THEN h[i] ELSE t[i - Len(h)]
  BY ConcatProperties
<1>2. Len(h) \in Nat /\ Len(t) \in Nat
  BY LenProperties
<1> HIDE DEF p
<1>3. n \in 0 .. Len(p)
  BY <1>1, <1>2
<1>4. a \in Seq(S) /\ Len(a) = n /\ \A i \in 1 .. n : a[i] = p[i]
  <2> HIDE DEF n
  <2> QED BY <1>1, <1>3, PrefixFacts
<1>5. u \in Seq(S) /\ Len(u) = j /\ \A i \in 1 .. j : u[i] = t[i]
  BY PrefixFacts
<1> HIDE DEF u
<1>6. /\ b \in Seq(S) /\ Len(b) = Len(h) + Len(u)
      /\ \A i \in 1 .. Len(h) + Len(u) : b[i] = IF i <= Len(h) THEN h[i] ELSE u[i - Len(h)]
  BY <1>5, ConcatProperties
<1> HIDE DEF a, b
<1>7. ASSUME NEW i \in 1 .. Len(a) PROVE a[i] = b[i]
  <2>1. i \in 1 .. n /\ i \in 1 .. Len(h) + Len(t) /\ i \in 1 .. Len(h) + Len(u)
    BY <1>2, <1>4, <1>5
  <2>2. CASE i <= Len(h)
    BY <1>1, <1>4, <1>6, <2>1, <2>2
  <2>3. CASE ~(i <= Len(h))
    <3>1. i - Len(h) \in 1 .. j
      BY <1>2, <2>1, <2>3
    <3> QED BY <1>1, <1>4, <1>5, <1>6, <2>1, <2>3, <3>1
  <2> QED BY <2>2, <2>3
<1>8. Len(a) = Len(b)
  BY <1>4, <1>5, <1>6
<1> QED BY <1>4, <1>6, <1>7, <1>8, SeqEqual DEF a, b, p, u

LEMMA LineFacts ==
  ASSUME NEW k \in Keys, NEW h \in Seq(Tokens), NEW n \in 0 .. Len(h)
  PROVE  /\ Line(k, h, n) \in Seq(Tokens \cup Keys) /\ Len(Line(k, h, n)) = n + 1
         /\ Prefix(h, n) \in Seq(Tokens \cup Keys) /\ <<k>> \in Seq(Tokens \cup Keys)
<1>1. /\ <<k>> \in Seq(Tokens \cup Keys) /\ Len(<<k>>) = 1
  OBVIOUS
<1>2. Prefix(h, n) \in Seq(Tokens \cup Keys) /\ Len(Prefix(h, n)) = n
  BY PrefixFacts, SeqMonotonic
<1> QED BY <1>1, <1>2, ConcatProperties DEF Line

LEMMA LineOf ==
  ASSUME NEW k \in Keys, NEW h \in Seq(Tokens), NEW n \in 0 .. Len(h), NEW q \in 0 .. n
  PROVE  Prefix(Line(k, h, n), q + 1) = Line(k, h, q)
<1> DEFINE v == Tokens \cup Keys
           p == Prefix(h, n)
<1>1. p \in Seq(v) /\ <<k>> \in Seq(v) /\ Len(<<k>>) = 1
  BY LineFacts
<1>2. Len(p) = n /\ Prefix(p, q) = Prefix(h, q)
  BY PrefixFacts, PrefixPrefix
<1> HIDE DEF v, p
<1>3. Prefix(<<k>> \o p, 1 + q) = <<k>> \o Prefix(p, q)
  BY <1>1, <1>2, PrefixBeyond
<1> QED BY <1>2, <1>3 DEF Line, p

LEMMA LineGrows ==
  ASSUME NEW k \in Keys, NEW h \in Seq(Tokens), NEW t \in Seq(Tokens)
  PROVE  /\ \A q \in 0 .. Len(h) : Line(k, h \o t, q) = Line(k, h, q)
         /\ \A j \in 0 .. Len(t) : Line(k, h \o t, Len(h) + j) = Line(k, h, Len(h)) \o Prefix(t, j)
<1>1. \A q \in 0 .. Len(h) : Line(k, h \o t, q) = Line(k, h, q)
  BY PrefixConcat DEF Line
<1>2. ASSUME NEW j \in 0 .. Len(t)
      PROVE  Line(k, h \o t, Len(h) + j) = Line(k, h, Len(h)) \o Prefix(t, j)
  <2>1. Prefix(h \o t, Len(h) + j) = h \o Prefix(t, j) /\ Prefix(h, Len(h)) = h
    BY PrefixBeyond, PrefixWhole
  <2>2. h \in Seq(Tokens \cup Keys) /\ Prefix(t, j) \in Seq(Tokens \cup Keys)
        /\ <<k>> \in Seq(Tokens \cup Keys)
    BY LineFacts, SeqMonotonic
  <2>3. (<<k>> \o h) \o Prefix(t, j) = <<k>> \o (h \o Prefix(t, j))
    BY <2>2, ConcatAssociative
  <2> QED BY <2>1, <2>3 DEF Line
<1> QED BY <1>1, <1>2

-----------------------------------------------------------------------------
(* What is shared, and the smallest number.                                *)

LEMMA SmallestNat == ASSUME NEW S \in SUBSET Nat, S # {}
                     PROVE  \E m \in S : \A n \in S : m <= n
<1>1. PICK m \in S : \A n \in S : <<n, m>> \notin OpToRel(<, Nat)
  BY WFMin, NatLessThanWellFounded
<1>2. \A n \in S : ~(n < m)
  BY <1>1 DEF OpToRel
<1> QED BY <1>2

LEMMA MinOfTwo == ASSUME NEW i \in Int, NEW j \in Int
                  PROVE  Min({i, j}) \in {i, j} /\ Min({i, j}) <= i /\ Min({i, j}) <= j
<1>1. \E m \in {i, j} : \A n \in {i, j} : m <= n
  OBVIOUS
<1> QED BY <1>1 DEF Min

LEMMA MinOfNats == ASSUME NEW S \in SUBSET Nat, S # {}
                   PROVE  Min(S) \in S /\ \A n \in S : Min(S) <= n
  BY SmallestNat DEF Min

LEMMA CommonIs ==
  ASSUME NEW S, NEW p \in Seq(S), NEW q \in Seq(S)
  PROVE  /\ Common(p, q) \in 0 .. Len(p) /\ Common(p, q) \in 0 .. Len(q)
         /\ Prefix(p, Common(p, q)) = Prefix(q, Common(p, q))
<1> DEFINE C == CommonPrefixes({p, q})
           best == LongestCommonPrefix({p, q})
<1>1. ASSUME NEW c \in C
      PROVE  /\ Len(c) \in 0 .. Len(p) /\ Len(c) \in 0 .. Len(q)
             /\ Prefix(p, Len(c)) = Prefix(q, Len(c))
  <2>1. IsPrefix(c, p) /\ IsPrefix(c, q) /\ c \in Prefixes(p) \cup Prefixes(q)
    BY DEF CommonPrefixes
  <2>2. Len(c) \in Nat
    <3>1. CASE c \in Prefixes(p)
      <4>1. PICK l \in 0 .. Len(p) : c = Prefix(p, l)
        BY <3>1 DEF Prefixes, Prefix
      <4> QED BY <4>1, PrefixFacts
    <3>2. CASE c \in Prefixes(q)
      <4>1. PICK l \in 0 .. Len(q) : c = Prefix(q, l)
        BY <3>2 DEF Prefixes, Prefix
      <4> QED BY <4>1, PrefixFacts
    <3> QED BY <2>1, <3>1, <3>2
  <2> QED BY <2>1, <2>2, LenProperties DEF IsPrefix, Prefix
<1>2. \E c \in C : TRUE
  <2> DEFINE none == Prefix(p, 0)
  <2>1. 0 \in 0 .. Len(p) /\ 0 \in 0 .. Len(q)
    BY LenProperties
  <2>2. Len(none) = 0
    BY <2>1, PrefixFacts
  <2>3. none \in Prefixes(p)
    BY <2>1 DEF Prefixes, Prefix
  <2>4. \A t \in {p, q} : IsPrefix(none, t)
    <3>1. \A t \in {p, q} : SubSeq(t, 1, 0) = << >>
      BY SubSeqEmpty
    <3>2. SubSeq(none, 1, 0) = << >>
      BY SubSeqEmpty
    <3> HIDE DEF none
    <3> QED BY <2>1, <2>2, <3>1, <3>2 DEF IsPrefix
  <2>5. none \in C
    BY <2>3, <2>4 DEF CommonPrefixes
  <2> QED BY <2>5
<1>3. \E c \in C : \A d \in C : Len(d) <= Len(c)
  <2> DEFINE Short == {Len(p) - Len(c) : c \in C}
  <2>1. Short \in SUBSET Nat /\ Short # {}
    <3>1. \A c \in C : Len(p) - Len(c) \in Nat
      <4>1. Len(p) \in Nat
        BY LenProperties
      <4> HIDE DEF C
      <4> QED BY <1>1, <4>1
    <3> HIDE DEF C
    <3> QED BY <1>2, <3>1
  <2>2. PICK m \in Short : \A n \in Short : m <= n
    <3> HIDE DEF Short
    <3> QED BY <2>1, SmallestNat
  <2>3. PICK c \in C : m = Len(p) - Len(c)
    BY <2>2
  <2>4. ASSUME NEW d \in C PROVE Len(d) <= Len(c)
    <3>1. m <= Len(p) - Len(d)
      BY <2>2
    <3>2. Len(c) \in Int /\ Len(d) \in Int /\ Len(p) \in Int
      BY <1>1, LenProperties
    <3> QED BY <2>3, <3>1, <3>2
  <2> QED BY <2>4
<1>4. best \in C
  BY <1>3 DEF LongestCommonPrefix
<1> HIDE DEF C, best
<1>5. Common(p, q) = Len(best)
  BY DEF Common, best
<1> QED BY <1>1, <1>4, <1>5

-----------------------------------------------------------------------------
(* The engine of a slot.                                                   *)

Fields == {"key", "gpu", "hist", "kv", "dev", "last_pos", "fold", "snap", "draft",
           "logits", "pc", "prompt", "share", "spec"}

EngineType(x) ==
  /\ DOMAIN x = Fields /\ DOMAIN x.draft = {"toks", "fold"}
  /\ x.key \in Keys /\ x.gpu \in BOOLEAN /\ (x.gpu => ~conf.recurrent)
  /\ x.hist \in Seq(Tokens) /\ Pos(x) <= conf.ctx /\ x.prompt \in Seq(Tokens)
  /\ x.last_pos \in Int /\ x.snap.pos \in Int

\* The rows, the mirror up to where the device last was, and the fold belong to the
\* sequence h; a recurrent snapshot is not ahead of it, once there is a sequence.
Computed(x, h) ==
  /\ \A q \in 1 .. Len(h) : x.kv[q] = Line(x.key, h, q)
  /\ x.gpu => \A q \in 1 .. Len(h) : q <= x.last_pos + 1 => x.dev[q] = Line(x.key, h, q)
  /\ conf.recurrent /\ Len(h) > 0 =>
       /\ x.fold = Line(x.key, h, Len(h))
       /\ x.snap.pos <= Len(h)
       /\ x.snap.pos > 0 => x.snap.fold = Line(x.key, h, x.snap.pos)

\* The arguments of a request, and what it decides of the sequence.
SameRequest(x, y) ==
  /\ y.key = x.key /\ y.gpu = x.gpu /\ y.hist = x.hist /\ y.draft = x.draft
  /\ y.pc = x.pc /\ y.prompt = x.prompt /\ y.share = x.share /\ y.spec = x.spec

LEMMA LineEmpty == ASSUME NEW k \in Keys, NEW h PROVE Line(k, h, 0) = <<k>>
<1>1. Prefix(h, 0) = << >>
  BY SubSeqEmpty DEF Prefix
<1>2. <<k>> \in Seq(Keys) /\ <<k>> \o << >> = <<k>>
  BY ConcatEmptySeq
<1> QED BY <1>1, <1>2 DEF Line

\* What a forward at pos finds: the rows it reads, the fold, the sequence of both.
Seen(x, pos) == IF x.gpu THEN Resync(x, pos) ELSE x.kv
Past(x, pos) == IF pos = 0 THEN <<x.key>> ELSE x.fold
Read(x, pos) == Context(x.key, Seen(x, pos), Past(x, pos), pos)

Forwarded(x, toks, pos, y) ==
  /\ EngineType(y) /\ SameRequest(x, y)
  /\ \A q \in 1 .. conf.ctx :
       y.kv[q] = IF q \in pos + 1 .. pos + Len(toks)
                   THEN Read(x, pos) \o Prefix(toks, q - pos) ELSE x.kv[q]
  /\ x.gpu =>
       /\ \A q \in 1 .. conf.ctx :
            y.dev[q] = IF q \in pos + 1 .. pos + Len(toks)
                         THEN Read(x, pos) \o Prefix(toks, q - pos)
                         ELSE IF q <= pos THEN Seen(x, pos)[q] ELSE x.dev[q]
       /\ y.last_pos = pos + Len(toks) - 1
  /\ conf.recurrent => y.fold = Past(x, pos) \o toks
  /\ y.snap = IF pos = 0 THEN NoSnap ELSE x.snap
  /\ y.logits = Read(x, pos) \o toks

LEMMA ForwardFields ==
  ASSUME NEW x, EngineType(x), NEW toks \in Seq(Tokens), NEW pos \in Nat
  PROVE  Forwarded(x, toks, pos, Forward(x, toks, pos))
<1> DEFINE y == Forward(x, toks, pos)
           new == pos + 1 .. pos + Len(toks)
           row == [q \in 1 .. conf.ctx |->
                     IF q \in new THEN Read(x, pos) \o Prefix(toks, q - pos) ELSE x.kv[q]]
           mirror == IF x.gpu
                       THEN [q \in 1 .. conf.ctx |->
                               IF q \in new THEN Read(x, pos) \o Prefix(toks, q - pos)
                               ELSE IF q <= pos THEN Seen(x, pos)[q] ELSE x.dev[q]]
                       ELSE x.dev
           last == IF x.gpu THEN pos + Len(toks) - 1 ELSE x.last_pos
           folded == IF conf.recurrent THEN Past(x, pos) \o toks ELSE x.fold
           snapped == IF pos = 0 THEN NoSnap ELSE x.snap
           sampled == Read(x, pos) \o toks
<1>1. y = [x EXCEPT !.kv = row, !.dev = mirror, !.last_pos = last, !.fold = folded,
                    !.snap = snapped, !.logits = sampled]
  BY DEF Forward, Read, Seen, Past
<1>2. last \in Int /\ snapped.pos \in Int
  BY LenProperties DEF EngineType, NoSnap
<1> HIDE DEF y, row, mirror, last, folded, snapped, sampled
<1>3. /\ y.kv = row /\ y.dev = mirror /\ y.last_pos = last /\ y.fold = folded
      /\ y.snap = snapped /\ y.logits = sampled /\ DOMAIN y = DOMAIN x
      /\ SameRequest(x, y)
  BY <1>1 DEF EngineType, Fields, SameRequest
<1>4. EngineType(y)
  BY <1>2, <1>3 DEF EngineType, SameRequest, Pos
<1>5. Forwarded(x, toks, pos, y)
  BY <1>3, <1>4 DEF Forwarded, row, mirror, last, folded, snapped, sampled
<1> QED BY <1>5 DEF y

\* One forward carries what was computed of h to h followed by its tokens.
LEMMA ForwardComputes ==
  ASSUME NEW x, EngineType(x), NEW h \in Seq(Tokens), NEW toks \in Seq(Tokens),
         Len(h) + Len(toks) <= conf.ctx, Computed(x, h), conf.ctx \in Nat,
         conf.recurrent \in BOOLEAN
  PROVE  LET y == Forward(x, toks, Len(h))
         IN  /\ EngineType(y) /\ SameRequest(x, y) /\ Computed(y, h \o toks)
             /\ y.logits = Line(x.key, h \o toks, Len(h) + Len(toks))
             /\ Len(h) # 0 => y.snap = x.snap
             /\ conf.recurrent /\ Len(h) # 0 => y.fold = x.fold \o toks
<1> DEFINE pos == Len(h)
           y == Forward(x, toks, pos)
           seen == Seen(x, pos)
           fold == Past(x, pos)
           ctx == Read(x, pos)
           new == pos + 1 .. pos + Len(toks)
           g == h \o toks
<1>1. /\ pos \in Nat /\ Len(toks) \in Nat /\ x.key \in Keys
      /\ g \in Seq(Tokens) /\ Len(g) = pos + Len(toks)
  BY LenProperties, ConcatProperties DEF EngineType
<1>2. \A q \in 1 .. pos : seen[q] = Line(x.key, h, q)
  <2>1. CASE x.gpu /\ pos = x.last_pos + 1
    BY <1>1, <2>1 DEF Computed, Resync, Seen
  <2>2. CASE ~(x.gpu /\ pos = x.last_pos + 1)
    <3>1. seen = x.kv
      BY <2>2 DEF Resync, Seen
    <3> QED BY <3>1 DEF Computed
  <2> QED BY <2>1, <2>2
<1>3. conf.recurrent => fold = Line(x.key, h, pos)
  <2>1. CASE pos = 0
    BY <1>1, <2>1, LineEmpty DEF Past
  <2>2. CASE pos # 0
    BY <1>1, <2>2 DEF Computed, Past
  <2> QED BY <2>1, <2>2
<1>4. ctx = Line(x.key, h, pos)
  <2> DEFINE c == IF pos = 0 THEN <<x.key>> ELSE seen[pos]
  <2>1. c = Line(x.key, h, pos)
    <3>1. CASE pos = 0
      BY <1>1, <3>1, LineEmpty
    <3>2. CASE pos # 0
      <4>1. pos \in 1 .. pos
        BY <1>1, <3>2
      <4> HIDE DEF seen, pos
      <4> QED BY <1>2, <3>2, <4>1
    <3> QED BY <3>1, <3>2
  <2>2. Len(c) = pos + 1
    <3>1. pos \in 0 .. Len(h)
      BY <1>1
    <3> HIDE DEF c, pos
    <3> QED BY <1>1, <2>1, <3>1, LineFacts
  <2>3. \A q \in 1 .. pos : seen[q] = Prefix(c, q + 1)
    <3>1. \A q \in 1 .. pos : q \in 0 .. pos /\ pos \in 0 .. Len(h)
      BY <1>1
    <3> HIDE DEF c, seen
    <3> QED BY <1>1, <1>2, <2>1, <3>1, LineOf
  <2> HIDE DEF pos
  <2>4. ctx = c
    BY <1>3, <2>1, <2>2, <2>3 DEF Context, Read
  <2> QED BY <2>1, <2>4
<1>5. /\ EngineType(y) /\ SameRequest(x, y)
      /\ \A q \in 1 .. conf.ctx :
           y.kv[q] = IF q \in new THEN ctx \o Prefix(toks, q - pos) ELSE x.kv[q]
      /\ x.gpu => /\ \A q \in 1 .. conf.ctx :
                       y.dev[q] = IF q \in new THEN ctx \o Prefix(toks, q - pos)
                                  ELSE IF q <= pos THEN seen[q] ELSE x.dev[q]
                  /\ y.last_pos = pos + Len(toks) - 1
      /\ conf.recurrent => y.fold = fold \o toks
      /\ y.snap = IF pos = 0 THEN NoSnap ELSE x.snap
      /\ y.logits = ctx \o toks
  <2> HIDE DEF pos
  <2>1. Forwarded(x, toks, pos, y)
    BY <1>1, ForwardFields
  <2> HIDE DEF y
  <2> QED BY <2>1 DEF Forwarded
<1> HIDE DEF y, seen, fold, ctx
<1>6. ASSUME NEW q \in new PROVE ctx \o Prefix(toks, q - pos) = Line(x.key, g, q)
  <2>1. q - pos \in 0 .. Len(toks) /\ q = pos + (q - pos)
    BY <1>1
  <2>2. Line(x.key, g, pos + (q - pos)) = Line(x.key, h, pos) \o Prefix(toks, q - pos)
    BY <1>1, <2>1, LineGrows
  <2> QED BY <1>4, <2>1, <2>2
<1>7. \A q \in 0 .. pos : Line(x.key, g, q) = Line(x.key, h, q)
  BY <1>1, LineGrows
<1>8. y.logits = Line(x.key, g, Len(h) + Len(toks))
  <2>1. Len(toks) \in 0 .. Len(toks) /\ Prefix(toks, Len(toks)) = toks
    BY <1>1, PrefixWhole
  <2>2. Line(x.key, g, Len(h) + Len(toks)) = Line(x.key, h, pos) \o toks
    <3>1. Line(x.key, g, Len(h) + Len(toks)) = Line(x.key, h, Len(h)) \o Prefix(toks, Len(toks))
      BY <1>1, <2>1, LineGrows
    <3> QED BY <1>1, <2>1, <3>1
  <2> QED BY <1>4, <1>5, <2>2
<1>9. \A q \in 1 .. Len(g) : y.kv[q] = Line(x.key, g, q)
  <2> SUFFICES ASSUME NEW q \in 1 .. Len(g) PROVE y.kv[q] = Line(x.key, g, q)
    OBVIOUS
  <2>1. q \in 1 .. conf.ctx /\ (q \in new \/ q \in 1 .. pos)
    BY <1>1
  <2>2. CASE q \in new
    BY <1>5, <1>6, <2>1, <2>2
  <2>3. CASE q \notin new
    BY <1>5, <1>7, <2>1, <2>3 DEF Computed
  <2> QED BY <2>2, <2>3
<1>10. x.gpu => \A q \in 1 .. Len(g) : y.dev[q] = Line(x.key, g, q)
  <2> SUFFICES ASSUME x.gpu, NEW q \in 1 .. Len(g) PROVE y.dev[q] = Line(x.key, g, q)
    OBVIOUS
  <2>1. q \in 1 .. conf.ctx /\ (q \in new \/ q \in 1 .. pos) /\ (q \in 1 .. pos => q <= pos)
    BY <1>1
  <2>2. CASE q \in new
    BY <1>5, <1>6, <2>1, <2>2
  <2>3. CASE q \notin new
    <3>1. y.dev[q] = seen[q]
      BY <1>5, <2>1, <2>3
    <3> QED BY <1>1, <1>2, <1>7, <2>1, <2>3, <3>1
  <2> QED BY <2>2, <2>3
<1>11. conf.recurrent => y.fold = Line(x.key, g, Len(g))
  <2>1. Len(toks) \in 0 .. Len(toks) /\ Prefix(toks, Len(toks)) = toks
    BY <1>1, PrefixWhole
  <2>2. Line(x.key, g, Len(h) + Len(toks)) = Line(x.key, h, Len(h)) \o Prefix(toks, Len(toks))
    BY <1>1, <2>1, LineGrows
  <2>3. Len(g) = Len(h) + Len(toks)
    BY <1>1, ConcatProperties
  <2>4. Line(x.key, g, Len(g)) = Line(x.key, h, pos) \o toks
    BY <1>1, <2>1, <2>2, <2>3
  <2> QED BY <1>3, <1>5, <2>4
<1>12. conf.recurrent /\ Len(g) > 0 =>
         y.snap.pos <= Len(g) /\ (y.snap.pos > 0 => y.snap.fold = Line(x.key, g, y.snap.pos))
  <2>1. CASE pos = 0
    BY <1>1, <1>5, <2>1 DEF NoSnap
  <2>2. CASE pos # 0
    <3>1. conf.recurrent => x.snap.pos <= pos /\ (x.snap.pos > 0 => x.snap.fold = Line(x.key, h, x.snap.pos))
      BY <1>1, <2>2 DEF Computed
    <3>2. y.snap = x.snap /\ x.snap.pos \in Int
      BY <1>5, <2>2 DEF EngineType
    <3> QED BY <1>1, <1>7, <3>1, <3>2
  <2> QED BY <2>1, <2>2
<1>13. y.key = x.key /\ y.gpu = x.gpu
  BY <1>5 DEF SameRequest
<1>14. Computed(y, g)
  BY <1>9, <1>10, <1>11, <1>12, <1>13 DEF Computed
<1>15. conf.recurrent /\ pos # 0 => y.fold = x.fold \o toks
  BY <1>5 DEF fold, Past
<1> QED BY <1>5, <1>8, <1>14, <1>15 DEF y

-----------------------------------------------------------------------------
(* A slot.                                                                 *)

\* No snapshot of a recurrent model is cut to fewer tokens than its fold has seen: a
\* prompt fits half of the store, or what half of it holds is too short to be stored
\* (beyond that the fold belongs to other tokens: the run cache_fold).
UncutFolds ==
  conf.recurrent =>
    \A p \in conf.prompts :
      \/ EntryBytes(Len(p)) <= conf.budget \div 2
      \/ (conf.budget \div 2) \div EntryBytes(1) < MinTokens

\* The draft has seen a prefix of h.
DraftOf(d, h) ==
  /\ DOMAIN d = {"toks", "fold"} /\ d.toks \in Seq(Tokens)
  /\ Len(d.toks) <= Len(h) /\ d.toks = Prefix(h, Len(d.toks))
  /\ conf.draft = "recurrent" /\ d.toks # <<>> => d.fold = d.toks

SequenceInv(x, h) ==
  /\ EngineType(x) /\ DraftOf(x.draft, h)
  /\ UncutFolds => Computed(x, h)

\* What has been computed: a token just sampled has not.
Done(x) == IF x.pc = "forward" THEN Front(x.hist) ELSE x.hist

SlotInv(x) ==
  /\ SequenceInv(x, Done(x))
  /\ x.pc \in {"idle", "feed", "publish", "gen", "forward"}
  /\ x.pc = "forward" => x.hist # <<>>
  /\ x.pc \in {"feed", "publish"} => x.prompt \in conf.prompts
  /\ x.pc = "feed" => Pos(x) < Len(x.prompt) /\ x.hist = Prefix(x.prompt, Pos(x))
  /\ x.pc = "publish" => x.hist = x.prompt
  /\ x.pc \in {"publish", "gen"} /\ UncutFolds => x.logits = Line(x.key, x.hist, Pos(x))

ConfType ==
  /\ conf \in Setups
  /\ conf.recurrent \in BOOLEAN /\ conf.ctx \in Nat /\ conf.budget \in Nat
  /\ conf.gpu \in BOOLEAN /\ (conf.gpu => ~conf.recurrent) /\ conf.keys \subseteq Keys
  /\ \A p \in conf.prompts : p \in Seq(Tokens) /\ Len(p) \in 1 .. conf.ctx

-----------------------------------------------------------------------------
(* What a rewind keeps.                                                    *)

LEMMA DraftCut ==
  ASSUME NEW d, NEW h \in Seq(Tokens), NEW n \in 0 .. Len(h), DraftOf(d, h)
  PROVE  DraftOf(DposRewind(d, n), Prefix(h, n))
<1> DEFINE r == DposRewind(d, n)
           p == Prefix(h, n)
<1>1. p \in Seq(Tokens) /\ Len(p) = n /\ n \in Nat /\ Len(d.toks) \in Nat
  BY PrefixFacts, LenProperties DEF DraftOf
<1>2. CASE Len(d.toks) <= n
  <2>1. Prefix(p, Len(d.toks)) = Prefix(h, Len(d.toks))
    BY <1>1, <1>2, PrefixPrefix
  <2>2. r = d
    BY <1>2 DEF DposRewind
  <2> HIDE DEF p, r
  <2>3. DraftOf(d, p)
    BY <1>1, <1>2, <2>1 DEF DraftOf
  <2> QED BY <2>2, <2>3 DEF p, r
<1>3. CASE ~(Len(d.toks) <= n)
  <2> DEFINE t == IF conf.draft = "recurrent" THEN <<>> ELSE Prefix(d.toks, n)
  <2>1. r = [d EXCEPT !.toks = t]
    BY <1>3 DEF DposRewind
  <2>2. t \in Seq(Tokens) /\ Len(t) <= n /\ t = Prefix(p, Len(t))
    <3>1. CASE conf.draft = "recurrent"
      <4>1. Prefix(p, 0) = << >>
        BY SubSeqEmpty DEF Prefix
      <4> HIDE DEF p
      <4> QED BY <1>1, <3>1, <4>1
    <3>2. CASE conf.draft # "recurrent"
      <4>1. n \in 0 .. Len(d.toks) /\ Len(d.toks) \in 0 .. Len(h)
        BY <1>1, <1>3, LenProperties DEF DraftOf
      <4>2. Prefix(d.toks, n) = p
        BY <1>1, <4>1, PrefixPrefix DEF DraftOf
      <4>3. Prefix(p, n) = p
        BY <1>1, PrefixWhole
      <4> QED BY <1>1, <3>2, <4>2, <4>3
    <3> QED BY <3>1, <3>2
  <2>3. conf.draft = "recurrent" => t = << >>
    OBVIOUS
  <2> HIDE DEF t, p, r
  <2>4. r.toks = t /\ DOMAIN r = {"toks", "fold"}
    BY <2>1 DEF DraftOf
  <2>5. DraftOf(r, p)
    BY <1>1, <2>2, <2>3, <2>4 DEF DraftOf
  <2> QED BY <2>5 DEF r, p
<1> QED BY <1>2, <1>3

\* A shorter sequence: the same rows; the fold of a recurrent model has to be given.
LEMMA ComputedCut ==
  ASSUME NEW x, NEW y, NEW h \in Seq(Tokens), NEW n \in 0 .. Len(h), Computed(x, h),
         y.key = x.key /\ y.gpu = x.gpu /\ y.kv = x.kv /\ y.dev = x.dev,
         y.last_pos = x.last_pos,
         conf.recurrent /\ n > 0 =>
           /\ y.fold = Line(x.key, h, n) /\ y.snap.pos \in Int /\ y.snap.pos <= n
           /\ y.snap.pos > 0 => y.snap.fold = Line(x.key, h, y.snap.pos)
  PROVE  Computed(y, Prefix(h, n))
<1> DEFINE p == Prefix(h, n)
<1>1. p \in Seq(Tokens) /\ Len(p) = n /\ n \in Nat /\ n <= Len(h)
  BY PrefixFacts, LenProperties
<1>2. \A q \in 0 .. n : Line(x.key, p, q) = Line(x.key, h, q)
  BY PrefixPrefix DEF Line
<1> HIDE DEF p
<1>3. \A q \in 1 .. Len(p) : y.kv[q] = Line(y.key, p, q)
  BY <1>1, <1>2 DEF Computed
<1>4. y.gpu => \A q \in 1 .. Len(p) : q <= y.last_pos + 1 => y.dev[q] = Line(y.key, p, q)
  BY <1>1, <1>2 DEF Computed
<1>5. conf.recurrent /\ Len(p) > 0 =>
       /\ y.fold = Line(y.key, p, Len(p))
       /\ y.snap.pos <= Len(p)
       /\ y.snap.pos > 0 => y.snap.fold = Line(y.key, p, y.snap.pos)
  BY <1>1, <1>2
<1>6. Computed(y, p)
  BY <1>3, <1>4, <1>5 DEF Computed
<1> QED BY <1>6 DEF p

LEMMA Rewound ==
  ASSUME ConfType, NEW x, SequenceInv(x, x.hist), NEW toks \in Seq(Tokens), toks # << >>
  PROVE  LET y == EngineRewind(x, toks)
         IN  /\ SequenceInv(y, y.hist)
             /\ Pos(y) < Len(toks) /\ y.hist = Prefix(toks, Pos(y))
<1> DEFINE y == EngineRewind(x, toks)
           same == Min({Common(x.hist, toks), Len(toks) - 1})
           moves == conf.recurrent /\ same < Pos(x)
           back == moves /\ CanRestore(x, same)
           keep == IF moves /\ ~CanRestore(x, same) THEN 0 ELSE same
           fold == IF ~moves THEN x.fold
                   ELSE IF CanRestore(x, same) THEN x.snap.fold ELSE <<x.key>>
           snap == IF moves /\ ~CanRestore(x, same) THEN NoSnap ELSE x.snap
           draft == DposRewind(x.draft, keep)
           h == Prefix(x.hist, keep)
<1>1. x.hist \in Seq(Tokens) /\ Pos(x) = Len(x.hist) /\ Pos(x) \in Nat /\ Len(toks) \in Nat \ {0}
  BY LenProperties, EmptySeq DEF SequenceInv, EngineType, Pos
<1>2. /\ Common(x.hist, toks) \in 0 .. Pos(x) /\ Common(x.hist, toks) \in 0 .. Len(toks)
      /\ Prefix(x.hist, Common(x.hist, toks)) = Prefix(toks, Common(x.hist, toks))
  BY <1>1, CommonIs
<1>3. same \in 0 .. Pos(x) /\ same < Len(toks) /\ same \in 0 .. Common(x.hist, toks)
  <2> DEFINE c == Common(x.hist, toks)
             l == Len(toks) - 1
  <2>1. c \in Nat /\ l \in Nat
    BY <1>1, <1>2
  <2>2. c <= Pos(x)
    BY <1>1, <1>2
  <2>3. l < Len(toks)
    BY <1>1
  <2>4. same \in {c, l} /\ same <= c /\ same <= l
    <3> HIDE DEF c, l
    <3>1. Min({c, l}) \in {c, l} /\ Min({c, l}) <= c /\ Min({c, l}) <= l
      <4>1. c \in Int /\ l \in Int
        BY <2>1
      <4> QED BY <4>1, MinOfTwo, Zenon
    <3> QED BY <3>1 DEF c, l
  <2> HIDE DEF c, l, same
  <2>5. same \in 0 .. Pos(x) /\ same < Len(toks) /\ same \in 0 .. c
    BY <1>1, <2>1, <2>2, <2>3, <2>4
  <2> QED BY <2>5 DEF c
<1>4. Prefix(x.hist, same) = Prefix(toks, same)
  <2>1. Prefix(Prefix(x.hist, Common(x.hist, toks)), same) = Prefix(x.hist, same)
    BY <1>1, <1>2, <1>3, PrefixPrefix
  <2>2. Prefix(Prefix(toks, Common(x.hist, toks)), same) = Prefix(toks, same)
    BY <1>2, <1>3, PrefixPrefix
  <2> QED BY <1>2, <2>1, <2>2
<1> HIDE DEF same
<1>5. keep \in 0 .. Pos(x) /\ keep < Len(toks) /\ (keep = same \/ keep = 0)
  BY <1>1, <1>3
<1>6. y = [x EXCEPT !.hist = h, !.draft = draft, !.fold = fold, !.snap = snap]
  BY DEF EngineRewind, same
<1>7. snap.pos \in Int
  BY DEF SequenceInv, EngineType, NoSnap
<1>8. h \in Seq(Tokens) /\ Len(h) = keep /\ h = Prefix(toks, keep)
  <2>1. Prefix(x.hist, 0) = << >> /\ Prefix(toks, 0) = << >>
    BY SubSeqEmpty DEF Prefix
  <2> HIDE DEF keep
  <2> QED BY <1>1, <1>4, <1>5, <2>1, PrefixFacts
<1>9. DraftOf(draft, h)
  <2> HIDE DEF keep
  <2> QED BY <1>1, <1>5, DraftCut DEF SequenceInv
<1>10. UncutFolds /\ conf.recurrent /\ keep > 0 =>
         /\ fold = Line(x.key, x.hist, keep) /\ snap.pos <= keep
         /\ snap.pos > 0 => snap.fold = Line(x.key, x.hist, snap.pos)
  <2> SUFFICES ASSUME UncutFolds, conf.recurrent, keep > 0
               PROVE  /\ fold = Line(x.key, x.hist, keep) /\ snap.pos <= keep
                      /\ snap.pos > 0 => snap.fold = Line(x.key, x.hist, snap.pos)
    OBVIOUS
  <2>1. /\ x.fold = Line(x.key, x.hist, Pos(x)) /\ x.snap.pos <= Pos(x) /\ x.snap.pos \in Int
        /\ x.snap.pos > 0 => x.snap.fold = Line(x.key, x.hist, x.snap.pos)
    BY <1>1, <1>5 DEF SequenceInv, Computed, EngineType
  <2>2. CASE moves
    <3>1. CanRestore(x, same) /\ keep = same /\ fold = x.snap.fold /\ snap = x.snap
      BY <2>2
    <3>2. x.snap.pos = keep
      BY <3>1 DEF CanRestore
    <3> QED BY <1>5, <2>1, <3>1, <3>2
  <2>3. CASE ~moves
    <3>1. keep = same /\ fold = x.fold /\ snap = x.snap
      BY <2>3
    <3>2. same = Pos(x)
      BY <1>1, <1>3, <2>3
    <3> QED BY <2>1, <3>1, <3>2
  <2> QED BY <2>2, <2>3
<1> HIDE DEF y, keep, moves, fold, snap, draft, h
<1>11. /\ y.hist = h /\ y.draft = draft /\ y.fold = fold /\ y.snap = snap /\ DOMAIN y = Fields
       /\ y.key = x.key /\ y.gpu = x.gpu /\ y.kv = x.kv /\ y.dev = x.dev
       /\ y.last_pos = x.last_pos /\ y.prompt = x.prompt
  BY <1>6 DEF SequenceInv, EngineType, Fields
<1>12. EngineType(y)
  BY <1>1, <1>5, <1>7, <1>8, <1>9, <1>11 DEF SequenceInv, EngineType, Pos, DraftOf, ConfType
<1>13. UncutFolds => Computed(y, h)
  BY <1>1, <1>5, <1>7, <1>10, <1>11, ComputedCut DEF h, SequenceInv
<1> QED BY <1>8, <1>9, <1>5, <1>11, <1>12, <1>13 DEF y, SequenceInv, Pos

-----------------------------------------------------------------------------
(* What a fork installs.                                                   *)

EntryInv(x) ==
  /\ DOMAIN x = {"key", "toks", "rows", "fold", "proven"}
  /\ x.key \in Keys /\ x.toks \in Seq(Tokens)
  /\ UncutFolds =>
       /\ \A q \in 1 .. Len(x.toks) : x.rows[q] = Line(x.key, x.toks, q)
       /\ conf.recurrent => x.fold = Line(x.key, x.toks, Len(x.toks))

\* A full offload is moved off its position, so that what it forwards next is not
\* taken to follow the rows of the device.
LEMMA Disturbed ==
  ASSUME ConfType, NEW x, EngineType(x), NEW toks \in Seq(Tokens), Len(toks) >= 2,
         Len(toks) <= conf.ctx
  PROVE  LET z == Disturb(x, toks[1])
         IN  /\ EngineType(z) /\ SameRequest(x, z)
             /\ x.gpu => z.last_pos = 0 /\ z.dev[1] = Line(x.key, toks, 1)
<1> DEFINE tok == toks[1]
           one == <<tok>>
           z == Forward(x, one, 0)
<1>1. Len(toks) \in Nat /\ 1 \in 0 .. Len(toks) /\ tok \in Tokens /\ x.key \in Keys
  BY LenProperties, ElementOfSeq DEF EngineType
<1>2. one \in Seq(Tokens) /\ Len(one) = 1 /\ one[1] = toks[1]
  BY <1>1
<1>3. one = Prefix(toks, 1)
  <2>1. Prefix(toks, 1) \in Seq(Tokens) /\ Len(Prefix(toks, 1)) = 1 /\ Prefix(toks, 1)[1] = toks[1]
    <3>1. /\ Prefix(toks, 1) \in Seq(Tokens) /\ Len(Prefix(toks, 1)) = 1
          /\ \A i \in 1 .. 1 : Prefix(toks, 1)[i] = toks[i]
      BY <1>1, PrefixFacts
    <3> QED BY <3>1
  <2> HIDE DEF one
  <2>2. \A i \in 1 .. Len(one) : one[i] = Prefix(toks, 1)[i]
    BY <1>2, <2>1
  <2> QED BY <1>2, <2>1, <2>2, SeqEqual
<1>4. CASE x.gpu
  <2> HIDE DEF tok, one
  <2>1. Forwarded(x, one, 0, z)
    BY <1>2, ForwardFields
  <2>2. Read(x, 0) = <<x.key>> /\ <<x.key>> = Line(x.key, toks, 0)
    <3>1. ~conf.recurrent /\ Len(<<x.key>>) = 0 + 1
      BY <1>4 DEF EngineType
    <3>2. \A q \in 1 .. 0 : FALSE
      OBVIOUS
    <3>3. Read(x, 0) = <<x.key>>
      BY <3>1, <3>2 DEF Read, Context
    <3> QED BY <1>1, <3>3, LineEmpty
  <2>3. Line(x.key, toks, 1) = Read(x, 0) \o one
    BY <1>3, <2>2 DEF Line
  <2>4. Prefix(one, 1 - 0) = one
    <3>1. Prefix(one, Len(one)) = one
      BY <1>2, PrefixWhole
    <3>2. 1 - 0 = Len(one)
      BY <1>2
    <3> QED BY <3>1, <3>2
  <2> HIDE DEF z
  <2>5. 1 \in 1 .. conf.ctx /\ 1 \in 0 + 1 .. 0 + Len(one)
    BY <1>1, <1>2 DEF ConfType
  <2>6. z.last_pos = 0 /\ z.dev[1] = Line(x.key, toks, 1)
    <3>1. z.dev[1] = Read(x, 0) \o Prefix(one, 1 - 0)
      BY <1>4, <2>1, <2>5 DEF Forwarded
    <3>2. z.last_pos = 0 + Len(one) - 1
      BY <1>4, <2>1 DEF Forwarded
    <3> QED BY <1>2, <2>3, <2>4, <3>1, <3>2
  <2>7. EngineType(z) /\ SameRequest(x, z)
    BY <2>1 DEF Forwarded
  <2>8. Disturb(x, toks[1]) = z
    BY <1>4 DEF Disturb, z, one, tok
  <2> QED BY <2>6, <2>7, <2>8
<1>5. CASE ~x.gpu
  <2>1. Disturb(x, toks[1]) = x
    BY <1>5 DEF Disturb
  <2> QED BY <1>5, <2>1 DEF SameRequest
<1> QED BY <1>4, <1>5

LEMMA Forked ==
  ASSUME ConfType, NEW x, EngineType(x), NEW toks \in Seq(Tokens), Len(toks) <= conf.ctx,
         NEW entry, EntryInv(entry), entry.key = x.key,
         NEW n \in 2 .. Len(toks) - 1, n \in 0 .. Len(entry.toks),
         Prefix(entry.toks, n) = Prefix(toks, n),
         conf.recurrent => n = Len(entry.toks)
  PROVE  LET y == Fork(x, toks, entry, n)
         IN  /\ SequenceInv(y, y.hist)
             /\ Pos(y) < Len(toks) /\ y.hist = Prefix(toks, Pos(y))
             /\ y.pc = x.pc /\ y.prompt = x.prompt
<1> DEFINE z == Disturb(x, toks[1])
           h == Prefix(toks, n)
           kv == [q \in 1 .. conf.ctx |-> IF q <= n THEN entry.rows[q] ELSE z.kv[q]]
           fold == IF conf.recurrent THEN entry.fold ELSE z.fold
           snap == IF conf.recurrent THEN NoSnap ELSE z.snap
           y == [z EXCEPT !.kv = kv, !.fold = fold, !.snap = snap, !.hist = h,
                          !.draft.toks = <<>>]
           k == x.key
<1>1. Len(toks) \in Nat /\ Len(toks) >= 2 /\ n \in Nat /\ n \in 0 .. Len(toks) /\ n <= conf.ctx
      /\ conf.ctx \in Nat /\ k \in Keys
  BY LenProperties DEF ConfType, EngineType
<1>2. EngineType(z) /\ SameRequest(x, z)
      /\ (x.gpu => z.last_pos = 0 /\ z.dev[1] = Line(k, toks, 1))
  <2> HIDE DEF z, k
  <2> QED BY <1>1, Disturbed DEF z, k
<1>3. y = Fork(x, toks, entry, n)
  BY DEF Fork
<1>4. h \in Seq(Tokens) /\ Len(h) = n
  BY <1>1, PrefixFacts
<1>5. \A q \in 0 .. n : Line(k, h, q) = Line(k, toks, q) /\ Line(k, h, q) = Line(k, entry.toks, q)
  <2> SUFFICES ASSUME NEW q \in 0 .. n
               PROVE  Line(k, h, q) = Line(k, toks, q) /\ Line(k, h, q) = Line(k, entry.toks, q)
    OBVIOUS
  <2>1. Prefix(h, q) = Prefix(toks, q)
    BY <1>1, PrefixPrefix
  <2>2. Prefix(h, q) = Prefix(entry.toks, q)
    BY <1>1, PrefixPrefix DEF EntryInv
  <2> HIDE DEF h
  <2> QED BY <2>1, <2>2 DEF Line
<1>6. snap.pos \in Int
  BY <1>2 DEF EngineType, NoSnap
<1> HIDE DEF z, h, kv, fold, snap, k
<1>7. /\ y.kv = kv /\ y.fold = fold /\ y.snap = snap /\ y.hist = h /\ DOMAIN y = Fields
      /\ y.draft.toks = <<>> /\ DOMAIN y.draft = {"toks", "fold"}
      /\ y.key = z.key /\ y.gpu = z.gpu /\ y.dev = z.dev /\ y.last_pos = z.last_pos
      /\ y.pc = z.pc /\ y.prompt = z.prompt
  BY <1>2 DEF EngineType, Fields
<1> HIDE DEF y
<1>8. y.key = k /\ y.gpu = x.gpu /\ y.pc = x.pc /\ y.prompt = x.prompt
  BY <1>2, <1>7 DEF SameRequest, k
<1>9. EngineType(y)
  BY <1>1, <1>2, <1>4, <1>6, <1>7, <1>8 DEF EngineType, Pos
<1>10. DraftOf(y.draft, h)
  <2>1. Prefix(h, 0) = << >> /\ Len(<<>>) = 0 /\ <<>> \in Seq(Tokens)
    BY SubSeqEmpty DEF Prefix
  <2> QED BY <1>1, <1>4, <1>7, <2>1 DEF DraftOf
<1>11. ASSUME UncutFolds PROVE Computed(y, h)
  <2>1. \A q \in 1 .. n : y.kv[q] = Line(k, h, q)
    <3> SUFFICES ASSUME NEW q \in 1 .. n PROVE y.kv[q] = Line(k, h, q)
      OBVIOUS
    <3>1. q \in 1 .. conf.ctx /\ q <= n /\ q \in 1 .. Len(entry.toks) /\ q \in 0 .. n
      BY <1>1
    <3>2. y.kv[q] = entry.rows[q]
      BY <1>7, <3>1 DEF kv
    <3> QED BY <1>5, <1>11, <3>1, <3>2 DEF EntryInv, k
  <2>2. y.gpu => \A q \in 1 .. n : q <= y.last_pos + 1 => y.dev[q] = Line(k, h, q)
    BY <1>1, <1>2, <1>5, <1>7, <1>8
  <2>3. conf.recurrent => y.fold = Line(k, h, n) /\ y.snap.pos = -1
    BY <1>1, <1>5, <1>7, <1>11 DEF fold, snap, NoSnap, EntryInv, k
  <2> QED BY <1>1, <1>4, <1>8, <2>1, <2>2, <2>3 DEF Computed
<1>12. Pos(y) = n /\ n < Len(toks)
  BY <1>1, <1>4, <1>7 DEF Pos
<1> QED BY <1>3, <1>7, <1>8, <1>9, <1>10, <1>11, <1>12 DEF SequenceInv, h

-----------------------------------------------------------------------------
(* The positions of a list, in order.                                      *)

Ordered(f, T) ==
  f \in [1 .. Cardinality(T) -> T] /\ \A i, j \in DOMAIN f : i < j => f[i] < f[j]

\* The least element first, then the others.
LEMMA OrderedNext ==
  ASSUME NEW T \in SUBSET Nat, IsFiniteSet(T), T # {}, NEW m \in T, \A n \in T : m <= n,
         NEW f, Ordered(f, T \ {m})
  PROVE  \E g : Ordered(g, T)
<1> DEFINE c == Cardinality(T)
           g == [i \in 1 .. c |-> IF i = 1 THEN m ELSE f[i - 1]]
<1>1. Cardinality(T \ {m}) = c - 1 /\ c \in Nat
  BY FS_RemoveElement, FS_CardinalityType
<1> HIDE DEF c
<1>2. ASSUME NEW i \in 2 .. c PROVE f[i - 1] \in T \ {m} /\ m < f[i - 1]
  <2>1. i - 1 \in 1 .. c - 1
    BY <1>1
  <2>2. f[i - 1] \in T \ {m}
    BY <1>1, <2>1 DEF Ordered
  <2>3. \A n \in T \ {m} : m < n
    <3>1. T \subseteq Int
      OBVIOUS
    <3> QED BY <3>1
  <2> QED BY <2>2, <2>3
<1>3. g \in [1 .. c -> T]
  BY <1>1, <1>2
<1>4. ASSUME NEW i \in 1 .. c, NEW j \in 1 .. c, i < j PROVE g[i] < g[j]
  <2>1. j \in 2 .. c /\ g[j] = f[j - 1]
    BY <1>1, <1>4
  <2>2. CASE i = 1
    BY <1>2, <2>1, <2>2
  <2>3. CASE i # 1
    <3>1. i - 1 \in 1 .. c - 1 /\ j - 1 \in 1 .. c - 1 /\ i - 1 < j - 1 /\ g[i] = f[i - 1]
      BY <1>1, <1>4, <2>3
    <3>2. DOMAIN f = 1 .. c - 1
      BY <1>1 DEF Ordered
    <3>3. f[i - 1] < f[j - 1]
      <4> DEFINE a == i - 1
                 b == j - 1
      <4>1. a \in DOMAIN f /\ b \in DOMAIN f /\ a < b
        BY <3>1, <3>2
      <4> HIDE DEF a, b
      <4>2. f[a] < f[b]
        BY <4>1 DEF Ordered
      <4> QED BY <4>2 DEF a, b
    <3> QED BY <2>1, <3>1, <3>3
  <2> QED BY <2>2, <2>3
<1>5. Ordered(g, T)
  <2>1. DOMAIN g = 1 .. c
    OBVIOUS
  <2> HIDE DEF g
  <2> QED BY <1>3, <1>4, <2>1 DEF Ordered, c
<1> QED BY <1>5

LEMMA InOrderIs ==
  ASSUME NEW T \in SUBSET Nat, IsFiniteSet(T)
  PROVE  Ordered(InOrder(T), T)
<1> DEFINE Bad == {U \in SUBSET T : ~\E f : Ordered(f, U)}
           Sizes == {Cardinality(U) : U \in Bad}
<1>1. \A U \in SUBSET T : IsFiniteSet(U) /\ Cardinality(U) \in Nat
  BY FS_Subset, FS_CardinalityType
<1>2. Bad = {}
  <2> SUFFICES ASSUME Bad # {} PROVE FALSE
    OBVIOUS
  <2>1. Sizes \in SUBSET Nat /\ Sizes # {}
    BY <1>1
  <2>2. PICK n \in Sizes : \A k \in Sizes : n <= k
    <3> HIDE DEF Sizes
    <3> QED BY <2>1, SmallestNat
  <2>3. PICK U \in Bad : Cardinality(U) = n
    BY <2>2
  <2>4. U \in SUBSET Nat /\ IsFiniteSet(U) /\ n \in Nat
    BY <1>1, <2>3
  <2>5. CASE U = {}
    <3> DEFINE f == [i \in 1 .. 0 |-> 0]
    <3>1. Cardinality(U) = 0
      BY <2>5, FS_EmptySet
    <3>2. Ordered(f, U)
      BY <3>1 DEF Ordered
    <3> QED BY <2>3, <3>2
  <2>6. CASE U # {}
    <3>1. PICK m \in U : \A k \in U : m <= k
      BY <2>4, <2>6, SmallestNat
    <3>2. Cardinality(U \ {m}) = n - 1 /\ U \ {m} \in SUBSET T
      BY <2>3, <2>4, <3>1, FS_RemoveElement
    <3>3. U \ {m} \notin Bad
      <4> SUFFICES ASSUME U \ {m} \in Bad PROVE FALSE
        OBVIOUS
      <4>1. n <= Cardinality(U \ {m})
        BY <2>2
      <4> QED BY <2>4, <3>2, <4>1
    <3>4. PICK f : Ordered(f, U \ {m})
      BY <3>2, <3>3
    <3>5. \E g : Ordered(g, U)
      BY <2>4, <2>6, <3>1, <3>4, OrderedNext
    <3> QED BY <2>3, <3>5
  <2> QED BY <2>5, <2>6
<1>3. \E f : Ordered(f, T)
  BY <1>2
<1>4. \E f \in [1 .. Cardinality(T) -> T] : \A i, j \in DOMAIN f : i < j => f[i] < f[j]
  BY <1>3 DEF Ordered
<1> QED BY <1>4 DEF InOrder, Ordered

-----------------------------------------------------------------------------
(* The store keeps whole entries.                                          *)

StoreInv(st) == \E S : st \in Seq(S) /\ \A x \in S : EntryInv(x)

LEMMA StoreFacts == ASSUME NEW st, StoreInv(st)
                    PROVE  /\ Len(st) \in Nat /\ DOMAIN st = 1 .. Len(st)
                           /\ \A i \in DOMAIN st : EntryInv(st[i])
<1>1. PICK S : st \in Seq(S) /\ \A x \in S : EntryInv(x)
  BY DEF StoreInv
<1> QED BY <1>1, LenProperties, ElementOfSeq

LEMMA StoreHolds == ASSUME NEW S, \A x \in S : EntryInv(x), NEW st \in Seq(S)
                    PROVE  StoreInv(st)
  BY DEF StoreInv

LEMMA StoreEmpty == StoreInv(<< >>)
<1>1. << >> \in Seq({}) /\ \A x \in {} : EntryInv(x)
  BY EmptySeq
<1> QED BY <1>1, StoreHolds, Zenon

LEMMA StoreTail == ASSUME NEW st, StoreInv(st), NEW i \in 1 .. Len(st) + 1
                   PROVE  StoreInv(SubSeq(st, i, Len(st)))
<1>1. PICK S : st \in Seq(S) /\ \A x \in S : EntryInv(x)
  BY DEF StoreInv
<1>2. Len(st) \in Nat /\ \A j \in i .. Len(st) : st[j] \in S
  BY <1>1, LenProperties, ElementOfSeq
<1>3. SubSeq(st, i, Len(st)) \in Seq(S)
  BY <1>2, SubSeqProperties
<1> QED BY <1>1, <1>3 DEF StoreInv

LEMMA StoreAmong == ASSUME NEW st, StoreInv(st), NEW T \in SUBSET DOMAIN st
                    PROVE  StoreInv(Among(st, T)) /\ Len(Among(st, T)) = Cardinality(T)
<1>1. PICK S : st \in Seq(S) /\ \A x \in S : EntryInv(x)
  BY DEF StoreInv
<1>2. IsFiniteSet(T) /\ T \in SUBSET Nat /\ \A i \in T : st[i] \in S
  <2>1. Len(st) \in Nat /\ DOMAIN st = 1 .. Len(st)
    BY <1>1, LenProperties
  <2>2. IsFiniteSet(1 .. Len(st))
    BY <2>1, FS_Interval
  <2> QED BY <1>1, <2>1, <2>2, FS_Subset, ElementOfSeq
<1> DEFINE c == Cardinality(T)
           f == InOrder(T)
           a == Among(st, T)
<1>3. c \in Nat /\ f \in [1 .. c -> T]
  BY <1>2, FS_CardinalityType, InOrderIs DEF Ordered
<1> HIDE DEF c, f
<1>4. a = [i \in 1 .. c |-> st[f[i]]]
  BY DEF Among, c, f
<1>5. a \in [1 .. c -> S] /\ DOMAIN a = 1 .. c
  BY <1>2, <1>3, <1>4
<1> HIDE DEF a
<1>6. a \in Seq(S)
  BY <1>3, <1>5, SeqDef
<1>7. Len(a) = c
  <2>1. Len(a) \in Nat /\ DOMAIN a = 1 .. Len(a)
    BY <1>6, LenProperties
  <2> QED BY <1>3, <1>5, <2>1
<1> QED BY <1>1, <1>6, <1>7 DEF a, c, StoreInv

LEMMA StoreAppend == ASSUME NEW st, StoreInv(st), NEW x, EntryInv(x)
                     PROVE  StoreInv(Append(st, x))
<1>1. PICK S : st \in Seq(S) /\ \A y \in S : EntryInv(y)
  BY DEF StoreInv
<1> DEFINE U == S \cup {x}
<1>2. st \in Seq(U) /\ x \in U /\ \A y \in U : EntryInv(y)
  BY <1>1, SeqMonotonic
<1> HIDE DEF U
<1>3. Append(st, x) \in Seq(U)
  BY <1>2
<1> QED BY <1>2, <1>3 DEF StoreInv

LEMMA StoreUsed == ASSUME NEW st, StoreInv(st), NEW i \in DOMAIN st
                   PROVE  StoreInv(Used(st, i)) /\ Len(Used(st, i)) = Len(st)
<1>1. PICK S : st \in Seq(S) /\ \A y \in S : EntryInv(y)
  BY DEF StoreInv
<1>2. Len(st) \in Nat /\ i \in 1 .. Len(st) /\ \A j \in 1 .. Len(st) : st[j] \in S
  BY <1>1, LenProperties, ElementOfSeq
<1> DEFINE a == SubSeq(st, 1, i - 1)
           b == SubSeq(st, i + 1, Len(st))
<1>3. a \in Seq(S) /\ Len(a) = i - 1
  BY <1>2, SubSeqProperties
<1>4. b \in Seq(S) /\ Len(b) = Len(st) - i
  <2>1. b \in Seq(S) /\ Len(b) = IF i + 1 <= Len(st) THEN Len(st) - (i + 1) + 1 ELSE 0
    BY <1>2, SubSeqProperties
  <2> QED BY <1>2, <2>1
<1> HIDE DEF a, b
<1>5. a \o b \in Seq(S) /\ Len(a \o b) = Len(st) - 1
  BY <1>2, <1>3, <1>4, ConcatProperties
<1>6. Append(a \o b, st[i]) \in Seq(S) /\ Len(Append(a \o b, st[i])) = Len(st)
  BY <1>2, <1>5, AppendProperties
<1>7. Used(st, i) = Append(a \o b, st[i])
  BY DEF Used, RemoveAt, a, b
<1> QED BY <1>1, <1>6, <1>7 DEF StoreInv

LEMMA StoreProven == ASSUME NEW st, StoreInv(st), NEW n \in 1 .. Len(st)
                     PROVE  StoreInv([st EXCEPT ![n].proven = TRUE])
<1>1. PICK S : st \in Seq(S) /\ \A y \in S : EntryInv(y)
  BY DEF StoreInv
<1> DEFINE x == [st[n] EXCEPT !.proven = TRUE]
           U == S \cup {x}
<1>2. EntryInv(st[n])
  BY <1>1, ElementOfSeq
<1>3. /\ DOMAIN x = DOMAIN st[n] /\ x.key = st[n].key /\ x.toks = st[n].toks
      /\ x.rows = st[n].rows /\ x.fold = st[n].fold
  BY <1>2 DEF EntryInv
<1>4. EntryInv(x)
  BY <1>2, <1>3 DEF EntryInv
<1> HIDE DEF x
<1>5. st \in Seq(U) /\ x \in U /\ \A y \in U : EntryInv(y)
  BY <1>1, <1>4, SeqMonotonic
<1> HIDE DEF U
<1>6. [st EXCEPT ![n] = x] \in Seq(U)
  BY <1>5, ExceptSeq
<1>7. [st EXCEPT ![n].proven = TRUE] = [st EXCEPT ![n] = x]
  BY DEF x
<1> QED BY <1>5, <1>6, <1>7 DEF StoreInv

LEMMA InOrderSeq == ASSUME NEW n \in Nat, NEW T \in SUBSET (1 .. n)
                    PROVE  /\ InOrder(T) \in Seq(1 .. n) /\ Len(InOrder(T)) = Cardinality(T)
                           /\ IsFiniteSet(T) /\ Cardinality(T) \in Nat
<1>1. IsFiniteSet(T) /\ T \in SUBSET Nat
  <2>1. IsFiniteSet(1 .. n)
    BY FS_Interval
  <2>2. IsFiniteSet(T)
    BY <2>1, FS_Subset
  <2> QED BY <2>2
<1>2. Cardinality(T) \in Nat
  BY <1>1, FS_CardinalityType
<1> DEFINE f == InOrder(T)
           c == Cardinality(T)
<1>3. f \in [1 .. c -> T]
  BY <1>1, InOrderIs DEF Ordered
<1> HIDE DEF f, c
<1>4. f \in [1 .. c -> 1 .. n] /\ DOMAIN f = 1 .. c
  BY <1>3
<1>5. f \in Seq(1 .. n)
  BY <1>2, <1>4, SeqDef DEF c
<1>6. Len(f) = c
  <2>1. Len(f) \in Nat /\ DOMAIN f = 1 .. Len(f)
    BY <1>5, LenProperties
  <2> QED BY <1>2, <1>4, <2>1 DEF c
<1> QED BY <1>1, <1>2, <1>5, <1>6 DEF f, c

LEMMA StoreTrim == ASSUME NEW st, StoreInv(st), NEW need
                   PROVE  StoreInv(Trim(st, need))
<1> DEFINE P == {i \in DOMAIN st : st[i].proven}
           order == InOrder(DOMAIN st \ P) \o InOrder(P)
           Left(k) == Among(st, {order[i] : i \in k + 1 .. Len(order)})
           Fits(k) == \/ k = Len(order)
                      \/ Bytes(Left(k)) + need <= conf.budget /\ Len(order) - k < MaxEntries
           K == {k \in 0 .. Len(order) : Fits(k)}
<1>1. Len(st) \in Nat /\ DOMAIN st = 1 .. Len(st)
  BY StoreFacts
<1>2. order \in Seq(DOMAIN st)
  <2> HIDE DEF P
  <2>1. DOMAIN st \ P \in SUBSET (1 .. Len(st)) /\ P \in SUBSET (1 .. Len(st))
    BY <1>1 DEF P
  <2>2. InOrder(DOMAIN st \ P) \in Seq(DOMAIN st) /\ InOrder(P) \in Seq(DOMAIN st)
    BY <1>1, <2>1, InOrderSeq
  <2> QED BY <2>2, ConcatProperties
<1> HIDE DEF order
<1>3. Len(order) \in Nat
  BY <1>2, LenProperties
<1>4. Min(K) \in 0 .. Len(order)
  <2>1. Len(order) \in K /\ K \subseteq Nat
    BY <1>3
  <2> HIDE DEF Fits
  <2>2. Min(K) \in K
    <3> HIDE DEF K
    <3> QED BY <2>1, MinOfNats
  <2> QED BY <2>2
<1>5. Trim(st, need) = Left(Min(K))
  BY DEF Trim, order
<1> HIDE DEF K
<1>6. {order[i] : i \in Min(K) + 1 .. Len(order)} \in SUBSET DOMAIN st
  <2>1. ASSUME NEW i \in Min(K) + 1 .. Len(order) PROVE order[i] \in DOMAIN st
    <3>1. i \in 1 .. Len(order)
      BY <1>3, <1>4
    <3> QED BY <1>2, <3>1, ElementOfSeq
  <2> QED BY <2>1
<1> QED BY <1>5, <1>6, StoreAmong

-----------------------------------------------------------------------------
(* The store stays within its bounds, and no entry covers another.          *)

Weights(st) == [i \in DOMAIN st |-> EntryBytes(Len(st[i].toks))]

NoCover(st) == \A i, j \in DOMAIN st : i # j => ~Covers(st[i], st[j].key, st[j].toks)

Lean(st) == Bytes(st) <= conf.budget /\ Len(st) <= MaxEntries /\ NoCover(st)

LEMMA StoreBytes ==
  ASSUME NEW st, StoreInv(st)
  PROVE  /\ Bytes(st) = Sum(Weights(st), DOMAIN st) /\ IsFiniteSet(DOMAIN st)
         /\ \A i \in DOMAIN st : Weights(st)[i] \in Nat
         /\ Bytes(st) \in Nat
<1> DEFINE S == DOMAIN st
           f == Weights(st)
           Is(g) == g = [s \in SUBSET S |->
                   IF s = {} THEN 0
                   ELSE EntryBytes(Len(st[CHOOSE x \in s : TRUE].toks))
                          + g[s \ {CHOOSE x \in s : TRUE}]]
           G == CHOOSE g : Is(g)
<1>1. Bytes(st) = G[S]
  BY DEF Bytes, MapThenSumSet, MapThenFoldSet
<1>2. IsFiniteSet(S)
  <2>1. Len(st) \in Nat /\ S = 1 .. Len(st)
    BY StoreFacts
  <2> QED BY <2>1, FS_Interval
<1>3. \A i \in S : f[i] = EntryBytes(Len(st[i].toks))
  BY DEF Weights
<1>4. \A g : Adds(f, S, g) <=> Is(g)
  <2>1. \A s \in SUBSET S : s # {} => f[Next1(s)] = EntryBytes(Len(st[Next1(s)].toks))
    BY <1>3, NextIn
  <2> HIDE DEF f
  <2> QED BY <2>1 DEF Adds, Next1
<1>5. \E g : Adds(f, S, g)
  BY <1>2, AddsExists
<1>6. Adds(f, S, G)
  <2> HIDE DEF Is, f, S
  <2> QED BY <1>4, <1>5
<1>7. \A i \in S : f[i] \in Nat
  <2> SUFFICES ASSUME NEW i \in S PROVE f[i] \in Nat
    OBVIOUS
  <2>1. st[i].toks \in Seq(Tokens)
    BY StoreFacts DEF EntryInv
  <2>2. Len(st[i].toks) \in Nat
    BY <2>1, LenProperties
  <2> DEFINE l == Len(st[i].toks)
  <2> HIDE DEF l, f, S
  <2>3. l \in Nat /\ f[i] = EntryBytes(l)
    BY <1>3, <2>2 DEF l
  <2> QED BY <2>3 DEF EntryBytes
<1> HIDE DEF f, G, S
<1>8. Bytes(st) = Sum(f, S)
  BY <1>1, <1>2, <1>6, SumAdds
<1>9. Sum(f, S) \in Nat
  BY <1>2, <1>7, SumNat
<1> QED BY <1>2, <1>7, <1>8, <1>9 DEF f, S

LEMMA IntervalSize == ASSUME NEW n \in Nat PROVE IsFiniteSet(1 .. n) /\ Cardinality(1 .. n) = n
<1>1. IsFiniteSet(1 .. n) /\ Cardinality(1 .. n) = IF 1 > n THEN 0 ELSE n - 1 + 1
  BY FS_Interval
<1> QED BY <1>1

\* A store whose entries are some of another's takes no more room and covers no more.
LEMMA StoreWithin ==
  ASSUME NEW st, StoreInv(st), NEW a, StoreInv(a), NEW f \in [DOMAIN a -> DOMAIN st],
         \A i, j \in DOMAIN a : f[i] = f[j] => i = j,
         \A i \in DOMAIN a : a[i].key = st[f[i]].key /\ a[i].toks = st[f[i]].toks
  PROVE  /\ Bytes(a) <= Bytes(st) /\ Len(a) <= Len(st) /\ (NoCover(st) => NoCover(a))
<1>1. /\ Len(a) \in Nat /\ DOMAIN a = 1 .. Len(a) /\ Len(st) \in Nat /\ DOMAIN st = 1 .. Len(st)
  BY StoreFacts
<1>2. Bytes(a) <= Bytes(st)
  <2>1. /\ Bytes(st) = Sum(Weights(st), DOMAIN st) /\ IsFiniteSet(DOMAIN st)
        /\ \A i \in DOMAIN st : Weights(st)[i] \in Nat
    BY StoreBytes
  <2>2. /\ Bytes(a) = Sum(Weights(a), DOMAIN a) /\ IsFiniteSet(DOMAIN a)
        /\ \A i \in DOMAIN a : Weights(a)[i] \in Nat
    BY StoreBytes
  <2>3. \A i \in DOMAIN a : Weights(a)[i] = Weights(st)[f[i]]
    BY DEF Weights
  <2> HIDE DEF Weights
  <2>4. \A i \in DOMAIN a : Weights(a)[i] \in Int /\ Weights(a)[i] <= Weights(st)[f[i]]
    BY <2>2, <2>3
  <2>5. Sum(Weights(a), DOMAIN a) <= Sum(Weights(st), DOMAIN st)
    BY <2>1, <2>2, <2>4, SumInto
  <2> QED BY <2>1, <2>2, <2>5
<1>3. Len(a) <= Len(st)
  <2> SUFFICES ASSUME Len(st) < Len(a) PROVE FALSE
    BY <1>1
  <2>1. /\ IsFiniteSet(DOMAIN a) /\ Cardinality(DOMAIN a) = Len(a)
        /\ IsFiniteSet(DOMAIN st) /\ Cardinality(DOMAIN st) = Len(st)
    BY <1>1, IntervalSize
  <2>2. \E i, j \in DOMAIN a : i # j /\ f[i] = f[j]
    BY <2>1, FS_PigeonHole
  <2> QED BY <2>2
<1>4. NoCover(st) => NoCover(a)
  BY DEF NoCover, Covers
<1> QED BY <1>2, <1>3, <1>4

LEMMA LeanWithin ==
  ASSUME ConfType, NEW st, StoreInv(st), Lean(st), NEW a, StoreInv(a),
         NEW f \in [DOMAIN a -> DOMAIN st],
         \A i, j \in DOMAIN a : f[i] = f[j] => i = j,
         \A i \in DOMAIN a : a[i].key = st[f[i]].key /\ a[i].toks = st[f[i]].toks
  PROVE  Lean(a)
<1>1. Bytes(a) <= Bytes(st) /\ Len(a) <= Len(st) /\ (NoCover(st) => NoCover(a))
  BY StoreWithin
<1>2. Bytes(a) \in Nat /\ Bytes(st) \in Nat /\ Len(a) \in Nat /\ Len(st) \in Nat
      /\ conf.budget \in Nat /\ MaxEntries \in Nat
  BY StoreBytes, StoreFacts, BoundsAssumption DEF ConfType
<1> QED BY <1>1, <1>2 DEF Lean

LEMMA LeanTail == ASSUME ConfType, NEW st, StoreInv(st), Lean(st), NEW i \in 1 .. Len(st) + 1
                  PROVE  Lean(SubSeq(st, i, Len(st)))
<1> DEFINE a == SubSeq(st, i, Len(st))
           f == [j \in DOMAIN a |-> i + j - 1]
<1>1. PICK S : st \in Seq(S)
  BY DEF StoreInv
<1>2. Len(st) \in Nat /\ DOMAIN st = 1 .. Len(st) /\ \A j \in i .. Len(st) : st[j] \in S
  BY <1>1, LenProperties, ElementOfSeq
<1>3. /\ Len(a) = (IF i <= Len(st) THEN Len(st) - i + 1 ELSE 0)
      /\ \A j \in 1 .. Len(st) - i + 1 : a[j] = st[i + j - 1]
  BY <1>2, SubSeqProperties
<1>4. StoreInv(a)
  BY StoreTail
<1>5. DOMAIN a = 1 .. Len(a)
  BY <1>4, StoreFacts
<1> HIDE DEF a
<1>6. \A j \in DOMAIN a : i + j - 1 \in DOMAIN st /\ a[j] = st[i + j - 1]
  BY <1>2, <1>3, <1>5
<1>7. f \in [DOMAIN a -> DOMAIN st] /\ \A j \in DOMAIN a : f[j] = i + j - 1
  BY <1>6
<1> HIDE DEF f
<1>8. \A j, k \in DOMAIN a : f[j] = f[k] => j = k
  BY <1>2, <1>5, <1>7
<1>9. \A j \in DOMAIN a : a[j].key = st[f[j]].key /\ a[j].toks = st[f[j]].toks
  BY <1>6, <1>7
<1>10. Lean(a)
  BY <1>4, <1>7, <1>8, <1>9, LeanWithin
<1> QED BY <1>10 DEF a

LEMMA LeanUsed == ASSUME ConfType, NEW st, StoreInv(st), Lean(st), NEW n \in DOMAIN st
                  PROVE  Lean(Used(st, n))
<1> DEFINE a == Used(st, n)
           b == SubSeq(st, 1, n - 1)
           c == SubSeq(st, n + 1, Len(st))
           l == Len(st)
           f == [j \in DOMAIN a |-> IF j < n THEN j ELSE IF j < l THEN j + 1 ELSE n]
<1>1. PICK S : st \in Seq(S)
  BY DEF StoreInv
<1>2. l \in Nat /\ DOMAIN st = 1 .. l /\ n \in 1 .. l /\ \A j \in 1 .. l : st[j] \in S
  BY <1>1, LenProperties, ElementOfSeq
<1>3. b \in Seq(S) /\ Len(b) = n - 1 /\ \A j \in 1 .. n - 1 : b[j] = st[j]
  <2>1. /\ b \in Seq(S) /\ Len(b) = (IF 1 <= n - 1 THEN n - 1 - 1 + 1 ELSE 0)
        /\ \A j \in 1 .. n - 1 - 1 + 1 : b[j] = st[1 + j - 1]
    BY <1>2, SubSeqProperties
  <2> HIDE DEF b
  <2> QED BY <1>2, <2>1
<1>4. c \in Seq(S) /\ Len(c) = l - n /\ \A j \in 1 .. l - n : c[j] = st[n + j]
  <2>1. /\ c \in Seq(S) /\ Len(c) = (IF n + 1 <= l THEN l - (n + 1) + 1 ELSE 0)
        /\ \A j \in 1 .. l - (n + 1) + 1 : c[j] = st[(n + 1) + j - 1]
    BY <1>2, SubSeqProperties
  <2> HIDE DEF c, l
  <2>2. Len(c) = l - n
    BY <1>2, <2>1
  <2>3. ASSUME NEW j \in 1 .. l - n PROVE c[j] = st[n + j]
    <3>1. j \in 1 .. l - (n + 1) + 1 /\ (n + 1) + j - 1 = n + j
      BY <1>2
    <3> QED BY <2>1, <3>1
  <2> QED BY <2>1, <2>2, <2>3
<1>5. a = Append(b \o c, st[n])
  BY DEF Used, RemoveAt
<1>6. StoreInv(a) /\ Len(a) = l
  BY StoreUsed
<1>7. DOMAIN a = 1 .. l
  BY <1>6, StoreFacts
<1> HIDE DEF a, b, c, l
<1>8. /\ b \o c \in Seq(S) /\ Len(b \o c) = l - 1
      /\ \A j \in 1 .. l - 1 : (b \o c)[j] = IF j < n THEN st[j] ELSE st[j + 1]
  <2>1. /\ b \o c \in Seq(S) /\ Len(b \o c) = Len(b) + Len(c)
        /\ \A j \in 1 .. Len(b) + Len(c) : (b \o c)[j] = IF j <= Len(b) THEN b[j] ELSE c[j - Len(b)]
    BY <1>3, <1>4, ConcatProperties
  <2>2. Len(b) + Len(c) = l - 1
    BY <1>2, <1>3, <1>4
  <2>3. ASSUME NEW j \in 1 .. l - 1 PROVE (b \o c)[j] = IF j < n THEN st[j] ELSE st[j + 1]
    <3>1. CASE j < n
      <4>1. j \in 1 .. n - 1 /\ j <= n - 1
        BY <1>2, <3>1
      <4> QED BY <1>3, <2>1, <2>2, <3>1, <4>1
    <3>2. CASE ~(j < n)
      <4>1. j - (n - 1) \in 1 .. l - n /\ ~(j <= n - 1) /\ n + (j - (n - 1)) = j + 1
        BY <1>2, <3>2
      <4>2. (b \o c)[j] = c[j - (n - 1)]
        BY <1>3, <2>1, <2>2, <4>1
      <4>3. c[j - (n - 1)] = st[n + (j - (n - 1))]
        BY <1>4, <4>1
      <4> QED BY <3>2, <4>1, <4>2, <4>3
    <3> QED BY <3>1, <3>2
  <2> QED BY <2>1, <2>2, <2>3
<1>9. /\ \A j \in 1 .. l - 1 : a[j] = IF j < n THEN st[j] ELSE st[j + 1]
      /\ a[l] = st[n]
  <2> DEFINE d == b \o c
  <2>1. d \in Seq(S) /\ Len(d) = l - 1 /\ st[n] \in S /\ a = Append(d, st[n])
    BY <1>2, <1>5, <1>8
  <2> HIDE DEF d
  <2>2. /\ \A i \in 1 .. Len(d) : Append(d, st[n])[i] = d[i]
        /\ Append(d, st[n])[Len(d) + 1] = st[n]
    BY <2>1, AppendProperties
  <2>3. Len(d) + 1 = l
    BY <1>2, <2>1
  <2> QED BY <1>8, <2>1, <2>2, <2>3 DEF d
<1>10. f \in [DOMAIN a -> DOMAIN st]
  BY <1>2, <1>7
<1>11. \A j \in 1 .. l : f[j] = IF j < n THEN j ELSE IF j < l THEN j + 1 ELSE n
  BY <1>7
<1> HIDE DEF f
<1>12. \A i, j \in DOMAIN a : f[i] = f[j] => i = j
  BY <1>2, <1>7, <1>11
<1>13. \A j \in DOMAIN a : a[j] = st[f[j]]
  <2> SUFFICES ASSUME NEW j \in 1 .. l PROVE a[j] = st[f[j]]
    BY <1>7
  <2>1. CASE j = l
    <3>1. f[j] = n
      BY <1>2, <1>11, <2>1
    <3> QED BY <1>9, <2>1, <3>1
  <2>2. CASE j # l
    <3>1. j \in 1 .. l - 1 /\ j < l
      BY <1>2, <2>2
    <3> QED BY <1>9, <1>11, <3>1
  <2> QED BY <2>1, <2>2
<1>14. Lean(a)
  BY <1>6, <1>10, <1>12, <1>13, LeanWithin
<1> QED BY <1>14 DEF a

LEMMA LeanProven == ASSUME ConfType, NEW st, StoreInv(st), Lean(st), NEW n \in 1 .. Len(st)
                    PROVE  Lean([st EXCEPT ![n].proven = TRUE])
<1> DEFINE x == [st[n] EXCEPT !.proven = TRUE]
           a == [st EXCEPT ![n] = x]
           f == [j \in DOMAIN a |-> j]
<1>1. [st EXCEPT ![n].proven = TRUE] = a
  OBVIOUS
<1>2. StoreInv(a)
  BY <1>1, StoreProven
<1>3. DOMAIN st = 1 .. Len(st) /\ EntryInv(st[n])
  BY StoreFacts
<1>4. x.key = st[n].key /\ x.toks = st[n].toks
  BY <1>3 DEF EntryInv
<1> HIDE DEF x
<1>5. DOMAIN a = DOMAIN st /\ \A j \in DOMAIN a : a[j] = IF j = n THEN x ELSE st[j]
  OBVIOUS
<1> HIDE DEF a
<1>6. f \in [DOMAIN a -> DOMAIN st] /\ \A j \in DOMAIN a : f[j] = j
  BY <1>5
<1> HIDE DEF f
<1>7. /\ \A i, j \in DOMAIN a : f[i] = f[j] => i = j
      /\ \A j \in DOMAIN a : a[j].key = st[f[j]].key /\ a[j].toks = st[f[j]].toks
  BY <1>4, <1>5, <1>6
<1>8. Lean(a)
  BY <1>2, <1>6, <1>7, LeanWithin
<1> QED BY <1>1, <1>8

\* The entries at some positions, each of them once.
LEMMA AmongIs ==
  ASSUME NEW st, StoreInv(st), NEW T \in SUBSET DOMAIN st
  PROVE  \E f \in [DOMAIN Among(st, T) -> T] :
           /\ \A i, j \in DOMAIN Among(st, T) : f[i] = f[j] => i = j
           /\ \A i \in DOMAIN Among(st, T) : Among(st, T)[i] = st[f[i]]
<1> DEFINE c == Cardinality(T)
           f == InOrder(T)
           a == Among(st, T)
<1>1. IsFiniteSet(T) /\ T \in SUBSET Nat
  <2>1. Len(st) \in Nat /\ DOMAIN st = 1 .. Len(st)
    BY StoreFacts
  <2> QED BY <2>1, IntervalSize, FS_Subset
<1>2. f \in [1 .. c -> T] /\ \A i, j \in DOMAIN f : i < j => f[i] < f[j]
  BY <1>1, InOrderIs DEF Ordered
<1>3. c \in Nat
  BY <1>1, FS_CardinalityType
<1>4. a = [i \in 1 .. c |-> st[f[i]]]
  BY DEF Among
<1> HIDE DEF a, c, f
<1>5. DOMAIN a = 1 .. c /\ \A i \in 1 .. c : a[i] = st[f[i]]
  BY <1>4
<1>6. ASSUME NEW i \in 1 .. c, NEW j \in 1 .. c, f[i] = f[j] PROVE i = j
  <2>1. f[i] \in Nat
    BY <1>1, <1>2
  <2>2. CASE i < j
    BY <1>2, <1>6, <2>1, <2>2
  <2>3. CASE j < i
    BY <1>2, <1>6, <2>1, <2>3
  <2> QED BY <2>2, <2>3
<1>7. f \in [DOMAIN a -> T]
  BY <1>2, <1>5
<1>8. /\ \A i, j \in DOMAIN a : f[i] = f[j] => i = j
      /\ \A i \in DOMAIN a : a[i] = st[f[i]]
  BY <1>5, <1>6
<1> QED BY <1>7, <1>8 DEF a

LEMMA LeanAmong == ASSUME ConfType, NEW st, StoreInv(st), Lean(st), NEW T \in SUBSET DOMAIN st
                   PROVE  Lean(Among(st, T))
<1> DEFINE a == Among(st, T)
<1>1. PICK f \in [DOMAIN a -> T] :
        /\ \A i, j \in DOMAIN a : f[i] = f[j] => i = j
        /\ \A i \in DOMAIN a : a[i] = st[f[i]]
  BY AmongIs
<1>2. StoreInv(a)
  BY StoreAmong
<1> HIDE DEF a
<1>3. f \in [DOMAIN a -> DOMAIN st]
  BY <1>1
<1>4. Lean(a)
  BY <1>1, <1>2, <1>3, LeanWithin
<1> QED BY <1>4 DEF a

\* As many values as indices at most.
LEMMA ValuesOf ==
  ASSUME NEW n \in Nat, NEW m \in Nat, NEW o, NEW T,
         \A t \in T : \E i \in n + 1 .. m : o[i] = t, IsFiniteSet(T), n <= m
  PROVE  Cardinality(T) \in Nat /\ Cardinality(T) <= m - n
<1> DEFINE R == n + 1 .. m
           g == [t \in T |-> CHOOSE i \in R : o[i] = t]
<1>1. IsFiniteSet(R) /\ Cardinality(R) = m - n
  <2>1. IsFiniteSet(R) /\ Cardinality(R) = IF n + 1 > m THEN 0 ELSE m - (n + 1) + 1
    BY FS_Interval
  <2> HIDE DEF R
  <2> QED BY <2>1
<1>2. Cardinality(T) \in Nat
  BY FS_CardinalityType
<1>3. \A t \in T : g[t] \in R /\ o[g[t]] = t
  OBVIOUS
<1>4. g \in [T -> R]
  BY <1>3
<1> HIDE DEF g, R
<1>5. \A t, u \in T : g[t] = g[u] => t = u
  BY <1>3
<1>6. ~(m - n < Cardinality(T))
  BY <1>1, <1>4, <1>5, FS_PigeonHole
<1> QED BY <1>2, <1>6

\* What pfx_trim leaves has room for the entry it makes room for.
LEMMA TrimFits ==
  ASSUME ConfType, NEW st, StoreInv(st), NEW need \in Nat
  PROVE  \E T \in SUBSET DOMAIN st :
           /\ Trim(st, need) = Among(st, T)
           /\ Len(Trim(st, need)) < MaxEntries
<1> DEFINE P == {i \in DOMAIN st : st[i].proven}
           order == InOrder(DOMAIN st \ P) \o InOrder(P)
           Kept(k) == {order[i] : i \in k + 1 .. Len(order)}
           Left(k) == Among(st, Kept(k))
           Fits(k) == \/ k = Len(order)
                      \/ Bytes(Left(k)) + need <= conf.budget /\ Len(order) - k < MaxEntries
           K == {k \in 0 .. Len(order) : Fits(k)}
           n == Min(K)
<1>1. Len(st) \in Nat /\ DOMAIN st = 1 .. Len(st)
  BY StoreFacts
<1>2. order \in Seq(DOMAIN st)
  <2> HIDE DEF P
  <2>1. DOMAIN st \ P \in SUBSET (1 .. Len(st)) /\ P \in SUBSET (1 .. Len(st))
    BY <1>1 DEF P
  <2>2. InOrder(DOMAIN st \ P) \in Seq(DOMAIN st) /\ InOrder(P) \in Seq(DOMAIN st)
    BY <1>1, <2>1, InOrderSeq
  <2> QED BY <2>2, ConcatProperties
<1>3. Trim(st, need) = Left(n)
  BY DEF Trim
<1> HIDE DEF order
<1>4. Len(order) \in Nat
  BY <1>2, LenProperties
<1>5. n \in K
  <2>1. Len(order) \in K /\ K \subseteq Nat
    BY <1>4
  <2> HIDE DEF Fits, K
  <2> QED BY <2>1, MinOfNats
<1>6. n \in 0 .. Len(order) /\ (n = Len(order) \/ Len(order) - n < MaxEntries)
  <2> HIDE DEF n, Left
  <2> QED BY <1>5
<1> HIDE DEF K, n
<1> DEFINE T == Kept(n)
<1>7. T \in SUBSET DOMAIN st
  <2>1. ASSUME NEW i \in n + 1 .. Len(order) PROVE order[i] \in DOMAIN st
    <3>1. i \in 1 .. Len(order)
      BY <1>4, <1>6
    <3> QED BY <1>2, <3>1, ElementOfSeq
  <2> QED BY <2>1
<1>8. IsFiniteSet(T)
  <2> HIDE DEF T
  <2> QED BY <1>1, <1>7, IntervalSize, FS_Subset
<1>9. Cardinality(T) \in Nat /\ Cardinality(T) <= Len(order) - n
  <2>1. n \in Nat /\ n <= Len(order) /\ \A t \in T : \E i \in n + 1 .. Len(order) : order[i] = t
    BY <1>4, <1>6
  <2> HIDE DEF T
  <2> QED BY <1>4, <1>8, <2>1, ValuesOf
<1>10. Cardinality(T) < MaxEntries
  <2> HIDE DEF T
  <2> QED BY <1>4, <1>6, <1>9, BoundsAssumption
<1>11. Len(Among(st, T)) = Cardinality(T)
  <2> HIDE DEF T
  <2> QED BY <1>7, StoreAmong
<1> QED BY <1>3, <1>7, <1>10, <1>11

LEMMA LeanAppend ==
  ASSUME ConfType, NEW st, StoreInv(st), Lean(st), NEW x, EntryInv(x),
         Bytes(st) + EntryBytes(Len(x.toks)) <= conf.budget, Len(st) < MaxEntries,
         \A i \in DOMAIN st : /\ ~Covers(st[i], x.key, x.toks)
                              /\ ~Covers(x, st[i].key, st[i].toks)
  PROVE  Lean(Append(st, x))
<1> DEFINE a == Append(st, x)
           l == Len(st)
<1>1. StoreInv(a)
  BY StoreAppend
<1>2. l \in Nat /\ DOMAIN st = 1 .. l
  BY StoreFacts
<1>3. Len(a) = l + 1 /\ a[l + 1] = x /\ \A i \in 1 .. l : a[i] = st[i]
  <2>1. PICK S : st \in Seq(S)
    BY DEF StoreInv
  <2>2. st \in Seq(S \cup {x}) /\ x \in S \cup {x}
    BY <2>1, SeqMonotonic
  <2> QED BY <2>2, AppendProperties
<1>4. DOMAIN a = 1 .. l + 1 /\ DOMAIN a \ {l + 1} = DOMAIN st /\ l + 1 \in DOMAIN a
  <2>1. DOMAIN a = 1 .. l + 1
    BY <1>1, <1>3, StoreFacts
  <2> QED BY <1>2, <2>1
<1> HIDE DEF a, l
<1>5. Bytes(a) = EntryBytes(Len(x.toks)) + Bytes(st)
  <2> DEFINE f == Weights(a)
             g == Weights(st)
  <2>1. /\ Bytes(a) = Sum(f, DOMAIN a) /\ IsFiniteSet(DOMAIN a)
        /\ \A i \in DOMAIN a : f[i] \in Nat
    BY <1>1, StoreBytes
  <2>2. Bytes(st) = Sum(g, DOMAIN st) /\ IsFiniteSet(DOMAIN st)
    BY StoreBytes
  <2>3. f[l + 1] = EntryBytes(Len(x.toks)) /\ \A i \in DOMAIN st : f[i] = g[i]
    BY <1>2, <1>3, <1>4 DEF Weights
  <2> HIDE DEF f, g
  <2>4. Sum(f, DOMAIN a) = f[l + 1] + Sum(f, DOMAIN a \ {l + 1})
    <3>1. \A i \in DOMAIN a : f[i] \in Int
      BY <2>1
    <3> QED BY <1>4, <2>1, <3>1, SumIn
  <2>5. Sum(f, DOMAIN st) = Sum(g, DOMAIN st)
    BY <2>2, <2>3, SumSame
  <2> QED BY <1>4, <2>1, <2>2, <2>3, <2>4, <2>5
<1>6. Bytes(a) <= conf.budget
  <2>1. Len(x.toks) \in Nat /\ Bytes(st) \in Nat
    BY StoreBytes, LenProperties DEF EntryInv
  <2>2. EntryBytes(Len(x.toks)) \in Nat
    <3> DEFINE n == Len(x.toks)
    <3> HIDE DEF n
    <3>1. n \in Nat
      BY <2>1 DEF n
    <3>2. EntryBytes(n) \in Nat
      BY <3>1 DEF EntryBytes
    <3> QED BY <3>2 DEF n
  <2> QED BY <1>5, <2>1, <2>2
<1>7. Len(a) <= MaxEntries
  BY <1>2, <1>3, BoundsAssumption DEF l
<1>8. NoCover(a)
  <2> SUFFICES ASSUME NEW i \in 1 .. l + 1, NEW j \in 1 .. l + 1, i # j
               PROVE  ~Covers(a[i], a[j].key, a[j].toks)
    BY <1>4 DEF NoCover
  <2>1. CASE i = l + 1
    <3>1. j \in 1 .. l
      BY <1>2, <2>1
    <3> QED BY <1>2, <1>3, <2>1, <3>1
  <2>2. CASE j = l + 1
    <3>1. i \in 1 .. l
      BY <1>2, <2>2
    <3> QED BY <1>2, <1>3, <2>2, <3>1
  <2>3. CASE i # l + 1 /\ j # l + 1
    <3>1. i \in 1 .. l /\ j \in 1 .. l
      BY <1>2, <2>3
    <3> QED BY <1>2, <1>3, <3>1 DEF Lean, NoCover
  <2> QED BY <2>1, <2>2, <2>3
<1>9. Lean(a)
  BY <1>6, <1>7, <1>8 DEF Lean
<1> QED BY <1>9 DEF a

LEMMA LeanStoreTo ==
  ASSUME ConfType, NEW x, NEW kept, StoreInv(kept), Lean(kept), NEW toks, NEW n \in Nat,
         \/ {i \in DOMAIN kept : Covers(kept[i], x.key, Prefix(toks, n))} # {}
         \/ /\ EntryInv(Snapshot(x, n)) /\ Snapshot(x, n).toks = Prefix(toks, n)
            /\ Len(Prefix(toks, n)) = n
            /\ \A i \in DOMAIN kept : ~Covers(Snapshot(x, n), kept[i].key, kept[i].toks),
         NEW st \in StoreTo(x, kept, toks, n)
  PROVE  Lean(st)
<1> DEFINE left == Trim(kept, EntryBytes(n))
           C == {i \in DOMAIN kept : Covers(kept[i], x.key, Prefix(toks, n))}
           y == Snapshot(x, n)
<1>1. CASE C # {}
  <2>1. PICK i \in DOMAIN kept : st = Used(kept, i)
    BY <1>1 DEF StoreTo
  <2> QED BY <2>1, LeanUsed
<1>2. CASE C = {}
  <2>1. /\ EntryInv(y) /\ y.toks = Prefix(toks, n) /\ Len(y.toks) = n
        /\ \A i \in DOMAIN kept : ~Covers(y, kept[i].key, kept[i].toks)
    BY <1>2
  <2>2. \/ st = left
        \/ st = Append(left, y) /\ ~(Bytes(left) + EntryBytes(n) > conf.budget)
    BY <1>2 DEF StoreTo
  <2>3. EntryBytes(n) \in Nat /\ y.key = x.key
    BY DEF EntryBytes, Snapshot
  <2> HIDE DEF y
  <2>4. PICK T \in SUBSET DOMAIN kept : left = Among(kept, T) /\ Len(left) < MaxEntries
    BY <2>3, TrimFits
  <2> HIDE DEF left
  <2>5. StoreInv(left) /\ Lean(left)
    BY <2>4, StoreAmong, LeanAmong
  <2>6. \A i \in DOMAIN left : \E j \in DOMAIN kept : left[i] = kept[j]
    BY <2>4, AmongIs
  <2>7. CASE st = Append(left, y) /\ ~(Bytes(left) + EntryBytes(n) > conf.budget)
    <3>1. Bytes(left) + EntryBytes(Len(y.toks)) <= conf.budget
      BY <2>1, <2>3, <2>5, <2>7, StoreBytes DEF ConfType
    <3>2. \A j \in DOMAIN kept : ~Covers(kept[j], y.key, y.toks)
      BY <1>2, <2>1, <2>3
    <3>3. \A i \in DOMAIN left : /\ ~Covers(left[i], y.key, y.toks)
                                 /\ ~Covers(y, left[i].key, left[i].toks)
      BY <2>1, <2>6, <3>2
    <3> QED BY <2>1, <2>4, <2>5, <2>7, <3>1, <3>3, LeanAppend
  <2> QED BY <2>2, <2>5, <2>7
<1> QED BY <1>1, <1>2

-----------------------------------------------------------------------------
(* Publication.                                                            *)

LEMMA SnapshotInv ==
  ASSUME ConfType, NEW x, SlotInv(x), x.pc = "publish", NEW n \in 0 .. Len(x.prompt),
         conf.recurrent /\ UncutFolds => n = Len(x.prompt)
  PROVE  EntryInv(Snapshot(x, n))
<1> DEFINE y == Snapshot(x, n)
           h == x.prompt
<1>1. /\ x.key \in Keys /\ h \in Seq(Tokens) /\ Len(h) \in Nat /\ x.hist = h
      /\ UncutFolds => Computed(x, h)
  BY LenProperties DEF SlotInv, SequenceInv, EngineType, Done
<1> HIDE DEF h
<1>2. n \in Nat /\ n \in 0 .. Len(h) /\ (conf.recurrent /\ UncutFolds => n = Len(h))
  BY <1>1 DEF h
<1>3. /\ DOMAIN y = {"key", "toks", "rows", "fold", "proven"}
      /\ y.key = x.key /\ y.toks = Prefix(h, n) /\ y.rows = SubSeq(x.kv, 1, n) /\ y.fold = x.fold
  BY DEF Snapshot, h
<1> HIDE DEF y
<1>4. y.toks \in Seq(Tokens) /\ Len(y.toks) = n
  BY <1>1, <1>2, <1>3, PrefixFacts
<1>5. \A q \in 0 .. n : Line(x.key, y.toks, q) = Line(x.key, h, q)
  BY <1>1, <1>2, <1>3, PrefixPrefix DEF Line
<1>6. ASSUME UncutFolds PROVE \A q \in 1 .. n : y.rows[q] = Line(x.key, h, q)
  <2> DEFINE v == Seq(Tokens \cup Keys)
  <2>1. \A q \in 1 .. n : x.kv[q] = Line(x.key, h, q)
    BY <1>1, <1>2, <1>6 DEF Computed
  <2>2. \A q \in 1 .. n : x.kv[q] \in v
    <3>1. \A q \in 1 .. n : q \in 0 .. Len(h)
      BY <1>2
    <3> QED BY <1>1, <2>1, <3>1, LineFacts
  <2> HIDE DEF v
  <2>3. \A q \in 1 .. n - 1 + 1 : SubSeq(x.kv, 1, n)[q] = x.kv[1 + q - 1]
    BY <1>2, <2>2, SubSeqProperties
  <2>4. \A q \in 1 .. n : SubSeq(x.kv, 1, n)[q] = x.kv[q]
    BY <1>2, <2>3
  <2> QED BY <1>3, <2>1, <2>4
<1>7. ASSUME UncutFolds, conf.recurrent PROVE y.fold = Line(x.key, y.toks, n)
  <2>1. n = Len(h)
    BY <1>2, <1>7
  <2>2. n > 0
    BY <1>7, <2>1 DEF ConfType, SlotInv, h
  <2>3. x.fold = Line(x.key, h, n)
    BY <1>1, <1>7, <2>1, <2>2 DEF Computed
  <2> QED BY <1>2, <1>3, <1>5, <2>3
<1>8. EntryInv(y)
  BY <1>1, <1>2, <1>3, <1>4, <1>5, <1>6, <1>7 DEF EntryInv
<1> QED BY <1>8 DEF y

LEMMA MaxOfNats == ASSUME NEW n \in Nat, NEW S \in SUBSET (0 .. n), S # {}
                   PROVE  Max(S) \in S
<1> DEFINE Short == {n - k : k \in S}
<1>1. Short \in SUBSET Nat /\ Short # {}
  <2>1. \A k \in S : k \in 0 .. n
    OBVIOUS
  <2>2. \A k \in S : n - k \in Nat
    BY <2>1
  <2> QED BY <2>2
<1>2. PICK m \in Short : \A k \in Short : m <= k
  <2> HIDE DEF Short
  <2> QED BY <1>1, SmallestNat
<1>3. PICK b \in S : m = n - b
  BY <1>2
<1>4. ASSUME NEW k \in S PROVE b >= k
  <2>1. m <= n - k
    BY <1>2
  <2> QED BY <1>3, <2>1
<1> QED BY <1>4 DEF Max

LEMMA StoreToInv ==
  ASSUME ConfType, NEW x, SlotInv(x), x.pc = "publish", NEW kept, StoreInv(kept), NEW toks,
         NEW n,
         \/ {i \in DOMAIN kept : Covers(kept[i], x.key, Prefix(toks, n))} # {}
         \/ n \in 0 .. Len(x.prompt) /\ (conf.recurrent /\ UncutFolds => n = Len(x.prompt)),
         NEW st \in StoreTo(x, kept, toks, n)
  PROVE  StoreInv(st)
<1> DEFINE left == Trim(kept, EntryBytes(n))
           C == {i \in DOMAIN kept : Covers(kept[i], x.key, Prefix(toks, n))}
<1>1. CASE C # {}
  <2>1. PICK i \in DOMAIN kept : st = Used(kept, i)
    BY <1>1 DEF StoreTo
  <2> QED BY <2>1, StoreUsed
<1>2. CASE C = {}
  <2>1. n \in 0 .. Len(x.prompt) /\ (conf.recurrent /\ UncutFolds => n = Len(x.prompt))
    BY <1>2
  <2>2. st = left \/ st = Append(left, Snapshot(x, n))
    BY <1>2 DEF StoreTo
  <2>3. StoreInv(left)
    BY StoreTrim
  <2>4. EntryInv(Snapshot(x, n))
    BY <2>1, SnapshotInv
  <2> HIDE DEF left
  <2> QED BY <2>2, <2>3, <2>4, StoreAppend
<1> QED BY <1>1, <1>2

LEMMA PublishedInv ==
  ASSUME ConfType, NEW x, SlotInv(x), x.pc = "publish", NEW st, StoreInv(st),
         NEW left \in Published(x, st)
  PROVE  StoreInv(left) /\ (Lean(st) => Lean(left))
<1> DEFINE half == conf.budget \div 2
           n == IF EntryBytes(Len(x.prompt)) > half THEN half \div EntryBytes(1)
                ELSE Len(x.prompt)
           toks == Prefix(x.prompt, n)
           C == {i \in DOMAIN st : Covers(st[i], x.key, toks)}
           T == {i \in DOMAIN st : ~(st[i].key = x.key /\ IsPrefix(st[i].toks, toks))}
           kept == Among(st, T)
           S == {0} \cup {Common(entry.toks, toks) :
                            entry \in {y \in Range(kept) : y.key = x.key}}
           d == Max(S)
           m == IF d >= MinTokens THEN d ELSE n
<1>1. Published(x, st) = IF n < MinTokens THEN {st}
                         ELSE IF C # {} THEN {Used(st, i) : i \in C}
                         ELSE StoreTo(x, kept, toks, m)
  BY DEF Published
<1>2. x.prompt \in Seq(Tokens) /\ Len(x.prompt) \in Nat /\ x.prompt \in conf.prompts
  BY LenProperties DEF SlotInv, SequenceInv, EngineType
<1>3. half \in Nat /\ EntryBytes(1) \in {1, 2} /\ EntryBytes(Len(x.prompt)) >= Len(x.prompt)
      /\ (EntryBytes(1) = 2 => EntryBytes(Len(x.prompt)) = Len(x.prompt) + 1)
      /\ (EntryBytes(1) = 1 => EntryBytes(Len(x.prompt)) = Len(x.prompt))
  <2>1. half \in Nat
    BY DEF ConfType
  <2>2. CASE conf.recurrent
    BY <1>2, <2>1, <2>2 DEF EntryBytes
  <2>3. CASE ~conf.recurrent
    BY <1>2, <2>1, <2>3 DEF EntryBytes
  <2> QED BY <2>2, <2>3
<1>4. n \in 0 .. Len(x.prompt)
  <2> HIDE DEF half
  <2>1. CASE EntryBytes(1) = 1
    BY <1>2, <1>3, <2>1
  <2>2. CASE EntryBytes(1) = 2
    BY <1>2, <1>3, <2>2
  <2> QED BY <1>3, <2>1, <2>2
<1>5. conf.recurrent /\ UncutFolds /\ ~(n < MinTokens) => n = Len(x.prompt)
  BY <1>2, <1>3 DEF UncutFolds
<1> HIDE DEF n
<1>6. toks \in Seq(Tokens) /\ Len(toks) = n /\ n \in Nat
  BY <1>2, <1>4, PrefixFacts
<1> HIDE DEF toks
<1>7. CASE n < MinTokens
  BY <1>1, <1>7
<1>8. CASE ~(n < MinTokens) /\ C # {}
  <2>1. PICK i \in DOMAIN st : left = Used(st, i)
    BY <1>1, <1>8
  <2> QED BY <2>1, StoreUsed, LeanUsed
<1>9. CASE ~(n < MinTokens) /\ C = {}
  <2> HIDE DEF T
  <2>1. T \in SUBSET DOMAIN st
    BY DEF T
  <2>2. /\ StoreInv(kept) /\ (Lean(st) => Lean(kept))
        /\ \A i \in DOMAIN kept : \E j \in T : kept[i] = st[j]
    BY <2>1, StoreAmong, LeanAmong, AmongIs
  <2> HIDE DEF kept
  <2>3. \A y \in Range(kept) : EntryInv(y) /\ \E i \in DOMAIN kept : y = kept[i]
    BY <2>2, StoreFacts DEF Range
  <2>4. S \in SUBSET (0 .. n)
    <3>1. ASSUME NEW y \in Range(kept) PROVE Common(y.toks, toks) \in 0 .. n
      <4>1. y.toks \in Seq(Tokens)
        BY <2>3 DEF EntryInv
      <4> QED BY <1>6, <4>1, CommonIs
    <3> QED BY <1>6, <3>1
  <2>5. d \in S
    <3> HIDE DEF S
    <3> QED BY <1>6, <2>4, MaxOfNats DEF S
  <2> DEFINE E == {i \in DOMAIN kept : Covers(kept[i], x.key, Prefix(toks, m))}
  <2>6. CASE d >= MinTokens
    <3>1. d # 0 /\ m = d
      BY <2>6, BoundsAssumption
    <3>2. PICK y \in Range(kept) : y.key = x.key /\ d = Common(y.toks, toks)
      BY <2>5, <3>1
    <3>3. y.toks \in Seq(Tokens)
      BY <2>3 DEF EntryInv
    <3>4. d \in 0 .. Len(y.toks) /\ d \in 0 .. Len(toks) /\ Prefix(y.toks, d) = Prefix(toks, d)
      BY <1>6, <3>2, <3>3, CommonIs
    <3>5. IsPrefix(Prefix(toks, d), y.toks)
      <4>1. Prefix(toks, d) \in Seq(Tokens) /\ Len(Prefix(toks, d)) = d
        BY <1>6, <3>4, PrefixFacts
      <4>2. Prefix(Prefix(toks, d), d) = Prefix(toks, d)
        BY <4>1, PrefixWhole
      <4> DEFINE p == Prefix(toks, d)
      <4>3. Len(p) = d /\ Prefix(p, d) = Prefix(y.toks, d) /\ d <= Len(y.toks)
        BY <3>4, <4>1, <4>2
      <4> HIDE DEF p
      <4>4. IsPrefix(p, y.toks)
        BY <4>3 DEF IsPrefix, Prefix
      <4> QED BY <4>4 DEF p
    <3>6. E # {}
      BY <2>3, <3>1, <3>2, <3>5 DEF Covers
    <3>7. left \in StoreTo(x, kept, toks, m)
      BY <1>1, <1>9
    <3> HIDE DEF m, E
    <3>8. StoreInv(left)
      BY <2>2, <3>6, <3>7, StoreToInv DEF E
    <3>9. m \in Nat
      BY <3>1, <3>4
    <3> QED BY <2>2, <3>6, <3>7, <3>8, <3>9, LeanStoreTo DEF E
  <2>7. CASE ~(d >= MinTokens)
    <3>1. m = n
      BY <2>7
    <3>2. left \in StoreTo(x, kept, toks, n)
      BY <1>1, <1>9, <3>1
    <3>3. StoreInv(left)
      BY <1>4, <1>5, <1>9, <2>2, <3>2, StoreToInv
    <3> DEFINE y == Snapshot(x, n)
    <3>4. Prefix(toks, n) = toks /\ y.toks = toks /\ y.key = x.key
      BY <1>6, PrefixWhole DEF Snapshot, toks
    <3>5. EntryInv(y)
      BY <1>4, <1>5, <1>9, SnapshotInv
    <3> HIDE DEF y
    <3>6. ASSUME NEW i \in DOMAIN kept PROVE ~Covers(y, kept[i].key, kept[i].toks)
      <4>1. PICK j \in T : kept[i] = st[j]
        BY <2>2
      <4>2. ~(st[j].key = x.key /\ IsPrefix(st[j].toks, toks))
        BY DEF T
      <4> QED BY <3>4, <4>1, <4>2 DEF Covers
    <3> QED BY <1>6, <2>2, <3>2, <3>3, <3>4, <3>5, <3>6, LeanStoreTo DEF y
  <2> QED BY <2>6, <2>7
<1> QED BY <1>7, <1>8, <1>9

-----------------------------------------------------------------------------
(* The steps.                                                              *)

CacheInv ==
  /\ ConfType
  /\ DOMAIN e = conf.slots
  /\ \A s \in conf.slots : SlotInv(e[s])
  /\ StoreInv(store)

LEMMA Framed ==
  ASSUME ConfType, conf' = conf, DOMAIN e' = conf.slots,
         \A s \in conf.slots : SlotInv(e'[s]), StoreInv(store')
  PROVE  CacheInv'
<1>1. ConfType'
  BY DEF ConfType
<1>2. \A s \in conf.slots : (SlotInv(e[s]))'
  BY DEF SlotInv, SequenceInv, EngineType, Computed, DraftOf, UncutFolds, EntryBytes, Done, Pos
<1>3. StoreInv(store)'
  BY DEF StoreInv, EntryInv, UncutFolds, EntryBytes
<1> QED BY <1>1, <1>2, <1>3 DEF CacheInv

LEMMA OneSlot ==
  ASSUME CacheInv, conf' = conf, NEW s \in conf.slots, NEW y, e' = [e EXCEPT ![s] = y],
         SlotInv(y), StoreInv(store')
  PROVE  CacheInv'
<1>1. ConfType /\ DOMAIN e' = conf.slots
  BY DEF CacheInv
<1>2. \A r \in conf.slots : SlotInv(e'[r])
  BY DEF CacheInv
<1> QED BY <1>1, <1>2, Framed

\* The arguments of the request do not enter into what was computed.
SameSequence(x, y) ==
  /\ DOMAIN y = Fields /\ y.prompt \in Seq(Tokens)
  /\ y.key = x.key /\ y.gpu = x.gpu /\ y.hist = x.hist /\ y.kv = x.kv /\ y.dev = x.dev
  /\ y.last_pos = x.last_pos /\ y.fold = x.fold /\ y.snap = x.snap /\ y.draft = x.draft

LEMMA SameSequenceInv == ASSUME NEW x, NEW y, NEW h, SequenceInv(x, h), SameSequence(x, y)
                         PROVE  SequenceInv(y, h)
  BY DEF SequenceInv, SameSequence, EngineType, Computed, Pos

LEMMA EndedInv == ASSUME NEW x, SequenceInv(x, x.hist) PROVE SlotInv(Ended(x))
<1> DEFINE y == Ended(x)
<1>1. /\ SameSequence(x, y) /\ y.pc = "idle"
  BY EmptySeq DEF Ended, SameSequence, SequenceInv, EngineType, Fields
<1> HIDE DEF y
<1>2. SequenceInv(y, y.hist)
  BY <1>1, SameSequenceInv DEF SameSequence
<1>3. SlotInv(y)
  BY <1>1, <1>2 DEF SlotInv, Done
<1> QED BY <1>3 DEF y

LEMMA CacheFinish == ASSUME CacheInv, NEW s \in conf.slots, Finish(s) PROVE CacheInv'
<1>1. e' = [e EXCEPT ![s] = Ended(e[s])] /\ conf' = conf /\ store' = store /\ e[s].pc = "gen"
  BY DEF Finish
<1>2. SequenceInv(e[s], e[s].hist) /\ StoreInv(store')
  BY <1>1 DEF CacheInv, SlotInv, Done
<1> QED BY <1>1, <1>2, EndedInv, OneSlot

LEMMA CachePublish == ASSUME CacheInv, NEW s \in conf.slots, Publish(s) PROVE CacheInv'
<1> DEFINE x == e[s]
           y == [x EXCEPT !.pc = "gen", !.prompt = <<>>, !.share = FALSE]
<1>1. e' = [e EXCEPT ![s] = y] /\ conf' = conf /\ x.pc = "publish" /\ ConfType /\ SlotInv(x)
  BY DEF Publish, CacheInv
<1>2. StoreInv(store')
  <2>1. CASE store' = store
    BY <2>1 DEF CacheInv
  <2>2. CASE \E st \in Unexpired : store' \in Published(x, st)
    <3>1. PICK i \in 1 .. Len(store) + 1 :
                 store' \in Published(x, SubSeq(store, i, Len(store)))
      BY <2>2 DEF Unexpired
    <3>2. StoreInv(SubSeq(store, i, Len(store)))
      BY StoreTail DEF CacheInv
    <3> QED BY <1>1, <3>1, <3>2, PublishedInv
  <2> QED BY <2>1, <2>2 DEF Publish
<1>3. SlotInv(y)
  <2>1. SameSequence(x, y) /\ y.pc = "gen" /\ y.logits = x.logits
    BY <1>1, EmptySeq DEF SameSequence, SlotInv, SequenceInv, EngineType, Fields
  <2>2. SequenceInv(x, x.hist)
    BY <1>1 DEF SlotInv, Done
  <2> HIDE DEF y, x
  <2>3. SequenceInv(y, y.hist) /\ y.hist = x.hist /\ y.key = x.key
    BY <2>1, <2>2, SameSequenceInv DEF SameSequence
  <2> QED BY <1>1, <2>1, <2>3 DEF SlotInv, Done, Pos
<1> HIDE DEF y
<1> QED BY <1>1, <1>2, <1>3, OneSlot

LEMMA CacheClear == ASSUME CacheInv, Clear PROVE CacheInv'
<1>1. e' = e /\ conf' = conf /\ store' = << >>
  BY DEF Clear
<1> QED BY <1>1, StoreEmpty, Framed DEF CacheInv

LEMMA CacheGpuDisable == ASSUME CacheInv, NEW s \in conf.slots, GpuDisable(s) PROVE CacheInv'
<1> DEFINE x == e[s]
           y == [x EXCEPT !.gpu = FALSE]
<1>1. /\ e' = [e EXCEPT ![s] = y] /\ conf' = conf /\ store' = store /\ SlotInv(x)
      /\ StoreInv(store) /\ x.pc \in {"feed", "forward"}
  BY DEF GpuDisable, CacheInv
<1> HIDE DEF x
<1>2. /\ DOMAIN y = Fields /\ y.key = x.key /\ ~y.gpu /\ y.hist = x.hist /\ y.kv = x.kv
      /\ y.fold = x.fold /\ y.snap = x.snap /\ y.draft = x.draft /\ y.pc = x.pc
      /\ y.prompt = x.prompt /\ y.last_pos = x.last_pos /\ y.gpu \in BOOLEAN
  BY <1>1 DEF SlotInv, SequenceInv, EngineType, Fields
<1> HIDE DEF y
<1>3. SequenceInv(y, Done(y))
  BY <1>1, <1>2 DEF SlotInv, SequenceInv, EngineType, Computed, Done, Pos
<1>4. SlotInv(y)
  BY <1>1, <1>2, <1>3 DEF SlotInv, Pos
<1> QED BY <1>1, <1>4, OneSlot DEF x

LEMMA FreshInv == ASSUME ConfType, NEW k \in conf.keys, NEW gpu \in BOOLEAN,
                         gpu => ~conf.recurrent
                  PROVE  SlotInv(Fresh(k, gpu))
<1> DEFINE y == Fresh(k, gpu)
<1>1. /\ DOMAIN y = Fields /\ y.key = k /\ y.gpu = gpu /\ y.hist = <<>> /\ y.prompt = <<>>
      /\ y.last_pos = -2 /\ y.snap.pos = -1 /\ y.pc = "idle" /\ DOMAIN y.draft = {"toks", "fold"}
      /\ y.draft.toks = <<>>
  BY DEF Fresh, Fields, NoSnap
<1> HIDE DEF y
<1>2. <<>> \in Seq(Tokens) /\ Len(<<>>) = 0 /\ Prefix(<<>>, 0) = <<>>
  BY EmptySeq, SubSeqEmpty DEF Prefix
<1>3. EngineType(y)
  BY <1>1, <1>2 DEF EngineType, ConfType, Pos
<1>4. DraftOf(y.draft, <<>>) /\ Computed(y, <<>>)
  BY <1>1, <1>2 DEF DraftOf, Computed
<1>5. SlotInv(y)
  BY <1>1, <1>3, <1>4 DEF SlotInv, SequenceInv, Done
<1> QED BY <1>5 DEF y

LEMMA CacheSwap == ASSUME CacheInv, NEW s \in conf.slots, NEW k \in conf.keys, Swap(s, k)
                   PROVE  CacheInv'
<1>1. e' = [e EXCEPT ![s] = Fresh(k, conf.gpu)] /\ conf' = conf /\ store' = store
  BY DEF Swap
<1>2. SlotInv(Fresh(k, conf.gpu)) /\ StoreInv(store')
  BY <1>1, FreshInv DEF CacheInv, ConfType
<1> QED BY <1>1, <1>2, OneSlot

LEMMA FrontIs == ASSUME NEW S, NEW h \in Seq(S), h # << >>
                 PROVE  /\ Front(h) \in Seq(S) /\ Len(Front(h)) = Len(h) - 1 /\ Last(h) \in S
                        /\ Front(h) = Prefix(h, Len(h) - 1) /\ Front(h) \o <<Last(h)>> = h
<1>1. Len(h) \in Nat \ {0}
  BY EmptySeq, LenProperties
<1>2. Front(h) = Prefix(h, Len(h) - 1) /\ Last(h) = h[Len(h)]
  BY DEF Front, Last, Prefix
<1>3. Len(h) - 1 \in 0 .. Len(h) /\ Len(h) \in 1 .. Len(h)
  BY <1>1
<1>4. /\ Prefix(h, Len(h) - 1) \in Seq(S) /\ Len(Prefix(h, Len(h) - 1)) = Len(h) - 1
      /\ h[Len(h)] \in S
  BY <1>3, PrefixFacts, ElementOfSeq
<1>5. SubSeq(h, 1, Len(h)) = SubSeq(h, 1, Len(h) - 1) \o <<h[Len(h)]>>
  <2>1. 1 \in 1 .. Len(h) /\ Len(h) \in 1 .. Len(h)
    BY <1>1
  <2> QED BY <2>1, SubSeqRecursiveSecond
<1>6. Prefix(h, Len(h)) = h
  BY PrefixWhole
<1> QED BY <1>2, <1>4, <1>5, <1>6 DEF Prefix

LEMMA AppendIs == ASSUME NEW S, NEW h \in Seq(S), NEW x \in S
                  PROVE  /\ Append(h, x) \in Seq(S) /\ Len(Append(h, x)) = Len(h) + 1
                         /\ Append(h, x) = h \o <<x>> /\ <<x>> \in Seq(S) /\ Len(<<x>>) = 1
                         /\ Front(Append(h, x)) = h /\ Append(h, x) # << >>
<1>1. Len(h) \in Nat /\ Len(h) \in 0 .. Len(h)
  BY LenProperties
<1>2. /\ Append(h, x) \in Seq(S) /\ Len(Append(h, x)) = Len(h) + 1 /\ Append(h, x) # << >>
      /\ Append(h, x) = h \o <<x>>
  BY AppendProperties, AppendIsConcat
<1>3. <<x>> \in Seq(S) /\ Len(<<x>>) = 1
  OBVIOUS
<1>4. Prefix(h \o <<x>>, Len(h)) = h
  BY <1>1, <1>3, PrefixConcat, PrefixWhole
<1>5. Front(Append(h, x)) = Prefix(Append(h, x), Len(Append(h, x)) - 1)
  BY <1>2, FrontIs
<1>6. Len(Append(h, x)) - 1 = Len(h)
  BY <1>1, <1>2
<1> QED BY <1>2, <1>3, <1>4, <1>5, <1>6

LEMMA DraftGrows == ASSUME NEW d, NEW h \in Seq(Tokens), NEW t \in Seq(Tokens), DraftOf(d, h)
                    PROVE  DraftOf(d, h \o t)
<1>1. Len(h) \in Nat /\ Len(t) \in Nat /\ Len(d.toks) \in Nat /\ Len(d.toks) \in 0 .. Len(h)
  BY LenProperties DEF DraftOf
<1>2. Len(h \o t) = Len(h) + Len(t) /\ Prefix(h \o t, Len(d.toks)) = Prefix(h, Len(d.toks))
  BY <1>1, ConcatProperties, PrefixConcat
<1> QED BY <1>1, <1>2 DEF DraftOf

LEMMA CacheGenStep == ASSUME CacheInv, NEW s \in conf.slots, NEW tok \in Tokens, GenStep(s, tok)
                      PROVE  CacheInv'
<1> DEFINE x == e[s]
           g == Append(x.hist, tok)
           y == [x EXCEPT !.hist = g, !.pc = "forward"]
<1>1. /\ e' = [e EXCEPT ![s] = y] /\ conf' = conf /\ store' = store /\ SlotInv(x)
      /\ StoreInv(store) /\ x.pc = "gen" /\ Pos(x) < conf.ctx /\ ConfType
  BY DEF GenStep, CacheInv
<1> HIDE DEF x
<1>2. SequenceInv(x, x.hist) /\ x.hist \in Seq(Tokens) /\ Len(x.hist) \in Nat
  BY <1>1, LenProperties DEF SlotInv, Done, SequenceInv, EngineType
<1>3. g \in Seq(Tokens) /\ Len(g) = Len(x.hist) + 1 /\ Front(g) = x.hist /\ g # << >>
  BY <1>2, AppendIs
<1> HIDE DEF g
<1>4. /\ DOMAIN y = Fields /\ y.hist = g /\ y.pc = "forward" /\ y.key = x.key /\ y.gpu = x.gpu
      /\ y.kv = x.kv /\ y.dev = x.dev /\ y.fold = x.fold /\ y.snap = x.snap /\ y.draft = x.draft
      /\ y.prompt = x.prompt /\ y.last_pos = x.last_pos
  BY <1>2 DEF SequenceInv, EngineType, Fields
<1> HIDE DEF y
<1>5. SequenceInv(y, x.hist)
  BY <1>1, <1>2, <1>3, <1>4 DEF SequenceInv, EngineType, Computed, Pos, ConfType
<1>6. SlotInv(y)
  BY <1>3, <1>4, <1>5 DEF SlotInv, Done
<1> QED BY <1>1, <1>6, OneSlot DEF x

LEMMA CacheGenForward == ASSUME CacheInv, NEW s \in conf.slots, GenForward(s) PROVE CacheInv'
<1> DEFINE x == e[s]
           h == Front(x.hist)
           one == <<Last(x.hist)>>
           z == Forward(x, one, Pos(x) - 1)
           y == [z EXCEPT !.pc = "gen"]
<1>1. /\ e' = [e EXCEPT ![s] = y] /\ conf' = conf /\ store' = store /\ SlotInv(x)
      /\ StoreInv(store) /\ x.pc = "forward" /\ ConfType
  BY DEF GenForward, CacheInv
<1> HIDE DEF x
<1>2. EngineType(x) /\ x.hist \in Seq(Tokens) /\ x.hist # << >> /\ Len(x.hist) \in Nat
  BY <1>1, LenProperties DEF SlotInv, SequenceInv, EngineType
<1>3. h \in Seq(Tokens) /\ Len(h) = Pos(x) - 1 /\ h \o one = x.hist /\ one \in Seq(Tokens)
      /\ Len(one) = 1
  <2>1. /\ h \in Seq(Tokens) /\ Len(h) = Len(x.hist) - 1 /\ Last(x.hist) \in Tokens
        /\ h \o one = x.hist
    BY <1>2, FrontIs
  <2>2. one \in Seq(Tokens) /\ Len(one) = 1
    BY <2>1
  <2> QED BY <2>1, <2>2 DEF Pos
<1>4. DraftOf(x.draft, h) /\ (UncutFolds => Computed(x, h))
  BY <1>1 DEF SlotInv, SequenceInv, Done
<1> HIDE DEF h, one
<1>5. DraftOf(x.draft, x.hist)
  BY <1>3, <1>4, DraftGrows
<1>6. EngineType(z) /\ SameRequest(x, z)
  <2>1. Pos(x) - 1 \in Nat
    BY <1>3, LenProperties
  <2> QED BY <1>2, <1>3, <2>1, ForwardFields DEF Forwarded
<1>7. UncutFolds => Computed(z, x.hist) /\ z.logits = Line(x.key, x.hist, Pos(x))
  <2> SUFFICES ASSUME UncutFolds
               PROVE  Computed(z, x.hist) /\ z.logits = Line(x.key, x.hist, Pos(x))
    OBVIOUS
  <2>1. Len(h) + Len(one) = Pos(x) /\ Pos(x) <= conf.ctx
    BY <1>2, <1>3 DEF EngineType, Pos
  <2>2. /\ Computed(Forward(x, one, Len(h)), h \o one)
        /\ Forward(x, one, Len(h)).logits = Line(x.key, h \o one, Len(h) + Len(one))
    BY <1>1, <1>2, <1>3, <1>4, <2>1, ForwardComputes DEF ConfType
  <2> QED BY <1>3, <2>1, <2>2
<1> HIDE DEF z
<1>8. SameSequence(z, y) /\ y.pc = "gen" /\ y.logits = z.logits
  BY <1>6 DEF SameSequence, EngineType, Fields
<1> HIDE DEF y
<1>9. SequenceInv(y, x.hist) /\ y.hist = x.hist /\ y.key = x.key
  <2>1. SequenceInv(z, x.hist)
    BY <1>5, <1>6, <1>7 DEF SequenceInv, SameRequest
  <2> QED BY <1>6, <1>8, <2>1, SameSequenceInv DEF SameSequence, SameRequest
<1>10. SlotInv(y)
  BY <1>7, <1>8, <1>9 DEF SlotInv, Done, Pos
<1> QED BY <1>1, <1>10, OneSlot DEF x

LEMMA CacheGenAbandon == ASSUME CacheInv, NEW s \in conf.slots, GenAbandon(s) PROVE CacheInv'
<1> DEFINE x == e[s]
           h == Front(x.hist)
           z == [x EXCEPT !.hist = h]
<1>1. /\ e' = [e EXCEPT ![s] = Ended(z)] /\ conf' = conf /\ store' = store /\ SlotInv(x)
      /\ StoreInv(store) /\ x.pc = "forward" /\ ConfType
  <2>1. e' = [e EXCEPT ![s] = Ended(z)]
    BY DEF GenAbandon
  <2> QED BY <2>1 DEF GenAbandon, CacheInv
<1> HIDE DEF x
<1>2. SequenceInv(x, h) /\ x.hist \in Seq(Tokens) /\ x.hist # << >> /\ Len(x.hist) \in Nat
  BY <1>1, LenProperties DEF SlotInv, SequenceInv, EngineType, Done
<1>3. h \in Seq(Tokens) /\ Len(h) = Len(x.hist) - 1
  BY <1>2, FrontIs
<1> HIDE DEF h
<1>4. /\ DOMAIN z = Fields /\ z.hist = h /\ z.key = x.key /\ z.gpu = x.gpu
      /\ z.kv = x.kv /\ z.dev = x.dev /\ z.fold = x.fold /\ z.snap = x.snap /\ z.draft = x.draft
      /\ z.prompt = x.prompt /\ z.last_pos = x.last_pos
  BY <1>2 DEF SequenceInv, EngineType, Fields
<1> HIDE DEF z
<1>5. SequenceInv(z, z.hist)
  BY <1>1, <1>2, <1>3, <1>4 DEF SequenceInv, EngineType, Computed, Pos, ConfType
<1> QED BY <1>1, <1>5, EndedInv, OneSlot DEF x

\* A forward, whether or not the folds can be relied on.
LEMMA ForwardKeeps ==
  ASSUME ConfType, NEW x, EngineType(x), NEW h \in Seq(Tokens), NEW toks \in Seq(Tokens),
         Len(h) + Len(toks) <= conf.ctx, UncutFolds => Computed(x, h)
  PROVE  LET y == Forward(x, toks, Len(h))
         IN  /\ EngineType(y) /\ SameRequest(x, y)
             /\ UncutFolds => /\ Computed(y, h \o toks)
                              /\ y.logits = Line(x.key, h \o toks, Len(h) + Len(toks))
<1> DEFINE y == Forward(x, toks, Len(h))
<1>1. EngineType(y) /\ SameRequest(x, y)
  <2>1. Len(h) \in Nat
    BY LenProperties
  <2> QED BY <2>1, ForwardFields DEF Forwarded
<1>2. UncutFolds => /\ Computed(y, h \o toks)
                    /\ y.logits = Line(x.key, h \o toks, Len(h) + Len(toks))
  BY ForwardComputes DEF ConfType
<1> QED BY <1>1, <1>2

\* The next tokens of a prompt.
LEMMA ChunkIs ==
  ASSUME NEW p \in Seq(Tokens), NEW n \in 0 .. Len(p), n < Len(p)
  PROVE  LET rest == SubSeq(p, n + 1, Len(p))
             chunk == Prefix(rest, Min({NBatch, Len(rest)}))
         IN  /\ chunk \in Seq(Tokens) /\ Len(chunk) \in Nat /\ n + Len(chunk) <= Len(p)
             /\ Len(rest) = Len(p) - n
             /\ Prefix(p, n) \o chunk = Prefix(p, n + Len(chunk))
<1> DEFINE rest == SubSeq(p, n + 1, Len(p))
           c == Min({NBatch, Len(rest)})
           chunk == Prefix(rest, c)
<1>1. Len(p) \in Nat /\ \A i \in n + 1 .. Len(p) : p[i] \in Tokens
  BY LenProperties, ElementOfSeq
<1>2. rest \in Seq(Tokens) /\ Len(rest) = Len(p) - n
  <2>1. rest \in Seq(Tokens)
        /\ Len(rest) = IF n + 1 <= Len(p) THEN Len(p) - (n + 1) + 1 ELSE 0
    BY <1>1, SubSeqProperties
  <2> QED BY <1>1, <2>1
<1> HIDE DEF rest
<1>3. c \in 1 .. Len(rest)
  <2>1. NBatch \in Int /\ Len(rest) \in Int /\ NBatch >= 1 /\ Len(rest) >= 1
    BY <1>1, <1>2, BoundsAssumption
  <2>2. c \in {NBatch, Len(rest)} /\ c <= NBatch /\ c <= Len(rest)
    BY <2>1, MinOfTwo, Zenon
  <2> QED BY <2>1, <2>2
<1> HIDE DEF c
<1>4. chunk \in Seq(Tokens) /\ Len(chunk) = c
  <2>1. c \in 0 .. Len(rest)
    BY <1>3
  <2> QED BY <1>2, <2>1, PrefixFacts
<1>5. chunk = SubSeq(p, n + 1, n + c)
  <2>1. /\ n + 1 \in 1 .. Len(p) /\ Len(p) \in 1 .. Len(p)
        /\ 1 \in 1 .. Len(p) - (n + 1) + 1 /\ c \in 1 .. Len(p) - (n + 1) + 1
    BY <1>1, <1>2, <1>3
  <2>2. SubSeq(SubSeq(p, n + 1, Len(p)), 1, c) = SubSeq(p, (n + 1) + 1 - 1, (n + 1) + c - 1)
    BY <2>1, SubSeqOfSubSeq
  <2>3. (n + 1) + 1 - 1 = n + 1 /\ (n + 1) + c - 1 = n + c
    BY <1>1, <1>2, <1>3
  <2> QED BY <2>2, <2>3 DEF Prefix, rest
<1>6. SubSeq(p, 1, n) \o SubSeq(p, n + 1, n + c) = SubSeq(p, 1, n + c)
  <2>1. 1 \in 1 .. Len(p) + 1 /\ n \in 1 - 1 .. Len(p) /\ n + c \in n .. Len(p)
    BY <1>1, <1>2, <1>3
  <2> QED BY <2>1, ConcatAdjacentSubSeq
<1>7. Prefix(p, n) \o chunk = Prefix(p, n + Len(chunk))
  BY <1>4, <1>5, <1>6 DEF Prefix
<1> HIDE DEF chunk
<1>8. Len(chunk) \in Nat /\ n + Len(chunk) <= Len(p)
  BY <1>1, <1>2, <1>3, <1>4
<1> QED BY <1>2, <1>4, <1>7, <1>8 DEF chunk, c, rest

LEMMA CacheFeed == ASSUME CacheInv, NEW s \in conf.slots, Feed(s) PROVE CacheInv'
<1> DEFINE x == e[s]
           h == x.hist
           rest == SubSeq(x.prompt, Pos(x) + 1, Len(x.prompt))
           chunk == Prefix(rest, Min({NBatch, Len(rest)}))
           g == h \o chunk
           z == [x EXCEPT !.hist = g]
           y == Forward(z, chunk, Pos(x))
           last == [y EXCEPT !.pc = "publish"]
<1>1. /\ \/ Len(chunk) = Len(rest) /\ e' = [e EXCEPT ![s] = last]
         \/ Len(chunk) < Len(rest) /\ e' = [e EXCEPT ![s] = y]
         \/ Len(chunk) < Len(rest) /\ e' = [e EXCEPT ![s] = Ended(y)]
      /\ conf' = conf /\ store' = store /\ x.pc = "feed"
  BY DEF Feed
<1>2. SlotInv(x) /\ StoreInv(store') /\ ConfType
  BY <1>1 DEF CacheInv
<1> HIDE DEF x
<1>3. /\ SequenceInv(x, h) /\ x.prompt \in conf.prompts /\ x.prompt \in Seq(Tokens)
      /\ Len(x.prompt) \in Nat /\ h \in Seq(Tokens) /\ Pos(x) = Len(h) /\ Len(h) \in Nat
      /\ Pos(x) < Len(x.prompt) /\ h = Prefix(x.prompt, Pos(x)) /\ Len(x.prompt) <= conf.ctx
  BY <1>1, <1>2, LenProperties DEF SlotInv, Done, SequenceInv, EngineType, Pos, ConfType
<1> DEFINE p == x.prompt
           n == Pos(x)
<1>4. /\ chunk \in Seq(Tokens) /\ Len(chunk) \in Nat /\ n + Len(chunk) <= Len(p)
      /\ Len(rest) = Len(p) - n /\ g = Prefix(p, n + Len(chunk))
  <2>1. n \in 0 .. Len(p) /\ p \in Seq(Tokens) /\ n < Len(p)
    BY <1>3
  <2> HIDE DEF p, n
  <2>2. /\ chunk \in Seq(Tokens) /\ Len(chunk) \in Nat /\ n + Len(chunk) <= Len(p)
        /\ Len(rest) = Len(p) - n /\ Prefix(p, n) \o chunk = Prefix(p, n + Len(chunk))
    BY <2>1, ChunkIs DEF p, n
  <2> QED BY <1>3, <2>2 DEF n, p
<1> HIDE DEF chunk, rest
<1>5. g \in Seq(Tokens) /\ Len(g) = Len(h) + Len(chunk) /\ Len(chunk) \in Nat
      /\ Len(h) + Len(chunk) <= conf.ctx /\ Len(g) <= Len(x.prompt)
  <2>1. Len(g) = Len(h) + Len(chunk) /\ g \in Seq(Tokens)
    <3>1. h \in Seq(Tokens) /\ chunk \in Seq(Tokens)
      BY <1>3, <1>4
    <3> HIDE DEF h
    <3> QED BY <3>1, ConcatProperties
  <2> HIDE DEF g, h
  <2> QED BY <1>2, <1>3, <1>4, <2>1 DEF ConfType
<1> HIDE DEF g, h
<1>6. /\ DOMAIN z = Fields /\ z.hist = g /\ z.pc = "feed" /\ z.key = x.key /\ z.gpu = x.gpu
      /\ z.kv = x.kv /\ z.dev = x.dev /\ z.fold = x.fold /\ z.snap = x.snap /\ z.draft = x.draft
      /\ z.prompt = x.prompt /\ z.last_pos = x.last_pos
  BY <1>1, <1>3 DEF SequenceInv, EngineType, Fields
<1> HIDE DEF z
<1>7. EngineType(z) /\ (UncutFolds => Computed(z, h))
  <2>1. EngineType(x) /\ (UncutFolds => Computed(x, h))
    BY <1>3 DEF SequenceInv
  <2>2. EngineType(z)
    BY <1>3, <1>5, <1>6, <2>1 DEF EngineType, Pos
  <2> QED BY <1>6, <2>1, <2>2 DEF Computed
<1>8. /\ EngineType(y) /\ SameRequest(z, y)
      /\ UncutFolds => Computed(y, g) /\ y.logits = Line(z.key, g, Len(g))
  <2> DEFINE v == Forward(z, chunk, Len(h))
  <2>1. /\ EngineType(v) /\ SameRequest(z, v)
        /\ UncutFolds => Computed(v, h \o chunk)
                         /\ v.logits = Line(z.key, h \o chunk, Len(h) + Len(chunk))
    <3>1. h \in Seq(Tokens) /\ chunk \in Seq(Tokens) /\ Len(h) + Len(chunk) <= conf.ctx
      BY <1>3, <1>4, <1>5
    <3> QED BY <1>2, <1>7, <3>1, ForwardKeeps
  <2>2. y = v
    BY <1>3
  <2> HIDE DEF v, y
  <2> QED BY <1>5, <2>1, <2>2 DEF g
<1> HIDE DEF y
<1>9. SequenceInv(y, y.hist) /\ y.hist = g
  <2>1. DraftOf(y.draft, g)
    BY <1>3, <1>4, <1>6, <1>8, DraftGrows DEF SequenceInv, SameRequest, g
  <2> QED BY <1>6, <1>8, <2>1 DEF SequenceInv, SameRequest
<1>10. CASE Len(chunk) = Len(rest) /\ e' = [e EXCEPT ![s] = last]
  <2>1. SameSequence(y, last) /\ last.pc = "publish" /\ last.logits = y.logits
    BY <1>8 DEF SameSequence, EngineType, Fields
  <2> HIDE DEF last
  <2>2. SequenceInv(last, last.hist) /\ last.hist = g /\ last.key = y.key
    BY <1>9, <2>1, SameSequenceInv DEF SameSequence
  <2>3. g = x.prompt
    <3>1. Len(chunk) = Len(rest) /\ Len(rest) = Len(p) - n /\ n \in Nat /\ Len(p) \in Nat
      BY <1>3, <1>4, <1>10
    <3> HIDE DEF n, p
    <3>2. n + Len(chunk) = Len(p)
      BY <3>1
    <3>3. Prefix(p, Len(p)) = p
      BY <1>3, PrefixWhole DEF p
    <3> QED BY <1>4, <3>2, <3>3 DEF p
  <2>4. last.prompt = x.prompt
    BY <1>6, <1>8, <2>1 DEF last, SameRequest, EngineType, Fields
  <2>5. SlotInv(last)
    BY <1>3, <1>6, <1>8, <2>1, <2>2, <2>3, <2>4 DEF SlotInv, Done, Pos, SameRequest
  <2> QED BY <1>1, <1>2, <1>10, <2>5, OneSlot DEF x
<1>11. CASE Len(chunk) < Len(rest) /\ e' = [e EXCEPT ![s] = y]
  <2>1. y.pc = "feed" /\ y.prompt = x.prompt
    BY <1>6, <1>8 DEF SameRequest
  <2>2. Len(g) < Len(x.prompt) /\ g = Prefix(x.prompt, Len(g))
    <3>1. /\ Len(chunk) < Len(rest) /\ Len(rest) = Len(p) - n /\ n \in Nat /\ Len(p) \in Nat
          /\ Len(chunk) \in Nat /\ Len(g) = n + Len(chunk)
      BY <1>3, <1>4, <1>5, <1>11
    <3> HIDE DEF n, p
    <3>2. n + Len(chunk) < Len(p)
      BY <3>1
    <3> QED BY <1>4, <3>1, <3>2 DEF p
  <2>3. SlotInv(y)
    BY <1>3, <1>9, <2>1, <2>2 DEF SlotInv, Done, Pos
  <2> QED BY <1>1, <1>2, <1>11, <2>3, OneSlot DEF x
<1>12. CASE e' = [e EXCEPT ![s] = Ended(y)]
  BY <1>1, <1>2, <1>9, <1>12, EndedInv, OneSlot DEF x
<1> QED BY <1>1, <1>10, <1>11, <1>12

\* The draft runs on from what it has seen.
LEMMA DraftForwardIs ==
  ASSUME NEW d, NEW h \in Seq(Tokens), DraftOf(d, h), NEW t \in Seq(Tokens)
  PROVE  LET y == DraftForward(d, t)
         IN  y.toks = d.toks \o t /\ DraftOf(y, d.toks \o t)
<1> DEFINE toks == d.toks \o t
           fold == (IF d.toks = <<>> THEN <<>> ELSE d.fold) \o t
           y == DraftForward(d, t)
<1>1. toks \in Seq(Tokens) /\ Len(toks) \in Nat /\ Len(toks) <= Len(toks) /\ toks = Prefix(toks, Len(toks))
  <2>1. toks \in Seq(Tokens)
    BY ConcatProperties DEF DraftOf
  <2> HIDE DEF toks
  <2> QED BY <2>1, LenProperties, PrefixWhole
<1>2. conf.draft = "recurrent" => fold = toks
  <2>1. CASE d.toks = <<>>
    BY <2>1
  <2>2. CASE d.toks # <<>>
    BY <2>2 DEF DraftOf
  <2> QED BY <2>1, <2>2
<1> HIDE DEF toks, fold
<1>3. y.toks = toks /\ y.fold = fold /\ DOMAIN y = {"toks", "fold"}
  BY DEF DraftForward, toks, fold
<1> HIDE DEF y
<1>4. DraftOf(y, toks)
  BY <1>1, <1>2, <1>3 DEF DraftOf
<1> QED BY <1>3, <1>4 DEF y, toks

LEMMA ProposalsAre ==
  ASSUME ConfType, NEW x, EngineType(x), DraftOf(x.draft, x.hist), Pos(x) < conf.ctx,
         NEW p \in Proposals(x)
  PROVE  /\ p.toks \in Seq(Tokens) /\ Pos(x) + Len(p.toks) < conf.ctx
         /\ DraftOf(p.draft, x.hist \o p.toks)
<1> DEFINE h == x.hist
           l == Len(x.draft.toks)
           left == conf.ctx - Pos(x) - 1
           room == Min({DraftMax, left})
           Words == UNION {[1 .. n -> Tokens] : n \in 0 .. room}
           caught == DraftForward(x.draft, SubSeq(h, l + 1, Pos(x)))
           up == IF l < Pos(x) THEN caught ELSE x.draft
<1>1. h \in Seq(Tokens) /\ Pos(x) = Len(h) /\ Len(h) \in Nat /\ conf.ctx \in Nat
      /\ l \in Nat /\ l <= Len(h) /\ x.draft.toks = Prefix(h, l)
  BY LenProperties DEF EngineType, Pos, ConfType, DraftOf
<1>2. room \in Int /\ room <= left /\ left \in Int /\ Pos(x) + left < conf.ctx
  <2>1. left \in Int /\ DraftMax \in Int /\ Pos(x) + left < conf.ctx
    BY <1>1, BoundsAssumption
  <2> HIDE DEF left
  <2>2. room \in {DraftMax, left} /\ room <= left
    BY <2>1, MinOfTwo, Zenon
  <2> QED BY <2>1, <2>2
<1> HIDE DEF room, left
<1>3. \A d \in Words : d \in Seq(Tokens) /\ Pos(x) + Len(d) < conf.ctx
  <2> SUFFICES ASSUME NEW n \in 0 .. room, NEW d \in [1 .. n -> Tokens]
               PROVE  d \in Seq(Tokens) /\ Pos(x) + Len(d) < conf.ctx
    OBVIOUS
  <2>1. n \in Nat /\ n <= room
    BY <1>2
  <2>2. d \in Seq(Tokens)
    BY <2>1, SeqDef
  <2>3. Len(d) = n
    BY <2>1, <2>2, LenProperties
  <2> QED BY <1>1, <1>2, <2>1, <2>2, <2>3
<1>4. up.toks = h /\ DraftOf(up, h)
  <2>1. CASE l < Pos(x)
    <3> DEFINE t == SubSeq(h, l + 1, Pos(x))
    <3>1. t \in Seq(Tokens)
      <4>1. \A i \in l + 1 .. Pos(x) : h[i] \in Tokens
        BY <1>1, ElementOfSeq
      <4> HIDE DEF h
      <4> QED BY <1>1, <4>1, SubSeqProperties
    <3>2. x.draft.toks \o t = h
      <4>1. 1 \in 1 .. Len(h) + 1 /\ l \in 1 - 1 .. Len(h) /\ Len(h) \in l .. Len(h)
        BY <1>1
      <4> HIDE DEF h, l
      <4>2. SubSeq(h, 1, l) \o SubSeq(h, l + 1, Len(h)) = SubSeq(h, 1, Len(h))
        BY <1>1, <4>1, ConcatAdjacentSubSeq
      <4>3. SubSeq(h, 1, Len(h)) = h
        BY <1>1, SubSeqFull
      <4> QED BY <1>1, <4>2, <4>3 DEF Prefix
    <3> HIDE DEF t
    <3>3. DraftForward(x.draft, t).toks = h /\ DraftOf(DraftForward(x.draft, t), h)
      <4>1. LET y == DraftForward(x.draft, t)
            IN  y.toks = x.draft.toks \o t /\ DraftOf(y, x.draft.toks \o t)
        BY <1>1, <3>1, DraftForwardIs
      <4> QED BY <3>2, <4>1
    <3>4. up = DraftForward(x.draft, t)
      BY <2>1 DEF t
    <3> QED BY <3>3, <3>4
  <2>2. CASE ~(l < Pos(x))
    <3>1. l = Len(h) /\ up = x.draft
      BY <1>1, <2>2
    <3>2. Prefix(h, Len(h)) = h
      BY <1>1, PrefixWhole
    <3> QED BY <1>1, <3>1, <3>2
  <2> QED BY <2>1, <2>2
<1>5. PICK d \in Words : p.toks = d /\ p.draft \in {x.draft, up, DraftForward(up, d)}
  <2>1. Proposals(x) = {[toks |-> d, draft |-> x.draft] : d \in Words}
          \cup (IF conf.draft = "none" THEN {}
                ELSE {[toks |-> d, draft |-> IF d = <<>> THEN up ELSE DraftForward(up, d)] :
                        d \in Words})
    BY DEF Proposals, room, left
  <2> HIDE DEF Words, up
  <2>2. CASE p \in {[toks |-> d, draft |-> x.draft] : d \in Words}
    BY <2>2
  <2>3. CASE p \in {[toks |-> d, draft |-> IF d = <<>> THEN up ELSE DraftForward(up, d)] :
                        d \in Words}
    BY <2>3
  <2> QED BY <2>1, <2>2, <2>3
<1> HIDE DEF Words, up
<1>6. d \in Seq(Tokens) /\ Pos(x) + Len(d) < conf.ctx
  BY <1>3
<1>7. DraftOf(x.draft, h \o d) /\ DraftOf(up, h \o d)
  BY <1>1, <1>4, <1>6, DraftGrows
<1>8. DraftOf(DraftForward(up, d), h \o d)
  <2>1. LET y == DraftForward(up, d) IN y.toks = up.toks \o d /\ DraftOf(y, up.toks \o d)
    BY <1>1, <1>4, <1>6, DraftForwardIs
  <2> QED BY <1>4, <2>1
<1> QED BY <1>5, <1>6, <1>7, <1>8

LEMMA ConcatEmpty == ASSUME NEW S, NEW h \in Seq(S) PROVE h \o <<>> = h /\ <<>> \o h = h
  BY ConcatEmptySeq

\* After a round the fold stops where the accepted tokens do: by itself, from the
\* snapshot taken before the verification, or by a prefill from the start.
LEMMA FoldSynced ==
  ASSUME ConfType, NEW x, EngineType(x), NEW d \in Seq(Tokens), Pos(x) + Len(d) <= conf.ctx,
         NEW acc \in 0 .. Len(d), UncutFolds => Computed(x, x.hist \o d)
  PROVE  LET y == SpecFoldSync(x, d, acc)
         IN  /\ EngineType(y) /\ SameRequest(x, y)
             /\ UncutFolds => Computed(y, x.hist \o Prefix(d, acc))
<1> DEFINE h == x.hist
           t == Prefix(d, acc)
           y == SpecFoldSync(x, d, acc)
           back == [x EXCEPT !.fold = x.snap.fold]
<1>1. /\ h \in Seq(Tokens) /\ Pos(x) = Len(h) /\ Len(h) \in Nat /\ Len(d) \in Nat
      /\ h \o d \in Seq(Tokens) /\ Len(h \o d) = Len(h) + Len(d) /\ conf.ctx \in Nat
  BY LenProperties, ConcatProperties DEF EngineType, Pos, ConfType
<1>2. t \in Seq(Tokens) /\ Len(t) = acc /\ acc \in Nat /\ Len(h) + Len(t) <= conf.ctx
  BY <1>1, PrefixFacts
<1>3. h \o t \in Seq(Tokens) /\ Len(h \o t) = Len(h) + Len(t)
  BY <1>1, <1>2, ConcatProperties
<1>4. Len(h) + acc \in 0 .. Len(h \o d) /\ Prefix(h \o d, Len(h) + acc) = h \o t
  <2>1. Prefix(h \o d, Len(h) + acc) = h \o t
    BY <1>1, PrefixBeyond
  <2> DEFINE l == Len(h)
             m == Len(d)
             u == Len(h \o d)
  <2>2. l \in Nat /\ m \in Nat /\ u = l + m /\ acc \in 0 .. m
    BY <1>1
  <2> HIDE DEF l, m, u
  <2>3. l + acc \in 0 .. u
    BY <2>2
  <2> QED BY <2>1, <2>3 DEF l, u
<1>5. Len(h) \in 0 .. Len(h \o d) /\ Prefix(h \o d, Len(h)) = h
  <2>1. Len(h) \in 0 .. Len(h)
    BY <1>1
  <2> QED BY <1>1, <2>1, PrefixConcat, PrefixWhole
<1> HIDE DEF h, t
<1>6. CASE Len(d) = 0 \/ acc = Len(d) \/ ~conf.recurrent
  <2>1. y = x
    BY <1>6 DEF SpecFoldSync
  <2>2. UncutFolds => Computed(x, h \o t)
    <3>1. CASE conf.recurrent
      <4>1. acc = Len(d)
        BY <1>6, <3>1
      <4>2. t = d
        BY <4>1, PrefixWhole DEF t
      <4> QED BY <4>2 DEF h
    <3>2. CASE ~conf.recurrent
      <4> SUFFICES ASSUME UncutFolds PROVE Computed(x, h \o t)
        OBVIOUS
      <4>1. Computed(x, h \o d)
        BY DEF h
      <4>2. Computed(x, Prefix(h \o d, Len(h) + acc))
        BY <1>1, <1>4, <3>2, <4>1, ComputedCut
      <4> QED BY <1>4, <4>2
    <3> QED BY <3>1, <3>2 DEF ConfType
  <2>3. SameRequest(x, x)
    BY DEF SameRequest
  <2> HIDE DEF y
  <2>4. EngineType(y) /\ SameRequest(x, y) /\ (UncutFolds => Computed(y, h \o t))
    BY <2>1, <2>2, <2>3
  <2> QED BY <2>4 DEF y, h, t
<1>7. CASE ~(Len(d) = 0 \/ acc = Len(d) \/ ~conf.recurrent) /\ CanRestore(x, Pos(x))
  <2>1. y = IF acc = 0 THEN back ELSE Forward(back, t, Pos(x))
    BY <1>7 DEF SpecFoldSync, t
  <2>2. /\ DOMAIN back = Fields /\ back.fold = x.snap.fold /\ back.hist = x.hist
        /\ back.key = x.key /\ back.gpu = x.gpu /\ back.kv = x.kv /\ back.dev = x.dev
        /\ back.last_pos = x.last_pos /\ back.snap = x.snap /\ back.draft = x.draft
        /\ back.pc = x.pc /\ back.prompt = x.prompt /\ back.share = x.share
        /\ back.spec = x.spec
    BY DEF EngineType, Fields
  <2> HIDE DEF back
  <2>3. EngineType(back) /\ SameRequest(x, back)
    BY <2>2 DEF EngineType, SameRequest, Pos
  <2>4. ASSUME UncutFolds PROVE Computed(back, h)
    <3>1. x.snap.pos = Len(h) /\ Computed(x, h \o d)
      BY <1>1, <1>7, <2>4 DEF CanRestore, h
    <3>2. Len(h) > 0 => back.fold = Line(x.key, h \o d, Len(h))
      BY <1>1, <1>7, <2>2, <3>1 DEF Computed
    <3>3. conf.recurrent /\ Len(h) > 0 =>
            /\ back.fold = Line(x.key, h \o d, Len(h)) /\ back.snap.pos \in Int
            /\ back.snap.pos <= Len(h)
            /\ back.snap.pos > 0 => back.snap.fold = Line(x.key, h \o d, back.snap.pos)
      BY <1>1, <2>2, <3>1, <3>2
    <3>4. Computed(back, Prefix(h \o d, Len(h)))
      BY <1>1, <1>5, <2>2, <3>1, <3>3, ComputedCut
    <3> QED BY <1>5, <3>4
  <2>5. CASE acc = 0
    <3>1. h \o t = h
      <4>1. t = <<>>
        BY <2>5, SubSeqEmpty DEF t, Prefix
      <4> QED BY <1>1, <4>1, ConcatEmpty
    <3>2. y = back
      BY <2>1, <2>5
    <3> HIDE DEF y
    <3>3. EngineType(y) /\ SameRequest(x, y) /\ (UncutFolds => Computed(y, h \o t))
      BY <2>3, <2>4, <3>1, <3>2
    <3> QED BY <3>3 DEF y, h, t
  <2>6. CASE acc # 0
    <3> DEFINE v == Forward(back, t, Len(h))
    <3>1. EngineType(v) /\ SameRequest(back, v) /\ (UncutFolds => Computed(v, h \o t))
      BY <1>1, <1>2, <2>3, <2>4, ForwardKeeps
    <3>2. y = v
      BY <1>1, <2>1, <2>6
    <3> HIDE DEF y, v
    <3>3. EngineType(y) /\ SameRequest(x, y) /\ (UncutFolds => Computed(y, h \o t))
      BY <2>3, <3>1, <3>2 DEF SameRequest
    <3> QED BY <3>3 DEF y, h, t
  <2> QED BY <2>5, <2>6
<1>8. CASE ~(Len(d) = 0 \/ acc = Len(d) \/ ~conf.recurrent) /\ ~CanRestore(x, Pos(x))
  <2> DEFINE g == h \o t
             v == Forward(x, g, Len(<<>>))
  <2>1. y = v
    BY <1>8, EmptySeq DEF SpecFoldSync, h, t
  <2>2. <<>> \in Seq(Tokens) /\ Len(<<>>) = 0 /\ <<>> \o g = g
    BY <1>3, ConcatEmpty
  <2>3. Computed(x, <<>>)
    BY <2>2 DEF Computed
  <2>4. Len(<<>>) + Len(g) <= conf.ctx
    BY <1>1, <1>2, <1>3, <2>2
  <2>5. EngineType(v) /\ SameRequest(x, v) /\ (UncutFolds => Computed(v, <<>> \o g))
    <3> HIDE DEF g
    <3> QED BY <1>3, <2>2, <2>3, <2>4, ForwardKeeps DEF g
  <2> HIDE DEF y, v
  <2>6. EngineType(y) /\ SameRequest(x, y) /\ (UncutFolds => Computed(y, h \o t))
    BY <2>1, <2>2, <2>5
  <2> QED BY <2>6 DEF y, h, t
<1> QED BY <1>6, <1>7, <1>8

LEMMA DraftRewoundIs ==
  ASSUME NEW x, EngineType(x), NEW h \in Seq(Tokens), NEW n \in 0 .. Len(h), DraftOf(x.draft, h)
  PROVE  LET w == DraftRewound(x, n)
         IN  /\ EngineType(w) /\ DraftOf(w.draft, Prefix(h, n))
             /\ w.hist = x.hist /\ w.key = x.key /\ w.pc = x.pc /\ w.logits = x.logits
             /\ \A g : Computed(x, g) => Computed(w, g)
<1> DEFINE w == DraftRewound(x, n)
           r == DposRewind(x.draft, n)
<1>1. DraftOf(r, Prefix(h, n))
  BY DraftCut
<1>2. w = [x EXCEPT !.draft = r]
  BY DEF DraftRewound
<1> HIDE DEF r, w
<1>3. /\ DOMAIN w = Fields /\ w.draft = r /\ w.key = x.key /\ w.gpu = x.gpu /\ w.hist = x.hist
      /\ w.kv = x.kv /\ w.dev = x.dev /\ w.last_pos = x.last_pos /\ w.fold = x.fold
      /\ w.snap = x.snap /\ w.logits = x.logits /\ w.pc = x.pc /\ w.prompt = x.prompt
  BY <1>2 DEF EngineType, Fields
<1>4. EngineType(w)
  BY <1>1, <1>3 DEF EngineType, DraftOf, Pos
<1>5. \A g : Computed(x, g) => Computed(w, g)
  BY <1>3 DEF Computed
<1> QED BY <1>1, <1>3, <1>4, <1>5 DEF w

LEMMA CacheSpecRound ==
  ASSUME CacheInv, NEW s \in conf.slots, NEW p \in Proposals(e[s]), NEW acc \in 0 .. DraftMax,
         NEW tok \in Tokens, NEW ends \in BOOLEAN, SpecRound(s, p, acc, tok, ends)
  PROVE  CacheInv'
<1> DEFINE x == e[s]
           h == x.hist
           d == IF x.gpu THEN <<>> ELSE p.toks
           snap == IF p.toks # <<>> /\ conf.recurrent /\ conf.snapbuf
                     THEN [pos |-> Pos(x), fold |-> x.fold] ELSE x.snap
           marked == IF p.toks # <<>> /\ conf.recurrent /\ conf.snapbuf
                       THEN [x EXCEPT !.snap = [pos |-> Pos(x), fold |-> x.fold]] ELSE x
           seen == IF d = <<>> THEN marked ELSE Forward(marked, d, Pos(x))
           synced == SpecFoldSync(seen, d, acc)
           t == Prefix(d, acc)
           g == h \o t
           y == [synced EXCEPT !.hist = @ \o Prefix(d, acc), !.draft = p.draft]
           n == Pos(x) + acc
           y1 == [y EXCEPT !.hist = Append(@, tok)]
           z0 == Forward(y1, <<tok>>, n)
           z == DraftRewound(z0, n)
<1>1. /\ x.pc = "gen" /\ Pos(x) < conf.ctx /\ acc <= Len(d)
      /\ \/ e' = [e EXCEPT ![s] = Ended(DraftRewound(y, n))]
         \/ e' = [e EXCEPT ![s] = Ended(z)]
         \/ e' = [e EXCEPT ![s] = z]
      /\ conf' = conf /\ store' = store
  BY DEF SpecRound
<1>2. SlotInv(x) /\ StoreInv(store') /\ ConfType
  BY <1>1 DEF CacheInv
<1>3. /\ SequenceInv(x, h) /\ EngineType(x) /\ h \in Seq(Tokens) /\ Pos(x) = Len(h) /\ Len(h) \in Nat
      /\ conf.ctx \in Nat
  BY <1>1, <1>2, LenProperties DEF SlotInv, Done, SequenceInv, EngineType, Pos, ConfType
<1>4. p.toks \in Seq(Tokens) /\ Pos(x) + Len(p.toks) < conf.ctx /\ DraftOf(p.draft, h \o p.toks)
  BY <1>1, <1>2, <1>3, ProposalsAre DEF SequenceInv
<1>5. /\ d \in Seq(Tokens) /\ Len(d) \in Nat /\ acc \in 0 .. Len(d) /\ Len(h) + Len(d) < conf.ctx
      /\ acc \in 0 .. Len(p.toks) /\ t = Prefix(p.toks, acc)
  <2>1. <<>> \in Seq(Tokens) /\ Len(<<>>) = 0
    OBVIOUS
  <2>2. Len(p.toks) \in Nat /\ acc \in Nat
    BY <1>4, LenProperties, BoundsAssumption
  <2>3. CASE x.gpu
    <3>1. d = <<>> /\ acc = 0
      BY <1>1, <2>1, <2>2, <2>3
    <3>2. t = <<>> /\ Prefix(p.toks, acc) = <<>>
      BY <3>1, SubSeqEmpty DEF Prefix
    <3> DEFINE m == Len(p.toks)
               l == Len(h)
    <3>3. l + m < conf.ctx /\ m \in Nat /\ l \in Nat /\ conf.ctx \in Nat
      BY <1>3, <1>4, <2>2
    <3> HIDE DEF m, l
    <3>4. l + 0 < conf.ctx /\ 0 \in 0 .. m
      BY <3>3
    <3> HIDE DEF d, t, h
    <3>5. Len(d) = 0 /\ d \in Seq(Tokens)
      BY <2>1, <3>1
    <3> QED BY <2>2, <3>1, <3>2, <3>3, <3>4, <3>5 DEF l, m
  <2>4. CASE ~x.gpu
    <3>1. d = p.toks
      BY <2>4
    <3> DEFINE m == Len(p.toks)
               l == Len(h)
    <3>2. l + m < conf.ctx /\ acc <= m /\ m \in Nat
      BY <1>1, <1>3, <1>4, <2>2, <3>1
    <3>3. t = Prefix(p.toks, acc) /\ Len(d) = m /\ d \in Seq(Tokens)
      BY <1>4, <3>1
    <3> HIDE DEF d, t, m, l
    <3>4. Len(d) \in Nat /\ acc \in 0 .. Len(d) /\ l + Len(d) < conf.ctx /\ acc \in 0 .. m
      BY <2>2, <3>2, <3>3
    <3> QED BY <3>3, <3>4 DEF l, m
  <2> QED BY <2>3, <2>4
<1> HIDE DEF x
<1>6. /\ EngineType(marked) /\ marked.hist = h /\ marked.pc = "gen" /\ marked.key = x.key
      /\ UncutFolds => Computed(marked, h)
  <2>1. CASE p.toks # <<>> /\ conf.recurrent /\ conf.snapbuf
    <3>1. /\ DOMAIN marked = Fields /\ marked.key = x.key /\ marked.gpu = x.gpu
          /\ marked.hist = x.hist /\ marked.kv = x.kv /\ marked.dev = x.dev
          /\ marked.last_pos = x.last_pos /\ marked.fold = x.fold /\ marked.snap.pos = Len(h)
          /\ marked.snap.fold = x.fold /\ marked.draft = x.draft /\ marked.pc = x.pc
          /\ marked.prompt = x.prompt
      BY <1>3, <2>1 DEF EngineType, Fields
    <3> HIDE DEF marked
    <3> QED BY <1>1, <1>3, <3>1 DEF SequenceInv, EngineType, Computed, Pos
  <2>2. CASE ~(p.toks # <<>> /\ conf.recurrent /\ conf.snapbuf)
    <3>1. marked = x
      BY <2>2
    <3> HIDE DEF marked
    <3> QED BY <1>1, <1>3, <3>1 DEF SequenceInv
  <2> QED BY <2>1, <2>2
<1> HIDE DEF marked, d, h
<1>7. /\ EngineType(seen) /\ seen.hist = h /\ seen.pc = "gen" /\ seen.key = x.key
      /\ UncutFolds => Computed(seen, h \o d)
  <2>1. CASE d = <<>>
    <3>1. h \o d = h
      BY <1>3, <2>1, ConcatEmpty
    <3> QED BY <1>6, <2>1, <3>1
  <2>2. CASE d # <<>>
    <3> DEFINE v == Forward(marked, d, Len(h))
    <3>1. EngineType(v) /\ SameRequest(marked, v) /\ (UncutFolds => Computed(v, h \o d))
      <4>1. Len(h) + Len(d) <= conf.ctx
        BY <1>3, <1>5
      <4> QED BY <1>2, <1>3, <1>5, <1>6, <4>1, ForwardKeeps
    <3>2. seen = v
      BY <1>3, <2>2
    <3> HIDE DEF seen, v
    <3> QED BY <1>6, <3>1, <3>2 DEF SameRequest
  <2> QED BY <2>1, <2>2
<1> HIDE DEF seen
<1>8. /\ EngineType(synced) /\ synced.hist = h /\ synced.pc = "gen" /\ synced.key = x.key
      /\ UncutFolds => Computed(synced, g)
  <2>1. Pos(seen) + Len(d) <= conf.ctx
    BY <1>3, <1>5, <1>7 DEF Pos
  <2>2. /\ EngineType(synced) /\ SameRequest(seen, synced)
        /\ UncutFolds => Computed(synced, seen.hist \o Prefix(d, acc))
    BY <1>2, <1>5, <1>7, <2>1, FoldSynced
  <2> HIDE DEF synced
  <2> QED BY <1>7, <2>2 DEF SameRequest
<1>9. t \in Seq(Tokens) /\ Len(t) = acc /\ acc \in Nat
  <2>1. acc \in Nat
    BY <1>5
  <2>2. t \in Seq(Tokens) /\ Len(t) = acc
    BY <1>5, PrefixFacts
  <2> QED BY <2>1, <2>2
<1>10. g \in Seq(Tokens) /\ Len(g) = Len(h) + acc /\ n = Len(g) /\ Len(g) < conf.ctx /\ Len(g) \in Nat
  <2>1. g \in Seq(Tokens) /\ Len(g) = Len(h) + Len(t)
    BY <1>3, <1>9, ConcatProperties
  <2> QED BY <1>3, <1>5, <1>9, <2>1
<1>11. DraftOf(p.draft, h \o p.toks) /\ h \o p.toks \in Seq(Tokens) /\ n \in 0 .. Len(h \o p.toks)
       /\ Prefix(h \o p.toks, n) = g
  <2> DEFINE u == Len(h \o p.toks)
             m == Len(p.toks)
  <2>1. h \o p.toks \in Seq(Tokens) /\ u = Len(h) + m /\ m \in Nat
    BY <1>3, <1>4, ConcatProperties, LenProperties
  <2>2. Prefix(h \o p.toks, Len(h) + acc) = g
    <3>1. h \in Seq(Tokens) /\ p.toks \in Seq(Tokens) /\ acc \in 0 .. Len(p.toks)
      BY <1>3, <1>4, <1>5
    <3>2. t = Prefix(p.toks, acc)
      BY <1>5
    <3> HIDE DEF h, t
    <3>3. Prefix(h \o p.toks, Len(h) + acc) = h \o Prefix(p.toks, acc)
      BY <3>1, PrefixBeyond
    <3> QED BY <3>2, <3>3
  <2>3. acc \in 0 .. m
    BY <1>5
  <2> HIDE DEF u, m, g, t
  <2>4. n \in 0 .. u
    BY <1>3, <1>9, <1>10, <2>1, <2>3
  <2> QED BY <1>4, <1>10, <2>1, <2>2, <2>4 DEF u, h
<1> HIDE DEF synced, n, t, g
<1>12. /\ EngineType(y) /\ y.hist = g /\ y.pc = "gen" /\ y.key = x.key /\ y.draft = p.draft
       /\ UncutFolds => Computed(y, g)
  <2>1. /\ DOMAIN y = Fields /\ y.hist = g /\ y.key = synced.key /\ y.gpu = synced.gpu
        /\ y.kv = synced.kv /\ y.dev = synced.dev /\ y.last_pos = synced.last_pos
        /\ y.fold = synced.fold /\ y.snap = synced.snap /\ y.draft = p.draft
        /\ y.pc = synced.pc /\ y.prompt = synced.prompt
    BY <1>8 DEF EngineType, Fields, g, t
  <2> HIDE DEF y
  <2>2. EngineType(y)
    <3>1. Len(g) <= conf.ctx
      BY <1>3, <1>10
    <3> QED BY <1>8, <1>10, <1>11, <2>1, <3>1 DEF EngineType, DraftOf, Pos
  <2> QED BY <1>8, <2>1, <2>2 DEF Computed
<1> HIDE DEF y
<1>13. CASE e' = [e EXCEPT ![s] = Ended(DraftRewound(y, n))]
  <2> DEFINE w == DraftRewound(y, n)
  <2>1. /\ EngineType(w) /\ DraftOf(w.draft, g) /\ w.hist = g
        /\ UncutFolds => Computed(w, g)
    BY <1>11, <1>12, DraftRewoundIs
  <2> HIDE DEF w
  <2>2. SequenceInv(w, w.hist)
    BY <2>1 DEF SequenceInv
  <2>3. SlotInv(Ended(w))
    BY <2>2, EndedInv
  <2> QED BY <1>1, <1>2, <1>13, <2>3, OneSlot DEF w
<1> DEFINE one == <<tok>>
           g1 == g \o one
<1>14. Append(g, tok) = g1 /\ g1 \in Seq(Tokens) /\ Len(g1) = Len(g) + 1 /\ one \in Seq(Tokens)
       /\ Len(one) = 1
  <2>1. one \in Seq(Tokens) /\ Len(one) = 1 /\ Append(g, tok) = g \o one
    BY <1>10, AppendIs
  <2> HIDE DEF one
  <2>2. g \in Seq(Tokens) /\ Len(g) \in Nat
    BY <1>10
  <2>3. g1 \in Seq(Tokens) /\ Len(g1) = Len(g) + Len(one)
    BY <2>1, <2>2, ConcatProperties
  <2> QED BY <2>1, <2>2, <2>3
<1>15. /\ EngineType(y1) /\ y1.hist = g1 /\ y1.pc = "gen" /\ y1.key = x.key /\ y1.draft = p.draft
       /\ UncutFolds => Computed(y1, g)
  <2>1. /\ DOMAIN y1 = Fields /\ y1.hist = g1 /\ y1.key = y.key /\ y1.gpu = y.gpu
        /\ y1.kv = y.kv /\ y1.dev = y.dev /\ y1.last_pos = y.last_pos
        /\ y1.fold = y.fold /\ y1.snap = y.snap /\ y1.draft = y.draft
        /\ y1.pc = y.pc /\ y1.prompt = y.prompt
    BY <1>12, <1>14 DEF EngineType, Fields
  <2> HIDE DEF y1, g1
  <2>2. EngineType(y1)
    BY <1>3, <1>10, <1>12, <1>14, <2>1 DEF EngineType, Pos
  <2> QED BY <1>12, <2>1, <2>2 DEF Computed
<1> HIDE DEF y1
<1>16. /\ EngineType(z0) /\ z0.hist = g1 /\ z0.pc = "gen" /\ z0.key = x.key /\ z0.draft = p.draft
       /\ UncutFolds => Computed(z0, g1) /\ z0.logits = Line(x.key, g1, Len(g1))
  <2> DEFINE v == Forward(y1, one, Len(g))
  <2>1. Len(g) + Len(one) <= conf.ctx
    BY <1>3, <1>10, <1>14
  <2>2. /\ EngineType(v) /\ SameRequest(y1, v)
        /\ UncutFolds => Computed(v, g1) /\ v.logits = Line(y1.key, g1, Len(g) + Len(one))
    <3> HIDE DEF one
    <3> QED BY <1>2, <1>10, <1>14, <1>15, <2>1, ForwardKeeps
  <2>3. z0 = v
    BY <1>10
  <2> HIDE DEF z0, v, g1, one
  <2> QED BY <1>14, <1>15, <2>2, <2>3 DEF SameRequest
<1> HIDE DEF z0, g1, one
<1>17. /\ SequenceInv(z, z.hist) /\ z.hist = g1 /\ z.key = x.key /\ z.pc = "gen"
       /\ UncutFolds => z.logits = Line(x.key, g1, Len(g1))
  <2>1. /\ EngineType(z) /\ DraftOf(z.draft, g) /\ z.hist = g1 /\ z.key = x.key
        /\ z.pc = "gen" /\ z.logits = z0.logits /\ (UncutFolds => Computed(z, g1))
    <3>1. DraftOf(z0.draft, h \o p.toks)
      BY <1>11, <1>16
    <3>2. /\ EngineType(z) /\ DraftOf(z.draft, Prefix(h \o p.toks, n))
          /\ z.hist = z0.hist /\ z.key = z0.key /\ z.pc = z0.pc /\ z.logits = z0.logits
          /\ Computed(z0, g1) => Computed(z, g1)
      <4> DEFINE u == h \o p.toks
      <4>1. u \in Seq(Tokens) /\ n \in 0 .. Len(u) /\ DraftOf(z0.draft, u) /\ EngineType(z0)
        BY <1>11, <1>16, <3>1
      <4> HIDE DEF u
      <4>2. LET w == DraftRewound(z0, n)
            IN  /\ EngineType(w) /\ DraftOf(w.draft, Prefix(u, n))
                /\ w.hist = z0.hist /\ w.key = z0.key /\ w.pc = z0.pc /\ w.logits = z0.logits
                /\ \A a : Computed(z0, a) => Computed(w, a)
        BY <4>1, DraftRewoundIs
      <4> QED BY <4>2 DEF u
    <3> HIDE DEF z
    <3> QED BY <1>11, <1>16, <3>2
  <2> HIDE DEF z
  <2>2. DraftOf(z.draft, g1)
    BY <1>10, <1>14, <2>1, DraftGrows DEF g1
  <2> QED BY <1>16, <2>1, <2>2 DEF SequenceInv
<1> HIDE DEF z
<1>18. CASE e' = [e EXCEPT ![s] = Ended(z)]
  BY <1>1, <1>2, <1>17, <1>18, EndedInv, OneSlot
<1>19. CASE e' = [e EXCEPT ![s] = z]
  <2>1. SlotInv(z)
    BY <1>17 DEF SlotInv, Done, Pos
  <2> QED BY <1>1, <1>2, <1>19, <2>1, OneSlot
<1> QED BY <1>1, <1>13, <1>18, <1>19

LEMMA EngineResetInv ==
  ASSUME ConfType, NEW x, SequenceInv(x, x.hist)
  PROVE  LET y == EngineReset(x) IN SequenceInv(y, y.hist) /\ y.hist = <<>>
<1> DEFINE y == EngineReset(x)
<1>1. <<>> \in Seq(Tokens) /\ Len(<<>>) = 0 /\ Prefix(<<>>, 0) = <<>>
  BY EmptySeq, SubSeqEmpty DEF Prefix
<1>2. /\ DOMAIN y = Fields /\ y.hist = <<>> /\ y.draft.toks = <<>> /\ DOMAIN y.draft = {"toks", "fold"}
      /\ y.key = x.key /\ y.gpu = x.gpu /\ y.last_pos = x.last_pos /\ y.snap = x.snap
      /\ y.prompt = x.prompt
  BY DEF EngineReset, SequenceInv, EngineType, Fields
<1> HIDE DEF y
<1>3. EngineType(y)
  BY <1>1, <1>2 DEF SequenceInv, EngineType, ConfType, Pos
<1>4. DraftOf(y.draft, <<>>) /\ Computed(y, <<>>)
  BY <1>1, <1>2 DEF DraftOf, Computed
<1> QED BY <1>2, <1>3, <1>4 DEF SequenceInv, y

\* A request that is about to be fed continues what the slot has of its prompt.
LEMMA FeedReady ==
  ASSUME NEW y, NEW toks \in conf.prompts, SequenceInv(y, y.hist), y.pc = "feed",
         y.prompt = toks, Pos(y) < Len(toks), y.hist = Prefix(toks, Pos(y))
  PROVE  SlotInv(y)
  BY DEF SlotInv, Done

LEMMA ForkReady ==
  ASSUME ConfType, NEW y, NEW toks \in conf.prompts, EngineType(y), y.pc = "feed",
         y.prompt = toks, NEW entry, EntryInv(entry), NEW best, best > 0,
         Matched(y, toks, entry) = best, MayFork(y, entry, best)
  PROVE  SlotInv(Fork(y, toks, entry, best))
<1> DEFINE c == Common(entry.toks, toks)
           l == Len(toks) - 1
           z == Fork(y, toks, entry, best)
<1>1. toks \in Seq(Tokens) /\ Len(toks) \in Nat /\ Len(toks) <= conf.ctx /\ entry.toks \in Seq(Tokens)
  BY LenProperties DEF ConfType, EntryInv
<1>2. /\ c \in 0 .. Len(entry.toks) /\ c \in 0 .. Len(toks)
      /\ Prefix(entry.toks, c) = Prefix(toks, c)
  BY <1>1, CommonIs
<1>3. entry.key = y.key /\ best = Min({c, l})
  <2>1. CASE entry.key = y.key
    BY <2>1 DEF Matched
  <2>2. CASE entry.key # y.key
    BY <2>2 DEF Matched
  <2> QED BY <2>1, <2>2
<1> HIDE DEF c
<1>4. best \in Nat /\ best <= c /\ best <= l
  <2>1. c \in Int /\ l \in Int
    BY <1>1, <1>2
  <2> HIDE DEF l
  <2>2. best \in {c, l} /\ best <= c /\ best <= l
    BY <1>3, <2>1, MinOfTwo, Zenon
  <2> QED BY <2>1, <2>2
<1>5. best \in 2 .. Len(toks) - 1 /\ best \in 0 .. Len(entry.toks) /\ best \in 0 .. c
      /\ (conf.recurrent => best = Len(entry.toks))
  <2>1. best >= MinTokens /\ (conf.recurrent => best = Len(entry.toks))
    BY DEF MayFork
  <2>2. best \in 0 .. c /\ best \in 2 .. l
    BY <1>1, <1>2, <1>4, <2>1, BoundsAssumption
  <2>3. best \in 0 .. Len(entry.toks)
    BY <1>2, <1>4, LenProperties
  <2> QED BY <2>1, <2>2, <2>3
<1>6. Prefix(entry.toks, best) = Prefix(toks, best)
  <2>1. Prefix(Prefix(entry.toks, c), best) = Prefix(entry.toks, best)
    BY <1>1, <1>2, <1>5, PrefixPrefix
  <2>2. Prefix(Prefix(toks, c), best) = Prefix(toks, best)
    BY <1>1, <1>2, <1>5, PrefixPrefix
  <2> QED BY <1>2, <2>1, <2>2
<1> HIDE DEF l
<1>7. /\ SequenceInv(z, z.hist) /\ Pos(z) < Len(toks) /\ z.hist = Prefix(toks, Pos(z))
      /\ z.pc = y.pc /\ z.prompt = y.prompt
  BY <1>1, <1>3, <1>5, <1>6, Forked
<1> QED BY <1>7, FeedReady

LEMMA CacheBegin ==
  ASSUME CacheInv, NEW s \in conf.slots, NEW toks \in conf.prompts,
         NEW how \in {"share", "own", "none"}, NEW spec, Begin(s, toks, how, spec)
  PROVE  CacheInv'
<1> DEFINE x == IF how = "none" THEN EngineReset(e[s]) ELSE EngineRewind(e[s], toks)
           y == [x EXCEPT !.pc = "feed", !.prompt = toks, !.spec = spec, !.share = how = "share"]
           Best(st) == Max({Matched(y, toks, st[i]) : i \in DOMAIN st} \cup {0})
<1>1. /\ e[s].pc = "idle" /\ conf' = conf
      /\ \/ e' = [e EXCEPT ![s] = y] /\ store' = store
         \/ \E st \in Unexpired :
              \/ \E i \in DOMAIN st :
                   /\ Matched(y, toks, st[i]) = Best(st) /\ Best(st) > 0
                   /\ MayFork(y, st[i], Best(st))
                   /\ e' = [e EXCEPT ![s] = Fork(y, toks, st[i], Best(st))]
                   /\ store' = [Used(st, i) EXCEPT ![Len(st)].proven = TRUE]
              \/ e' = [e EXCEPT ![s] = y] /\ store' = st
  BY DEF Begin
<1>2. ConfType /\ SequenceInv(e[s], e[s].hist) /\ toks \in Seq(Tokens) /\ Len(toks) >= 1
      /\ Len(toks) \in Nat /\ toks # <<>> /\ StoreInv(store)
  BY <1>1, LenProperties, EmptySeq DEF CacheInv, SlotInv, Done, ConfType
<1>3. SequenceInv(x, x.hist) /\ Pos(x) < Len(toks) /\ x.hist = Prefix(toks, Pos(x))
  <2>1. CASE how = "none"
    <3>1. SequenceInv(x, x.hist) /\ x.hist = <<>>
      BY <1>2, <2>1, EngineResetInv
    <3>2. Prefix(toks, 0) = <<>> /\ Len(<<>>) = 0
      BY SubSeqEmpty DEF Prefix
    <3> HIDE DEF x
    <3> QED BY <1>2, <3>1, <3>2 DEF Pos
  <2>2. CASE how # "none"
    BY <1>2, <2>2, Rewound
  <2> QED BY <2>1, <2>2
<1> HIDE DEF x
<1>4. /\ SameSequence(x, y) /\ y.pc = "feed" /\ y.prompt = toks
  BY <1>2, <1>3 DEF SameSequence, SequenceInv, EngineType, Fields
<1> HIDE DEF y
<1>5. SequenceInv(y, y.hist) /\ Pos(y) < Len(toks) /\ y.hist = Prefix(toks, Pos(y))
  BY <1>3, <1>4, SameSequenceInv DEF SameSequence, Pos
<1>6. SlotInv(y)
  BY <1>4, <1>5, FeedReady
<1>7. CASE e' = [e EXCEPT ![s] = y] /\ store' = store
  BY <1>1, <1>2, <1>6, <1>7, OneSlot
<1> HIDE DEF Best
<1>8. ASSUME NEW st \in Unexpired,
             \/ \E i \in DOMAIN st :
                   /\ Matched(y, toks, st[i]) = Best(st) /\ Best(st) > 0
                   /\ MayFork(y, st[i], Best(st))
                   /\ e' = [e EXCEPT ![s] = Fork(y, toks, st[i], Best(st))]
                   /\ store' = [Used(st, i) EXCEPT ![Len(st)].proven = TRUE]
             \/ e' = [e EXCEPT ![s] = y] /\ store' = st
      PROVE  CacheInv'
  <2>1. StoreInv(st)
    <3>1. PICK i \in 1 .. Len(store) + 1 : st = SubSeq(store, i, Len(store))
      BY <1>8 DEF Unexpired
    <3> QED BY <1>2, <3>1, StoreTail
  <2>2. CASE e' = [e EXCEPT ![s] = y] /\ store' = st
    BY <1>1, <1>6, <2>1, <2>2, OneSlot
  <2>3. ASSUME NEW i \in DOMAIN st, Matched(y, toks, st[i]) = Best(st), Best(st) > 0,
               MayFork(y, st[i], Best(st)),
               e' = [e EXCEPT ![s] = Fork(y, toks, st[i], Best(st))],
               store' = [Used(st, i) EXCEPT ![Len(st)].proven = TRUE]
        PROVE  CacheInv'
    <3>1. EntryInv(st[i]) /\ Len(st) \in Nat /\ i \in 1 .. Len(st)
      BY <2>1, StoreFacts
    <3>2. SlotInv(Fork(y, toks, st[i], Best(st)))
      BY <1>2, <1>4, <1>5, <2>3, <3>1, ForkReady DEF SequenceInv
    <3>3. StoreInv(store')
      <4>1. StoreInv(Used(st, i)) /\ Len(Used(st, i)) = Len(st)
        BY <2>1, StoreUsed
      <4>2. Len(st) \in 1 .. Len(Used(st, i))
        BY <3>1, <4>1
      <4> QED BY <2>3, <4>1, <4>2, StoreProven
    <3> QED BY <1>1, <2>3, <3>2, <3>3, OneSlot
  <2> QED BY <1>8, <2>2, <2>3
<1> QED BY <1>1, <1>7, <1>8

-----------------------------------------------------------------------------
(* The theorems.                                                           *)

LEMMA CacheStarts == Init => CacheInv
<1> SUFFICES ASSUME Init PROVE CacheInv
  OBVIOUS
<1>1. ConfType
  <2>1. conf \in Setups /\ conf.keys \subseteq Keys
    BY DEF Init, Keys
  <2>2. \A p \in conf.prompts : p \in Seq(Tokens) /\ Len(p) \in 1 .. conf.ctx
    BY <2>1, SetupsAssumption
  <2> QED BY <2>1, <2>2, SetupsAssumption DEF ConfType
<1> DEFINE k == CHOOSE k \in conf.keys : TRUE
<1>2. k \in conf.keys
  <2>1. conf.keys # {}
    BY SetupsAssumption DEF Init
  <2> QED BY <2>1
<1>3. SlotInv(Fresh(k, conf.gpu))
  <2> HIDE DEF k
  <2> QED BY <1>1, <1>2, FreshInv DEF ConfType
<1>4. e \in [conf.slots -> {Fresh(k, conf.gpu)}] /\ store = << >>
  BY DEF Init
<1> HIDE DEF k
<1>5. DOMAIN e = conf.slots /\ \A s \in conf.slots : SlotInv(e[s])
  <2>1. \A s \in conf.slots : e[s] = Fresh(k, conf.gpu)
    BY <1>4
  <2> QED BY <1>3, <1>4, <2>1
<1>6. StoreInv(store)
  BY <1>4, StoreEmpty
<1> QED BY <1>1, <1>5, <1>6 DEF CacheInv

LEMMA CacheSteps == CacheInv /\ [Next]_vars => CacheInv'
<1> SUFFICES ASSUME CacheInv, [Next]_vars PROVE CacheInv'
  OBVIOUS
<1>1. ASSUME NEW s \in conf.slots, NEW toks \in conf.prompts, NEW how \in {"share", "own", "none"},
             NEW spec \in {FALSE, conf.spec}, Begin(s, toks, how, spec)
      PROVE  CacheInv'
  BY <1>1, CacheBegin
<1>2. ASSUME NEW s \in conf.slots, Feed(s) PROVE CacheInv'
  BY <1>2, CacheFeed
<1>3. ASSUME NEW s \in conf.slots, Publish(s) PROVE CacheInv'
  BY <1>3, CachePublish
<1>4. ASSUME NEW s \in conf.slots, Finish(s) PROVE CacheInv'
  BY <1>4, CacheFinish
<1>5. ASSUME NEW s \in conf.slots, NEW tok \in Tokens, GenStep(s, tok) PROVE CacheInv'
  BY <1>5, CacheGenStep
<1>6. ASSUME NEW s \in conf.slots, GenForward(s) PROVE CacheInv'
  BY <1>6, CacheGenForward
<1>7. ASSUME NEW s \in conf.slots, GenAbandon(s) PROVE CacheInv'
  BY <1>7, CacheGenAbandon
<1>8. ASSUME NEW s \in conf.slots, NEW p \in Proposals(e[s]), NEW acc \in 0 .. DraftMax,
             NEW tok \in Tokens, NEW ends \in BOOLEAN, SpecRound(s, p, acc, tok, ends)
      PROVE  CacheInv'
  BY <1>8, CacheSpecRound
<1>9. ASSUME NEW s \in conf.slots, GpuDisable(s) PROVE CacheInv'
  BY <1>9, CacheGpuDisable
<1>10. ASSUME NEW s \in conf.slots, NEW k \in conf.keys, Swap(s, k) PROVE CacheInv'
  BY <1>10, CacheSwap
<1>11. CASE Clear
  BY <1>11, CacheClear
<1>12. CASE vars' = vars
  BY <1>12, Framed DEF vars, CacheInv
<1>13. CASE Rest
  BY <1>12, <1>13 DEF Rest
<1> QED BY <1>1, <1>2, <1>3, <1>4, <1>5, <1>6, <1>7, <1>8, <1>9, <1>10, <1>11, <1>12, <1>13
        DEF Next

\* Rows, mirror, fold, recurrent snapshot and draft of every slot, and every stored
\* entry, belong to one sequence throughout (engine.c, model.c, cuda.c).
THEOREM CacheInvariant == Spec => []CacheInv
  BY CacheStarts, CacheSteps, PTL DEF Spec

\* What is sampled from was computed from the slot's own prompt and output, for every
\* number of slots, contexts, prompts and budgets that cut no recurrent snapshot.
THEOREM ContextIsOwn == Spec => [](UncutFolds => ReadsOwnContext)
<1>1. CacheInv => (UncutFolds => ReadsOwnContext)
  <2> SUFFICES ASSUME CacheInv, UncutFolds, NEW s \in conf.slots, e[s].pc \in {"publish", "gen"}
               PROVE  e[s].logits = Own(e[s], Pos(e[s]))
    BY DEF ReadsOwnContext
  <2>1. SlotInv(e[s])
    BY DEF CacheInv
  <2>2. e[s].logits = Line(e[s].key, e[s].hist, Pos(e[s]))
    BY <2>1 DEF SlotInv
  <2> QED BY <2>2 DEF Line, Own
<1> QED BY <1>1, CacheInvariant, PTL

\* Under the same condition the recurrent fold is the fold of the history, whatever
\* was accepted, rejected, abandoned, rewound or forked (spec_fold_sync, engine_rewind).
THEOREM FoldIsOfHistory == Spec => [](UncutFolds => FoldMatchesHistory)
<1>1. CacheInv => (UncutFolds => FoldMatchesHistory)
  <2> SUFFICES ASSUME CacheInv, UncutFolds, NEW s \in conf.slots, conf.recurrent,
                      NEW n, n = IF e[s].pc = "forward" THEN Pos(e[s]) - 1 ELSE Pos(e[s]), n > 0
               PROVE  e[s].fold = Own(e[s], n)
    BY DEF FoldMatchesHistory
  <2> DEFINE x == e[s]
             h == Done(x)
  <2>1. SlotInv(x)
    BY DEF CacheInv
  <2> HIDE DEF x
  <2>2. Computed(x, h) /\ x.hist \in Seq(Tokens) /\ Len(x.hist) \in Nat
    BY <2>1, LenProperties DEF SlotInv, SequenceInv, EngineType
  <2>3. Len(h) = n /\ Prefix(h, n) = Prefix(x.hist, n)
    <3>1. CASE x.pc = "forward"
      <4>1. h = Prefix(x.hist, Len(x.hist) - 1) /\ Len(h) = Len(x.hist) - 1 /\ h \in Seq(Tokens)
        BY <2>1, <2>2, <3>1, FrontIs DEF SlotInv, Done
      <4>2. n = Len(x.hist) - 1
        BY <3>1 DEF x, Pos
      <4> HIDE DEF h
      <4> QED BY <4>1, <4>2, PrefixWhole
    <3>2. CASE x.pc # "forward"
      BY <3>2 DEF x, Done, Pos
    <3> QED BY <3>1, <3>2
  <2> HIDE DEF h
  <2>4. x.fold = Line(x.key, h, n)
    BY <2>2, <2>3 DEF Computed
  <2> QED BY <2>3, <2>4 DEF Line, Own, x
<1> QED BY <1>1, CacheInvariant, PTL

\* The draft has seen a prefix of the history, unconditionally (dpos_rewind, the
\* catch-up loop of engine_generate_spec).
THEOREM DraftIsOfHistory == Spec => []DraftMatchesHistory
<1>1. CacheInv => DraftMatchesHistory
  <2> SUFFICES ASSUME CacheInv, NEW s \in conf.slots
               PROVE  LET d == e[s].draft
                      IN  /\ IsPrefix(d.toks, e[s].hist)
                          /\ conf.draft = "recurrent" /\ d.toks # <<>> => d.fold = d.toks
    BY DEF DraftMatchesHistory
  <2> DEFINE x == e[s]
             d == x.draft
  <2>1. SlotInv(x)
    BY DEF CacheInv
  <2> HIDE DEF x
  <2>2. DraftOf(d, Done(x)) /\ x.hist \in Seq(Tokens)
    BY <2>1 DEF SlotInv, SequenceInv, EngineType
  <2> HIDE DEF d
  <2>3. DraftOf(d, x.hist)
    <3>1. CASE x.pc = "forward"
      <4>1. /\ Front(x.hist) \in Seq(Tokens) /\ Last(x.hist) \in Tokens
            /\ Front(x.hist) \o <<Last(x.hist)>> = x.hist
        BY <2>1, <2>2, <3>1, FrontIs DEF SlotInv
      <4>2. <<Last(x.hist)>> \in Seq(Tokens)
        BY <4>1
      <4>3. DraftOf(d, Front(x.hist) \o <<Last(x.hist)>>)
        BY <2>2, <3>1, <4>1, <4>2, DraftGrows DEF Done
      <4> QED BY <4>1, <4>3
    <3>2. CASE x.pc # "forward"
      BY <2>2, <3>2 DEF Done
    <3> QED BY <3>1, <3>2
  <2>4. d.toks = Prefix(d.toks, Len(d.toks))
    BY <2>3, PrefixWhole DEF DraftOf
  <2>5. IsPrefix(d.toks, x.hist)
    BY <2>3, <2>4 DEF DraftOf, IsPrefix, Prefix
  <2> QED BY <2>3, <2>5 DEF DraftOf, d, x
<1> QED BY <1>1, CacheInvariant, PTL

-----------------------------------------------------------------------------
(* The store stays lean.                                                   *)

LEMMA LeanNext == ASSUME conf' = conf, Lean(store') PROVE Lean(store)'
  BY DEF Lean, Bytes, EntryBytes, NoCover, Covers, MapThenSumSet, MapThenFoldSet

LEMMA LeanStarts == Init => Lean(store)
<1> SUFFICES ASSUME Init PROVE Lean(store)
  OBVIOUS
<1>1. store = << >> /\ CacheInv /\ Len(store) = 0
  BY CacheStarts DEF Init
<1>2. StoreInv(store) /\ conf.budget \in Nat
  BY <1>1 DEF CacheInv, ConfType
<1>3. DOMAIN store = {}
  BY <1>1, <1>2, StoreFacts
<1>4. Bytes(store) = 0
  BY <1>2, <1>3, StoreBytes, FS_EmptySet, SumIn
<1> QED BY <1>1, <1>2, <1>3, <1>4, BoundsAssumption DEF Lean, NoCover

LEMMA LeanBegin ==
  ASSUME CacheInv, Lean(store), NEW s, NEW toks, NEW how, NEW spec, Begin(s, toks, how, spec)
  PROVE  Lean(store)'
<1>1. /\ conf' = conf
      /\ \/ store' = store
         \/ \E st \in Unexpired :
              \/ store' = st
              \/ \E i \in DOMAIN st : store' = [Used(st, i) EXCEPT ![Len(st)].proven = TRUE]
  BY DEF Begin
<1>2. ConfType /\ StoreInv(store)
  BY DEF CacheInv
<1>3. ASSUME NEW st \in Unexpired PROVE StoreInv(st) /\ Lean(st)
  BY <1>2, StoreTail, LeanTail DEF Unexpired
<1>4. ASSUME NEW st \in Unexpired, NEW i \in DOMAIN st
      PROVE  Lean([Used(st, i) EXCEPT ![Len(st)].proven = TRUE])
  <2>1. StoreInv(Used(st, i)) /\ Lean(Used(st, i)) /\ Len(Used(st, i)) = Len(st)
    BY <1>2, <1>3, StoreUsed, LeanUsed
  <2>2. Len(st) \in 1 .. Len(Used(st, i))
    BY <1>3, <2>1, StoreFacts
  <2> QED BY <1>2, <2>1, <2>2, LeanProven
<1> QED BY <1>1, <1>3, <1>4, LeanNext

LEMMA LeanPublish == ASSUME CacheInv, Lean(store), NEW s \in conf.slots, Publish(s)
                     PROVE  Lean(store)'
<1>1. /\ conf' = conf /\ e[s].pc = "publish"
      /\ store' = store \/ \E st \in Unexpired : store' \in Published(e[s], st)
  BY DEF Publish
<1>2. ConfType /\ StoreInv(store) /\ SlotInv(e[s])
  BY DEF CacheInv
<1>3. ASSUME NEW st \in Unexpired PROVE StoreInv(st) /\ Lean(st)
  BY <1>2, StoreTail, LeanTail DEF Unexpired
<1> QED BY <1>1, <1>2, <1>3, PublishedInv, LeanNext

LEMMA LeanSteps == CacheInv /\ Lean(store) /\ [Next]_vars => Lean(store)'
<1> SUFFICES ASSUME CacheInv, Lean(store), [Next]_vars PROVE Lean(store)'
  OBVIOUS
<1>1. ASSUME NEW s \in conf.slots, NEW toks \in conf.prompts, NEW how \in {"share", "own", "none"},
             NEW spec \in {FALSE, conf.spec}, Begin(s, toks, how, spec)
      PROVE  Lean(store)'
  BY <1>1, LeanBegin
<1>2. ASSUME NEW s \in conf.slots, Publish(s) PROVE Lean(store)'
  BY <1>2, LeanPublish
<1>3. CASE Clear
  <2>1. store' = << >> /\ conf' = conf /\ Len(<< >>) = 0
    BY <1>3 DEF Clear
  <2>2. StoreInv(store')
    BY <2>1, StoreEmpty
  <2>3. DOMAIN store' = {}
    BY <2>1, <2>2, StoreFacts
  <2>4. Bytes(store') = 0
    BY <2>2, <2>3, StoreBytes, FS_EmptySet, SumIn
  <2>5. Lean(store')
    BY <2>1, <2>3, <2>4, BoundsAssumption DEF Lean, NoCover, CacheInv, ConfType
  <2> QED BY <2>1, <2>5, LeanNext
<1>4. CASE store' = store /\ conf' = conf
  BY <1>4, LeanNext
<1>5. ASSUME NEW s \in conf.slots
      PROVE  /\ Feed(s) => store' = store /\ conf' = conf
             /\ Finish(s) \/ GenForward(s) \/ GenAbandon(s) => store' = store /\ conf' = conf
             /\ GpuDisable(s) => store' = store /\ conf' = conf
             /\ \A tok : GenStep(s, tok) => store' = store /\ conf' = conf
             /\ \A p, acc, tok, ends : SpecRound(s, p, acc, tok, ends) => store' = store /\ conf' = conf
             /\ \A k : Swap(s, k) => store' = store /\ conf' = conf
  <2>1. Feed(s) => store' = store /\ conf' = conf
    BY DEF Feed
  <2>2. Finish(s) \/ GenForward(s) \/ GenAbandon(s) => store' = store /\ conf' = conf
    BY DEF Finish, GenForward, GenAbandon
  <2>3. GpuDisable(s) => store' = store /\ conf' = conf
    BY DEF GpuDisable
  <2>4. \A tok : GenStep(s, tok) => store' = store /\ conf' = conf
    BY DEF GenStep
  <2>5. \A p, acc, tok, ends : SpecRound(s, p, acc, tok, ends) => store' = store /\ conf' = conf
    BY DEF SpecRound
  <2>6. \A k : Swap(s, k) => store' = store /\ conf' = conf
    BY DEF Swap
  <2> QED BY <2>1, <2>2, <2>3, <2>4, <2>5, <2>6
<1>6. CASE Rest \/ vars' = vars
  BY <1>4, <1>6 DEF Rest, vars
<1> QED BY <1>1, <1>2, <1>3, <1>4, <1>5, <1>6 DEF Next

\* The store keeps to its budget and its count and holds no covered snapshot, always;
\* while the budget cuts no recurrent snapshot, its rows are also those of its tokens.
THEOREM StoreStaysLean == Spec => [](Lean(store) /\ (UncutFolds => StoreIsLean))
<1>1. Spec => []Lean(store)
  BY LeanStarts, LeanSteps, CacheInvariant, PTL DEF Spec
<1>2. CacheInv /\ Lean(store) => (UncutFolds => StoreIsLean)
  <2> SUFFICES ASSUME CacheInv, Lean(store), UncutFolds PROVE StoreIsLean
    OBVIOUS
  <2>1. ASSUME NEW entry \in Range(store), NEW q \in 1 .. conf.ctx, q <= Len(entry.toks)
        PROVE  entry.rows[q] = <<entry.key>> \o Prefix(entry.toks, q)
    <3>1. EntryInv(entry)
      BY StoreFacts DEF CacheInv, Range
    <3>2. Len(entry.toks) \in Nat
      BY <3>1, LenProperties DEF EntryInv
    <3>3. q \in 1 .. Len(entry.toks)
      BY <2>1, <3>2
    <3> QED BY <3>1, <3>3 DEF EntryInv, Line
  <2> QED BY <2>1 DEF Lean, NoCover, StoreIsLean
<1> QED BY <1>1, <1>2, CacheInvariant, PTL
====
