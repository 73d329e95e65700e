-------------------------- MODULE GenerationProofs --------------------------
(***************************************************************************)
(* Proofs about Generation.                                                *)
(***************************************************************************)
EXTENDS Generation, SequenceTheorems, FiniteSetTheorems, WellFoundedInduction, TLAPS

Bytes == Seq(Byte)

-----------------------------------------------------------------------------
(* Numbers, and cutting texts.                                             *)

LEMMA SmallestNat == ASSUME NEW S \in SUBSET Nat, S # {}
                     PROVE  \E m \in S : \A n \in S : m <= n
<1>1. PICK m \in S : \A n \in S : <<n, m>> \notin OpToRel(<, Nat)
  BY WFMin, NatLessThanWellFounded
<1>2. \A n \in S : ~(n < m)
  BY <1>1 DEF OpToRel
<1> QED BY <1>2

LEMMA MinIs == ASSUME NEW S \in SUBSET Nat, S # {}
               PROVE  Min(S) \in S /\ \A n \in S : Min(S) <= n
  BY SmallestNat DEF Min

LEMMA MaxIs == ASSUME NEW b \in Nat, NEW S \in SUBSET (0 .. b), S # {}
               PROVE  Max(S) \in S /\ \A n \in S : Max(S) >= n
<1> DEFINE D == {b - n : n \in S}
<1>1. D \in SUBSET Nat /\ D # {}
  <2>1. \A n \in S : n \in 0 .. b
    OBVIOUS
  <2>2. \A n \in S : b - n \in Nat
    BY <2>1
  <2> QED BY <2>2
<1>2. PICK d \in D : \A e \in D : d <= e
  <2> HIDE DEF D
  <2> QED BY <1>1, SmallestNat
<1>3. PICK m \in S : d = b - m
  BY <1>2
<1>4. \A n \in S : m >= n
  <2> TAKE n \in S
  <2>1. d <= b - n
    BY <1>2
  <2> QED BY <1>3, <2>1
<1> QED BY <1>4 DEF Max

LEMMA MinOfTwo == ASSUME NEW i \in Int, NEW j \in Int
                  PROVE  Min({i, j}) = IF i <= j THEN i ELSE j
<1>1. \E m \in {i, j} : \A n \in {i, j} : m <= n
  OBVIOUS
<1> QED BY <1>1 DEF Min

\* The two halves of a text.
LEMMA Cut ==
  ASSUME NEW S, NEW t \in Seq(S), NEW n \in 0 .. Len(t)
  PROVE  /\ UpTo(t, n) \in Seq(S) /\ Len(UpTo(t, n)) = n
         /\ \A i \in 1 .. n : UpTo(t, n)[i] = t[i]
         /\ From(t, n + 1) \in Seq(S) /\ Len(From(t, n + 1)) = Len(t) - n
         /\ \A i \in 1 .. (Len(t) - n) : From(t, n + 1)[i] = t[n + i]
         /\ UpTo(t, n) \o From(t, n + 1) = t
<1>1. Len(t) \in Nat /\ \A i \in 1 .. Len(t) : t[i] \in S
  BY LenProperties, ElementOfSeq
<1>2. /\ SubSeq(t, 1, n) \in Seq(S) /\ Len(SubSeq(t, 1, n)) = n
      /\ \A i \in 1 .. n : SubSeq(t, 1, n)[i] = t[i]
  <2>1. \A i \in 1 .. n : t[i] \in S
    BY <1>1
  <2>2. /\ SubSeq(t, 1, n) \in Seq(S)
        /\ Len(SubSeq(t, 1, n)) = IF 1 <= n THEN n - 1 + 1 ELSE 0
        /\ \A i \in 1 .. n - 1 + 1 : SubSeq(t, 1, n)[i] = t[1 + i - 1]
    BY <2>1, SubSeqProperties
  <2> QED BY <2>2
<1>3. /\ SubSeq(t, n + 1, Len(t)) \in Seq(S) /\ Len(SubSeq(t, n + 1, Len(t))) = Len(t) - n
      /\ \A i \in 1 .. (Len(t) - n) : SubSeq(t, n + 1, Len(t))[i] = t[n + i]
  <2>1. \A i \in (n + 1) .. Len(t) : t[i] \in S
    BY <1>1
  <2>2. /\ SubSeq(t, n + 1, Len(t)) \in Seq(S)
        /\ Len(SubSeq(t, n + 1, Len(t))) = IF n + 1 <= Len(t) THEN Len(t) - (n + 1) + 1 ELSE 0
        /\ \A i \in 1 .. Len(t) - (n + 1) + 1 : SubSeq(t, n + 1, Len(t))[i] = t[(n + 1) + i - 1]
    BY <1>1, <2>1, SubSeqProperties
  <2>3. \A i \in 1 .. (Len(t) - n) : (n + 1) + i - 1 = n + i
    BY <1>1
  <2> QED BY <1>1, <2>2, <2>3
<1>4. SubSeq(t, 1, n) \o SubSeq(t, n + 1, Len(t)) = t
  <2>1. 1 \in 1 .. Len(t) + 1 /\ n \in 1 - 1 .. Len(t) /\ Len(t) \in n .. Len(t)
    BY <1>1
  <2>2. SubSeq(t, 1, n) \o SubSeq(t, n + 1, Len(t)) = SubSeq(t, 1, Len(t))
    BY <2>1, ConcatAdjacentSubSeq
  <2> QED BY <2>2, SubSeqFull
<1> QED BY <1>2, <1>3, <1>4 DEF UpTo, From

LEMMA CutEnds ==
  ASSUME NEW S, NEW t \in Seq(S)
  PROVE  /\ UpTo(t, 0) = << >> /\ UpTo(t, Len(t)) = t
         /\ From(t, 1) = t /\ From(t, Len(t) + 1) = << >>
         /\ Len(t) \in Nat /\ (Len(t) = 0 <=> t = << >>)
<1>1. Len(t) \in Nat /\ (Len(t) = 0 <=> t = << >>)
  BY EmptySeq, LenProperties
<1>2. SubSeq(t, 1, 0) = << >> /\ SubSeq(t, Len(t) + 1, Len(t)) = << >>
  BY <1>1, SubSeqEmpty
<1> QED BY <1>1, <1>2, SubSeqFull DEF UpTo, From

\* Two texts one after the other.
LEMMA Joined ==
  ASSUME NEW S, NEW s \in Seq(S), NEW t \in Seq(S)
  PROVE  /\ s \o t \in Seq(S) /\ Len(s \o t) = Len(s) + Len(t)
         /\ Len(s) \in Nat /\ Len(t) \in Nat
         /\ \A i \in 1 .. Len(s) : (s \o t)[i] = s[i]
         /\ \A i \in 1 .. Len(t) : (s \o t)[Len(s) + i] = t[i]
<1>1. /\ s \o t \in Seq(S) /\ Len(s \o t) = Len(s) + Len(t)
      /\ \A i \in 1 .. Len(s) + Len(t) : (s \o t)[i] = IF i <= Len(s) THEN s[i] ELSE t[i - Len(s)]
  BY ConcatProperties
<1>2. Len(s) \in Nat /\ Len(t) \in Nat
  BY LenProperties
<1>3. \A i \in 1 .. Len(t) : Len(s) + i \in 1 .. Len(s) + Len(t) /\ ~(Len(s) + i <= Len(s)) /\ Len(s) + i - Len(s) = i
  BY <1>2
<1>4. \A i \in 1 .. Len(s) : i \in 1 .. Len(s) + Len(t) /\ i <= Len(s)
  BY <1>2
<1>5. \A i \in 1 .. Len(t) : (s \o t)[Len(s) + i] = t[i]
  BY <1>1, <1>3
<1>6. \A i \in 1 .. Len(s) : (s \o t)[i] = s[i]
  BY <1>1, <1>4
<1> QED BY <1>1, <1>2, <1>5, <1>6

\* Bytes regrouped.
LEMMA Regroup == \A p, q, r \in Bytes : (p \o q) \o r = p \o (q \o r)
<1> TAKE p, q, r \in Bytes
<1>1. p \in Seq(Byte) /\ q \in Seq(Byte) /\ r \in Seq(Byte)
  BY DEF Bytes
<1> QED BY ONLY <1>1, ConcatAssociative

\* The halves of bytes.
LEMMA Halves ==
  \A text \in Bytes : \A n \in 0 .. Len(text) :
    /\ UpTo(text, n) \in Bytes /\ Len(UpTo(text, n)) = n
    /\ From(text, n + 1) \in Bytes /\ Len(From(text, n + 1)) = Len(text) - n
    /\ UpTo(text, n) \o From(text, n + 1) = text
<1> TAKE text \in Bytes
<1> TAKE n \in 0 .. Len(text)
<1>1. text \in Seq(Byte) /\ n \in 0 .. Len(text)
  BY DEF Bytes
<1> QED BY ONLY <1>1, Cut DEF Bytes

LEMMA HalfBytes ==
  \A text \in Bytes : \A n \in 0 .. Len(text) :
    /\ \A i \in 1 .. n : UpTo(text, n)[i] = text[i]
    /\ \A i \in 1 .. (Len(text) - n) : From(text, n + 1)[i] = text[n + i]
<1> TAKE text \in Bytes
<1> TAKE n \in 0 .. Len(text)
<1>1. text \in Seq(Byte) /\ n \in 0 .. Len(text)
  BY DEF Bytes
<1> QED BY ONLY <1>1, Cut

\* A cut in a text that is made of two.
LEMMA CutJoined ==
  ASSUME NEW S, NEW s \in Seq(S), NEW t \in Seq(S), NEW n \in 0 .. Len(t)
  PROVE  /\ UpTo(s \o t, Len(s) + n) = s \o UpTo(t, n)
         /\ From(s \o t, Len(s) + n + 1) = From(t, n + 1)
<1> DEFINE w == s \o t
<1>1. /\ w \in Seq(S) /\ Len(w) = Len(s) + Len(t) /\ Len(s) \in Nat /\ Len(t) \in Nat
      /\ \A i \in 1 .. Len(s) : w[i] = s[i]
      /\ \A i \in 1 .. Len(t) : w[Len(s) + i] = t[i]
  BY Joined
<1> HIDE DEF w
<1>2. Len(s) + n \in 0 .. Len(w)
  BY <1>1
<1>3. /\ UpTo(t, n) \in Seq(S) /\ Len(UpTo(t, n)) = n /\ \A i \in 1 .. n : UpTo(t, n)[i] = t[i]
      /\ From(t, n + 1) \in Seq(S) /\ Len(From(t, n + 1)) = Len(t) - n
      /\ \A i \in 1 .. (Len(t) - n) : From(t, n + 1)[i] = t[n + i]
  BY Cut
<1>4. /\ UpTo(w, Len(s) + n) \in Seq(S) /\ Len(UpTo(w, Len(s) + n)) = Len(s) + n
      /\ \A i \in 1 .. Len(s) + n : UpTo(w, Len(s) + n)[i] = w[i]
      /\ From(w, Len(s) + n + 1) \in Seq(S) /\ Len(From(w, Len(s) + n + 1)) = Len(w) - (Len(s) + n)
      /\ \A i \in 1 .. (Len(w) - (Len(s) + n)) : From(w, Len(s) + n + 1)[i] = w[(Len(s) + n) + i]
  BY <1>1, <1>2, Cut
<1> DEFINE u == UpTo(t, n)
           v == From(t, n + 1)
           x == UpTo(w, Len(s) + n)
           y == From(w, Len(s) + n + 1)
<1>8. /\ u \in Seq(S) /\ Len(u) = n /\ \A i \in 1 .. n : u[i] = t[i]
      /\ v \in Seq(S) /\ Len(v) = Len(t) - n
      /\ \A i \in 1 .. (Len(t) - n) : v[i] = t[n + i]
  BY <1>3
<1>9. /\ x \in Seq(S) /\ Len(x) = Len(s) + n
      /\ \A i \in 1 .. Len(s) + n : x[i] = w[i]
      /\ y \in Seq(S) /\ Len(y) = Len(w) - (Len(s) + n)
      /\ \A i \in 1 .. (Len(w) - (Len(s) + n)) : y[i] = w[(Len(s) + n) + i]
  BY <1>4
<1> HIDE DEF u, v, x, y
<1>5. /\ s \o u \in Seq(S) /\ Len(s \o u) = Len(s) + Len(u)
      /\ \A i \in 1 .. Len(s) : (s \o u)[i] = s[i]
      /\ \A i \in 1 .. Len(u) : (s \o u)[Len(s) + i] = u[i]
  <2>1. u \in Seq(S)
    BY <1>8
  <2> QED BY <2>1, Joined
<1>6. x = s \o u
  <2>1. \A i \in 1 .. Len(x) : x[i] = (s \o u)[i]
    <3> TAKE i \in 1 .. Len(x)
    <3>1. CASE i <= Len(s)
      <4>1. i \in 1 .. Len(s) /\ i \in 1 .. Len(s) + n
        BY <1>1, <1>9, <3>1
      <4> QED BY <1>1, <1>9, <1>5, <4>1
    <3>2. CASE i > Len(s)
      <4> DEFINE k == i - Len(s)
      <4>1. k \in 1 .. n /\ i = Len(s) + k /\ i \in 1 .. Len(s) + n /\ k \in 1 .. Len(t)
        BY <1>1, <1>9, <3>2
      <4>2. x[i] = w[i] /\ w[Len(s) + k] = t[k] /\ u[k] = t[k] /\ k \in 1 .. Len(u)
        BY <1>1, <1>8, <1>9, <4>1
      <4> HIDE DEF k
      <4>3. (s \o u)[Len(s) + k] = u[k]
        BY <1>5, <4>2
      <4>4. x[i] = (s \o u)[Len(s) + k]
        BY <4>1, <4>2, <4>3
      <4> QED BY <4>1, <4>4, Zenon
    <3>3. i <= Len(s) \/ i > Len(s)
      BY <1>1, <1>9
    <3> QED BY <3>1, <3>2, <3>3
  <2>2. Len(x) = Len(s \o u) /\ x \in Seq(S)
    BY <1>1, <1>8, <1>9, <1>5
  <2> QED BY <1>5, <2>1, <2>2, SeqEqual
<1>7. y = v
  <2>1. Len(y) = Len(v) /\ Len(y) = Len(t) - n /\ y \in Seq(S) /\ v \in Seq(S)
    BY <1>1, <1>8, <1>9
  <2>2. \A i \in 1 .. Len(y) : y[i] = v[i]
    <3> TAKE i \in 1 .. Len(y)
    <3>1. i \in 1 .. (Len(t) - n) /\ i \in 1 .. (Len(w) - (Len(s) + n)) /\ n + i \in 1 .. Len(t)
          /\ (Len(s) + n) + i = Len(s) + (n + i)
      BY <1>1, <2>1
    <3>2. w[Len(s) + (n + i)] = t[n + i]
      BY <1>1, <3>1
    <3> QED BY <1>8, <1>9, <3>1, <3>2
  <2> QED BY <2>1, <2>2, SeqEqual
<1> QED BY <1>6, <1>7 DEF x, y, u, v, w

-----------------------------------------------------------------------------
(* Where a word begins.                                                    *)

Fits(word, text, i) ==
  i + Len(word) - 1 <= Len(text) /\ \A j \in 1 .. Len(word) : text[i + j - 1] = word[j]

\* Whatever follows the text, the word does not begin at i.
Differs(word, text, i) ==
  \E j \in 1 .. Len(word) : i + j - 1 <= Len(text) /\ text[i + j - 1] # word[j]

LEMMA BeginsFits ==
  ASSUME NEW word \in Bytes, NEW text \in Bytes, NEW i \in Nat, i >= 1
  PROVE  Begins(word, text, i) <=> Fits(word, text, i)
<1>1. Len(word) \in Nat /\ Len(text) \in Nat /\ \A k \in 1 .. Len(text) : text[k] \in Byte
  BY LenProperties, ElementOfSeq DEF Bytes
<1>2. SUFFICES ASSUME i + Len(word) - 1 <= Len(text)
               PROVE  SubSeq(text, i, i + Len(word) - 1) = word
                        <=> \A j \in 1 .. Len(word) : text[i + j - 1] = word[j]
  BY DEF Begins, Fits
<1> DEFINE n == i + Len(word) - 1
           u == SubSeq(text, i, n)
<1>3. n \in Int /\ \A k \in i .. n : text[k] \in Byte
  BY <1>1, <1>2
<1>4. /\ u \in Seq(Byte) /\ Len(u) = IF i <= n THEN n - i + 1 ELSE 0
      /\ \A j \in 1 .. n - i + 1 : u[j] = text[i + j - 1]
  <2> HIDE DEF n
  <2> QED BY <1>3, SubSeqProperties
<1>5. Len(u) = Len(word) /\ \A j \in 1 .. Len(word) : u[j] = text[i + j - 1]
  <2>1. n - i + 1 = Len(word) /\ (~(i <= n) => Len(word) = 0)
    BY <1>1
  <2> HIDE DEF n, u
  <2> QED BY <1>4, <2>1
<1> HIDE DEF u
<1>6. u = word => \A j \in 1 .. Len(word) : text[i + j - 1] = word[j]
  BY <1>5
<1>7. (\A j \in 1 .. Len(word) : text[i + j - 1] = word[j]) => u = word
  <2> SUFFICES ASSUME \A j \in 1 .. Len(word) : text[i + j - 1] = word[j] PROVE u = word
    OBVIOUS
  <2>1. \A j \in 1 .. Len(u) : u[j] = word[j]
    BY <1>5
  <2> QED BY <1>4, <1>5, <2>1, SeqEqual DEF Bytes
<1> QED BY <1>6, <1>7 DEF u

LEMMA BeginsDiffers ==
  ASSUME NEW word \in Bytes, NEW text \in Bytes, NEW i \in Nat, i >= 1
  PROVE  /\ Begins(word, text, i) => ~Differs(word, text, i)
         /\ ~Begins(word, text, i) /\ i + Len(word) - 1 <= Len(text) => Differs(word, text, i)
<1>1. Len(word) \in Nat /\ Len(text) \in Nat
  BY LenProperties DEF Bytes
<1>2. Begins(word, text, i) <=> Fits(word, text, i)
  BY BeginsFits
<1>3. Fits(word, text, i) => ~Differs(word, text, i)
  BY DEF Fits, Differs
<1>4. ASSUME i + Len(word) - 1 <= Len(text), ~Fits(word, text, i) PROVE Differs(word, text, i)
  <2>1. PICK j \in 1 .. Len(word) : text[i + j - 1] # word[j]
    BY <1>4 DEF Fits
  <2>2. i + j - 1 <= Len(text)
    BY <1>1, <1>4
  <2> QED BY <2>1, <2>2 DEF Differs
<1> QED BY <1>2, <1>3, <1>4

LEMMA DiffersStays ==
  ASSUME NEW word \in Bytes, NEW text \in Bytes, NEW x \in Bytes, NEW i \in Nat, i >= 1,
         Differs(word, text, i)
  PROVE  Differs(word, text \o x, i)
<1>1. /\ Len(text \o x) = Len(text) + Len(x) /\ Len(text) \in Nat /\ Len(x) \in Nat
      /\ \A k \in 1 .. Len(text) : (text \o x)[k] = text[k]
  BY Joined DEF Bytes
<1>2. PICK j \in 1 .. Len(word) : i + j - 1 <= Len(text) /\ text[i + j - 1] # word[j]
  BY DEF Differs
<1>3. i + j - 1 \in 1 .. Len(text) /\ i + j - 1 <= Len(text) + Len(x)
  <2>1. Len(word) \in Nat
    BY LenProperties DEF Bytes
  <2> QED BY <1>1, <1>2, <2>1
<1>4. (text \o x)[i + j - 1] = text[i + j - 1]
  BY <1>1, <1>3
<1>5. i + j - 1 <= Len(text \o x)
  BY <1>1, <1>3
<1> QED BY <1>2, <1>4, <1>5 DEF Differs

\* A word found in a text is found where the text comes second.
LEMMA BeginsShifted ==
  ASSUME NEW word \in Bytes, NEW s \in Bytes, NEW t \in Bytes, NEW i \in Nat, i >= 1
  PROVE  Begins(word, s \o t, Len(s) + i) <=> Begins(word, t, i)
<1>1. /\ s \o t \in Seq(Byte) /\ Len(s \o t) = Len(s) + Len(t)
      /\ Len(s) \in Nat /\ Len(t) \in Nat
      /\ \A k \in 1 .. Len(t) : (s \o t)[Len(s) + k] = t[k]
  BY Joined DEF Bytes
<1>2. Len(word) \in Nat
  BY LenProperties DEF Bytes
<1> DEFINE w == s \o t
           n == Len(s) + i
<1>3. w \in Bytes /\ n \in Nat /\ n >= 1 /\ Len(w) = Len(s) + Len(t)
      /\ \A k \in 1 .. Len(t) : w[Len(s) + k] = t[k]
  BY <1>1 DEF Bytes
<1>4. n = Len(s) + i
  OBVIOUS
<1> HIDE DEF w, n
<1>5. Begins(word, w, n) <=> Fits(word, w, n)
  BY <1>3, BeginsFits
<1>6. Begins(word, t, i) <=> Fits(word, t, i)
  BY BeginsFits
<1>7. n + Len(word) - 1 <= Len(w) <=> i + Len(word) - 1 <= Len(t)
  BY <1>1, <1>2, <1>3, <1>4
<1>8. ASSUME i + Len(word) - 1 <= Len(t), NEW j \in 1 .. Len(word)
      PROVE  w[n + j - 1] = t[i + j - 1]
  <2>1. i + j - 1 \in 1 .. Len(t) /\ n + j - 1 = Len(s) + (i + j - 1)
    BY <1>1, <1>2, <1>4, <1>8
  <2>2. w[Len(s) + (i + j - 1)] = t[i + j - 1]
    BY <1>3, <2>1
  <2> QED BY <2>1, <2>2
<1>9. Fits(word, w, n) <=> Fits(word, t, i)
  BY <1>7, <1>8 DEF Fits
<1> QED BY <1>5, <1>6, <1>9 DEF w, n

\* A word that matches the end of a text byte by byte is a suffix.
LEMMA SuffixIf ==
  ASSUME NEW s \in Bytes, NEW t \in Bytes, Len(s) <= Len(t),
         \A j \in 1 .. Len(s) : t[Len(t) - Len(s) + j] = s[j]
  PROVE  IsSuffix(s, t)
<1>1. Len(s) \in Nat /\ Len(t) \in Nat /\ (\A k \in 1 .. Len(s) : s[k] \in Byte)
      /\ \A k \in 1 .. Len(t) : t[k] \in Byte
  BY LenProperties, ElementOfSeq DEF Bytes
<1> DEFINE rs == [i \in 1 .. Len(s) |-> s[(Len(s) - i) + 1]]
           rt == [i \in 1 .. Len(t) |-> t[(Len(t) - i) + 1]]
<1>2. rs \in Seq(Byte) /\ Len(rs) = Len(s) /\ \A i \in 1 .. Len(s) : rs[i] = s[(Len(s) - i) + 1]
  <2>1. \A i \in 1 .. Len(s) : (Len(s) - i) + 1 \in 1 .. Len(s)
    BY <1>1
  <2>2. rs \in [1 .. Len(s) -> Byte]
    BY <1>1, <2>1
  <2>3. rs \in Seq(Byte)
    BY <1>1, <2>2
  <2> QED BY <1>1, <2>3
<1>3. rt \in Seq(Byte) /\ Len(rt) = Len(t) /\ \A i \in 1 .. Len(t) : rt[i] = t[(Len(t) - i) + 1]
  <2>1. \A i \in 1 .. Len(t) : (Len(t) - i) + 1 \in 1 .. Len(t)
    BY <1>1
  <2>2. rt \in [1 .. Len(t) -> Byte]
    BY <1>1, <2>1
  <2>3. rt \in Seq(Byte)
    BY <1>1, <2>2
  <2> QED BY <1>1, <2>3
<1> HIDE DEF rs, rt
<1> DEFINE n == Len(s)
           a == UpTo(rs, n)
           b == UpTo(rt, n)
<1>4. a \in Seq(Byte) /\ Len(a) = n /\ \A i \in 1 .. n : a[i] = rs[i]
  <2>1. n \in 0 .. Len(rs)
    BY <1>1, <1>2
  <2> HIDE DEF n
  <2> QED BY <1>2, <2>1, Cut
<1>5. b \in Seq(Byte) /\ Len(b) = n /\ \A i \in 1 .. n : b[i] = rt[i]
  <2>1. n \in 0 .. Len(rt)
    BY <1>1, <1>3
  <2> HIDE DEF n
  <2> QED BY <1>3, <2>1, Cut
<1>6. \A i \in 1 .. n : a[i] = b[i]
  <2> TAKE i \in 1 .. n
  <2> DEFINE j == (Len(s) - i) + 1
  <2>1. j \in 1 .. Len(s) /\ i \in 1 .. Len(t) /\ (Len(t) - i) + 1 = Len(t) - Len(s) + j
    BY <1>1
  <2>2. rs[i] = s[j] /\ rt[i] = t[Len(t) - Len(s) + j]
    BY <1>2, <1>3, <2>1
  <2>3. t[Len(t) - Len(s) + j] = s[j]
    BY <2>1
  <2> HIDE DEF j, a, b
  <2> QED BY <1>4, <1>5, <2>2, <2>3
<1> HIDE DEF a, b
<1>7. a = b
  BY <1>4, <1>5, <1>6, SeqEqual
<1> QED BY <1>2, <1>3, <1>7 DEF IsSuffix, IsPrefix, Reverse, UpTo, rs, rt, a, b

-----------------------------------------------------------------------------
(* The stop filter.                                                        *)

\* No stop begins among the first n bytes, whatever follows the text.
Quiet(text, n) == \A i \in 1 .. n : \A s \in conf.stops : Differs(s, text, i)

StopsOk == conf.stops \in SUBSET (Bytes \ {<< >>})

LEMMA StopLength == ASSUME StopsOk, NEW s \in conf.stops
                    PROVE  s \in Bytes /\ Len(s) \in Nat /\ Len(s) >= 1
<1>1. s \in Seq(Byte) /\ s # << >>
  BY DEF StopsOk, Bytes
<1> QED BY <1>1, CutEnds DEF Bytes

LEMMA StopsInIs ==
  ASSUME NEW text \in Bytes
  PROVE  /\ StopsIn(text) \in SUBSET (1 .. Len(text)) /\ StopsIn(text) \in SUBSET Nat
         /\ Len(text) \in Nat
         /\ \A i \in 1 .. Len(text) : i \in StopsIn(text) <=> \E s \in conf.stops : Begins(s, text, i)
<1>1. Len(text) \in Nat
  BY LenProperties DEF Bytes
<1> QED BY <1>1 DEF StopsIn

\* What Keep withholds is all that a stop may still begin in.
LEMMA KeepIs ==
  ASSUME StopsOk, NEW text \in Bytes
  PROVE  /\ Keep(text) \in 0 .. Len(text)
         /\ \A i \in 1 .. (Len(text) - Keep(text)) : \A s \in conf.stops :
              Begins(s, text, i) \/ Differs(s, text, i)
<1> DEFINE K == {k \in 0 .. Len(text) :
                   k = 0 \/ \E s \in conf.stops : k < Len(s) /\ IsSuffix(UpTo(s, k), text)}
<1>1. Len(text) \in Nat
  BY LenProperties DEF Bytes
<1>2. K \in SUBSET (0 .. Len(text)) /\ K # {}
  <2>1. 0 \in K
    BY <1>1
  <2> QED BY <2>1
<1>3. Keep(text) = Max(K)
  BY DEF Keep
<1>4. Max(K) \in K /\ \A k \in K : Max(K) >= k
  <2> HIDE DEF K
  <2> QED BY <1>1, <1>2, MaxIs
<1>5. Keep(text) \in 0 .. Len(text)
  BY <1>2, <1>3, <1>4
<1>6. ASSUME NEW i \in 1 .. (Len(text) - Keep(text)), NEW s \in conf.stops, ~Differs(s, text, i)
      PROVE  Begins(s, text, i)
  <2> DEFINE k == Len(text) - i + 1
  <2>1. i \in Nat /\ i >= 1 /\ i <= Len(text) /\ k \in 1 .. Len(text) /\ k > Keep(text) /\ i = Len(text) - k + 1
    BY <1>1, <1>5
  <2>2. s \in Bytes /\ Len(s) \in Nat /\ Len(s) >= 1
    BY StopLength
  <2>3. CASE Len(s) <= k
    <3>1. i + Len(s) - 1 <= Len(text)
      BY <1>1, <2>1, <2>2, <2>3
    <3> QED BY <1>6, <2>1, <2>2, <3>1, BeginsDiffers
  <2>4. CASE k < Len(s)
    <3> HIDE DEF k
    <3>1. k \in 0 .. Len(s)
      BY <2>1, <2>2, <2>4
    <3> DEFINE u == UpTo(s, k)
    <3>2. u \in Bytes /\ Len(u) = k /\ \A j \in 1 .. k : u[j] = s[j]
      BY <2>2, <3>1, Cut DEF Bytes
    <3> HIDE DEF u
    <3>3. \A j \in 1 .. Len(u) : text[Len(text) - Len(u) + j] = u[j]
      <4> TAKE j \in 1 .. Len(u)
      <4>1. j \in 1 .. Len(s) /\ i + j - 1 = Len(text) - Len(u) + j /\ i + j - 1 <= Len(text)
        BY <1>1, <2>1, <2>2, <2>4, <3>2
      <4>2. text[i + j - 1] = s[j]
        BY <1>6, <4>1 DEF Differs
      <4> QED BY <3>2, <4>1, <4>2
    <3>4. IsSuffix(u, text)
      <4>1. u \in Bytes /\ text \in Bytes /\ Len(u) <= Len(text)
        BY <1>1, <2>1, <3>2
      <4> QED BY ONLY <3>3, <4>1, SuffixIf
    <3>5. k \in K
      BY <2>1, <2>4, <3>4 DEF u
    <3>6. Keep(text) >= k
      BY <1>3, <1>4, <3>5
    <3>7. Keep(text) \in Int /\ k \in Int
      BY <1>1, <1>5, <2>1
    <3> QED BY <2>1, <3>6, <3>7
  <2> QED BY <2>1, <2>2, <2>3, <2>4
<1> QED BY <1>5, <1>6

\* The stops of a text whose beginning is quiet are those of its end.
LEMMA StopsOfEnd ==
  ASSUME StopsOk, NEW out \in Bytes, NEW held \in Bytes, Quiet(out \o held, Len(out))
  PROVE  StopsIn(out \o held) = {Len(out) + i : i \in StopsIn(held)}
<1> DEFINE f == out \o held
<1>1. f \in Bytes /\ Len(f) = Len(out) + Len(held) /\ Len(out) \in Nat /\ Len(held) \in Nat
  BY Joined DEF Bytes
<1>2. ASSUME NEW i \in 1 .. Len(held)
      PROVE  i \in StopsIn(held) <=> Len(out) + i \in StopsIn(f)
  <2>1. Len(out) + i \in 1 .. Len(f)
    BY <1>1
  <2>2. ASSUME NEW s \in conf.stops
        PROVE  Begins(s, f, Len(out) + i) <=> Begins(s, held, i)
    <3>1. s \in Bytes /\ i \in Nat /\ i >= 1
      BY StopLength
    <3> QED BY <3>1, BeginsShifted
  <2> HIDE DEF f
  <2> QED BY <1>1, <2>1, <2>2, StopsInIs
<1>3. ASSUME NEW n \in StopsIn(f)
      PROVE  \E i \in 1 .. Len(held) : n = Len(out) + i
  <2> HIDE DEF f
  <2>1. n \in 1 .. Len(f) /\ \E s \in conf.stops : Begins(s, f, n)
    BY <1>1, StopsInIs
  <2>2. PICK s \in conf.stops : Begins(s, f, n)
    BY <2>1
  <2>3. s \in Bytes /\ n \in Nat /\ n >= 1
    BY <1>1, <2>1, StopLength
  <2>4. ~Differs(s, f, n)
    BY <1>1, <2>2, <2>3, BeginsDiffers
  <2>5. ~(n <= Len(out))
    BY <2>1, <2>4 DEF Quiet, f
  <2>6. n - Len(out) \in 1 .. Len(held) /\ n = Len(out) + (n - Len(out))
    BY <1>1, <2>1, <2>5
  <2> QED BY <2>6
<1>4. \A i \in StopsIn(held) : i \in 1 .. Len(held)
  BY StopsInIs
<1> HIDE DEF f
<1>5. StopsIn(f) = {Len(out) + i : i \in StopsIn(held)}
  BY <1>2, <1>3, <1>4
<1> QED BY <1>5 DEF f

LEMMA QuietStays ==
  ASSUME StopsOk, NEW text \in Bytes, NEW x \in Bytes, NEW n \in Nat, Quiet(text, n)
  PROVE  Quiet(text \o x, n)
<1> SUFFICES ASSUME NEW i \in 1 .. n, NEW s \in conf.stops PROVE Differs(s, text \o x, i)
  BY DEF Quiet
<1>1. Differs(s, text, i) /\ i \in Nat /\ i >= 1
  BY DEF Quiet
<1> QED BY <1>1, StopLength, DiffersStays

\* No stop has come: what is let go is quiet.
LEMMA NoStop ==
  ASSUME StopsOk, NEW out \in Bytes, NEW held \in Bytes, Quiet(out \o held, Len(out)),
         StopsIn(held) = {}
  PROVE  /\ StopsIn(out \o held) = {}
         /\ Quiet(out \o held, Len(out) + (Len(held) - Keep(held)))
<1> DEFINE f == out \o held
<1>1. f \in Bytes /\ Len(f) = Len(out) + Len(held) /\ Len(out) \in Nat /\ Len(held) \in Nat
      /\ \A i \in 1 .. Len(held) : f[Len(out) + i] = held[i]
  BY Joined DEF Bytes
<1>2. StopsIn(f) = {}
  BY StopsOfEnd
<1>3. Keep(held) \in 0 .. Len(held)
  BY KeepIs
<1>4. ASSUME NEW n \in 1 .. Len(out) + (Len(held) - Keep(held)), NEW s \in conf.stops
      PROVE  Differs(s, f, n)
  <2>1. CASE n <= Len(out)
    BY <1>1, <2>1 DEF Quiet
  <2>2. CASE n > Len(out)
    <3> DEFINE i == n - Len(out)
    <3>1. i \in 1 .. (Len(held) - Keep(held)) /\ i \in 1 .. Len(held) /\ n = Len(out) + i
      BY <1>1, <1>3, <2>2
    <3> HIDE DEF i
    <3>2. ~Begins(s, held, i)
      BY <3>1, StopsInIs
    <3>3. Differs(s, held, i)
      BY <3>1, <3>2, KeepIs
    <3>4. PICK j \in 1 .. Len(s) : i + j - 1 <= Len(held) /\ held[i + j - 1] # s[j]
      BY <3>3 DEF Differs
    <3>5. Len(s) \in Nat
      BY StopLength
    <3>6. i + j - 1 \in 1 .. Len(held) /\ n + j - 1 = Len(out) + (i + j - 1) /\ n + j - 1 <= Len(f)
      BY <1>1, <3>1, <3>4, <3>5
    <3>7. f[Len(out) + (i + j - 1)] = held[i + j - 1]
      BY <1>1, <3>6
    <3> HIDE DEF f
    <3>8. n + j - 1 <= Len(f) /\ f[n + j - 1] # s[j]
      BY <3>4, <3>6, <3>7
    <3> QED BY <3>8 DEF Differs
  <2>3. n <= Len(out) \/ n > Len(out)
    BY <1>1, <1>3
  <2> QED BY <2>1, <2>2, <2>3
<1> QED BY <1>2, <1>4 DEF Quiet

\* A stop has come: what is let go is the text before the first one.
LEMMA StopFound ==
  ASSUME StopsOk, NEW out \in Bytes, NEW held \in Bytes, Quiet(out \o held, Len(out)),
         StopsIn(held) # {}
  PROVE  /\ StopsIn(out \o held) # {}
         /\ Min(StopsIn(held)) \in 1 .. Len(held)
         /\ BeforeStop(out \o held) = out \o UpTo(held, Min(StopsIn(held)) - 1)
<1> DEFINE f == out \o held
           m == Min(StopsIn(held))
<1>1. Len(out) \in Nat /\ Len(held) \in Nat
  BY LenProperties DEF Bytes
<1>2. StopsIn(f) = {Len(out) + i : i \in StopsIn(held)}
  BY StopsOfEnd
<1>3. StopsIn(held) \in SUBSET (1 .. Len(held)) /\ StopsIn(held) \in SUBSET Nat
  BY StopsInIs
<1>4. m \in StopsIn(held) /\ \A i \in StopsIn(held) : m <= i
  BY <1>3, MinIs
<1>5. m \in 1 .. Len(held)
  BY <1>3, <1>4
<1> HIDE DEF f, m
<1>6. Len(out) + m \in StopsIn(f) /\ \A n \in StopsIn(f) : Len(out) + m <= n
  <2>1. \A i \in StopsIn(held) : Len(out) + m <= Len(out) + i
    BY <1>1, <1>3, <1>4, <1>5
  <2> QED BY <1>2, <1>4, <2>1
<1>7. Min(StopsIn(f)) = Len(out) + m
  <2>1. StopsIn(f) \in SUBSET Nat /\ StopsIn(f) # {}
    BY <1>1, <1>2, <1>3, <1>6
  <2>2. Min(StopsIn(f)) \in StopsIn(f) /\ \A n \in StopsIn(f) : Min(StopsIn(f)) <= n
    BY <2>1, MinIs
  <2>3. Min(StopsIn(f)) <= Len(out) + m /\ Len(out) + m <= Min(StopsIn(f)) /\ Min(StopsIn(f)) \in Nat
        /\ Len(out) + m \in Nat
    BY <1>1, <1>5, <1>6, <2>1, <2>2
  <2> HIDE DEF f, m
  <2> QED BY <2>3
<1>8. BeforeStop(f) = UpTo(f, Len(out) + (m - 1))
  <2>1. m \in Int /\ Len(out) \in Int
    BY <1>1, <1>5
  <2>2. BeforeStop(f) = UpTo(f, Min(StopsIn(f)) - 1)
    <3>1. StopsIn(f) # {}
      BY <1>6
    <3> QED BY <3>1 DEF BeforeStop
  <2>3. Min(StopsIn(f)) - 1 = Len(out) + (m - 1)
    BY <1>7, <2>1
  <2> QED BY <2>2, <2>3
<1>9. UpTo(f, Len(out) + (m - 1)) = out \o UpTo(held, m - 1)
  <2>1. m - 1 \in 0 .. Len(held)
    BY <1>5
  <2> QED BY <2>1, CutJoined DEF f, Bytes
<1> QED BY <1>5, <1>6, <1>8, <1>9 DEF f, m

-----------------------------------------------------------------------------
(* Sequences of sequences, end to end.  Nothing here is by induction over an  *)
(* operator: what fails for some index fails for a smallest one.              *)

\* f[i] is the first i of them together, for every i up to n.
Joins(seqs, n, f) == f = [i \in 1 .. n |-> IF i = 1 THEN seqs[i] ELSE f[i - 1] \o seqs[i]]

LEMMA JoinsAt ==
  ASSUME NEW seqs, NEW n \in Nat, NEW f, Joins(seqs, n, f)
  PROVE  \A i \in 1 .. n : f[i] = IF i = 1 THEN seqs[i] ELSE f[i - 1] \o seqs[i]
<1>1. f = [i \in 1 .. n |-> IF i = 1 THEN seqs[i] ELSE f[i - 1] \o seqs[i]]
  BY DEF Joins
<1>2. \A i \in 1 .. n : f[i] = IF i = 1 THEN seqs[i] ELSE f[i - 1] \o seqs[i]
  BY <1>1
<1> QED BY <1>2

LEMMA JoinsExists == ASSUME NEW seqs, NEW n \in Nat PROVE \E f : Joins(seqs, n, f)
<1> DEFINE T == {m \in Nat : ~\E f : Joins(seqs, m, f)}
<1> SUFFICES ASSUME T # {} PROVE FALSE
  OBVIOUS
<1>1. PICK m \in T : \A k \in T : m <= k
  <2> HIDE DEF T
  <2>1. T \in SUBSET Nat
    BY DEF T
  <2> QED BY <2>1, SmallestNat
<1>2. m # 0
  <2> SUFFICES ASSUME m = 0 PROVE FALSE
    OBVIOUS
  <2> DEFINE f == [i \in 1 .. 0 |-> seqs[i]]
  <2>1. f = [i \in 1 .. 0 |-> IF i = 1 THEN seqs[i] ELSE f[i - 1] \o seqs[i]]
    OBVIOUS
  <2> HIDE DEF f
  <2>2. Joins(seqs, 0, f)
    BY <2>1 DEF Joins
  <2> QED BY <2>2
<1>3. m - 1 \in Nat /\ m \in Nat
  BY <1>2
<1>4. m - 1 \notin T
  <2>1. ~(m <= m - 1)
    BY <1>3
  <2> QED BY <1>1, <2>1
<1>5. PICK f : Joins(seqs, m - 1, f)
  BY <1>3, <1>4
<1> DEFINE g == [i \in 1 .. m |-> IF i = 1 THEN seqs[i] ELSE f[i - 1] \o seqs[i]]
<1>6. ASSUME NEW i \in 1 .. m, i # 1 PROVE g[i - 1] = f[i - 1]
  <2>1. i - 1 \in 1 .. m - 1 /\ i - 1 \in 1 .. m
    BY <1>3, <1>6
  <2>4. \A j \in 1 .. m - 1 : f[j] = IF j = 1 THEN seqs[j] ELSE f[j - 1] \o seqs[j]
    BY <1>3, <1>5, JoinsAt
  <2>2. CASE i - 1 = 1
    <3>1. f[i - 1] = seqs[i - 1]
      BY <2>1, <2>2, <2>4
    <3>2. g[i - 1] = seqs[i - 1]
      BY <2>1, <2>2
    <3> QED BY <3>1, <3>2
  <2>3. CASE i - 1 # 1
    <3>2. f[i - 1] = f[(i - 1) - 1] \o seqs[i - 1]
      BY <2>1, <2>3, <2>4
    <3>3. g[i - 1] = f[(i - 1) - 1] \o seqs[i - 1]
      BY <2>1, <2>3
    <3> QED BY <3>2, <3>3
  <2> QED BY <2>2, <2>3
<1>7. g = [i \in 1 .. m |-> IF i = 1 THEN seqs[i] ELSE g[i - 1] \o seqs[i]]
  BY <1>6
<1> HIDE DEF g
<1>8. Joins(seqs, m, g)
  BY <1>7 DEF Joins
<1> QED BY <1>8

\* Sequences that begin alike join alike, and joining gives a sequence.
LEMMA JoinsAgree ==
  ASSUME NEW s, NEW t, NEW n \in Nat, NEW m \in Nat, NEW f, NEW g, Joins(s, n, f), Joins(t, m, g),
         n <= m, \A i \in 1 .. n : s[i] = t[i]
  PROVE  \A i \in 1 .. n : f[i] = g[i]
<1> DEFINE T == {i \in 1 .. n : f[i] # g[i]}
<1> SUFFICES ASSUME T # {} PROVE FALSE
  OBVIOUS
<1>1. PICK i \in T : \A j \in T : i <= j
  <2> HIDE DEF T
  <2>1. T \in SUBSET Nat
    BY DEF T
  <2> QED BY <2>1, SmallestNat
<1>2. i \in 1 .. n /\ s[i] = t[i] /\ f[i] # g[i]
  OBVIOUS
<1>7. i \in 1 .. n /\ i \in 1 .. m
  BY <1>2
<1>10. n \in Nat /\ Joins(s, n, f) /\ m \in Nat /\ Joins(t, m, g)
  OBVIOUS
<1>8. \A j \in 1 .. n : f[j] = IF j = 1 THEN s[j] ELSE f[j - 1] \o s[j]
  BY ONLY <1>10, JoinsAt
<1>9. \A j \in 1 .. m : g[j] = IF j = 1 THEN t[j] ELSE g[j - 1] \o t[j]
  BY ONLY <1>10, JoinsAt
<1>3. i # 1
  <2> SUFFICES ASSUME i = 1 PROVE FALSE
    OBVIOUS
  <2>1. f[i] = s[i] /\ g[i] = t[i]
    BY <1>7, <1>8, <1>9
  <2> QED BY <1>2, <2>1
<1>4. i - 1 \in 1 .. n /\ ~(i <= i - 1)
  BY <1>2, <1>3
<1>5. f[i - 1] = g[i - 1]
  BY <1>1, <1>4
<1>6. f[i] = f[i - 1] \o s[i] /\ g[i] = g[i - 1] \o t[i]
  BY <1>3, <1>7, <1>8, <1>9
<1> QED BY <1>2, <1>5, <1>6

LEMMA JoinsType ==
  ASSUME NEW S, NEW seqs, NEW n \in Nat, \A i \in 1 .. n : seqs[i] \in Seq(S), NEW f, Joins(seqs, n, f)
  PROVE  \A i \in 1 .. n : f[i] \in Seq(S)
<1> DEFINE T == {i \in 1 .. n : f[i] \notin Seq(S)}
<1> SUFFICES ASSUME T # {} PROVE FALSE
  OBVIOUS
<1>1. PICK i \in T : \A j \in T : i <= j
  <2> HIDE DEF T
  <2>1. T \in SUBSET Nat
    BY DEF T
  <2> QED BY <2>1, SmallestNat
<1>2. i \in 1 .. n /\ seqs[i] \in Seq(S) /\ f[i] \notin Seq(S)
  OBVIOUS
<1>8. \A j \in 1 .. n : f[j] = IF j = 1 THEN seqs[j] ELSE f[j - 1] \o seqs[j]
  BY JoinsAt
<1>3. i # 1
  <2> SUFFICES ASSUME i = 1 PROVE FALSE
    OBVIOUS
  <2>1. f[i] = seqs[i]
    BY <1>2, <1>8
  <2> QED BY <1>2, <2>1
<1>4. i - 1 \in 1 .. n /\ ~(i <= i - 1)
  BY <1>2, <1>3
<1>5. f[i - 1] \in Seq(S)
  BY <1>1, <1>4
<1>6. f[i] = f[i - 1] \o seqs[i]
  BY <1>2, <1>3, <1>8
<1>7. f[i - 1] \o seqs[i] \in Seq(S)
  BY <1>2, <1>5, ConcatProperties
<1> QED BY <1>2, <1>6, <1>7

LEMMA FlattenIs ==
  ASSUME NEW seqs, Len(seqs) \in Nat, Len(seqs) # 0, NEW f, Joins(seqs, Len(seqs), f)
  PROVE  FlattenSeq(seqs) = f[Len(seqs)]
<1> DEFINE g == CHOOSE h : h = [i \in 1 .. Len(seqs) |-> IF i = 1 THEN seqs[i] ELSE h[i - 1] \o seqs[i]]
<1>1. Joins(seqs, Len(seqs), g)
  BY DEF Joins
<1>2. FlattenSeq(seqs) = g[Len(seqs)]
  BY DEF FlattenSeq
<1> HIDE DEF g
<1>3. \A i \in 1 .. Len(seqs) : g[i] = f[i]
  <2>1. Len(seqs) <= Len(seqs)
    OBVIOUS
  <2> QED BY <1>1, <2>1, JoinsAgree
<1>4. Len(seqs) \in 1 .. Len(seqs)
  OBVIOUS
<1> QED BY <1>2, <1>3, <1>4

LEMMA FlattenFacts ==
  ASSUME NEW S
  PROVE  /\ FlattenSeq(<< >>) = << >>
         /\ \A s \in Seq(Seq(S)) : FlattenSeq(s) \in Seq(S)
         /\ \A s \in Seq(Seq(S)), x \in Seq(S) : FlattenSeq(Append(s, x)) = FlattenSeq(s) \o x
<1>1. FlattenSeq(<< >>) = << >>
  BY EmptySeq DEF FlattenSeq
<1>2. ASSUME NEW s \in Seq(Seq(S)) PROVE FlattenSeq(s) \in Seq(S)
  <2>1. Len(s) \in Nat /\ \A i \in 1 .. Len(s) : s[i] \in Seq(S)
    BY LenProperties, ElementOfSeq
  <2>2. CASE s = << >>
    BY <1>1, <2>2, EmptySeq
  <2>3. CASE s # << >>
    <3>1. Len(s) # 0
      BY <2>1, <2>3, EmptySeq
    <3>2. PICK f : Joins(s, Len(s), f)
      BY <2>1, JoinsExists
    <3>3. FlattenSeq(s) = f[Len(s)]
      BY <2>1, <3>1, <3>2, FlattenIs
    <3>4. \A i \in 1 .. Len(s) : f[i] \in Seq(S)
      BY <2>1, <3>2, JoinsType
    <3> QED BY <2>1, <3>1, <3>3, <3>4
  <2> QED BY <2>2, <2>3
<1>3. ASSUME NEW s, NEW x, s \in Seq(Seq(S)), x \in Seq(S)
      PROVE  FlattenSeq(Append(s, x)) = FlattenSeq(s) \o x
  <2> DEFINE t == Append(s, x)
             n == Len(s)
  <2>1. /\ t \in Seq(Seq(S)) /\ Len(t) = n + 1 /\ n \in Nat
        /\ (\A i \in 1 .. n : t[i] = s[i]) /\ t[n + 1] = x
    BY <1>3, AppendProperties, LenProperties
  <2>6. Len(s) = n
    OBVIOUS
  <2> HIDE DEF t, n
  <2>2. PICK g : Joins(t, n + 1, g)
    <3>1. n + 1 \in Nat
      BY <2>1
    <3> QED BY <3>1, JoinsExists
  <2>7. \A j \in 1 .. n + 1 : g[j] = IF j = 1 THEN t[j] ELSE g[j - 1] \o t[j]
    <3>1. n + 1 \in Nat
      BY <2>1
    <3> QED BY <2>2, <3>1, JoinsAt
  <2>3. FlattenSeq(t) = g[n + 1]
    <3>1. Len(t) \in Nat /\ Len(t) # 0 /\ Len(t) = n + 1
      BY <2>1
    <3>2. FlattenSeq(t) = g[Len(t)]
      BY <2>2, <3>1, FlattenIs
    <3> QED BY <2>1, <3>2
  <2>4. CASE n = 0
    <3>1. s = << >>
      BY <1>3, <2>4, <2>6, EmptySeq
    <3>2. g[n + 1] = t[n + 1]
      <4>1. n + 1 \in 1 .. n + 1 /\ n + 1 = 1 /\ n + 1 \in Nat
        BY <2>4
      <4> QED BY <2>7, <4>1
    <3>3. FlattenSeq(t) = x
      BY <2>1, <2>3, <3>2
    <3>4. << >> \o x = x
      BY <1>3, ConcatEmptySeq
    <3> QED BY <1>1, <3>1, <3>3, <3>4 DEF t
  <2>5. CASE n # 0
    <3>1. PICK f : Joins(s, n, f)
      BY <2>1, JoinsExists
    <3>2. FlattenSeq(s) = f[n]
      BY <2>1, <2>5, <2>6, <3>1, FlattenIs
    <3>3. g[n] = f[n]
      <4>1. n \in 1 .. n /\ n <= n + 1 /\ n <= n /\ n + 1 \in Nat
        BY <2>1, <2>5
      <4>3. \A i \in 1 .. n : s[i] = t[i]
        BY <2>1
      <4>2. \A i \in 1 .. n : f[i] = g[i]
        <5> DEFINE m == n + 1
        <5>1. m \in Nat /\ n \in Nat /\ n <= m /\ Joins(t, m, g)
          BY <2>1, <2>2, <4>1
        <5> HIDE DEF m
        <5> QED BY <3>1, <4>3, <5>1, JoinsAgree
      <4> QED BY <4>1, <4>2
    <3>4. g[n + 1] = g[n] \o t[n + 1]
      <4>1. n + 1 \in 1 .. n + 1 /\ n + 1 # 1 /\ n + 1 \in Nat /\ (n + 1) - 1 = n
        BY <2>1, <2>5
      <4>2. g[n + 1] = g[(n + 1) - 1] \o t[n + 1]
        BY <2>7, <4>1
      <4> QED BY <4>1, <4>2
    <3> QED BY <2>1, <2>3, <3>2, <3>3, <3>4 DEF t
  <2> QED BY <2>4, <2>5
<1> QED BY <1>1, <1>2, <1>3

-----------------------------------------------------------------------------
(* Characters, and the deltas of a stream.                                 *)

\* The bytes begin with the first byte of a character.
Opens(p) == p # << >> /\ p[1] # Further

Boundaries(D) == \A i \in 2 .. Len(D) : Whole(D[i - 1]) \/ D[i][1] # Further

\* A channel c as its deltas D and the bytes p that wait for the rest of a character.
StreamOf(D, p, c) ==
  /\ D \in Seq(Bytes) /\ p \in Bytes /\ FlattenSeq(D) \o p = c
  /\ Boundaries(D) /\ (D = << >> \/ Whole(D[Len(D)]) \/ Opens(p))
  /\ p = << >> \/ Opens(p)

LEMMA WidthIs == ASSUME NEW c PROVE Width(c) \in 0 .. 4
  BY DEF Width

LEMMA IncompleteTailIs ==
  ASSUME NEW text \in Bytes
  PROVE  /\ IncompleteTail(text) \in 0 .. Len(text)
         /\ IncompleteTail(text) = 0 => Whole(text)
         /\ IncompleteTail(text) # 0 => text[Len(text) + 1 - IncompleteTail(text)] # Further
<1> DEFINE n == Len(text)
           FromEnd(k) == text[Len(text) + 1 - k]
           b == Min({3, Len(text)})
           leads == {k \in 1 .. b : FromEnd(k) # Further /\ \A j \in 1 .. (k - 1) : FromEnd(j) = Further}
           waits == {k \in leads : Width(FromEnd(k)) > k}
<1>1. n \in Nat /\ n = Len(text)
  BY LenProperties DEF Bytes
<1>2. b = IF 3 <= n THEN 3 ELSE n
  <2> HIDE DEF b
  <2>1. Min({3, Len(text)}) = IF 3 <= Len(text) THEN 3 ELSE Len(text)
    BY <1>1, MinOfTwo
  <2> QED BY <2>1 DEF b
<1>3. IncompleteTail(text) = IF waits = {} THEN 0 ELSE Min(waits)
  BY DEF IncompleteTail
<1> HIDE DEF b
<1>4. waits \in SUBSET Nat /\ \A k \in waits : k \in 1 .. n /\ FromEnd(k) # Further
  BY <1>1, <1>2
<1>5. ASSUME waits = {} PROVE Whole(text)
  <2> SUFFICES ASSUME NEW i \in 1 .. Len(text), \A j \in (i + 1) .. Len(text) : text[j] = Further
               PROVE  Width(text[i]) <= Len(text) + 1 - i
    BY DEF Whole
  <2> DEFINE k == Len(text) + 1 - i
  <2>1. k \in 1 .. n /\ FromEnd(k) = text[i] /\ i = Len(text) + 1 - k
    <3>1. k \in 1 .. n /\ Len(text) + 1 - k = i
      BY <1>1
    <3> QED BY <3>1
  <2>2. Width(text[i]) \in 0 .. 4
    BY WidthIs
  <2>3. CASE k >= 4
    BY <1>1, <2>1, <2>2, <2>3
  <2>4. CASE text[i] = Further
    <3>1. Width(text[i]) = 0
      BY <2>4 DEF Width, Further
    <3> QED BY <1>1, <2>1, <3>1
  <2>5. CASE k < 4 /\ text[i] # Further
    <3>1. k \in 1 .. b
      BY <1>1, <1>2, <2>1, <2>5
    <3>2. \A j \in 1 .. (k - 1) : FromEnd(j) = Further
      <4> TAKE j \in 1 .. (k - 1)
      <4>1. Len(text) + 1 - j \in (i + 1) .. Len(text)
        BY <1>1, <2>1
      <4> QED BY <4>1
    <3>3. k \in leads
      BY <2>1, <2>5, <3>1, <3>2
    <3>4. ~(Width(FromEnd(k)) > k)
      BY <1>5, <3>3
    <3>5. ~(Width(text[i]) > k)
      BY <2>1, <3>4
    <3> HIDE DEF FromEnd, leads, waits
    <3> QED BY <1>1, <2>1, <2>2, <3>5
  <2>6. k >= 4 \/ k < 4
    BY <1>1, <2>1
  <2> QED BY <2>3, <2>4, <2>5, <2>6
<1>6. ASSUME waits # {} PROVE Min(waits) \in waits
  <2> HIDE DEF waits
  <2> QED BY <1>4, <1>6, MinIs
<1>7. waits # {} => Min(waits) \in 1 .. n /\ FromEnd(Min(waits)) # Further
  <2> HIDE DEF waits, FromEnd
  <2> QED BY <1>4, <1>6
<1>8. CASE waits = {}
  <2> HIDE DEF waits
  <2> QED BY <1>1, <1>3, <1>5, <1>8
<1>9. CASE waits # {}
  <2>1. IncompleteTail(text) = Min(waits)
    BY <1>3, <1>9
  <2> HIDE DEF waits
  <2> QED BY <1>1, <1>7, <1>9, <2>1
<1> QED BY <1>8, <1>9

LEMMA BoundariesAppend ==
  ASSUME NEW D, NEW d, D \in Seq(Bytes), d \in Bytes, Boundaries(D),
         D = << >> \/ Whole(D[Len(D)]) \/ d[1] # Further
  PROVE  Append(D, d) \in Seq(Bytes) /\ Boundaries(Append(D, d))
<1> DEFINE E == Append(D, d)
           n == Len(D)
<1>1. /\ E \in Seq(Bytes) /\ Len(E) = n + 1 /\ n \in Nat
      /\ (\A i \in 1 .. n : E[i] = D[i]) /\ E[n + 1] = d
  BY AppendProperties, LenProperties
<1>2. D = << >> <=> n = 0
  BY EmptySeq
<1>3. n = Len(D)
  OBVIOUS
<1> HIDE DEF E, n
<1>4. \A i \in 2 .. Len(E) : Whole(E[i - 1]) \/ E[i][1] # Further
  <2> TAKE i \in 2 .. Len(E)
  <2>1. CASE i = n + 1
    <3>1. n # 0 /\ i - 1 = n /\ n \in 1 .. n
      BY <1>1, <2>1
    <3>2. E[i - 1] = D[n] /\ E[i] = d
      BY <1>1, <2>1, <3>1
    <3> QED BY <1>2, <1>3, <3>1, <3>2
  <2>2. CASE i # n + 1
    <3>1. i \in 2 .. n /\ i \in 1 .. n /\ i - 1 \in 1 .. n
      BY <1>1, <2>2
    <3>2. E[i - 1] = D[i - 1] /\ E[i] = D[i]
      BY <1>1, <3>1
    <3> QED BY <1>3, <3>1, <3>2 DEF Boundaries
  <2> QED BY <2>1, <2>2
<1> QED BY <1>1, <1>4 DEF Boundaries, E

LEMMA StreamGrows ==
  ASSUME NEW D, NEW p, NEW c, NEW b, StreamOf(D, p, c), b \in Bytes
  PROVE  LET j == p \o b
             e == Len(j) - IncompleteTail(j)
             d == UpTo(j, e)
         IN  /\ j \in Bytes /\ e \in 0 .. Len(j) /\ d \in Bytes /\ From(j, e + 1) \in Bytes
             /\ StreamOf(IF d = << >> THEN D ELSE Append(D, d), From(j, e + 1), c \o b)
<1> DEFINE j == p \o b
           e == Len(j) - IncompleteTail(j)
           d == UpTo(j, e)
           q == From(j, e + 1)
           E == IF d = << >> THEN D ELSE Append(D, d)
<1>1. D \in Seq(Bytes) /\ p \in Seq(Byte) /\ b \in Seq(Byte) /\ FlattenSeq(D) \in Seq(Byte)
  BY FlattenFacts DEF StreamOf, Bytes
<1>2. /\ j \in Bytes /\ Len(j) = Len(p) + Len(b) /\ Len(p) \in Nat /\ Len(b) \in Nat
      /\ \A i \in 1 .. Len(p) : j[i] = p[i]
  BY <1>1, Joined DEF Bytes
<1>3. FlattenSeq(D) \o j = c \o b
  <2>1. (FlattenSeq(D) \o p) \o b = FlattenSeq(D) \o (p \o b)
    BY <1>1, ConcatAssociative
  <2> QED BY <2>1 DEF StreamOf
<1>4. p # << >> => j[1] = p[1]
  <2>1. p # << >> => 1 \in 1 .. Len(p)
    BY <1>1, <1>2, CutEnds
  <2> QED BY <1>2, <2>1
<1> HIDE DEF j
<1>5. /\ IncompleteTail(j) \in 0 .. Len(j)
      /\ IncompleteTail(j) = 0 => Whole(j)
      /\ IncompleteTail(j) # 0 => j[Len(j) + 1 - IncompleteTail(j)] # Further
  BY <1>2, IncompleteTailIs
<1>6. e \in 0 .. Len(j) /\ e \in Nat /\ Len(j) \in Nat /\ Len(j) - e = IncompleteTail(j)
      /\ Len(j) + 1 - IncompleteTail(j) = e + 1
  BY <1>2, <1>5
<1>7. e = Len(j) - IncompleteTail(j)
  OBVIOUS
<1> HIDE DEF e
<1>8. /\ d \in Bytes /\ Len(d) = e /\ \A i \in 1 .. e : d[i] = j[i]
      /\ q \in Bytes /\ Len(q) = Len(j) - e /\ \A i \in 1 .. (Len(j) - e) : q[i] = j[e + i]
      /\ d \o q = j
  <2>1. j \in Bytes
    BY <1>2
  <2>2. \A i \in 1 .. e : d[i] = j[i]
    BY ONLY <1>6, <2>1, HalfBytes
  <2>3. \A i \in 1 .. (Len(j) - e) : q[i] = j[e + i]
    BY ONLY <1>6, <2>1, HalfBytes
  <2>4. d \in Bytes /\ Len(d) = e /\ q \in Bytes /\ Len(q) = Len(j) - e /\ d \o q = j
    BY ONLY <1>6, <2>1, Halves
  <2> QED BY ONLY <2>2, <2>3, <2>4
<1> HIDE DEF d, q
<1>9. (d = << >> <=> e = 0) /\ (q = << >> <=> IncompleteTail(j) = 0) /\ (j = << >> <=> Len(j) = 0)
  <2>1. (d = << >> <=> Len(d) = 0) /\ (q = << >> <=> Len(q) = 0) /\ (j = << >> <=> Len(j) = 0)
    BY <1>2, <1>8, CutEnds DEF Bytes
  <2> QED BY <1>6, <1>8, <2>1
<1>10. q # << >> => Opens(q)
  <2> SUFFICES ASSUME q # << >> PROVE q[1] # Further
    BY DEF Opens
  <2>1. 1 \in 1 .. (Len(j) - e) /\ IncompleteTail(j) # 0
    BY <1>5, <1>6, <1>9
  <2>2. q[1] = j[e + 1]
    BY <1>8, <2>1
  <2> QED BY <1>5, <1>6, <2>1, <2>2
<1>11. CASE d = << >>
  <2>1. e = 0 /\ q = j
    <3>1. << >> \o q = q
      BY <1>8, ConcatEmptySeq DEF Bytes
    <3> QED BY <1>8, <1>9, <1>11, <3>1
  <2>2. D = << >> \/ Whole(D[Len(D)]) \/ Opens(q)
    <3> SUFFICES ASSUME D # << >>, ~Whole(D[Len(D)]) PROVE q # << >>
      BY <1>10
    <3>1. Opens(p)
      BY DEF StreamOf
    <3>2. Len(p) # 0
      BY <1>1, <3>1, CutEnds DEF Opens
    <3> QED BY <1>2, <1>9, <2>1, <3>2
  <2>3. E = D
    BY <1>11
  <2>4. q = << >> \/ Opens(q)
    BY <1>10
  <2>5. FlattenSeq(E) \o q = c \o b
    BY <1>3, <2>1, <2>3
  <2> HIDE DEF E
  <2>6. StreamOf(E, q, c \o b)
    BY <1>1, <1>8, <2>2, <2>3, <2>4, <2>5 DEF StreamOf
  <2> QED BY <1>2, <1>6, <1>8, <2>6 DEF E, q, d, e, j
<1>12. CASE d # << >>
  <2>1. E = Append(D, d)
    BY <1>12
  <2> HIDE DEF E
  <2>2. d[1] = j[1]
    <3>1. 1 \in 1 .. e
      BY <1>6, <1>9, <1>12
    <3> QED BY <1>8, <3>1
  <2>3. E \in Seq(Bytes) /\ Boundaries(E)
    <3>1. D = << >> \/ Whole(D[Len(D)]) \/ d[1] # Further
      BY <1>4, <2>2 DEF StreamOf, Opens
    <3>2. Boundaries(D)
      BY DEF StreamOf
    <3> QED BY <1>1, <1>8, <2>1, <3>1, <3>2, BoundariesAppend
  <2>4. E[Len(E)] = d
    <3>1. Len(E) = Len(D) + 1 /\ E[Len(D) + 1] = d
      BY <1>1, <1>8, <2>1, AppendProperties
    <3> QED BY <3>1
  <2>5. Whole(d) \/ Opens(q)
    <3> SUFFICES ASSUME q = << >> PROVE Whole(d)
      BY <1>10
    <3>1. d = j
      <4>1. d \o << >> = d
        BY <1>8, ConcatEmptySeq DEF Bytes
      <4> QED BY <1>8, <4>1
    <3> QED BY <1>5, <1>9, <3>1
  <2>6. FlattenSeq(E) \o q = c \o b
    <3>1. FlattenSeq(E) = FlattenSeq(D) \o d
      BY <1>1, <1>8, <2>1, FlattenFacts DEF Bytes
    <3>2. (FlattenSeq(D) \o d) \o q = FlattenSeq(D) \o (d \o q)
      <4>1. FlattenSeq(D) \in Seq(Byte) /\ d \in Seq(Byte) /\ q \in Seq(Byte)
        BY <1>1, <1>8 DEF Bytes
      <4> QED BY <4>1, ConcatAssociative
    <3> QED BY <1>3, <1>8, <3>1, <3>2
  <2>7. q = << >> \/ Opens(q)
    BY <1>10
  <2>8. StreamOf(E, q, c \o b)
    BY <1>8, <2>3, <2>4, <2>5, <2>6, <2>7 DEF StreamOf
  <2> QED BY <1>2, <1>6, <1>8, <2>8 DEF E, q, d, e, j
<1> QED BY <1>11, <1>12

LEMMA StreamEnds ==
  ASSUME NEW D, NEW p, NEW c, StreamOf(D, p, c)
  PROVE  LET E == IF p = << >> THEN D ELSE Append(D, p)
         IN  E \in Seq(Bytes) /\ FlattenSeq(E) = c /\ Boundaries(E)
<1>1. D \in Seq(Bytes) /\ p \in Bytes /\ FlattenSeq(D) \in Seq(Byte)
  BY FlattenFacts DEF StreamOf, Bytes
<1>2. CASE p = << >>
  <2>1. FlattenSeq(D) \o << >> = FlattenSeq(D)
    BY <1>1, ConcatEmptySeq
  <2> QED BY <1>1, <1>2, <2>1 DEF StreamOf
<1>3. CASE p # << >>
  <2>1. FlattenSeq(Append(D, p)) = FlattenSeq(D) \o p
    BY <1>1, FlattenFacts DEF Bytes
  <2>2. D = << >> \/ Whole(D[Len(D)]) \/ p[1] # Further
    BY DEF StreamOf, Opens
  <2>3. Boundaries(D)
    BY DEF StreamOf
  <2>4. Append(D, p) \in Seq(Bytes) /\ Boundaries(Append(D, p))
    BY <1>1, <2>2, <2>3, BoundariesAppend
  <2> QED BY <1>3, <2>1, <2>4 DEF StreamOf
<1> QED BY <1>2, <1>3

-----------------------------------------------------------------------------
(* The items of a stream.                                                  *)

Kinds == {"content", "reason"}
Item  == [kind : Kinds, deltas : Seq(Bytes)]

Column(items, kind) ==
  [i \in 1 .. Len(items) |-> IF items[i].kind = kind THEN items[i].deltas ELSE << >>]

DeltasIn(items, kind) == FlattenSeq(Column(items, kind))

Alternate(items) == \A i \in 2 .. Len(items) : items[i].kind # items[i - 1].kind

LEMMA ColumnAppend ==
  ASSUME NEW items, NEW it, NEW kind, items \in Seq(Item), it \in Item
  PROVE  LET new == IF it.kind = kind THEN it.deltas ELSE << >>
         IN  /\ Column(items, kind) \in Seq(Seq(Bytes)) /\ new \in Seq(Bytes)
             /\ Column(Append(items, it), kind) = Append(Column(items, kind), new)
<1> DEFINE new == IF it.kind = kind THEN it.deltas ELSE << >>
           E == Append(items, it)
           n == Len(items)
           C == Column(items, kind)
           D == Column(E, kind)
<1>1. n \in Nat /\ \A i \in 1 .. n : items[i] \in Item
  BY LenProperties, ElementOfSeq
<1>2. \A x \in Item : x.deltas \in Seq(Bytes)
  BY DEF Item
<1>3. << >> \in Seq(Bytes)
  BY EmptySeq
<1>4. new \in Seq(Bytes)
  BY <1>2, <1>3
<1>5. Len(E) = n + 1 /\ (\A i \in 1 .. n : E[i] = items[i]) /\ E[n + 1] = it
  BY AppendProperties
<1>6. C = [i \in 1 .. n |-> IF items[i].kind = kind THEN items[i].deltas ELSE << >>]
  BY DEF Column
<1>7. C \in Seq(Seq(Bytes)) /\ Len(C) = n
  <2>1. C \in [1 .. n -> Seq(Bytes)]
    BY <1>1, <1>2, <1>3, <1>6
  <2> HIDE DEF C, n
  <2> QED BY <1>1, <2>1
<1>8. D = [i \in 1 .. n + 1 |-> IF E[i].kind = kind THEN E[i].deltas ELSE << >>]
  BY <1>5 DEF Column
<1> HIDE DEF E, C, D, n, new
<1>9. /\ Append(C, new) \in Seq(Seq(Bytes)) /\ Len(Append(C, new)) = n + 1
      /\ (\A i \in 1 .. n : Append(C, new)[i] = C[i]) /\ Append(C, new)[n + 1] = new
  BY <1>4, <1>7, AppendProperties
<1>10. \A i \in 1 .. n + 1 : D[i] = Append(C, new)[i]
  <2> TAKE i \in 1 .. n + 1
  <2>1. CASE i = n + 1
    <3>1. D[n + 1] = new
      <4>1. n + 1 \in 1 .. n + 1
        BY <1>1
      <4> QED BY <1>5, <1>8, <4>1 DEF new
    <3> QED BY <1>9, <2>1, <3>1
  <2>2. CASE i # n + 1
    <3>1. i \in 1 .. n
      BY <1>1, <2>2
    <3>2. D[i] = C[i]
      BY <1>5, <1>6, <1>8, <3>1
    <3> QED BY <1>9, <3>1, <3>2
  <2> QED BY <2>1, <2>2
<1>11. D \in Seq(Seq(Bytes)) /\ Len(D) = n + 1
  <2>1. D \in [1 .. n + 1 -> Seq(Bytes)]
    <3>1. \A i \in 1 .. n + 1 : D[i] \in Seq(Bytes)
      <4>1. \A i \in 1 .. n + 1 : Append(C, new)[i] \in Seq(Bytes)
        BY <1>9, ElementOfSeq
      <4> QED BY <1>10, <4>1
    <3> QED BY <1>8, <3>1
  <2> QED BY <1>1, <2>1
<1>12. D = Append(C, new)
  BY <1>9, <1>10, <1>11, SeqEqual
<1> QED BY <1>4, <1>7, <1>12 DEF C, D, E, new

LEMMA DeltasAppend ==
  ASSUME NEW items, NEW it, NEW kind, items \in Seq(Item), it \in Item
  PROVE  /\ DeltasIn(items, kind) \in Seq(Bytes)
         /\ DeltasIn(Append(items, it), kind)
              = DeltasIn(items, kind) \o (IF it.kind = kind THEN it.deltas ELSE << >>)
<1> DEFINE new == IF it.kind = kind THEN it.deltas ELSE << >>
<1>1. /\ Column(items, kind) \in Seq(Seq(Bytes)) /\ new \in Seq(Bytes)
      /\ Column(Append(items, it), kind) = Append(Column(items, kind), new)
  BY ColumnAppend
<1> HIDE DEF new
<1>2. /\ FlattenSeq(Column(items, kind)) \in Seq(Bytes)
      /\ FlattenSeq(Append(Column(items, kind), new)) = FlattenSeq(Column(items, kind)) \o new
  BY <1>1, FlattenFacts
<1> QED BY <1>1, <1>2 DEF DeltasIn, new

LEMMA DeltasNone == ASSUME NEW kind PROVE DeltasIn(<< >>, kind) = << >>
<1>1. Len(<< >>) = 0
  BY EmptySeq
<1>2. Column(<< >>, kind) = << >>
  <2>1. Column(<< >>, kind) \in [1 .. 0 -> Byte] /\ << >> \in [1 .. 0 -> Byte]
    BY <1>1 DEF Column
  <2> QED BY <2>1
<1> QED BY <1>2, FlattenFacts DEF DeltasIn

\* One more delta in the last item.
Extended(items, bytes) == [items EXCEPT ![Len(items)].deltas = Append(@, bytes)]

LEMMA DeltaAdded ==
  ASSUME NEW items, NEW kind, NEW bytes, items \in Seq(Item), items # << >>, bytes \in Bytes,
         items[Len(items)].kind = kind, Alternate(items)
  PROVE  LET more == Extended(items, bytes)
         IN  /\ more \in Seq(Item) /\ more # << >> /\ Alternate(more)
             /\ DeltasIn(more, kind) = Append(DeltasIn(items, kind), bytes)
             /\ \A k \in Kinds : k # kind => DeltasIn(more, k) = DeltasIn(items, k)
<1> DEFINE n == Len(items)
           more == Extended(items, bytes)
           front == UpTo(items, n - 1)
           last == items[n]
           next == [last EXCEPT !.deltas = Append(@, bytes)]
<1>1. n \in Nat /\ n # 0 /\ n \in 1 .. n /\ n = Len(items)
  BY CutEnds
<1>2. items \in [1 .. n -> Item] /\ last \in Item
  BY <1>1, LenProperties
<1>3. last.deltas \in Seq(Bytes) /\ last.kind \in Kinds /\ last.kind = kind
  BY <1>2 DEF Item
<1>4. Append(last.deltas, bytes) \in Seq(Bytes)
  <2> HIDE DEF last
  <2> QED BY <1>3, AppendProperties
<1>5. next \in Item /\ next.kind = kind /\ next.deltas = Append(last.deltas, bytes)
  <2> HIDE DEF last
  <2> QED BY <1>2, <1>3, <1>4 DEF Item
<1>6. more = [items EXCEPT ![n] = next]
  BY DEF Extended
<1>7. /\ front \in Seq(Item) /\ Len(front) = n - 1 /\ \A i \in 1 .. (n - 1) : front[i] = items[i]
  <2>1. n - 1 \in 0 .. Len(items)
    BY <1>1
  <2> HIDE DEF n
  <2> QED BY <2>1, Cut
<1> HIDE DEF more, front, next, last, n
<1>8. more \in [1 .. n -> Item] /\ more[n] = next /\ \A i \in 1 .. n : i # n => more[i] = items[i]
  BY <1>1, <1>2, <1>5, <1>6
<1>9. more \in Seq(Item) /\ Len(more) = n
  BY <1>1, <1>8
<1>10. more # << >>
  BY <1>1, <1>9, EmptySeq
<1>11. \A x \in Item : /\ Append(front, x) \in Seq(Item) /\ Len(Append(front, x)) = n - 1 + 1
                       /\ \A i \in 1 .. (n - 1) : Append(front, x)[i] = front[i]
                       /\ Append(front, x)[n - 1 + 1] = x
  <2> TAKE x \in Item
  <2>1. /\ Append(front, x) \in Seq(Item) /\ Len(Append(front, x)) = Len(front) + 1
        /\ \A i \in 1 .. Len(front) : Append(front, x)[i] = front[i]
        /\ Append(front, x)[Len(front) + 1] = x
    BY <1>7, AppendProperties
  <2> QED BY <1>7, <2>1
<1>12. n - 1 + 1 = n
  BY <1>1
<1>13. ASSUME NEW x \in Item, NEW w, w \in Seq(Item), Len(w) = n, w[n] = x,
              \A i \in 1 .. (n - 1) : w[i] = items[i]
       PROVE  w = Append(front, x)
  <2> DEFINE v == Append(front, x)
  <2>1. v \in Seq(Item) /\ Len(v) = n /\ v[n] = x /\ \A i \in 1 .. (n - 1) : v[i] = items[i]
    BY <1>7, <1>11, <1>12
  <2> HIDE DEF v
  <2>2. \A i \in 1 .. n : w[i] = v[i]
    <3> TAKE i \in 1 .. n
    <3>1. CASE i = n
      BY <1>13, <2>1, <3>1
    <3>2. CASE i # n
      <4>1. i \in 1 .. (n - 1)
        BY <1>1, <3>2
      <4> QED BY <1>13, <2>1, <4>1
    <3> QED BY <3>1, <3>2
  <2>3. w = v
    BY <1>13, <2>1, <2>2, SeqEqual
  <2> QED BY <2>3 DEF v
<1>14. items = Append(front, last)
  <2>1. Len(items) = n /\ items[n] = last /\ \A i \in 1 .. (n - 1) : items[i] = items[i]
    BY DEF last, n
  <2> QED BY <1>2, <1>13, <2>1
<1>15. more = Append(front, next)
  <2>1. \A i \in 1 .. (n - 1) : more[i] = items[i]
    <3> TAKE i \in 1 .. (n - 1)
    <3>1. i \in 1 .. n /\ i # n
      BY <1>1
    <3> QED BY <1>8, <3>1
  <2> QED BY <1>5, <1>8, <1>9, <1>13, <2>1
<1>16. DeltasIn(more, kind) = Append(DeltasIn(items, kind), bytes)
  <2> DEFINE d == last.deltas
             F == DeltasIn(front, kind)
  <2>1. F \in Seq(Bytes) /\ DeltasIn(Append(front, last), kind) = F \o d
    BY <1>2, <1>3, <1>7, DeltasAppend
  <2>2. DeltasIn(Append(front, next), kind) = F \o Append(d, bytes)
    <3>1. next \in Item /\ front \in Seq(Item) /\ next.kind = kind
      BY <1>5, <1>7
    <3>2. DeltasIn(Append(front, next), kind) = F \o next.deltas
      BY <3>1, DeltasAppend
    <3> QED BY <1>5, <3>2
  <2>3. d \in Seq(Bytes)
    BY <1>3
  <2> HIDE DEF d, F
  <2>4. Append(d, bytes) = d \o <<bytes>> /\ <<bytes>> \in Seq(Bytes)
    BY <2>3, AppendIsConcat
  <2>5. F \o (d \o <<bytes>>) = (F \o d) \o <<bytes>>
    BY <2>1, <2>3, <2>4, ConcatAssociative
  <2>6. F \o d \in Seq(Bytes)
    BY <2>1, <2>3, ConcatProperties
  <2>7. Append(F \o d, bytes) = (F \o d) \o <<bytes>>
    BY <2>6, AppendIsConcat
  <2> QED BY <1>14, <1>15, <2>1, <2>2, <2>4, <2>5, <2>7 DEF d
<1>17. ASSUME NEW k \in Kinds, k # kind PROVE DeltasIn(more, k) = DeltasIn(items, k)
  <2>1. DeltasIn(Append(front, last), k) = DeltasIn(front, k) \o << >>
    <3>1. last.kind # k
      BY <1>3, <1>17
    <3>2. DeltasIn(Append(front, last), k)
            = DeltasIn(front, k) \o (IF last.kind = k THEN last.deltas ELSE << >>)
      BY ONLY <1>2, <1>7, DeltasAppend
    <3> QED BY ONLY <3>1, <3>2
  <2>2. DeltasIn(Append(front, next), k) = DeltasIn(front, k) \o << >>
    <3>1. next \in Item /\ front \in Seq(Item) /\ next.kind # k
      BY <1>5, <1>7, <1>17
    <3> QED BY <3>1, DeltasAppend
  <2> QED BY <1>14, <1>15, <2>1, <2>2
<1>18. Alternate(more)
  <2> SUFFICES ASSUME NEW i \in 2 .. n PROVE more[i].kind # more[i - 1].kind
    BY <1>9 DEF Alternate
  <2>1. i \in 1 .. n /\ i - 1 \in 1 .. n /\ i - 1 # n
    BY <1>1
  <2>2. more[i].kind = items[i].kind
    BY <1>3, <1>5, <1>8, <2>1 DEF last
  <2>3. more[i - 1].kind = items[i - 1].kind
    BY <1>8, <2>1
  <2>4. items[i].kind # items[i - 1].kind
    BY <1>1 DEF Alternate
  <2> QED BY <2>2, <2>3, <2>4
<1> QED BY <1>9, <1>10, <1>16, <1>17, <1>18 DEF more, n

-----------------------------------------------------------------------------
(* The response under construction.                                        *)

ContextFields ==
  {"split", "buf", "hold", "stopped", "out", "reason", "u8_pend", "items", "item_open"}

ContextType(g) ==
  /\ DOMAIN g = ContextFields /\ DOMAIN g.u8_pend = Kinds
  /\ g.split \in {"content", "think", "ws"} /\ g.stopped \in BOOLEAN
  /\ g.buf \in Bytes /\ g.hold \in Bytes /\ g.out \in Bytes /\ g.reason \in Bytes

\* Only a stream has items, and from the first one on there is an open one.
ItemsOk(g) ==
  /\ g.items \in Seq(Item) /\ Alternate(g.items)
  /\ g.item_open \in BOOLEAN /\ (g.item_open <=> g.items # << >>)

Channel(g, kind) == IF kind = "content" THEN g.out ELSE g.reason

Streams(g) ==
  conf.api # "buffered" =>
    /\ ItemsOk(g)
    /\ \A k \in Kinds : StreamOf(DeltasIn(g.items, k), g.u8_pend[k], Channel(g, k))

Response(g) == ContextType(g) /\ Streams(g)

\* What sending does not touch.
Untouched(g, h) ==
  /\ DOMAIN h = ContextFields /\ h.split = g.split /\ h.buf = g.buf /\ h.hold = g.hold
  /\ h.stopped = g.stopped

LEMMA SendRawIs ==
  ASSUME NEW g, NEW kind, NEW bytes, DOMAIN g = ContextFields, ItemsOk(g), kind \in Kinds,
         bytes \in Bytes
  PROVE  LET h == SendRaw(g, kind, bytes)
         IN  /\ Untouched(g, h) /\ h.out = g.out /\ h.reason = g.reason /\ h.u8_pend = g.u8_pend
             /\ ItemsOk(h)
             /\ DeltasIn(h.items, kind)
                  = IF bytes = << >> THEN DeltasIn(g.items, kind) ELSE Append(DeltasIn(g.items, kind), bytes)
             /\ \A k \in Kinds : k # kind => DeltasIn(h.items, k) = DeltasIn(g.items, k)
<1> DEFINE h == SendRaw(g, kind, bytes)
           o == OpenItem(g, kind)
           n == Len(o.items)
<1>1. CASE bytes = << >>
  <2>1. h = g
    BY <1>1 DEF SendRaw
  <2> HIDE DEF h
  <2> QED BY <1>1, <2>1 DEF Untouched, h
<1>2. CASE bytes # << >>
  <2> DEFINE it == [kind |-> kind, deltas |-> << >>]
  <2>1. it \in Item /\ it.kind = kind /\ it.deltas = << >>
    <3>1. << >> \in Seq(Bytes)
      BY EmptySeq
    <3> QED BY <3>1 DEF Item
  <2> HIDE DEF it
  <2>2. /\ DOMAIN o = ContextFields /\ o.split = g.split /\ o.buf = g.buf /\ o.hold = g.hold
        /\ o.stopped = g.stopped /\ o.out = g.out /\ o.reason = g.reason /\ o.u8_pend = g.u8_pend
        /\ o.item_open = TRUE
        /\ o.items = IF g.item_open /\ Last(g.items).kind = kind THEN g.items ELSE Append(g.items, it)
    <3>1. CASE g.item_open /\ Last(g.items).kind = kind
      BY <3>1 DEF OpenItem, ItemsOk
    <3>2. CASE ~(g.item_open /\ Last(g.items).kind = kind)
      <4>1. o = [g EXCEPT !.items = Append(@, it), !.item_open = TRUE]
        BY <3>2 DEF OpenItem, it
      <4> HIDE DEF o
      <4> QED BY <3>2, <4>1 DEF ContextFields
    <3> QED BY <3>1, <3>2
  <2>3. h = [o EXCEPT !.items[n].deltas = Append(@, bytes)]
    BY <1>2 DEF SendRaw
  <2>4. /\ o.items \in Seq(Item) /\ o.items # << >> /\ Alternate(o.items) /\ o.items[n].kind = kind
        /\ \A k \in Kinds : DeltasIn(o.items, k) = DeltasIn(g.items, k)
    <3>1. CASE g.item_open /\ Last(g.items).kind = kind
      <4>1. o.items = g.items
        BY <2>2, <3>1
      <4> HIDE DEF o
      <4> QED BY <3>1, <4>1 DEF ItemsOk, Last
    <3>2. CASE ~(g.item_open /\ Last(g.items).kind = kind)
      <4> DEFINE s == g.items
                 t == Append(s, it)
      <4>1. s \in Seq(Item) /\ Len(s) \in Nat /\ (s = << >> <=> Len(s) = 0)
        BY CutEnds DEF ItemsOk
      <4>2. o.items = t
        BY <2>2, <3>2
      <4>8. Alternate(s) /\ (s # << >> => s[Len(s)].kind # kind)
        BY <3>2 DEF ItemsOk, Last
      <4> HIDE DEF o, s
      <4>3. /\ t \in Seq(Item) /\ t # << >> /\ Len(t) = Len(s) + 1
            /\ (\A i \in 1 .. Len(s) : t[i] = s[i]) /\ t[Len(s) + 1] = it
        BY <2>1, <4>1, AppendProperties
      <4>4. n = Len(s) + 1
        BY <4>2, <4>3
      <4>5. \A k \in Kinds : DeltasIn(t, k) = DeltasIn(s, k)
        <5> SUFFICES ASSUME NEW k \in Kinds PROVE DeltasIn(t, k) = DeltasIn(s, k)
          OBVIOUS
        <5>1. DeltasIn(s, k) \in Seq(Bytes)
              /\ DeltasIn(t, k) = DeltasIn(s, k) \o (IF it.kind = k THEN it.deltas ELSE << >>)
          BY <2>1, <4>1, DeltasAppend
        <5>2. DeltasIn(t, k) = DeltasIn(s, k) \o << >>
          BY <2>1, <5>1
        <5> QED BY <5>1, <5>2, ConcatEmptySeq
      <4> HIDE DEF t
      <4>6. Alternate(t)
        <5> SUFFICES ASSUME NEW i \in 2 .. Len(t) PROVE t[i].kind # t[i - 1].kind
          BY DEF Alternate
        <5>1. CASE i = Len(s) + 1
          <6>1. Len(s) # 0 /\ i - 1 = Len(s) /\ Len(s) \in 1 .. Len(s)
            BY <4>1, <5>1
          <6>2. t[i] = it /\ t[i - 1] = s[Len(s)]
            BY <4>3, <5>1, <6>1
          <6> QED BY <2>1, <4>1, <4>8, <6>1, <6>2
        <5>2. CASE i # Len(s) + 1
          <6>1. i \in 1 .. Len(s) /\ i - 1 \in 1 .. Len(s) /\ i \in 2 .. Len(s)
            BY <4>1, <4>3, <5>2
          <6>2. t[i] = s[i] /\ t[i - 1] = s[i - 1]
            BY <4>3, <6>1
          <6> QED BY <4>8, <6>1, <6>2 DEF Alternate
        <5> QED BY <5>1, <5>2
      <4>7. t[n].kind = kind
        BY <2>1, <4>3, <4>4
      <4> QED BY <4>2, <4>3, <4>5, <4>6, <4>7 DEF s
    <3> QED BY <3>1, <3>2
  <2> HIDE DEF o
  <2> DEFINE more == Extended(o.items, bytes)
  <2>5. /\ more \in Seq(Item) /\ more # << >> /\ Alternate(more)
        /\ DeltasIn(more, kind) = Append(DeltasIn(o.items, kind), bytes)
        /\ \A k \in Kinds : k # kind => DeltasIn(more, k) = DeltasIn(o.items, k)
    BY <2>4, DeltaAdded
  <2>6. h = [o EXCEPT !.items = more]
    BY <2>3 DEF Extended
  <2> HIDE DEF more, h
  <2>7. /\ DOMAIN h = ContextFields /\ h.split = o.split /\ h.buf = o.buf /\ h.hold = o.hold
        /\ h.stopped = o.stopped /\ h.out = o.out /\ h.reason = o.reason /\ h.u8_pend = o.u8_pend
        /\ h.item_open = TRUE /\ h.items = more
    BY <2>2, <2>6 DEF ContextFields
  <2>8. ItemsOk(h)
    BY <2>5, <2>7 DEF ItemsOk
  <2>9. Untouched(g, h) /\ h.out = g.out /\ h.reason = g.reason /\ h.u8_pend = g.u8_pend
    BY <2>2, <2>7 DEF Untouched
  <2>10. /\ DeltasIn(h.items, kind) = Append(DeltasIn(g.items, kind), bytes)
         /\ \A k \in Kinds : k # kind => DeltasIn(h.items, k) = DeltasIn(g.items, k)
    BY <2>4, <2>5, <2>7
  <2> QED BY <1>2, <2>8, <2>9, <2>10 DEF h
<1> QED BY <1>1, <1>2

LEMMA SendDeltaIs ==
  ASSUME NEW g, NEW kind, NEW bytes, DOMAIN g = ContextFields, DOMAIN g.u8_pend = Kinds, ItemsOk(g),
         kind \in Kinds, bytes \in Bytes,
         \A k \in Kinds : StreamOf(DeltasIn(g.items, k), g.u8_pend[k], Channel(g, k))
  PROVE  LET h == SendDelta(g, kind, bytes)
         IN  /\ Untouched(g, h) /\ h.out = g.out /\ h.reason = g.reason
             /\ DOMAIN h.u8_pend = Kinds /\ ItemsOk(h)
             /\ StreamOf(DeltasIn(h.items, kind), h.u8_pend[kind], Channel(g, kind) \o bytes)
             /\ \A k \in Kinds : k # kind => StreamOf(DeltasIn(h.items, k), h.u8_pend[k], Channel(g, k))
<1> DEFINE h == SendDelta(g, kind, bytes)
           p == g.u8_pend[kind]
           j == p \o bytes
           e == Len(j) - IncompleteTail(j)
           d == UpTo(j, e)
           q == From(j, e + 1)
           r == SendRaw(g, kind, d)
           D == DeltasIn(g.items, kind)
           c == Channel(g, kind)
<1>1. h = [r EXCEPT !.u8_pend[kind] = q]
  BY DEF SendDelta
<1>2. StreamOf(D, p, c)
  OBVIOUS
<1>3. d \in Bytes /\ StreamOf(IF d = << >> THEN D ELSE Append(D, d), q, c \o bytes)
  <2> HIDE DEF D, p, c
  <2> QED BY <1>2, StreamGrows
<1> HIDE DEF d, q, D, c
<1>4. /\ Untouched(g, r) /\ r.out = g.out /\ r.reason = g.reason /\ r.u8_pend = g.u8_pend
      /\ ItemsOk(r)
      /\ DeltasIn(r.items, kind) = IF d = << >> THEN D ELSE Append(D, d)
      /\ \A k \in Kinds : k # kind => DeltasIn(r.items, k) = DeltasIn(g.items, k)
  BY <1>3, SendRawIs DEF D
<1> HIDE DEF r, h
<1>5. /\ DOMAIN h = ContextFields /\ h.split = r.split /\ h.buf = r.buf /\ h.hold = r.hold
      /\ h.stopped = r.stopped /\ h.out = r.out /\ h.reason = r.reason /\ h.items = r.items
      /\ h.item_open = r.item_open /\ h.u8_pend = [r.u8_pend EXCEPT ![kind] = q]
  BY <1>1, <1>4 DEF ContextFields, Untouched
<1>6. Untouched(g, h) /\ h.out = g.out /\ h.reason = g.reason
  BY <1>4, <1>5 DEF Untouched
<1>7. DOMAIN h.u8_pend = Kinds /\ h.u8_pend[kind] = q
      /\ \A k \in Kinds : k # kind => h.u8_pend[k] = g.u8_pend[k]
  BY <1>4, <1>5
<1>8. ItemsOk(h)
  BY <1>4, <1>5 DEF ItemsOk
<1>9. StreamOf(DeltasIn(h.items, kind), h.u8_pend[kind], c \o bytes)
  BY <1>3, <1>4, <1>5, <1>7
<1>10. \A k \in Kinds : k # kind => StreamOf(DeltasIn(h.items, k), h.u8_pend[k], Channel(g, k))
  BY <1>4, <1>5, <1>7
<1> QED BY <1>6, <1>7, <1>8, <1>9, <1>10 DEF h, c

\* Bytes go to their channel, and in a stream into its deltas.
LEMMA EmitIs ==
  ASSUME NEW g, NEW reasoning, NEW bytes, Response(g), reasoning \in BOOLEAN, bytes \in Bytes
  PROVE  LET h == EmitChannel(g, reasoning, bytes)
         IN  /\ Response(h) /\ Untouched(g, h)
             /\ h.out = IF reasoning THEN g.out ELSE g.out \o bytes
             /\ h.reason = IF reasoning THEN g.reason \o bytes ELSE g.reason
<1> DEFINE kind == IF reasoning THEN "reason" ELSE "content"
           s == IF conf.api = "buffered" THEN g ELSE SendDelta(g, kind, bytes)
           h == EmitChannel(g, reasoning, bytes)
<1>1. kind \in Kinds /\ \A k \in Kinds : k # kind => Channel(g, k) = IF reasoning THEN g.out ELSE g.reason
  BY DEF Kinds, Channel
<1>2. Channel(g, kind) = IF reasoning THEN g.reason ELSE g.out
  BY DEF Channel
<1>3. h = IF reasoning THEN [s EXCEPT !.reason = @ \o bytes] ELSE [s EXCEPT !.out = @ \o bytes]
  BY DEF EmitChannel
<1>4. ContextType(g) /\ DOMAIN g = ContextFields /\ DOMAIN g.u8_pend = Kinds
  BY DEF Response, ContextType
<1> HIDE DEF kind
<1>5. /\ Untouched(g, s) /\ s.out = g.out /\ s.reason = g.reason /\ DOMAIN s.u8_pend = Kinds
      /\ conf.api # "buffered" =>
           /\ ItemsOk(s)
           /\ StreamOf(DeltasIn(s.items, kind), s.u8_pend[kind], Channel(g, kind) \o bytes)
           /\ \A k \in Kinds : k # kind => StreamOf(DeltasIn(s.items, k), s.u8_pend[k], Channel(g, k))
  <2>1. CASE conf.api = "buffered"
    BY <1>4, <2>1 DEF Untouched
  <2>2. CASE conf.api # "buffered"
    <3>1. ItemsOk(g) /\ \A k \in Kinds : StreamOf(DeltasIn(g.items, k), g.u8_pend[k], Channel(g, k))
      BY <2>2 DEF Response, Streams
    <3>2. s = SendDelta(g, kind, bytes)
      BY <2>2
    <3> HIDE DEF s
    <3> QED BY <1>1, <1>4, <3>1, <3>2, SendDeltaIs
  <2> QED BY <2>1, <2>2
<1> HIDE DEF s, h
<1>6. /\ Untouched(g, h) /\ h.u8_pend = s.u8_pend /\ h.items = s.items /\ h.item_open = s.item_open
      /\ h.out = IF reasoning THEN g.out ELSE g.out \o bytes
      /\ h.reason = IF reasoning THEN g.reason \o bytes ELSE g.reason
  BY <1>3, <1>5 DEF Untouched, ContextFields
<1>7. ContextType(h)
  <2>1. g.out \o bytes \in Bytes /\ g.reason \o bytes \in Bytes
    BY <1>4, ConcatProperties DEF ContextType, Bytes
  <2> QED BY <1>4, <1>5, <1>6, <2>1 DEF ContextType, Untouched
<1>8. ASSUME conf.api # "buffered" PROVE ItemsOk(h)
  BY <1>5, <1>6, <1>8 DEF ItemsOk
<1>9. ASSUME conf.api # "buffered", NEW k \in Kinds
      PROVE  StreamOf(DeltasIn(h.items, k), h.u8_pend[k], Channel(h, k))
  <2>1. CASE k = kind
    <3>1. Channel(h, k) = Channel(g, k) \o bytes
      BY <1>2, <1>6, <2>1 DEF Channel, kind
    <3> QED BY <1>5, <1>6, <1>9, <2>1, <3>1
  <2>2. CASE k # kind
    <3>1. Channel(h, k) = Channel(g, k)
      BY <1>6, <2>2 DEF Channel, kind, Kinds
    <3> QED BY <1>5, <1>6, <1>9, <2>2, <3>1
  <2> QED BY <2>1, <2>2
<1> QED BY <1>6, <1>7, <1>8, <1>9 DEF Response, Streams, h

\* h is g with these bytes sent, as reasoning or as content.
Emits(g, h, reasoning, bytes) ==
  /\ Response(h) /\ Untouched(g, h)
  /\ h.out = IF reasoning THEN g.out ELSE g.out \o bytes
  /\ h.reason = IF reasoning THEN g.reason \o bytes ELSE g.reason

LEMMA Emitted ==
  ASSUME NEW g, NEW reasoning, NEW bytes, Response(g), reasoning \in BOOLEAN, bytes \in Bytes
  PROVE  Emits(g, EmitChannel(g, reasoning, bytes), reasoning, bytes)
  BY EmitIs DEF Emits

\* What the properties ask of a stream that has ended.
Delivered(g) ==
  conf.api # "buffered" =>
    /\ \A k \in Kinds : /\ DeltasIn(g.items, k) \in Seq(Bytes)
                        /\ FlattenSeq(DeltasIn(g.items, k)) = Channel(g, k)
                        /\ Boundaries(DeltasIn(g.items, k))
    /\ Alternate(g.items) /\ ~g.item_open

LEMMA FlushIs ==
  ASSUME NEW g, NEW kind, DOMAIN g = ContextFields, DOMAIN g.u8_pend = Kinds, ItemsOk(g), kind \in Kinds,
         g.u8_pend[kind] \in Bytes
  PROVE  LET h == FlushDelta(g, kind)
             D == DeltasIn(g.items, kind)
         IN  /\ Untouched(g, h) /\ h.out = g.out /\ h.reason = g.reason
             /\ DOMAIN h.u8_pend = Kinds /\ ItemsOk(h)
             /\ DeltasIn(h.items, kind)
                  = IF g.u8_pend[kind] = << >> THEN D ELSE Append(D, g.u8_pend[kind])
             /\ \A k \in Kinds : k # kind => /\ DeltasIn(h.items, k) = DeltasIn(g.items, k)
                                             /\ h.u8_pend[k] = g.u8_pend[k]
<1> DEFINE h == FlushDelta(g, kind)
           p == g.u8_pend[kind]
           r == SendRaw(g, kind, p)
           D == DeltasIn(g.items, kind)
<1>1. h = [r EXCEPT !.u8_pend[kind] = << >>]
  BY DEF FlushDelta
<1>2. p \in Bytes
  OBVIOUS
<1> HIDE DEF p
<1>3. /\ Untouched(g, r) /\ r.out = g.out /\ r.reason = g.reason /\ r.u8_pend = g.u8_pend
      /\ ItemsOk(r)
      /\ DeltasIn(r.items, kind) = IF p = << >> THEN D ELSE Append(D, p)
      /\ \A k \in Kinds : k # kind => DeltasIn(r.items, k) = DeltasIn(g.items, k)
  BY <1>2, SendRawIs
<1> HIDE DEF r, h, D
<1>4. /\ DOMAIN h = ContextFields /\ h.split = r.split /\ h.buf = r.buf /\ h.hold = r.hold
      /\ h.stopped = r.stopped /\ h.out = r.out /\ h.reason = r.reason /\ h.items = r.items
      /\ h.item_open = r.item_open /\ h.u8_pend = [r.u8_pend EXCEPT ![kind] = << >>]
  BY <1>1, <1>3 DEF ContextFields, Untouched
<1>5. DOMAIN h.u8_pend = Kinds /\ \A k \in Kinds : k # kind => h.u8_pend[k] = g.u8_pend[k]
  BY <1>3, <1>4
<1>6. ItemsOk(h)
  BY <1>3, <1>4 DEF ItemsOk
<1>7. Untouched(g, h) /\ h.out = g.out /\ h.reason = g.reason
  BY <1>3, <1>4 DEF Untouched
<1>8. /\ DeltasIn(h.items, kind) = IF p = << >> THEN D ELSE Append(D, p)
      /\ \A k \in Kinds : k # kind => DeltasIn(h.items, k) = DeltasIn(g.items, k)
  BY <1>3, <1>4
<1> QED BY <1>5, <1>6, <1>7, <1>8 DEF h, p, D

LEMMA ResponseKept ==
  ASSUME NEW g, NEW h, Response(g), DOMAIN h = ContextFields,
         h.split \in {"content", "think", "ws"}, h.stopped \in BOOLEAN, h.buf \in Bytes, h.hold \in Bytes,
         h.out = g.out, h.reason = g.reason, h.u8_pend = g.u8_pend, h.items = g.items,
         h.item_open = g.item_open
  PROVE  Response(h)
<1>1. ContextType(h)
  BY DEF Response, ContextType
<1>2. \A k \in Kinds : Channel(h, k) = Channel(g, k)
  BY DEF Channel
<1>3. Streams(h)
  BY <1>2 DEF Response, Streams, ItemsOk
<1> QED BY <1>1, <1>3 DEF Response

LEMMA TerminalIs ==
  ASSUME NEW g, DOMAIN g = ContextFields, ItemsOk(g)
  PROVE  LET h == Terminal(g)
         IN  /\ h.out = g.out /\ h.reason = g.reason /\ h.stopped = g.stopped
             /\ Alternate(h.items) /\ ~h.item_open
             /\ \A k \in Kinds : DeltasIn(h.items, k) = DeltasIn(g.items, k)
<1> DEFINE h == Terminal(g)
<1>1. CASE ~(conf.api = "messages" /\ g.items = << >>)
  <2>1. h = [g EXCEPT !.item_open = FALSE]
    BY <1>1 DEF Terminal
  <2>2. /\ h.out = g.out /\ h.reason = g.reason /\ h.stopped = g.stopped
        /\ ~h.item_open /\ h.items = g.items
    BY <2>1 DEF ContextFields
  <2> HIDE DEF h
  <2> QED BY <2>2 DEF ItemsOk, h
<1>2. CASE conf.api = "messages" /\ g.items = << >>
  <2> DEFINE it == [kind |-> "content", deltas |-> << >>]
             t == Append(<< >>, it)
  <2>1. it \in Item /\ it.deltas = << >>
    <3>1. << >> \in Seq(Bytes)
      BY EmptySeq
    <3> QED BY <3>1 DEF Item, Kinds
  <2>2. ~g.item_open
    BY <1>2 DEF ItemsOk
  <2>3. h = [[g EXCEPT !.items = t, !.item_open = TRUE] EXCEPT !.item_open = FALSE]
    BY <1>2, <2>2 DEF Terminal, OpenItem
  <2> HIDE DEF it
  <2>4. << >> \in Seq(Item) /\ Len(t) = 1
    <3>1. << >> \in Seq(Item) /\ Len(<< >>) = 0
      BY EmptySeq
    <3>2. Len(t) = Len(<< >>) + 1
      BY <2>1, <3>1, AppendProperties
    <3> QED BY <3>1, <3>2
  <2>5. \A k \in Kinds : DeltasIn(t, k) = << >>
    <3> SUFFICES ASSUME NEW k \in Kinds PROVE DeltasIn(t, k) = << >>
      OBVIOUS
    <3>1. DeltasIn(t, k) = DeltasIn(<< >>, k) \o (IF it.kind = k THEN it.deltas ELSE << >>)
      BY <2>1, <2>4, DeltasAppend
    <3>2. DeltasIn(t, k) = << >> \o << >>
      BY <2>1, <3>1, DeltasNone
    <3>3. << >> \in Seq(Bytes)
      BY EmptySeq
    <3>4. << >> \o << >> = << >>
      BY <3>3, ConcatEmptySeq
    <3> QED BY <3>2, <3>4
  <2>6. Alternate(t)
    BY <2>4 DEF Alternate
  <2> HIDE DEF t, h
  <2>7. /\ h.out = g.out /\ h.reason = g.reason /\ h.stopped = g.stopped
        /\ ~h.item_open /\ h.items = t
    BY <2>3 DEF ContextFields
  <2> QED BY <1>2, <2>5, <2>6, <2>7, DeltasNone DEF h
<1> QED BY <1>1, <1>2

LEMMA GiveUpIs ==
  ASSUME NEW g, Response(g)
  PROVE  LET h == GiveUp(g)
         IN  /\ Delivered(h) /\ h.reason = g.reason /\ h.stopped = g.stopped
             /\ h.out = IF g.stopped THEN g.out ELSE g.out \o g.hold
<1> DEFINE h == GiveUp(g)
           a == IF g.stopped THEN g ELSE [EmitChannel(g, FALSE, g.hold) EXCEPT !.hold = << >>]
           b == FlushDelta(a, "content")
           c == FlushDelta(b, "reason")
<1>1. h = IF conf.api = "buffered" THEN a ELSE Terminal(c)
  BY DEF GiveUp
<1>2. Response(a) /\ a.reason = g.reason /\ a.stopped = g.stopped
      /\ a.out = IF g.stopped THEN g.out ELSE g.out \o g.hold
  <2>1. CASE g.stopped
    BY <2>1
  <2>2. CASE ~g.stopped
    <3> DEFINE m == EmitChannel(g, FALSE, g.hold)
    <3>1. g.hold \in Bytes /\ g.stopped \in BOOLEAN
      BY DEF Response, ContextType
    <3>2. Response(m) /\ Untouched(g, m) /\ m.out = g.out \o g.hold /\ m.reason = g.reason
      <4> DEFINE held == g.hold
                 no == FALSE
                 o == EmitChannel(g, no, held)
      <4>1. held \in Bytes /\ no \in BOOLEAN /\ ~no
        BY <3>1
      <4> HIDE DEF held, no
      <4>2. /\ Response(o) /\ Untouched(g, o)
            /\ o.out = IF no THEN g.out ELSE g.out \o held
            /\ o.reason = IF no THEN g.reason \o held ELSE g.reason
        <5>1. Response(g)
          OBVIOUS
        <5>2. Emits(g, o, no, held)
          BY ONLY <4>1, <5>1, Emitted
        <5> QED BY ONLY <5>2 DEF Emits
      <4>3. Response(o) /\ Untouched(g, o) /\ o.out = g.out \o held /\ o.reason = g.reason
        BY <4>1, <4>2
      <4>4. o = m
        BY DEF held, no
      <4> QED BY <4>3, <4>4 DEF held
    <3>3. a = [m EXCEPT !.hold = << >>]
      BY <2>2
    <3> HIDE DEF m, a
    <3>4. /\ DOMAIN a = ContextFields /\ a.split = m.split /\ a.stopped = m.stopped /\ a.buf = m.buf
          /\ a.hold = << >> /\ a.out = m.out /\ a.reason = m.reason /\ a.u8_pend = m.u8_pend
          /\ a.items = m.items /\ a.item_open = m.item_open
      BY <3>2, <3>3 DEF Untouched, ContextFields
    <3>5. << >> \in Bytes
      BY EmptySeq DEF Bytes
    <3>6. Response(a)
      <4>1. m.split \in {"content", "think", "ws"} /\ m.stopped \in BOOLEAN /\ m.buf \in Bytes
        BY <3>2 DEF Response, ContextType
      <4> QED BY <3>2, <3>4, <3>5, <4>1, ResponseKept
    <3> QED BY <2>2, <3>2, <3>4, <3>6 DEF Untouched
  <2>3. g.stopped \in BOOLEAN
    BY DEF Response, ContextType
  <2> HIDE DEF a
  <2> QED BY <2>1, <2>2, <2>3
<1> HIDE DEF a
<1>3. CASE conf.api = "buffered"
  <2>1. h = a
    BY <1>1, <1>3
  <2> HIDE DEF h
  <2>2. Delivered(h)
    BY <1>3 DEF Delivered
  <2> QED BY <1>2, <2>1, <2>2 DEF h
<1>4. CASE conf.api # "buffered"
  <2>1. /\ DOMAIN a = ContextFields /\ DOMAIN a.u8_pend = Kinds /\ ItemsOk(a)
        /\ \A k \in Kinds : StreamOf(DeltasIn(a.items, k), a.u8_pend[k], Channel(a, k))
    BY <1>2, <1>4 DEF Response, ContextType, Streams
  <2>2. "content" \in Kinds /\ "reason" \in Kinds /\ \A k \in Kinds : k = "content" \/ k = "reason"
    BY DEF Kinds
  <2>3. \A k \in Kinds : a.u8_pend[k] \in Bytes
    BY <2>1 DEF StreamOf
  <2> DEFINE E(k) == IF a.u8_pend[k] = << >> THEN DeltasIn(a.items, k)
                     ELSE Append(DeltasIn(a.items, k), a.u8_pend[k])
  <2>4. \A k \in Kinds : E(k) \in Seq(Bytes) /\ FlattenSeq(E(k)) = Channel(a, k) /\ Boundaries(E(k))
    <3> SUFFICES ASSUME NEW k \in Kinds
                 PROVE  E(k) \in Seq(Bytes) /\ FlattenSeq(E(k)) = Channel(a, k) /\ Boundaries(E(k))
      OBVIOUS
    <3> DEFINE D == DeltasIn(a.items, k)
               p == a.u8_pend[k]
               w == Channel(a, k)
    <3>1. StreamOf(D, p, w)
      BY <2>1
    <3> HIDE DEF D, p, w
    <3>2. LET F == IF p = << >> THEN D ELSE Append(D, p)
          IN  F \in Seq(Bytes) /\ FlattenSeq(F) = w /\ Boundaries(F)
      BY <3>1, StreamEnds
    <3> QED BY <3>2 DEF D, p, w
  <2>5. /\ Untouched(a, b) /\ b.out = a.out /\ b.reason = a.reason
        /\ DOMAIN b.u8_pend = Kinds /\ ItemsOk(b)
        /\ DeltasIn(b.items, "content") = E("content")
        /\ \A k \in Kinds : k # "content" => /\ DeltasIn(b.items, k) = DeltasIn(a.items, k)
                                             /\ b.u8_pend[k] = a.u8_pend[k]
    BY <2>1, <2>2, <2>3, FlushIs
  <2> HIDE DEF b
  <2>6. DOMAIN b = ContextFields /\ b.u8_pend["reason"] = a.u8_pend["reason"]
        /\ DeltasIn(b.items, "reason") = DeltasIn(a.items, "reason") /\ b.u8_pend["reason"] \in Bytes
    BY <2>2, <2>3, <2>5 DEF Untouched
  <2>7. /\ Untouched(b, c) /\ c.out = b.out /\ c.reason = b.reason /\ ItemsOk(c)
        /\ DeltasIn(c.items, "reason") = E("reason")
        /\ DeltasIn(c.items, "content") = E("content")
    <3>1. /\ Untouched(b, c) /\ c.out = b.out /\ c.reason = b.reason /\ ItemsOk(c)
          /\ DeltasIn(c.items, "reason")
               = IF b.u8_pend["reason"] = << >> THEN DeltasIn(b.items, "reason")
                 ELSE Append(DeltasIn(b.items, "reason"), b.u8_pend["reason"])
          /\ \A k \in Kinds : k # "reason" => DeltasIn(c.items, k) = DeltasIn(b.items, k)
      BY <2>2, <2>5, <2>6, FlushIs
    <3> HIDE DEF c
    <3> QED BY <2>2, <2>5, <2>6, <3>1
  <2> HIDE DEF c, E
  <2>8. h = Terminal(c)
    BY <1>1, <1>4
  <2>9. /\ h.out = c.out /\ h.reason = c.reason /\ h.stopped = c.stopped
        /\ Alternate(h.items) /\ ~h.item_open
        /\ \A k \in Kinds : DeltasIn(h.items, k) = DeltasIn(c.items, k)
    <3>1. DOMAIN c = ContextFields
      BY <2>7 DEF Untouched
    <3> QED BY <2>7, <2>8, <3>1, TerminalIs
  <2> HIDE DEF h
  <2>10. h.out = a.out /\ h.reason = a.reason /\ h.stopped = a.stopped
    BY <2>5, <2>7, <2>9 DEF Untouched
  <2>11. \A k \in Kinds : DeltasIn(h.items, k) = E(k) /\ Channel(h, k) = Channel(a, k)
    BY <2>2, <2>7, <2>9, <2>10 DEF Channel
  <2>12. Delivered(h)
    BY <2>4, <2>9, <2>11 DEF Delivered
  <2> QED BY <1>2, <2>10, <2>12 DEF h
<1> QED BY <1>3, <1>4

-----------------------------------------------------------------------------
(* The validator, byte by byte.                                            *)

\* g[s] is the state after the bytes at the places in s.
Reads(v, bytes, U, g) ==
  g = [s \in SUBSET U |-> IF s = {} THEN v ELSE FeedByte(g[s \ {Max(s)}], bytes[Max(s)])]

LEMMA ReadsAt ==
  ASSUME NEW v, NEW bytes, NEW U, NEW g, Reads(v, bytes, U, g)
  PROVE  /\ g[{}] = v
         /\ \A s \in SUBSET U : s # {} => g[s] = FeedByte(g[s \ {Max(s)}], bytes[Max(s)])
<1>1. g = [s \in SUBSET U |-> IF s = {} THEN v ELSE FeedByte(g[s \ {Max(s)}], bytes[Max(s)])]
  BY DEF Reads
<1>2. \A s \in SUBSET U : g[s] = IF s = {} THEN v ELSE FeedByte(g[s \ {Max(s)}], bytes[Max(s)])
  BY <1>1
<1> QED BY <1>2

LEMMA MaxBelow ==
  ASSUME NEW n \in Nat, NEW s \in SUBSET (1 .. n), s # {}
  PROVE  Max(s) \in s /\ s \ {Max(s)} \in SUBSET (1 .. (n - 1))
<1>1. s \in SUBSET (0 .. n)
  OBVIOUS
<1>2. Max(s) \in s /\ \A i \in s : Max(s) >= i
  BY <1>1, MaxIs
<1>3. \A i \in s \ {Max(s)} : i \in 1 .. (n - 1)
  <2> TAKE i \in s \ {Max(s)}
  <2>1. i \in 1 .. n /\ Max(s) \in 1 .. n /\ Max(s) >= i /\ i # Max(s)
    BY <1>2
  <2> QED BY <2>1
<1> QED BY <1>2, <1>3

LEMMA ReadsExists == ASSUME NEW v, NEW bytes, NEW n \in Nat PROVE \E g : Reads(v, bytes, 1 .. n, g)
<1> DEFINE T == {m \in Nat : ~\E g : Reads(v, bytes, 1 .. m, g)}
<1> SUFFICES ASSUME T # {} PROVE FALSE
  OBVIOUS
<1>1. PICK m \in T : \A k \in T : m <= k
  <2> HIDE DEF T
  <2>1. T \in SUBSET Nat
    BY DEF T
  <2> QED BY <2>1, SmallestNat
<1>2. m # 0
  <2> SUFFICES ASSUME m = 0 PROVE FALSE
    OBVIOUS
  <2> DEFINE g == [s \in SUBSET (1 .. 0) |-> v]
  <2>1. \A s \in SUBSET (1 .. 0) : s = {}
    OBVIOUS
  <2>2. g = [s \in SUBSET (1 .. 0) |-> IF s = {} THEN v ELSE FeedByte(g[s \ {Max(s)}], bytes[Max(s)])]
    BY <2>1
  <2> HIDE DEF g
  <2>3. Reads(v, bytes, 1 .. 0, g)
    BY <2>2 DEF Reads
  <2> QED BY <2>3
<1>3. m - 1 \in Nat /\ m \in Nat
  BY <1>2
<1>4. m - 1 \notin T
  <2>1. ~(m <= m - 1)
    BY <1>3
  <2> QED BY <1>1, <2>1
<1>5. PICK h : Reads(v, bytes, 1 .. (m - 1), h)
  BY <1>3, <1>4
<1> DEFINE g == [s \in SUBSET (1 .. m) |-> IF s = {} THEN v
                                           ELSE FeedByte(h[s \ {Max(s)}], bytes[Max(s)])]
<1>6. \A s \in SUBSET (1 .. m) : s # {} => g[s \ {Max(s)}] = h[s \ {Max(s)}]
  <2> TAKE s \in SUBSET (1 .. m)
  <2> HAVE s # {}
  <2> DEFINE u == s \ {Max(s)}
  <2>1. u \in SUBSET (1 .. (m - 1)) /\ u \in SUBSET (1 .. m)
    BY <1>3, MaxBelow
  <2> HIDE DEF u
  <2>2. g[u] = IF u = {} THEN v ELSE FeedByte(h[u \ {Max(u)}], bytes[Max(u)])
    BY <2>1
  <2>3. h[u] = IF u = {} THEN v ELSE FeedByte(h[u \ {Max(u)}], bytes[Max(u)])
    <3>1. /\ h[{}] = v
          /\ \A t \in SUBSET (1 .. (m - 1)) : t # {} => h[t] = FeedByte(h[t \ {Max(t)}], bytes[Max(t)])
      <4> DEFINE U == 1 .. (m - 1)
      <4>1. Reads(v, bytes, U, h)
        BY <1>5
      <4> HIDE DEF U
      <4>2. \A t \in SUBSET U : t # {} => h[t] = FeedByte(h[t \ {Max(t)}], bytes[Max(t)])
        BY <4>1, ReadsAt
      <4>3. h[{}] = v
        BY <4>1, ReadsAt
      <4> QED BY <4>2, <4>3 DEF U
    <3> QED BY <2>1, <3>1
  <2> HIDE DEF g
  <2>4. g[u] = h[u]
    BY <2>2, <2>3
  <2> QED BY <2>4 DEF u
<1>7. g = [s \in SUBSET (1 .. m) |-> IF s = {} THEN v
                                     ELSE FeedByte(g[s \ {Max(s)}], bytes[Max(s)])]
  <2> DEFINE k == [s \in SUBSET (1 .. m) |-> IF s = {} THEN v
                                             ELSE FeedByte(g[s \ {Max(s)}], bytes[Max(s)])]
  <2>1. \A s \in SUBSET (1 .. m) : g[s] = k[s]
    <3> TAKE s \in SUBSET (1 .. m)
    <3>1. g[s] = IF s = {} THEN v ELSE FeedByte(h[s \ {Max(s)}], bytes[Max(s)])
      OBVIOUS
    <3>2. s # {} => g[s \ {Max(s)}] = h[s \ {Max(s)}]
      BY <1>6
    <3> HIDE DEF g
    <3>3. k[s] = IF s = {} THEN v ELSE FeedByte(g[s \ {Max(s)}], bytes[Max(s)])
      OBVIOUS
    <3> QED BY <3>1, <3>2, <3>3
  <2> QED BY <2>1
<1> HIDE DEF g
<1>8. Reads(v, bytes, 1 .. m, g)
  BY <1>7 DEF Reads
<1> QED BY <1>1, <1>8

LEMMA FeedReads ==
  ASSUME NEW v, NEW bytes \in Bytes
  PROVE  \E f : /\ f[0] = v /\ Feed(v, bytes) = f[Len(bytes)]
                /\ \A i \in 1 .. Len(bytes) : f[i] = FeedByte(f[i - 1], bytes[i])
<1> DEFINE n == Len(bytes)
           g == CHOOSE h : h = [s \in SUBSET (DOMAIN bytes) |->
                                  IF s = {} THEN v ELSE FeedByte(h[s \ {Max(s)}], bytes[Max(s)])]
           f == [i \in 0 .. n |-> g[1 .. i]]
<1>1. n \in Nat /\ DOMAIN bytes = 1 .. n
  BY LenProperties DEF Bytes
<1>2. Feed(v, bytes) = g[DOMAIN bytes]
  BY DEF Feed, FoldLeft, MapThenFoldSet
<1>3. Reads(v, bytes, 1 .. n, g)
  <2>1. \E h : Reads(v, bytes, 1 .. n, h)
    BY <1>1, ReadsExists
  <2>2. g = CHOOSE h : Reads(v, bytes, 1 .. n, h)
    BY <1>1 DEF Reads
  <2> HIDE DEF g
  <2> QED BY <2>1, <2>2
<1> HIDE DEF g, n
<1>4. f[0] = v
  <2>1. 1 .. 0 = {} /\ 0 \in 0 .. n
    BY <1>1
  <2> QED BY <1>3, <2>1, ReadsAt
<1>5. \A i \in 1 .. n : f[i] = FeedByte(f[i - 1], bytes[i])
  <2> TAKE i \in 1 .. n
  <2> DEFINE s == 1 .. i
  <2>1. i \in Nat /\ i \in s /\ s # {} /\ s \in SUBSET (1 .. n) /\ s \in SUBSET (0 .. i)
    <3>1. i \in Nat /\ 1 <= i /\ i <= n
      BY <1>1
    <3>2. i \in s /\ \A j \in s : j \in 1 .. n /\ j \in 0 .. i
      BY <1>1, <3>1
    <3> HIDE DEF s
    <3> QED BY <3>1, <3>2
  <2>2. \A j \in s : i >= j
    OBVIOUS
  <2>3. s \ {i} = 1 .. (i - 1)
    BY <2>1
  <2>4. i \in 0 .. n /\ i - 1 \in 0 .. n
    BY <1>1
  <2>5. f[i] = g[s] /\ f[i - 1] = g[1 .. (i - 1)]
    BY <2>4
  <2> HIDE DEF s, f
  <2>6. Max(s) = i
    <3>1. Max(s) \in s /\ \A j \in s : Max(s) >= j
      BY <2>1, MaxIs
    <3>2. Max(s) \in 0 .. i
      BY <2>1, <3>1
    <3> QED BY <2>1, <2>2, <3>1, <3>2
  <2>7. g[s] = FeedByte(g[s \ {Max(s)}], bytes[Max(s)])
    <3>1. \A t \in SUBSET (1 .. n) : t # {} => g[t] = FeedByte(g[t \ {Max(t)}], bytes[Max(t)])
      <4> DEFINE U == 1 .. n
      <4>1. Reads(v, bytes, U, g)
        BY <1>3
      <4> HIDE DEF U
      <4>2. \A t \in SUBSET U : t # {} => g[t] = FeedByte(g[t \ {Max(t)}], bytes[Max(t)])
        BY <4>1, ReadsAt
      <4> QED BY <4>2 DEF U
    <3> QED BY <2>1, <3>1
  <2> QED BY <2>3, <2>5, <2>6, <2>7
<1>6. f[n] = g[DOMAIN bytes]
  <2>1. n \in 0 .. n
    BY <1>1
  <2> QED BY <1>1, <2>1
<1> HIDE DEF f
<1> QED BY <1>2, <1>4, <1>5, <1>6 DEF n

-----------------------------------------------------------------------------
(* What a state of the validator is made of.                               *)

JvFields == {"st", "stack", "sub", "lit", "esc"}

JvType(v) ==
  /\ DOMAIN v = JvFields /\ v.stack \in Seq({"O", "A"}) /\ v.sub \in Nat
  /\ v.st = "lit" => v.lit \in 1 .. 3

LEMMA StartType == JvType(Start)
<1>1. << >> \in Seq({"O", "A"})
  BY EmptySeq
<1> QED BY <1>1 DEF JvType, Start, JvFields

LEMMA MovedType ==
  ASSUME NEW v, JvType(v), NEW st, st # "lit"
  PROVE  JvType([v EXCEPT !.st = st])
  BY DEF JvType, JvFields

LEMMA SubType ==
  ASSUME NEW v, JvType(v), NEW n \in Nat
  PROVE  JvType([v EXCEPT !.sub = n])
  BY DEF JvType, JvFields

LEMMA ValueDoneType == ASSUME NEW v, JvType(v) PROVE JvType(ValueDone(v))
<1>1. JvType([v EXCEPT !.st = "done"]) /\ JvType([v EXCEPT !.st = "after"])
  BY MovedType
<1>2. ValueDone(v) = [v EXCEPT !.st = "done"] \/ ValueDone(v) = [v EXCEPT !.st = "after"]
  BY DEF ValueDone, Goto
<1> QED BY <1>1, <1>2

LEMMA RefuseType == ASSUME NEW v, JvType(v) PROVE JvType(Refuse(v)) /\ Refuse(v).st = "refused"
  BY MovedType DEF Refuse, JvType, JvFields

LEMMA PopType == ASSUME NEW v, JvType(v) PROVE JvType(Pop(v))
<1> DEFINE s == v.stack
           f == Front(s)
           w == [v EXCEPT !.stack = f]
<1>1. s \in Seq({"O", "A"})
  BY DEF JvType
<1>2. f \in Seq({"O", "A"})
  <2> HIDE DEF s
  <2>1. Len(s) \in Nat /\ \A i \in 1 .. Len(s) : s[i] \in {"O", "A"}
    BY <1>1, LenProperties, ElementOfSeq
  <2>2. f = [i \in 1 .. (Len(s) - 1) |-> s[i]]
    BY <2>1 DEF Front
  <2>3. CASE Len(s) = 0
    <3>1. f \in [1 .. 0 -> {"O", "A"}]
      BY <2>2, <2>3
    <3> QED BY <3>1
  <2>4. CASE Len(s) # 0
    <3>1. Len(s) - 1 \in Nat /\ f \in [1 .. (Len(s) - 1) -> {"O", "A"}]
      BY <2>1, <2>2, <2>4
    <3> QED BY <3>1
  <2> QED BY <2>3, <2>4
<1> HIDE DEF f
<1>3. JvType(w)
  BY <1>2 DEF JvType, JvFields
<1>4. Pop(v) = ValueDone(w)
  BY DEF Pop, f
<1> HIDE DEF w
<1> QED BY <1>3, <1>4, ValueDoneType

LEMMA PushType == ASSUME NEW v, JvType(v), NEW c, c \in {"O", "A"} PROVE JvType(Push(v, c))
<1> DEFINE s == Append(v.stack, c)
<1>1. s \in Seq({"O", "A"})
  <2> DEFINE t == v.stack
  <2>1. t \in Seq({"O", "A"})
    BY DEF JvType
  <2> HIDE DEF t
  <2>2. Append(t, c) \in Seq({"O", "A"})
    BY <2>1, AppendProperties
  <2> QED BY <2>2 DEF t
<1>2. Push(v, c) = Refuse(v) \/ Push(v, c) = [v EXCEPT !.st = "key_or_end", !.stack = s]
      \/ Push(v, c) = [v EXCEPT !.st = "arr_first", !.stack = s]
  BY DEF Push
<1> HIDE DEF s
<1>3. JvType([v EXCEPT !.st = "key_or_end", !.stack = s]) /\ JvType([v EXCEPT !.st = "arr_first", !.stack = s])
  BY <1>1 DEF JvType, JvFields
<1> QED BY <1>2, <1>3, RefuseType

LEMMA BeginValueType == ASSUME NEW v, JvType(v), NEW c PROVE JvType(BeginValue(v, c))
<1> DEFINE L == \E i \in 1 .. 3 : c = Literal[i][1]
           l == CHOOSE i \in 1 .. 3 : c = Literal[i][1]
           w == [v EXCEPT !.st = "lit", !.sub = 1, !.lit = l]
           t == [v EXCEPT !.st = "string", !.sub = 0]
<1>1. L => JvType(w)
  <2> SUFFICES ASSUME L PROVE JvType(w)
    OBVIOUS
  <2>1. l \in 1 .. 3
    OBVIOUS
  <2> HIDE DEF l
  <2> QED BY <2>1 DEF JvType, JvFields
<1>2. JvType(t)
  BY DEF JvType, JvFields
<1>3. JvType(Push(v, "O")) /\ JvType(Push(v, "A"))
  BY PushType
<1>4. JvType(Goto(v, "num_minus")) /\ JvType(Goto(v, "num_zero")) /\ JvType(Goto(v, "num_int"))
  BY MovedType DEF Goto
<1>5. JvType(Refuse(v))
  BY RefuseType
<1>6. BeginValue(v, c) = CASE c \in Ws      -> v
                         [] c = "{"       -> Push(v, "O")
                         [] c = "["       -> Push(v, "A")
                         [] c = Quote     -> t
                         [] c = "-"       -> Goto(v, "num_minus")
                         [] c = "0"       -> Goto(v, "num_zero")
                         [] c \in NonZero -> Goto(v, "num_int")
                         [] L             -> w
                         [] OTHER         -> Refuse(v)
  BY DEF BeginValue
<1> HIDE DEF L, w, t
<1>7. \/ BeginValue(v, c) \in {v, Push(v, "O"), Push(v, "A"), t, Goto(v, "num_minus"), Goto(v, "num_zero"),
                               Goto(v, "num_int"), Refuse(v)}
      \/ L /\ BeginValue(v, c) = w
  BY <1>6
<1> QED BY <1>1, <1>2, <1>3, <1>4, <1>5, <1>7

LEMMA BeginKeyType == ASSUME NEW v, JvType(v), NEW c PROVE JvType(BeginKey(v, c))
<1> DEFINE t == [v EXCEPT !.st = "key", !.sub = 0]
<1>1. JvType(t)
  BY DEF JvType, JvFields
<1>2. JvType(Pop(v)) /\ JvType(Refuse(v))
  BY PopType, RefuseType
<1>3. BeginKey(v, c) \in {v, t, Pop(v), Refuse(v)}
  BY DEF BeginKey
<1> HIDE DEF t
<1> QED BY <1>1, <1>2, <1>3

LEMMA EscapeHexType ==
  ASSUME NEW v, JvType(v), NEW c
  PROVE  JvType(EscapeHex(v, c))
<1> DEFINE low == v.sub >= 8
           nth == v.sub - (IF low THEN 8 ELSE 2)
           val == ((IF nth = 0 THEN 0 ELSE v.esc) * 16 + HexValue(c)) % 65536
           next == IF nth < 3 THEN v.sub + 1 ELSE IF ~low /\ High(val) THEN 6 ELSE 0
           r == [v EXCEPT !.st = "refused"]
           a == [v EXCEPT !.esc = val, !.sub = next]
<1>1. EscapeHex(v, c) = r \/ EscapeHex(v, c) = a
  BY DEF EscapeHex
<1>2. JvType(r)
  BY MovedType
<1>3. next \in Nat
  <2>1. v.sub \in Nat
    BY DEF JvType
  <2> HIDE DEF nth, low, val
  <2> QED BY <2>1
<1> HIDE DEF val, next, r
<1>4. JvType(a)
  BY <1>3 DEF JvType, JvFields
<1> HIDE DEF a
<1> QED BY <1>1, <1>2, <1>4

LEMMA InStringType == ASSUME NEW v, JvType(v), NEW c PROVE JvType(InString(v, c))
<1> DEFINE moves == {m \in EscapeMoves : m[1] = v.sub /\ c \in m[2]}
           n == (CHOOSE m \in moves : TRUE)[3]
           w == [v EXCEPT !.sub = n]
<1>1. JvType(InText(v, c))
  <2>1. JvType(Goto(v, "colon"))
    BY MovedType DEF Goto
  <2>2. JvType([v EXCEPT !.sub = 1])
    BY SubType
  <2>3. JvType(ValueDone(v)) /\ JvType(Refuse(v))
    BY ValueDoneType, RefuseType
  <2>4. InText(v, c) \in {Goto(v, "colon"), ValueDone(v), [v EXCEPT !.sub = 1], Refuse(v), v}
    BY DEF InText
  <2> QED BY <2>1, <2>2, <2>3, <2>4
<1>2. moves # {} => JvType(w)
  <2> SUFFICES ASSUME moves # {} PROVE JvType(w)
    OBVIOUS
  <2>1. \A m \in EscapeMoves : m[3] \in Nat
    BY DEF EscapeMoves
  <2>2. (CHOOSE m \in moves : TRUE) \in EscapeMoves
    BY Zenon
  <2> HIDE DEF moves
  <2>3. n \in Nat
    BY <2>1, <2>2
  <2> HIDE DEF n
  <2> QED BY <2>3, SubType
<1>3. JvType(EscapeHex(v, c)) /\ JvType(Refuse(v))
  BY EscapeHexType, RefuseType
<1>4. InString(v, c) \in {InText(v, c), Refuse(v), EscapeHex(v, c)} \/ (moves # {} /\ InString(v, c) = w)
  <2> DEFINE M == moves
  <2>1. InString(v, c) = CASE v.sub = 0            -> InText(v, c)
        [] v.sub \in {1, 6, 7}  -> IF M = {} THEN Refuse(v) ELSE w
        [] OTHER                -> EscapeHex(v, c)
    BY DEF InString
  <2> HIDE DEF M, w
  <2>2. InString(v, c) \in {InText(v, c), Refuse(v), EscapeHex(v, c)} \/ (M # {} /\ InString(v, c) = w)
    BY <2>1
  <2> QED BY <2>2 DEF M
<1> HIDE DEF moves, w
<1> QED BY <1>1, <1>2, <1>3, <1>4

LEMMA AfterValueType == ASSUME NEW v, JvType(v), NEW c PROVE JvType(AfterValue(v, c))
<1>1. JvType(Goto(v, "key_expect")) /\ JvType(Goto(v, "value"))
  BY MovedType DEF Goto
<1>2. JvType(Pop(v)) /\ JvType(Refuse(v))
  BY PopType, RefuseType
<1>3. AfterValue(v, c) \in {v, Goto(v, "key_expect"), Goto(v, "value"), Pop(v), Refuse(v)}
  BY DEF AfterValue
<1> QED BY <1>1, <1>2, <1>3

LEMMA NumberType ==
  ASSUME NEW v, JvType(v), NEW c, NumberGoes(v, c) # {}
  PROVE  JvType(Goto(v, (CHOOSE m \in NumberGoes(v, c) : TRUE)[3]))
<1> DEFINE n == (CHOOSE m \in NumberGoes(v, c) : TRUE)[3]
<1>1. \A m \in NumberMoves : m[3] # "lit"
  BY DEF NumberMoves
<1>2. (CHOOSE m \in NumberGoes(v, c) : TRUE) \in NumberMoves
  BY Zenon DEF NumberGoes
<1>3. n # "lit"
  BY <1>1, <1>2
<1> HIDE DEF n
<1>4. JvType(Goto(v, n))
  BY <1>3, MovedType DEF Goto
<1> QED BY <1>4 DEF n

LEMMA StepType == ASSUME NEW v, JvType(v), NEW c PROVE JvType(Step(v, c))
<1> DEFINE g == Goto(v, (CHOOSE m \in NumberGoes(v, c) : TRUE)[3])
           more == [v EXCEPT !.sub = @ + 1]
<1>1. JvType(Push(v, "O")) /\ JvType(Pop(v)) /\ JvType(Refuse(v)) /\ JvType(ValueDone(v))
  BY PushType, PopType, RefuseType, ValueDoneType
<1>2. JvType(BeginValue(v, c)) /\ JvType(BeginKey(v, c)) /\ JvType(InString(v, c)) /\ JvType(AfterValue(v, c))
  BY BeginValueType, BeginKeyType, InStringType, AfterValueType
<1>3. JvType(Goto(v, "value"))
  BY MovedType DEF Goto
<1>4. NumberGoes(v, c) # {} => JvType(g)
  BY NumberType
<1>5. JvType(more)
  <2> DEFINE n == v.sub + 1
  <2>1. n \in Nat
    BY DEF JvType
  <2> HIDE DEF n
  <2>2. JvType([v EXCEPT !.sub = n])
    BY <2>1, SubType
  <2> QED BY <2>2 DEF n
<1> DEFINE wrong == c # Literal[v.lit][v.sub + 1]
           last == v.sub + 1 = Len(Literal[v.lit])
           stuck == NumberGoes(v, c) = {}
           r == Refuse(v)
<1>6. Step(v, c) =
        CASE v.st = "start"     -> IF c = "{" THEN Push(v, "O") ELSE r
          [] v.st = "arr_first" -> IF c = "]" THEN Pop(v) ELSE BeginValue(v, c)
          [] v.st = "value"     -> BeginValue(v, c)
          [] v.st \in {"key_or_end", "key_expect"} -> BeginKey(v, c)
          [] v.st \in {"key", "string"}            -> InString(v, c)
          [] v.st = "colon"     -> IF c \in Ws THEN v ELSE IF c = ":" THEN Goto(v, "value") ELSE r
          [] v.st = "after"     -> AfterValue(v, c)
          [] v.st \in NumberEnds \cup NumberOpens -> IF stuck THEN r ELSE g
          [] v.st = "lit"       -> IF wrong THEN r ELSE IF last THEN ValueDone(v) ELSE more
          [] OTHER              -> r
  BY DEF Step, g, more
<1> HIDE DEF wrong, last, stuck, r
<1>7. \/ Step(v, c) \in {Push(v, "O"), Pop(v), r, ValueDone(v), BeginValue(v, c), BeginKey(v, c),
                         InString(v, c), AfterValue(v, c), Goto(v, "value"), more, v}
      \/ ~stuck /\ Step(v, c) = g
  BY <1>6
<1>8. JvType(r) /\ (~stuck => JvType(g))
  BY <1>1, <1>4 DEF r, stuck
<1> QED BY <1>1, <1>2, <1>3, <1>5, <1>7, <1>8

LEMMA FeedByteType == ASSUME NEW v, JvType(v), NEW c PROVE JvType(FeedByte(v, c))
<1>1. JvType(ValueDone(v))
  BY ValueDoneType
<1>2. JvType(Step(v, c)) /\ JvType(Step(ValueDone(v), c))
  BY <1>1, StepType
<1> QED BY <1>2 DEF FeedByte

\* What is refused stays refused.
LEMMA RefusedStays == ASSUME NEW v, JvType(v), v.st = "refused", NEW c PROVE FeedByte(v, c).st = "refused"
<1>1. FeedByte(v, c) = Refuse(v)
  BY DEF FeedByte, Step, NumberEnds, NumberOpens
<1> QED BY <1>1, RefuseType

\* The document begins with a brace.
LEMMA FirstByte == ASSUME NEW c, c # "{" PROVE FeedByte(Start, c).st = "refused"
<1>1. FeedByte(Start, c) = Refuse(Start)
  BY DEF FeedByte, Step, NumberEnds, NumberOpens, Start
<1> QED BY <1>1, StartType, RefuseType

LEMMA FeedType ==
  ASSUME NEW v, JvType(v), NEW bytes \in Bytes
  PROVE  /\ JvType(Feed(v, bytes))
         /\ v.st = "refused" => Feed(v, bytes).st = "refused"
         /\ v = Start /\ bytes # << >> /\ Feed(v, bytes).st # "refused" => bytes[1] = "{"
<1> DEFINE n == Len(bytes)
<1>1. PICK f : /\ f[0] = v /\ Feed(v, bytes) = f[n]
               /\ \A i \in 1 .. n : f[i] = FeedByte(f[i - 1], bytes[i])
  BY FeedReads
<1>2. n \in Nat /\ (bytes # << >> => n # 0)
  BY LenProperties, EmptySeq DEF Bytes
<1> HIDE DEF n
<1>3. \A i \in 0 .. n : JvType(f[i])
  <2> DEFINE T == {i \in 0 .. n : ~JvType(f[i])}
  <2> SUFFICES ASSUME T # {} PROVE FALSE
    OBVIOUS
  <2>1. PICK i \in T : \A j \in T : i <= j
    <3>1. T \in SUBSET Nat
      BY <1>2
    <3> HIDE DEF T
    <3> QED BY <3>1, SmallestNat
  <2>2. i # 0
    BY <1>1
  <2>3. i \in 1 .. n /\ i - 1 \in 0 .. n /\ ~(i <= i - 1)
    BY <1>2, <2>2
  <2>4. JvType(f[i - 1])
    BY <2>1, <2>3
  <2>5. JvType(f[i])
    BY <1>1, <2>3, <2>4, FeedByteType
  <2> QED BY <2>5
<1>4. ASSUME NEW k \in 0 .. n, f[k].st = "refused" PROVE f[n].st = "refused"
  <2> DEFINE T == {i \in k .. n : f[i].st # "refused"}
  <2> SUFFICES ASSUME T # {} PROVE FALSE
    <3>1. n \in k .. n
      BY <1>2
    <3> QED BY <3>1
  <2>1. PICK i \in T : \A j \in T : i <= j
    <3>1. T \in SUBSET Nat
      BY <1>2
    <3> HIDE DEF T
    <3> QED BY <3>1, SmallestNat
  <2>2. i # k
    BY <1>4
  <2>3. i \in 1 .. n /\ i - 1 \in k .. n /\ i - 1 \in 0 .. n /\ ~(i <= i - 1)
    BY <1>2, <2>2
  <2>4. f[i - 1].st = "refused"
    BY <2>1, <2>3
  <2>5. JvType(f[i - 1])
    BY <1>3, <2>3
  <2>6. f[i] = FeedByte(f[i - 1], bytes[i])
    BY <1>1, <2>3
  <2>7. f[i].st = "refused"
    BY <2>4, <2>5, <2>6, RefusedStays
  <2> QED BY <2>7
<1>5. 0 \in 0 .. n /\ n \in 0 .. n
  BY <1>2
<1>6. JvType(Feed(v, bytes))
  BY <1>1, <1>3, <1>5
<1>7. v.st = "refused" => Feed(v, bytes).st = "refused"
  BY <1>1, <1>4, <1>5
<1>8. ASSUME v = Start, bytes # << >>, bytes[1] # "{" PROVE Feed(v, bytes).st = "refused"
  <2>1. 1 \in 1 .. n /\ 1 \in 0 .. n /\ 1 - 1 = 0
    <3>1. n \in Nat /\ n # 0
      BY <1>2, <1>8
    <3> QED BY <3>1
  <2>2. f[1] = FeedByte(Start, bytes[1])
    BY <1>1, <1>8, <2>1
  <2>3. f[1].st = "refused"
    BY <1>8, <2>2, FirstByte
  <2> QED BY <1>1, <1>4, <2>1, <2>3
<1> QED BY <1>6, <1>7, <1>8

-----------------------------------------------------------------------------
(* The closing bytes.                                                      *)

LEMMA SomeBytes ==
  ASSUME NEW n \in Nat, NEW f, f = [i \in 1 .. n |-> f[i]], \A i \in 1 .. n : f[i] \in Byte
  PROVE  f \in Bytes
<1>1. f \in [1 .. n -> Byte]
  OBVIOUS
<1> QED BY <1>1 DEF Bytes

LEMMA CloseByte ==
  /\ Quote \in Byte /\ ":" \in Byte /\ "_" \in Byte /\ "}" \in Byte /\ "]" \in Byte
  /\ Backslash \in Byte /\ "D" \in Byte /\ "C" \in Byte /\ "0" \in Byte /\ "1" \in Byte
  /\ "n" \in Byte /\ "u" \in Byte /\ "l" \in Byte /\ "t" \in Byte /\ "r" \in Byte
  /\ "e" \in Byte /\ "f" \in Byte /\ "a" \in Byte /\ "s" \in Byte
  BY ByteAssumption DEF CloseBytes

LEMMA EscapeCloseType == ASSUME NEW sub \in Nat, NEW esc PROVE EscapeClose(sub, esc) \in Bytes
<1> DEFINE first == sub \in 2 .. 5
           cp == ((IF sub = 2 THEN 0 ELSE esc) * 16 ^ (6 - sub)) % 65536
           short == [i \in 1 .. (5 - sub) |-> "0"] \o <<"1">>
           long == [i \in 1 .. (6 - sub) |-> "0"]
           pad == IF cp = 0 THEN short ELSE long
           from == IF first THEN (IF High(cp) THEN 1 ELSE 7) ELSE sub - 5
           low == SubSeq(LowHalf, from, 6)
<1>1. EscapeClose(sub, esc) = IF sub = 0 THEN << >> ELSE IF sub = 1 THEN <<"n">>
                              ELSE (IF first THEN pad ELSE << >>) \o low
  BY DEF EscapeClose
<1>2. << >> \in Bytes /\ <<"n">> \in Bytes /\ <<"1">> \in Bytes
  <2>1. << >> \in Bytes
    BY EmptySeq DEF Bytes
  <2>2. \A s \in Byte : <<s>> \in Seq(Byte)
    OBVIOUS
  <2>3. "n" \in Byte /\ "1" \in Byte
    BY CloseByte
  <2> QED BY <2>1, <2>2, <2>3 DEF Bytes
<1> HIDE DEF cp
<1>3. first => long \in Bytes /\ [i \in 1 .. (5 - sub) |-> "0"] \in Bytes
  <2> SUFFICES ASSUME first PROVE long \in Bytes /\ [i \in 1 .. (5 - sub) |-> "0"] \in Bytes
    OBVIOUS
  <2>1. 6 - sub \in Nat /\ 5 - sub \in Nat
    OBVIOUS
  <2>2. \A m \in Nat : [i \in 1 .. m |-> "0"] \in Bytes
    <3> TAKE m \in Nat
    <3>1. [i \in 1 .. m |-> "0"] \in [1 .. m -> Byte]
      BY CloseByte
    <3> QED BY <3>1 DEF Bytes
  <2> QED BY <2>1, <2>2
<1>4. first => pad \in Bytes
  <2> DEFINE z == [i \in 1 .. (5 - sub) |-> "0"]
  <2> HIDE DEF z
  <2>1. first => z \o <<"1">> \in Bytes
    BY <1>2, <1>3, ConcatProperties DEF z, Bytes
  <2> QED BY <1>3, <2>1 DEF z
<1>5. sub >= 2 => low \in Bytes
  <2> SUFFICES ASSUME sub >= 2 PROVE low \in Bytes
    OBVIOUS
  <2>1. from \in Nat /\ from >= 1
    OBVIOUS
  <2> HIDE DEF from
  <2>2. \A i \in 1 .. 6 : LowHalf[i] \in Byte
    <3>1. Backslash \in Byte /\ "u" \in Byte /\ "D" \in Byte /\ "C" \in Byte /\ "0" \in Byte
      BY CloseByte
    <3> QED BY <3>1 DEF LowHalf
  <2>3. low = [i \in 1 .. (6 - from + 1) |-> LowHalf[from + i - 1]]
    BY <2>1
  <2> HIDE DEF low
  <2>4. CASE from <= 6
    <3>1. 6 - from + 1 \in Nat /\ \A i \in 1 .. (6 - from + 1) : from + i - 1 \in 1 .. 6
      BY <2>1, <2>4
    <3>2. low \in [1 .. (6 - from + 1) -> Byte]
      BY <2>2, <2>3, <3>1
    <3> QED BY <3>1, <3>2 DEF Bytes
  <2>5. CASE from > 6
    <3>1. 1 .. (6 - from + 1) = 1 .. 0
      BY <2>1, <2>5
    <3>2. low \in [1 .. 0 -> Byte]
      BY <2>3, <3>1
    <3> QED BY <3>2 DEF Bytes
  <2> QED BY <2>1, <2>4, <2>5
<1> HIDE DEF pad, low, first
<1>6. sub >= 2 => (IF first THEN pad ELSE << >>) \o low \in Bytes
  <2> DEFINE p == IF first THEN pad ELSE << >>
  <2>1. p \in Bytes
    BY <1>2, <1>4
  <2> HIDE DEF p
  <2>2. sub >= 2 => p \o low \in Bytes
    BY <1>5, <2>1, ConcatProperties DEF Bytes
  <2> QED BY <2>2 DEF p
<1> QED BY <1>1, <1>2, <1>6

LEMMA PartOf ==
  ASSUME NEW t \in Bytes, NEW from \in Nat, from >= 1
  PROVE  SubSeq(t, from, Len(t)) \in Bytes
<1> DEFINE n == Len(t)
           s == SubSeq(t, from, n)
<1>1. n \in Nat /\ \A i \in 1 .. n : t[i] \in Byte
  BY LenProperties, ElementOfSeq DEF Bytes
<1> HIDE DEF n
<1>2. s = [i \in 1 .. (n - from + 1) |-> t[from + i - 1]]
  BY <1>1
<1> HIDE DEF s
<1>3. CASE from <= n
  <2>1. n - from + 1 \in Nat /\ \A i \in 1 .. (n - from + 1) : from + i - 1 \in 1 .. n
    BY <1>1, <1>3
  <2>2. s \in [1 .. (n - from + 1) -> Byte]
    BY <1>1, <1>2, <2>1
  <2>3. s \in Bytes
    BY <2>1, <2>2 DEF Bytes
  <2> QED BY <2>3 DEF s, n
<1>4. CASE from > n
  <2>1. 1 .. (n - from + 1) = 1 .. 0
    BY <1>1, <1>4
  <2>2. s \in [1 .. 0 -> Byte]
    BY <1>2, <2>1
  <2>3. s \in Bytes
    BY <2>2 DEF Bytes
  <2> QED BY <2>3 DEF s, n
<1> QED BY <1>1, <1>3, <1>4

LEMMA LiteralBytes == \A i \in 1 .. 3 : Literal[i] \in Bytes
<1>1. <<"t", "r", "u", "e">> \in Seq(Byte)
  <2>1. "t" \in Byte /\ "r" \in Byte /\ "u" \in Byte /\ "e" \in Byte
    BY CloseByte
  <2> QED BY <2>1
<1>2. <<"f", "a", "l", "s", "e">> \in Seq(Byte)
  <2>1. "f" \in Byte /\ "a" \in Byte /\ "l" \in Byte /\ "s" \in Byte /\ "e" \in Byte
    BY CloseByte
  <2> QED BY <2>1
<1>3. <<"n", "u", "l", "l">> \in Seq(Byte)
  <2>1. "n" \in Byte /\ "u" \in Byte /\ "l" \in Byte
    BY CloseByte
  <2> QED BY <2>1
<1>4. /\ Literal[1] = <<"t", "r", "u", "e">> /\ Literal[2] = <<"f", "a", "l", "s", "e">>
      /\ Literal[3] = <<"n", "u", "l", "l">>
  BY DEF Literal
<1>5. \A i \in 1 .. 3 : i = 1 \/ i = 2 \/ i = 3
  OBVIOUS
<1>6. Literal[1] \in Bytes /\ Literal[2] \in Bytes /\ Literal[3] \in Bytes
  BY <1>1, <1>2, <1>3, <1>4 DEF Bytes
<1> QED BY <1>5, <1>6

LEMMA NameBytes == <<Quote, ":">> \in Seq(Byte) /\ <<Quote, "_", Quote, ":">> \in Seq(Byte)
<1>1. Quote \in Byte /\ ":" \in Byte /\ "_" \in Byte
  BY CloseByte
<1>2. ASSUME NEW x \in Byte, NEW y \in Byte, NEW z \in Byte
      PROVE  <<x, y>> \in Seq(Byte) /\ <<x, z, x, y>> \in Seq(Byte)
  <2>1. <<x, y>> \in Seq(Byte)
    OBVIOUS
  <2>2. <<x, z, x, y>> \in Seq(Byte)
    OBVIOUS
  <2> QED BY <2>1, <2>2
<1> QED BY <1>1, <1>2

LEMMA CloseValueType == ASSUME NEW v, JvType(v) PROVE CloseValue(v) \in Bytes
<1> DEFINE esc == EscapeClose(v.sub, v.esc)
           word == Literal[v.lit]
           rest == SubSeq(word, v.sub + 1, Len(word))
           named == <<Quote, ":">>
           filled == <<Quote, "_", Quote, ":">>
<1>1. esc \in Bytes
  BY EscapeCloseType DEF JvType
<1>2. v.st = "lit" => rest \in Bytes
  <2> SUFFICES ASSUME v.st = "lit" PROVE rest \in Bytes
    OBVIOUS
  <2>1. word \in Bytes
    BY LiteralBytes DEF JvType
  <2>2. v.sub + 1 \in Nat /\ v.sub + 1 >= 1
    BY DEF JvType
  <2> HIDE DEF word
  <2> QED BY <2>1, <2>2, PartOf
<1>3. Null \in Bytes
  BY LiteralBytes DEF Null
<1>4. \A s \in Byte : <<s>> \in Bytes
  BY DEF Bytes
<1>5. <<Quote>> \in Bytes /\ <<":">> \in Bytes /\ <<"0">> \in Bytes
  BY <1>4, CloseByte
<1>6. named \in Bytes /\ filled \in Bytes
  BY NameBytes DEF Bytes
<1>7. << >> \in Bytes
  BY EmptySeq DEF Bytes
<1>8. CloseValue(v) =
        CASE v.st = "key"    -> esc \o named \o Null
          [] v.st = "string" -> esc \o <<Quote>>
          [] v.st = "colon"  -> <<":">> \o Null
          [] v.st = "key_expect"            -> filled \o Null
          [] v.st \in {"value", "arr_first"} -> Null
          [] v.st = "lit"    -> rest
          [] v.st \in NumberOpens -> <<"0">>
          [] OTHER           -> << >>
  BY DEF CloseValue
<1> HIDE DEF esc, rest, named, filled
<1>9. \A s, t \in Bytes : s \o t \in Bytes
  BY ConcatProperties DEF Bytes
<1>10. esc \o named \in Bytes
  BY <1>1, <1>6, <1>9
<1>11. /\ esc \o named \o Null \in Bytes /\ esc \o <<Quote>> \in Bytes /\ <<":">> \o Null \in Bytes
       /\ filled \o Null \in Bytes
  BY <1>1, <1>3, <1>5, <1>6, <1>9, <1>10
<1>12. \/ CloseValue(v) \in {esc \o named \o Null, esc \o <<Quote>>, <<":">> \o Null, filled \o Null, Null, <<"0">>,
                             << >>}
       \/ v.st = "lit" /\ CloseValue(v) = rest
  BY <1>8
<1> QED BY <1>2, <1>3, <1>5, <1>7, <1>11, <1>12

LEMMA CloseType == ASSUME NEW v, JvType(v) PROVE Close(v) \in Bytes
<1> DEFINE n == Len(v.stack)
           e == [i \in 1 .. n |-> IF v.stack[n + 1 - i] = "O" THEN "}" ELSE "]"]
           c == CloseValue(v)
<1>1. n \in Nat
  <2> DEFINE s == v.stack
  <2>1. s \in Seq({"O", "A"})
    BY DEF JvType
  <2> HIDE DEF s
  <2>2. Len(s) \in Nat
    BY <2>1, LenProperties
  <2> QED BY <2>2 DEF s
<1>2. Close(v) = IF v.st \in {"start", "done"} THEN << >> ELSE c \o e
  BY DEF Close
<1>3. e \in Bytes
  <2> HIDE DEF n
  <2>1. \A i \in 1 .. n : e[i] \in Byte
    BY CloseByte
  <2>2. e \in [1 .. n -> Byte]
    <3> SUFFICES e = [i \in 1 .. n |-> e[i]]
      BY <2>1
    <3> QED OBVIOUS
  <2> HIDE DEF e
  <2> QED BY <1>1, <2>2 DEF Bytes
<1>4. c \in Bytes
  BY CloseValueType
<1>5. << >> \in Bytes
  BY EmptySeq DEF Bytes
<1> HIDE DEF e, c
<1>6. c \o e \in Bytes
  BY <1>3, <1>4, ConcatProperties DEF Bytes
<1> QED BY <1>2, <1>5, <1>6

-----------------------------------------------------------------------------
(* One call of the filter.                                                 *)

\* What the filter has let go of the text, and what it withholds.
Filtered(g, text) ==
  /\ text \in Bytes
  /\ IF g.stopped THEN g.hold = << >> /\ StopsIn(text) # {} /\ g.out = BeforeStop(text)
     ELSE text = g.out \o g.hold /\ StopsIn(text) = {} /\ Quiet(text, Len(g.out))

WorkFields == {"e", "g", "fed", "prelude"}

\* The engine loses the bytes from the stop on, or nothing.
LEMMA StopFeedIs ==
  ASSUME StopsOk, NEW w, NEW bytes, DOMAIN w = WorkFields, Response(w.g), bytes \in Bytes, ~w.g.stopped,
         NEW text, Filtered(w.g, text)
  PROVE  LET v == StopFeed(w, bytes)
             held == w.g.hold \o bytes
         IN  /\ DOMAIN v = WorkFields /\ v.fed = w.fed /\ v.prelude = w.prelude
             /\ Response(v.g) /\ v.g.split = w.g.split /\ v.g.buf = w.g.buf /\ v.g.reason = w.g.reason
             /\ Filtered(v.g, text \o bytes)
             /\ IF v.g.stopped
                THEN /\ v.g.out = w.g.out \o UpTo(held, Min(StopsIn(held)) - 1)
                     /\ v.e = Truncate(w.e, Len(held) - (Min(StopsIn(held)) - 1))
                     /\ Min(StopsIn(held)) \in 1 .. Len(held)
                ELSE v.e = w.e
<1> DEFINE g == w.g
           hold == g.hold
           held == hold \o bytes
           full == text \o bytes
           out == g.out
           v == StopFeed(w, bytes)
           no == FALSE
<1>1. /\ hold \in Bytes /\ out \in Bytes /\ DOMAIN g = ContextFields /\ g.stopped \in BOOLEAN
      /\ g.buf \in Bytes /\ g.split \in {"content", "think", "ws"}
  BY DEF Response, ContextType
<1>2. text \in Bytes /\ text = out \o hold /\ StopsIn(text) = {} /\ Quiet(text, Len(out))
  BY DEF Filtered
<1>3. held \in Bytes /\ full \in Bytes
  <2> HIDE DEF hold
  <2> QED BY <1>1, <1>2, ConcatProperties DEF Bytes
<1>4. full = out \o held
  <2> HIDE DEF hold, out
  <2>1. bytes \in Bytes
    OBVIOUS
  <2>2. hold \in Bytes /\ out \in Bytes
    BY <1>1
  <2>3. (out \o hold) \o bytes = out \o (hold \o bytes)
    BY ONLY <2>1, <2>2, Regroup
  <2> QED BY <1>2, <2>3
<1>5. Len(out) \in Nat
  <2> HIDE DEF out
  <2> QED BY <1>1, LenProperties DEF Bytes
<1>6. Quiet(full, Len(out))
  <2> HIDE DEF out
  <2> QED BY <1>2, <1>5, QuietStays
<1>7. StopsIn(held) = {i \in 1 .. Len(held) : \E s \in conf.stops : Begins(s, held, i)}
  BY DEF StopsIn
<1>8. no \in BOOLEAN /\ ~no
  OBVIOUS
<1>9. << >> \in Bytes
  BY EmptySeq DEF Bytes
<1> HIDE DEF g, hold, held, full, out, no
<1>10. Quiet(out \o held, Len(out))
  BY <1>4, <1>6
<1>11. CASE StopsIn(held) # {}
  <2> DEFINE at == Min(StopsIn(held)) - 1
             cut == UpTo(held, at)
             m == EmitChannel(g, no, cut)
             h == [[m EXCEPT !.hold = << >>] EXCEPT !.stopped = TRUE]
  <2>1. /\ StopsIn(out \o held) # {} /\ Min(StopsIn(held)) \in 1 .. Len(held)
        /\ BeforeStop(out \o held) = out \o cut
    BY <1>1, <1>3, <1>10, <1>11, StopFound
  <2>2. at \in 0 .. Len(held)
    <3>1. Len(held) \in Nat
      BY <1>3, LenProperties DEF Bytes
    <3> HIDE DEF held
    <3> QED BY <2>1, <3>1
  <2>3. cut \in Bytes
    <3> HIDE DEF at
    <3> QED BY <1>3, <2>2, Cut DEF Bytes
  <2>4. v = [w EXCEPT !.e = Truncate(@, Len(held) - at),
                      !.g = [EmitChannel(@, FALSE, cut) EXCEPT !.hold = << >>, !.stopped = TRUE]]
    BY <1>7, <1>11 DEF StopFeed, held, hold, g
  <2> HIDE DEF at, cut
  <2>5. /\ Response(m) /\ Untouched(g, m)
        /\ m.out = IF no THEN out ELSE out \o cut
        /\ m.reason = IF no THEN g.reason \o cut ELSE g.reason
    <3>1. Response(g)
      BY DEF g
    <3>2. Emits(g, m, no, cut)
      BY ONLY <1>8, <2>3, <3>1, Emitted
    <3> QED BY ONLY <3>2 DEF Emits, out
  <2>6. v.g = h /\ v.e = Truncate(w.e, Len(held) - at) /\ DOMAIN v = WorkFields /\ v.fed = w.fed
        /\ v.prelude = w.prelude
    BY <2>4 DEF WorkFields, no, g
  <2> HIDE DEF m, v, h
  <2>7. /\ DOMAIN h = ContextFields /\ h.split = m.split /\ h.stopped = TRUE /\ h.buf = m.buf
        /\ h.hold = << >> /\ h.out = m.out /\ h.reason = m.reason /\ h.u8_pend = m.u8_pend
        /\ h.items = m.items /\ h.item_open = m.item_open
    BY <2>5 DEF Untouched, ContextFields, h
  <2>8. m.split = g.split /\ m.buf = g.buf
    BY <2>5 DEF Untouched
  <2>9. Response(h)
    <3>1. h.split \in {"content", "think", "ws"} /\ h.stopped \in BOOLEAN /\ h.buf \in Bytes /\ h.hold \in Bytes
      BY <1>1, <1>9, <2>7, <2>8
    <3> QED BY <2>5, <2>7, <3>1, ResponseKept
  <2>10. m.out = out \o cut /\ m.reason = g.reason
    BY <1>8, <2>5
  <2>11. Filtered(h, full)
    BY <1>3, <1>4, <2>1, <2>7, <2>10 DEF Filtered
  <2> QED BY <2>1, <2>6, <2>7, <2>8, <2>9, <2>10, <2>11 DEF v, full, held, hold, g, out, cut, at
<1>12. CASE StopsIn(held) = {}
  <2> DEFINE free == Len(held) - Keep(held)
             cut == UpTo(held, free)
             left == From(held, free + 1)
             m == EmitChannel(g, no, cut)
             h == [m EXCEPT !.hold = left]
  <2>1. StopsIn(out \o held) = {} /\ Quiet(out \o held, Len(out) + free)
    BY <1>1, <1>3, <1>10, <1>12, NoStop
  <2>2. free \in 0 .. Len(held)
    <3>1. Keep(held) \in 0 .. Len(held) /\ Len(held) \in Nat
      BY <1>3, KeepIs, LenProperties DEF Bytes
    <3> QED BY <3>1
  <2>3. cut \in Bytes /\ left \in Bytes /\ cut \o left = held /\ Len(cut) = free
    <3> HIDE DEF free
    <3> QED BY <1>3, <2>2, Cut DEF Bytes
  <2>4. v = [w EXCEPT !.g = [EmitChannel(w.g, FALSE, cut) EXCEPT !.hold = left]]
    BY <1>7, <1>12 DEF StopFeed, held, hold, g
  <2> HIDE DEF free, cut, left
  <2>5. /\ Response(m) /\ Untouched(g, m)
        /\ m.out = IF no THEN out ELSE out \o cut
        /\ m.reason = IF no THEN g.reason \o cut ELSE g.reason
    <3>1. Response(g)
      BY DEF g
    <3>2. Emits(g, m, no, cut)
      BY ONLY <1>8, <2>3, <3>1, Emitted
    <3> QED BY ONLY <3>2 DEF Emits, out
  <2>6. v.g = h /\ v.e = w.e /\ DOMAIN v = WorkFields /\ v.fed = w.fed /\ v.prelude = w.prelude
    BY <2>4 DEF WorkFields, no, g
  <2> HIDE DEF m, v, h
  <2>7. /\ DOMAIN h = ContextFields /\ h.split = m.split /\ h.stopped = m.stopped /\ h.buf = m.buf
        /\ h.hold = left /\ h.out = m.out /\ h.reason = m.reason /\ h.u8_pend = m.u8_pend
        /\ h.items = m.items /\ h.item_open = m.item_open
    BY <2>5 DEF Untouched, ContextFields, h
  <2>8. m.split = g.split /\ m.buf = g.buf /\ m.stopped = g.stopped
    BY <2>5 DEF Untouched
  <2>9. Response(h)
    <3>1. h.split \in {"content", "think", "ws"} /\ h.stopped \in BOOLEAN /\ h.buf \in Bytes /\ h.hold \in Bytes
      BY <1>1, <2>3, <2>7, <2>8
    <3> QED BY <2>5, <2>7, <3>1, ResponseKept
  <2>10. m.out = out \o cut /\ m.reason = g.reason
    BY <1>8, <2>5
  <2>11. full = (out \o cut) \o left /\ Len(out \o cut) = Len(out) + free
    <3>1. out \in Seq(Byte) /\ cut \in Seq(Byte) /\ left \in Seq(Byte)
      BY <1>1, <2>3 DEF Bytes
    <3>2. out \o (cut \o left) = (out \o cut) \o left
      BY <3>1, ConcatAssociative
    <3>3. Len(out \o cut) = Len(out) + Len(cut)
      BY <3>1, ConcatProperties
    <3> QED BY <1>4, <2>3, <3>2, <3>3
  <2>12. ~h.stopped
    BY <2>7, <2>8 DEF g
  <2>13. Filtered(h, full)
    <3>1. full = h.out \o h.hold /\ StopsIn(full) = {} /\ Quiet(full, Len(h.out))
      BY <1>4, <2>1, <2>7, <2>10, <2>11
    <3> QED BY <1>3, <2>12, <3>1 DEF Filtered
  <2> QED BY <2>6, <2>7, <2>8, <2>9, <2>10, <2>12, <2>13 DEF v, full, g
<1> QED BY <1>11, <1>12

-----------------------------------------------------------------------------
(* The constraint layer.                                                   *)

LEMMA SetupIs ==
  ASSUME conf \in Setups
  PROVE  /\ StopsOk /\ conf.open \in Bytes /\ conf.close \in Bytes
         /\ (Tagged => conf.close # << >>) /\ \A t \in conf.tokens : t.bytes \in Bytes
         /\ \A t \in conf.tokens : t.kind # "text" => t.bytes = << >>
  BY SetupsAssumption DEF StopsOk, Tagged, Bytes

\* The byte that opens a document is in no tag.
Brace == "{"

LEMMA TagOpensNothing == ASSUME conf \in Setups PROVE \A i \in 1 .. Len(conf.open) : conf.open[i] # Brace
  BY Zenon, SetupsAssumption DEF Brace

EngFields == {"phase", "tag_possible", "tag_match", "close_match", "jv", "doc"}
Phases    == {"probe", "think", "after_think", "output"}

EngType(e) ==
  /\ DOMAIN e = EngFields /\ e.phase \in Phases /\ e.tag_possible \in BOOLEAN
  /\ e.tag_match \in 0 .. Len(conf.open) /\ JvType(e.jv) /\ e.doc \in Bytes

LEMMA SpacesIn ==
  ASSUME NEW text \in Bytes
  PROVE  Spaces(text) \in 0 .. Len(text)
<1> DEFINE n == Len(text)
           S == {i \in 1 .. n : \A j \in 1 .. i : Space(text[j])}
<1>1. n \in Nat
  BY LenProperties DEF Bytes
<1>2. Spaces(text) = Cardinality(S)
  BY DEF Spaces
<1>3. S \in SUBSET (1 .. n)
  OBVIOUS
<1> HIDE DEF n, S
<1>4. IsFiniteSet(1 .. n) /\ Cardinality(1 .. n) = n
  <2>1. IsFiniteSet(1 .. n) /\ Cardinality(1 .. n) = IF 1 > n THEN 0 ELSE n - 1 + 1
    BY <1>1, FS_Interval
  <2> QED BY <1>1, <2>1
<1>5. IsFiniteSet(S) /\ Cardinality(S) <= Cardinality(1 .. n)
  BY <1>3, <1>4, FS_Subset
<1>6. Cardinality(S) \in Nat
  BY <1>5, FS_CardinalityType
<1> QED BY <1>1, <1>2, <1>4, <1>5, <1>6 DEF n

LEMMA PayloadFeedIs ==
  ASSUME NEW e, EngType(e), NEW bytes \in Bytes
  PROVE  LET f == PayloadFeed(e, bytes)
         IN  /\ EngType(f) /\ f.phase = e.phase /\ f.jv = Feed(e.jv, bytes) /\ f.doc = e.doc \o bytes
<1> DEFINE f == PayloadFeed(e, bytes)
           jv == Feed(e.jv, bytes)
           doc == e.doc \o bytes
<1>1. JvType(jv)
  BY FeedType DEF EngType
<1>2. doc \in Bytes
  <2> DEFINE d == e.doc
  <2>1. d \in Bytes
    BY DEF EngType
  <2> HIDE DEF d
  <2>2. d \o bytes \in Bytes
    BY <2>1, ConcatProperties DEF Bytes
  <2> QED BY <2>2 DEF d
<1>3. f = [e EXCEPT !.jv = jv, !.doc = doc]
  BY DEF PayloadFeed
<1> HIDE DEF f, jv, doc
<1>4. EngType(f) /\ f.phase = e.phase /\ f.jv = jv /\ f.doc = doc
  BY <1>1, <1>2, <1>3 DEF EngType, EngFields
<1> QED BY <1>4 DEF f, jv, doc

LEMMA PayloadResetIs ==
  ASSUME NEW e, EngType(e)
  PROVE  LET f == PayloadReset(e) IN EngType(f) /\ f.phase = e.phase /\ f.jv = Start /\ f.doc = << >>
<1> DEFINE f == PayloadReset(e)
<1>1. << >> \in Bytes /\ JvType(Start)
  BY EmptySeq, StartType DEF Bytes
<1>2. f = [e EXCEPT !.jv = Start, !.doc = << >>]
  BY DEF PayloadReset
<1> HIDE DEF f
<1>3. EngType(f) /\ f.phase = e.phase /\ f.jv = Start /\ f.doc = << >>
  BY <1>1, <1>2 DEF EngType, EngFields
<1> QED BY <1>3 DEF f

\* Phases change without touching the rest.
LEMMA PhaseType ==
  ASSUME NEW e, EngType(e), NEW p \in Phases
  PROVE  EngType([e EXCEPT !.phase = p])
  BY DEF EngType, EngFields

LEMMA InThinkType == ASSUME conf \in Setups, NEW e, EngType(e) PROVE EngType(InThink(e))
<1>1. 0 \in 0 .. Len(conf.open)
  <2> DEFINE t == conf.open
  <2>1. t \in Bytes
    BY SetupIs
  <2> HIDE DEF t
  <2>2. Len(t) \in Nat
    BY <2>1, LenProperties DEF Bytes
  <2>3. 0 \in 0 .. Len(t)
    BY <2>2
  <2> QED BY <2>3 DEF t
<1> QED BY <1>1 DEF InThink, EngType, EngFields, Phases

Constrained(r, bytes) ==
  DOMAIN r = {"eng", "hidden"} /\ EngType(r.eng) /\ r.hidden \in 0 .. Len(bytes)

\* A validator that has read nothing.
Blank(e) == e.jv = Start /\ e.doc = << >>

\* From a blank validator, a token is hidden as a whole or begins the document.
BlankOrBegun(r, bytes) ==
  r.eng.jv.st # "refused" =>
    IF r.eng.phase = "output" THEN r.eng.doc = From(bytes, r.hidden + 1) /\ r.eng.jv = Feed(Start, r.eng.doc)
    ELSE Blank(r.eng) /\ r.hidden = Len(bytes)

LEMMA FeedThinkIs ==
  ASSUME NEW e, EngType(e), NEW bytes \in Bytes
  PROVE  /\ Constrained(FeedThink(e, bytes), bytes)
         /\ e.phase = "think" /\ Blank(e) => BlankOrBegun(FeedThink(e, bytes), bytes)
<1> DEFINE match(i) == FoldLeft(LAMBDA m, c : TagAdvance(conf.close, m, c), e.close_match, UpTo(bytes, i))
           ends     == {i \in 1 .. Len(bytes) : match(i) = Len(conf.close)}
           all      == match(Len(bytes))
           base     == [e EXCEPT !.phase = "output", !.close_match = 0]
           out      == PayloadReset(base)
           rest     == From(bytes, Min(ends) + 1)
<1>1. FeedThink(e, bytes) =
        IF ends = {} THEN [eng |-> [e EXCEPT !.close_match = all], hidden |-> Len(bytes)]
        ELSE [eng |-> PayloadFeed(out, rest), hidden |-> Min(ends)]
  BY DEF FeedThink
<1>2. ends \in SUBSET (1 .. Len(bytes))
  OBVIOUS
<1>3. Len(bytes) \in Nat
  BY LenProperties DEF Bytes
<1> HIDE DEF match, ends, all
<1>4. EngType(base) /\ base.phase = "output"
  BY DEF EngType, EngFields, Phases
<1>5. /\ EngType([e EXCEPT !.close_match = all])
      /\ LET c == [e EXCEPT !.close_match = all] IN c.phase = e.phase /\ c.jv = e.jv /\ c.doc = e.doc
  BY DEF EngType, EngFields
<1> HIDE DEF base
<1>6. EngType(out) /\ out.phase = "output" /\ Blank(out)
  BY <1>4, PayloadResetIs DEF Blank
<1> HIDE DEF out
<1>7. ends # {} => Min(ends) \in 1 .. Len(bytes)
  <2> SUFFICES ASSUME ends # {} PROVE Min(ends) \in 1 .. Len(bytes)
    OBVIOUS
  <2>1. ends \in SUBSET Nat
    BY <1>2, <1>3
  <2> QED BY <1>2, <2>1, MinIs
<1>8. ends # {} => rest \in Bytes
  <2> SUFFICES ASSUME ends # {} PROVE rest \in Bytes
    OBVIOUS
  <2> DEFINE m == Min(ends)
  <2>1. m \in 0 .. Len(bytes)
    BY <1>3, <1>7
  <2> HIDE DEF m
  <2>2. From(bytes, m + 1) \in Seq(Byte)
    BY <2>1, Cut DEF Bytes
  <2> QED BY <2>2 DEF m, Bytes
<1> HIDE DEF rest
<1>9. ends # {} => LET f == PayloadFeed(out, rest)
                   IN  EngType(f) /\ f.phase = "output" /\ f.doc = rest /\ f.jv = Feed(Start, rest)
  <2> SUFFICES ASSUME ends # {} PROVE LET f == PayloadFeed(out, rest)
                   IN  EngType(f) /\ f.phase = "output" /\ f.doc = rest /\ f.jv = Feed(Start, rest)
    OBVIOUS
  <2>1. rest \in Bytes
    BY <1>8
  <2> DEFINE f == PayloadFeed(out, rest)
  <2>2. EngType(f) /\ f.phase = out.phase /\ f.jv = Feed(out.jv, rest) /\ f.doc = out.doc \o rest
    BY <1>6, <2>1, PayloadFeedIs
  <2> HIDE DEF f
  <2>3. << >> \o rest = rest
    BY <2>1, ConcatEmptySeq DEF Bytes
  <2>4. EngType(f) /\ f.phase = "output" /\ f.doc = rest /\ f.jv = Feed(Start, rest)
    BY <1>6, <2>2, <2>3 DEF Blank
  <2> QED BY <2>4 DEF f
<1>10. CASE ends = {}
  <2> DEFINE c == [e EXCEPT !.close_match = all]
  <2>1. FeedThink(e, bytes) = [eng |-> c, hidden |-> Len(bytes)]
    BY <1>1, <1>10
  <2>2. EngType(c) /\ c.phase = e.phase /\ c.jv = e.jv /\ c.doc = e.doc
    BY <1>5
  <2> HIDE DEF c
  <2> QED BY <1>3, <2>1, <2>2 DEF Constrained, BlankOrBegun, Blank
<1>11. CASE ends # {}
  <2> DEFINE f == PayloadFeed(out, rest)
  <2>1. FeedThink(e, bytes) = [eng |-> f, hidden |-> Min(ends)]
    BY <1>1, <1>11
  <2>2. EngType(f) /\ f.phase = "output" /\ f.doc = rest /\ f.jv = Feed(Start, rest)
    BY <1>9, <1>11
  <2> HIDE DEF f
  <2>3. Min(ends) \in 0 .. Len(bytes)
    BY <1>3, <1>7, <1>11
  <2>4. Constrained(FeedThink(e, bytes), bytes)
    BY <2>1, <2>2, <2>3 DEF Constrained
  <2> QED BY <2>1, <2>2, <2>4 DEF BlankOrBegun, rest
<1> QED BY <1>10, <1>11

LEMMA CutTwice ==
  \A text \in Bytes : \A n \in 0 .. Len(text) : \A m \in 0 .. (Len(text) - n) :
    From(From(text, n + 1), m + 1) = From(text, n + m + 1)
<1> TAKE text \in Bytes
<1> TAKE n \in 0 .. Len(text)
<1> TAKE m \in 0 .. (Len(text) - n)
<1> DEFINE a == UpTo(text, n)
           y == From(text, n + 1)
<1>1. a \in Seq(Byte) /\ Len(a) = n /\ y \in Seq(Byte) /\ Len(y) = Len(text) - n /\ a \o y = text
  BY Cut DEF Bytes
<1> HIDE DEF a, y
<1>2. m \in 0 .. Len(y)
  BY <1>1
<1>3. From(a \o y, Len(a) + m + 1) = From(y, m + 1)
  BY <1>1, <1>2, CutJoined
<1>4. From(text, n + m + 1) = From(y, m + 1)
  BY <1>1, <1>3
<1> QED BY <1>4 DEF y

LEMMA NoSpaces ==
  ASSUME NEW bytes, bytes \in Bytes, bytes # << >>, ~Space(bytes[1])
  PROVE  Spaces(bytes) = 0
<1> DEFINE n == Len(bytes)
           S == {i \in 1 .. n : \A j \in 1 .. i : Space(bytes[j])}
<1>1. n \in Nat
  BY LenProperties DEF Bytes
<1>2. S = {}
  <2> SUFFICES ASSUME NEW i \in 1 .. n, \A j \in 1 .. i : Space(bytes[j]) PROVE FALSE
    OBVIOUS
  <2> HIDE DEF n
  <2>1. 1 \in 1 .. i
    BY <1>1
  <2> QED BY <2>1
<1>3. Spaces(bytes) = Cardinality(S)
  BY DEF Spaces
<1> HIDE DEF S
<1> QED BY <1>2, <1>3, FS_EmptySet

LEMMA FeedNothing == ASSUME NEW v PROVE Feed(v, << >>) = v
<1>1. << >> \in Bytes /\ Len(<< >>) = 0
  BY EmptySeq DEF Bytes
<1> QED BY <1>1, FeedReads

\* What a validator that has read nothing accepts begins with a brace.
LEMMA AcceptedBegins ==
  ASSUME NEW bytes, bytes \in Bytes, bytes # << >>, Feed(Start, bytes).st # "refused"
  PROVE  bytes[1] = Brace /\ ~Space(bytes[1])
<1>1. JvType(Start)
  BY StartType
<1>2. bytes[1] = "{"
  BY <1>1, FeedType
<1>3. ~Space("{")
  BY DEF Space, Ws
<1> QED BY <1>2, <1>3 DEF Brace

\* A beginning of a tag is not the beginning of a document.
LEMMA TagIsRefused ==
  ASSUME conf \in Setups, NEW bytes, bytes \in Bytes, bytes # << >>, Feed(Start, bytes).st # "refused",
         NEW k, k \in 0 .. Len(conf.open), NEW n, n \in Nat, n = 0 \/ n = Spaces(bytes)
  PROVE  ~IsPrefix(From(bytes, n + 1), From(conf.open, k + 1))
<1> DEFINE open == conf.open
           needed == From(open, k + 1)
<1>1. bytes[1] = Brace /\ ~Space(bytes[1])
  BY AcceptedBegins
<1>2. n = 0
  BY <1>1, NoSpaces
<1>3. From(bytes, n + 1) = bytes /\ Len(bytes) \in Nat /\ Len(bytes) # 0
  BY <1>2, CutEnds DEF Bytes
<1>4. open \in Bytes /\ k \in 0 .. Len(open) /\ \A i \in 1 .. Len(open) : open[i] # Brace
  BY SetupIs, TagOpensNothing
<1> HIDE DEF open
<1>5. Len(open) \in Nat
  BY <1>4, LenProperties DEF Bytes
<1>6. Len(needed) = Len(open) - k /\ \A i \in 1 .. (Len(open) - k) : needed[i] = open[k + i]
  BY <1>4, Cut DEF Bytes
<1> HIDE DEF needed
<1>7. ASSUME IsPrefix(bytes, needed) PROVE FALSE
  <2>1. Len(bytes) <= Len(needed) /\ \A i \in 1 .. Len(bytes) : bytes[i] = needed[i]
    BY <1>7 DEF IsPrefix
  <2>2. 1 \in 1 .. Len(bytes) /\ 1 \in 1 .. (Len(open) - k) /\ k + 1 \in 1 .. Len(open)
    BY <1>3, <1>4, <1>5, <1>6, <2>1
  <2>3. bytes[1] = open[k + 1]
    BY <1>6, <2>1, <2>2
  <2> QED BY <1>1, <1>4, <2>2, <2>3
<1> QED BY <1>3, <1>7 DEF needed, open

LEMMA FeedProbeIs ==
  ASSUME conf \in Setups, NEW e, EngType(e), NEW bytes \in Bytes
  PROVE  /\ Constrained(FeedProbe(e, bytes), bytes)
         /\ e.phase = "probe" /\ Blank(e) => BlankOrBegun(FeedProbe(e, bytes), bytes)
<1> DEFINE open == conf.open
           spaces == IF e.tag_match = 0 THEN Spaces(bytes) ELSE 0
           rest == From(bytes, spaces + 1)
           needed == From(open, e.tag_match + 1)
           thinks == PayloadReset(InThink(e))
           more == From(rest, Len(needed) + 1)
           inside == FeedThink(thinks, more)
           payload == PayloadFeed(e, bytes)
           tag == e.tag_possible /\ IsPrefix(rest, needed)
           kept == IF payload.jv.st # "refused" THEN payload
                   ELSE IF tag THEN e ELSE [e EXCEPT !.jv = Refuse(@)]
           open2 == e.tag_possible /\ IsPrefix(needed, rest)
<1>1. FeedProbe(e, bytes) =
        IF open2
        THEN [eng |-> inside.eng, hidden |-> Len(bytes) - Len(rest) + Len(needed) + inside.hidden]
        ELSE IF tag
        THEN [eng |-> [kept EXCEPT !.tag_match = @ + Len(rest)], hidden |-> Len(bytes)]
        ELSE [eng |-> [kept EXCEPT !.tag_possible = FALSE, !.tag_match = 0, !.phase = "output"],
              hidden |-> 0]
  BY DEF FeedProbe
<1>2. open \in Bytes /\ Len(open) \in Nat /\ e.tag_match \in 0 .. Len(open)
  <2>1. open \in Bytes /\ e.tag_match \in 0 .. Len(open)
    BY SetupIs DEF EngType
  <2> HIDE DEF open
  <2> QED BY <2>1, LenProperties DEF Bytes
<1>3. Len(bytes) \in Nat /\ spaces \in 0 .. Len(bytes)
  <2>1. Len(bytes) \in Nat
    BY LenProperties DEF Bytes
  <2>2. Spaces(bytes) \in 0 .. Len(bytes)
    BY SpacesIn
  <2> QED BY <2>1, <2>2
<1> HIDE DEF spaces
<1>4. rest \in Bytes /\ Len(rest) = Len(bytes) - spaces
  BY <1>3, Cut DEF Bytes
<1>5. needed \in Bytes /\ Len(needed) = Len(open) - e.tag_match
  <2> DEFINE m == e.tag_match
  <2>1. m \in 0 .. Len(open)
    BY <1>2
  <2> HIDE DEF m, open
  <2>2. From(open, m + 1) \in Seq(Byte) /\ Len(From(open, m + 1)) = Len(open) - m
    BY <1>2, <2>1, Cut DEF Bytes
  <2> QED BY <2>2 DEF m, Bytes
<1> HIDE DEF rest, needed, open
<1>6. Len(rest) \in Nat /\ Len(needed) \in Nat
  BY <1>2, <1>3, <1>4, <1>5
<1>7. EngType(payload) /\ payload.phase = e.phase /\ payload.jv = Feed(e.jv, bytes) /\ payload.doc = e.doc \o bytes
  BY PayloadFeedIs
<1>12. Blank(e) => payload.jv = Feed(Start, bytes) /\ payload.doc = bytes
  <2>1. << >> \o bytes = bytes
    BY ConcatEmptySeq DEF Bytes
  <2> HIDE DEF payload
  <2> QED BY <1>7, <2>1 DEF Blank
<1>13. ASSUME Blank(e), payload.jv.st # "refused", tag PROVE bytes = << >>
  <2>1. IsPrefix(rest, needed)
    BY <1>13
  <2> SUFFICES ASSUME bytes # << >> PROVE FALSE
    OBVIOUS
  <2>2. Feed(Start, bytes).st # "refused"
    BY <1>12, <1>13
  <2> DEFINE k == e.tag_match
  <2>3. k \in 0 .. Len(conf.open)
    BY DEF EngType
  <2>4. spaces \in Nat /\ (spaces = 0 \/ spaces = Spaces(bytes))
    BY <1>3 DEF spaces
  <2> HIDE DEF k
  <2>5. ~IsPrefix(From(bytes, spaces + 1), From(conf.open, k + 1))
    BY <2>2, <2>3, <2>4, TagIsRefused
  <2> QED BY <2>1, <2>5 DEF k, rest, needed, open
<1>14. ASSUME e.phase = "probe", Blank(e), tag PROVE kept.phase = "probe" /\ Blank(kept)
  <2>1. CASE payload.jv.st # "refused"
    <3>1. bytes = << >>
      BY <1>13, <1>14, <2>1
    <3>2. Feed(Start, << >>) = Start
      BY FeedNothing
    <3>3. payload.phase = "probe" /\ Blank(payload)
      BY <1>7, <1>12, <1>14, <3>1, <3>2 DEF Blank
    <3> HIDE DEF payload
    <3> QED BY <2>1, <3>3
  <2>2. CASE ~(payload.jv.st # "refused")
    <3> HIDE DEF payload
    <3>1. kept = e
      BY <1>14, <2>2
    <3> HIDE DEF kept
    <3> QED BY <1>14, <3>1
  <2> QED BY <2>1, <2>2
<1>15. ASSUME Blank(e), ~tag, kept.jv.st # "refused" PROVE kept.jv = Feed(Start, bytes) /\ kept.doc = bytes
  <2>1. CASE payload.jv.st # "refused"
    <3> HIDE DEF payload
    <3>1. kept = payload
      BY <2>1
    <3> HIDE DEF kept
    <3> QED BY <1>12, <1>15, <3>1
  <2>2. CASE ~(payload.jv.st # "refused")
    <3> HIDE DEF payload
    <3> DEFINE r == Refuse(e.jv)
    <3>1. r.st = "refused"
      BY RefuseType DEF EngType
    <3> HIDE DEF r
    <3>2. kept = [e EXCEPT !.jv = r]
      BY <1>15, <2>2 DEF r
    <3> HIDE DEF kept
    <3>3. kept.jv = r
      BY <3>2 DEF EngType, EngFields
    <3> QED BY <1>15, <3>1, <3>3
  <2> QED BY <2>1, <2>2
<1>8. EngType(kept)
  <2>1. EngType([e EXCEPT !.jv = Refuse(@)])
    <3> DEFINE r == Refuse(e.jv)
    <3>1. JvType(r)
      BY RefuseType DEF EngType
    <3> HIDE DEF r
    <3>2. EngType([e EXCEPT !.jv = r])
      BY <3>1 DEF EngType, EngFields
    <3> QED BY <3>2 DEF r
  <2> QED BY <1>7, <2>1
<1> HIDE DEF kept, payload
<1>9. CASE open2
  <2>1. Len(needed) <= Len(rest)
    BY <1>9 DEF IsPrefix
  <2>2. more \in Bytes /\ Len(more) = Len(rest) - Len(needed)
    <3> DEFINE k == Len(needed)
    <3>1. k \in 0 .. Len(rest)
      BY <1>6, <2>1
    <3> HIDE DEF k
    <3>2. From(rest, k + 1) \in Seq(Byte) /\ Len(From(rest, k + 1)) = Len(rest) - k
      BY <1>4, <3>1, Cut DEF Bytes
    <3> QED BY <3>2 DEF k, Bytes
  <2>3. EngType(thinks) /\ thinks.phase = "think" /\ Blank(thinks)
    <3> DEFINE i == InThink(e)
    <3>1. EngType(i) /\ i.phase = "think"
      <4>1. EngType(i)
        BY InThinkType
      <4>2. i.phase = "think"
        BY DEF InThink, EngType, EngFields
      <4> QED BY <4>1, <4>2
    <3> HIDE DEF i
    <3> DEFINE r == PayloadReset(i)
    <3>2. EngType(r) /\ r.phase = i.phase /\ r.jv = Start /\ r.doc = << >>
      BY <3>1, PayloadResetIs
    <3> HIDE DEF r
    <3>3. EngType(r) /\ r.phase = "think" /\ Blank(r)
      BY <3>1, <3>2 DEF Blank
    <3> QED BY <3>3 DEF r, i
  <2> HIDE DEF more, thinks
  <2>7. Constrained(inside, more) /\ BlankOrBegun(inside, more)
    BY <2>2, <2>3, FeedThinkIs
  <2> HIDE DEF inside
  <2>4. EngType(inside.eng) /\ inside.hidden \in 0 .. Len(more)
    BY <2>7 DEF Constrained
  <2> DEFINE h == Len(bytes) - Len(rest) + Len(needed) + inside.hidden
  <2>5. h \in 0 .. Len(bytes)
    BY <1>3, <1>4, <1>6, <2>1, <2>2, <2>4
  <2>8. From(more, inside.hidden + 1) = From(bytes, h + 1)
    <3> DEFINE m == inside.hidden
               k == Len(needed)
    <3>1. m \in 0 .. (Len(rest) - k) /\ k \in 0 .. Len(rest)
      BY <1>6, <2>1, <2>2, <2>4
    <3>2. more = From(rest, k + 1)
      BY DEF more
    <3> HIDE DEF m, k
    <3>3. From(From(rest, k + 1), m + 1) = From(rest, k + m + 1)
      BY <1>4, <3>1, CutTwice
    <3>4. k + m \in 0 .. (Len(bytes) - spaces) /\ k + m \in Nat
      BY <1>3, <1>4, <1>6, <3>1
    <3> DEFINE j == k + m
    <3>5. j \in 0 .. (Len(bytes) - spaces)
      BY <3>4
    <3> HIDE DEF j
    <3>6. From(From(bytes, spaces + 1), j + 1) = From(bytes, spaces + j + 1)
      <4>1. bytes \in Bytes /\ spaces \in 0 .. Len(bytes)
        BY <1>3
      <4> QED BY ONLY <3>5, <4>1, CutTwice
    <3>7. spaces + j = h
      BY <1>3, <1>4, <1>6, <3>1, <3>4 DEF j, m, k
    <3> HIDE DEF h
    <3> QED BY <3>2, <3>3, <3>6, <3>7 DEF j, m, rest
  <2>9. Len(more) = inside.hidden => h = Len(bytes)
    BY <1>3, <1>4, <1>6, <2>1, <2>2, <2>4
  <2>6. FeedProbe(e, bytes) = [eng |-> inside.eng, hidden |-> h]
    BY <1>1, <1>9
  <2> HIDE DEF h
  <2>10. Constrained(FeedProbe(e, bytes), bytes)
    BY <2>4, <2>5, <2>6 DEF Constrained
  <2>11. BlankOrBegun(FeedProbe(e, bytes), bytes)
    BY <2>6, <2>7, <2>8, <2>9 DEF BlankOrBegun
  <2> QED BY <2>10, <2>11
<1>10. CASE ~open2 /\ tag
  <2>1. Len(rest) <= Len(needed)
    BY <1>10 DEF IsPrefix
  <2>2. FeedProbe(e, bytes) = [eng |-> [kept EXCEPT !.tag_match = @ + Len(rest)], hidden |-> Len(bytes)]
    BY <1>1, <1>10
  <2>3. kept.tag_match = e.tag_match
    BY DEF kept, payload, PayloadFeed, EngType, EngFields
  <2> DEFINE m == kept.tag_match + Len(rest)
  <2>4. m \in 0 .. Len(conf.open)
    BY <1>2, <1>5, <1>6, <2>1, <2>3 DEF open
  <2> HIDE DEF m
  <2> DEFINE r == [kept EXCEPT !.tag_match = m]
  <2>5. EngType(r) /\ r.phase = kept.phase /\ r.jv = kept.jv /\ r.doc = kept.doc
    BY <1>8, <2>4 DEF EngType, EngFields
  <2>6. FeedProbe(e, bytes) = [eng |-> r, hidden |-> Len(bytes)]
    BY <2>2 DEF m
  <2> HIDE DEF r
  <2>7. Constrained(FeedProbe(e, bytes), bytes)
    BY <1>3, <2>5, <2>6 DEF Constrained
  <2>8. e.phase = "probe" /\ Blank(e) => kept.phase = "probe" /\ Blank(kept)
    BY <1>10, <1>14
  <2>9. e.phase = "probe" /\ Blank(e) => BlankOrBegun(FeedProbe(e, bytes), bytes)
    BY <2>5, <2>6, <2>8 DEF BlankOrBegun, Blank
  <2> QED BY <2>7, <2>9
<1>11. CASE ~open2 /\ ~tag
  <2> DEFINE r == [kept EXCEPT !.tag_possible = FALSE, !.tag_match = 0, !.phase = "output"]
  <2>1. FeedProbe(e, bytes) = [eng |-> r, hidden |-> 0]
    BY <1>1, <1>11
  <2>2. 0 \in 0 .. Len(conf.open)
    BY <1>2 DEF open
  <2>3. EngType(r) /\ r.phase = "output" /\ r.jv = kept.jv /\ r.doc = kept.doc
    BY <1>8, <2>2 DEF EngType, EngFields, Phases
  <2> HIDE DEF r
  <2>4. Constrained(FeedProbe(e, bytes), bytes)
    BY <1>3, <2>1, <2>3 DEF Constrained
  <2>5. From(bytes, 0 + 1) = bytes
    <3>1. From(bytes, 1) = bytes
      BY CutEnds DEF Bytes
    <3> QED BY <3>1
  <2>6. Blank(e) /\ kept.jv.st # "refused" => kept.jv = Feed(Start, bytes) /\ kept.doc = bytes
    BY <1>11, <1>15
  <2>7. Blank(e) => BlankOrBegun(FeedProbe(e, bytes), bytes)
    BY <2>1, <2>3, <2>5, <2>6 DEF BlankOrBegun
  <2> QED BY <2>4, <2>7
<1> QED BY <1>9, <1>10, <1>11

LEMMA ConstraintFeedIs ==
  ASSUME conf \in Setups, NEW e, EngType(e), NEW bytes \in Bytes
  PROVE  Constrained(ConstraintFeed(e, bytes), bytes)
<1> DEFINE o == [e EXCEPT !.phase = "output"]
           r == [eng |-> PayloadFeed(o, bytes), hidden |-> 0]
<1>1. EngType(o)
  BY PhaseType DEF Phases
<1> HIDE DEF o
<1>2. EngType(PayloadFeed(o, bytes))
  BY <1>1, PayloadFeedIs
<1>3. 0 \in 0 .. Len(bytes)
  <2>1. Len(bytes) \in Nat
    BY LenProperties DEF Bytes
  <2> QED BY <2>1
<1>4. Constrained(r, bytes)
  BY <1>2, <1>3 DEF Constrained
<1>5. Constrained(FeedProbe(e, bytes), bytes) /\ Constrained(FeedThink(e, bytes), bytes)
  <2>1. Constrained(FeedProbe(e, bytes), bytes)
    BY FeedProbeIs
  <2>2. Constrained(FeedThink(e, bytes), bytes)
    BY FeedThinkIs
  <2> QED BY <2>1, <2>2
<1>6. ConstraintFeed(e, bytes) \in {FeedProbe(e, bytes), FeedThink(e, bytes), r}
  BY DEF ConstraintFeed, o
<1> HIDE DEF r
<1> QED BY <1>4, <1>5, <1>6

LEMMA TruncateIs ==
  ASSUME conf \in Setups, NEW e, EngType(e), NEW n \in Nat
  PROVE  LET f == Truncate(e, n)
         IN  /\ EngType(f) /\ f.phase = e.phase
             /\ conf.json /\ e.doc # << >> =>
                  f.doc = IF n >= Len(e.doc) THEN << >> ELSE UpTo(e.doc, Len(e.doc) - n)
<1> DEFINE f == Truncate(e, n)
           d == e.doc
           doc == UpTo(d, Len(d) - n)
           cut == [e EXCEPT !.jv = Feed(Start, doc), !.doc = doc]
<1>1. d \in Bytes /\ Len(d) \in Nat
  <2>1. d \in Bytes
    BY DEF EngType
  <2> HIDE DEF d
  <2> QED BY <2>1, LenProperties DEF Bytes
<1>2. f = IF ~conf.json \/ d = << >> THEN e
          ELSE IF n >= Len(d) THEN PayloadReset(e) ELSE cut
  BY DEF Truncate
<1>3. CASE ~(~conf.json \/ d = << >>) /\ ~(n >= Len(d))
  <2>1. Len(d) - n \in 0 .. Len(d)
    BY <1>1, <1>3
  <2>2. doc \in Bytes
    <3> DEFINE k == Len(d) - n
    <3>1. k \in 0 .. Len(d)
      BY <2>1
    <3> HIDE DEF k, d
    <3>2. UpTo(d, k) \in Seq(Byte)
      BY <1>1, <3>1, Cut DEF Bytes
    <3> QED BY <3>2 DEF k, Bytes
  <2> HIDE DEF doc
  <2>3. JvType(Feed(Start, doc))
    BY <2>2, StartType, FeedType
  <2>4. EngType(cut) /\ cut.phase = e.phase /\ cut.doc = doc
    BY <2>2, <2>3 DEF EngType, EngFields
  <2>5. f = cut
    BY <1>2, <1>3
  <2> HIDE DEF cut, f
  <2>6. EngType(f) /\ f.phase = e.phase /\ f.doc = doc
    BY <2>4, <2>5
  <2> QED BY <1>3, <2>6 DEF f, doc, d
<1>4. CASE ~(~conf.json \/ d = << >>) /\ n >= Len(d)
  <2>1. f = PayloadReset(e)
    BY <1>2, <1>4
  <2> HIDE DEF f
  <2>2. EngType(f) /\ f.phase = e.phase /\ f.doc = << >>
    BY <2>1, PayloadResetIs
  <2> QED BY <1>4, <2>2 DEF f, d
<1>5. CASE ~conf.json \/ d = << >>
  <2>1. f = e
    BY <1>2, <1>5
  <2> HIDE DEF f
  <2> QED BY <1>5, <2>1 DEF f, d
<1> QED BY <1>3, <1>4, <1>5

-----------------------------------------------------------------------------
(* The first place of a word.                                              *)

LEMMA FirstAtIs ==
  ASSUME NEW word \in Bytes, NEW text \in Bytes
  PROVE  /\ FirstAt(word, text) \in 0 .. Len(text)
         /\ FirstAt(word, text) = 0 => \A i \in 1 .. Len(text) : ~Begins(word, text, i)
         /\ FirstAt(word, text) # 0 => /\ Begins(word, text, FirstAt(word, text))
                                       /\ \A i \in 1 .. Len(text) : Begins(word, text, i) => FirstAt(word, text) <= i
<1> DEFINE S == {i \in 1 .. Len(text) : Begins(word, text, i)}
<1>1. Len(text) \in Nat
  BY LenProperties DEF Bytes
<1>2. FirstAt(word, text) = IF S = {} THEN 0 ELSE Min(S)
  BY DEF FirstAt
<1>3. S \in SUBSET Nat /\ S \in SUBSET (1 .. Len(text))
  OBVIOUS
<1>4. S # {} => Min(S) \in S /\ \A n \in S : Min(S) <= n
  <2> HIDE DEF S
  <2> QED BY <1>3, MinIs
<1>5. CASE S = {}
  BY <1>1, <1>2, <1>5
<1>6. CASE S # {}
  <2> DEFINE m == FirstAt(word, text)
  <2>1. m \in S /\ \A n \in S : m <= n
    BY <1>2, <1>4, <1>6
  <2> HIDE DEF m
  <2>2. m \in 1 .. Len(text) /\ Begins(word, text, m)
        /\ \A i \in 1 .. Len(text) : Begins(word, text, i) => m <= i
    BY <2>1
  <2>3. m # 0 /\ m \in 0 .. Len(text)
    BY <1>1, <2>2
  <2> QED BY <2>2, <2>3 DEF m
<1> QED BY <1>5, <1>6

LEMMA FirstAtWhere ==
  ASSUME NEW word \in Bytes, NEW text \in Bytes, NEW k \in 0 .. Len(text),
         k = 0 => \A i \in 1 .. Len(text) : ~Begins(word, text, i),
         k # 0 => Begins(word, text, k) /\ \A i \in 1 .. Len(text) : Begins(word, text, i) => k <= i
  PROVE  FirstAt(word, text) = k
<1> DEFINE m == FirstAt(word, text)
<1>1. /\ m \in 0 .. Len(text)
      /\ m = 0 => \A i \in 1 .. Len(text) : ~Begins(word, text, i)
      /\ m # 0 => Begins(word, text, m) /\ \A i \in 1 .. Len(text) : Begins(word, text, i) => m <= i
  BY FirstAtIs
<1>2. Len(text) \in Nat
  BY LenProperties DEF Bytes
<1> HIDE DEF m
<1>3. CASE k = 0
  <2>1. ~(m \in 1 .. Len(text))
    BY <1>1, <1>3
  <2>2. m = 0
    BY <1>1, <1>2, <2>1
  <2> QED BY <1>3, <2>2 DEF m
<1>4. CASE k # 0
  <2>1. k \in 1 .. Len(text)
    BY <1>2, <1>4
  <2>2. m # 0
    BY <1>1, <1>4, <2>1
  <2>3. m \in 1 .. Len(text)
    BY <1>1, <1>2, <2>2
  <2>4. m <= k /\ k <= m
    BY <1>1, <1>4, <2>1, <2>2, <2>3
  <2>5. m = k
    BY <1>2, <2>1, <2>3, <2>4
  <2> QED BY <2>5 DEF m
<1> QED BY <1>3, <1>4

\* What begins and ends in a text does so whatever follows.
LEMMA BeginsBefore ==
  ASSUME NEW word \in Bytes, NEW text \in Bytes, NEW x \in Bytes, NEW i \in Nat, i >= 1,
         i + Len(word) - 1 <= Len(text)
  PROVE  Begins(word, text \o x, i) <=> Begins(word, text, i)
<1> DEFINE z == text \o x
<1>1. /\ z \in Bytes /\ Len(z) = Len(text) + Len(x) /\ Len(text) \in Nat /\ Len(x) \in Nat
      /\ \A k \in 1 .. Len(text) : z[k] = text[k]
  BY Joined DEF Bytes
<1>2. Len(word) \in Nat
  BY LenProperties DEF Bytes
<1> HIDE DEF z
<1>3. (Begins(word, z, i) <=> Fits(word, z, i)) /\ (Begins(word, text, i) <=> Fits(word, text, i))
  BY <1>1, BeginsFits
<1>4. \A j \in 1 .. Len(word) : z[i + j - 1] = text[i + j - 1]
  <2> TAKE j \in 1 .. Len(word)
  <2>1. i + j - 1 \in 1 .. Len(text)
    BY <1>1, <1>2
  <2> QED BY <1>1, <2>1
<1>5. i + Len(word) - 1 <= Len(z)
  BY <1>1, <1>2
<1>6. Fits(word, z, i) <=> Fits(word, text, i)
  BY <1>4, <1>5 DEF Fits
<1> QED BY <1>3, <1>6 DEF z

LEMMA FirstAtJoined ==
  ASSUME NEW word \in Bytes, NEW text \in Bytes, NEW x \in Bytes, FirstAt(word, text) # 0
  PROVE  FirstAt(word, text \o x) = FirstAt(word, text)
<1> DEFINE z == text \o x
           k == FirstAt(word, text)
<1>1. /\ z \in Bytes /\ Len(z) = Len(text) + Len(x) /\ Len(text) \in Nat /\ Len(x) \in Nat
  BY Joined DEF Bytes
<1>2. /\ k \in 0 .. Len(text) /\ k # 0 /\ Begins(word, text, k)
      /\ \A i \in 1 .. Len(text) : Begins(word, text, i) => k <= i
  BY FirstAtIs
<1>3. Len(word) \in Nat
  BY LenProperties DEF Bytes
<1>4. k + Len(word) - 1 <= Len(text)
  BY <1>2 DEF Begins
<1> HIDE DEF k
<1>5. Begins(word, z, k)
  <2>1. k \in Nat /\ k >= 1
    BY <1>1, <1>2
  <2> QED BY <1>2, <1>4, <2>1, BeginsBefore
<1>6. ASSUME NEW i \in 1 .. Len(z), Begins(word, z, i) PROVE k <= i
  <2> SUFFICES ASSUME ~(k <= i) PROVE FALSE
    OBVIOUS
  <2>1. i \in Nat /\ i >= 1 /\ i < k /\ i \in 1 .. Len(text) /\ i + Len(word) - 1 <= Len(text)
    BY <1>1, <1>2, <1>3, <1>4, <1>6
  <2>2. Begins(word, text \o x, i) <=> Begins(word, text, i)
    BY <2>1, BeginsBefore
  <2> QED BY <1>2, <1>6, <2>1, <2>2
<1>7. k \in 0 .. Len(z)
  BY <1>1, <1>2
<1> HIDE DEF z
<1>8. FirstAt(word, z) = k
  BY <1>1, <1>2, <1>5, <1>6, <1>7, FirstAtWhere
<1> QED BY <1>8 DEF z, k

\* Where a beginning without the word is cut off.
LEMMA FirstAtCut ==
  ASSUME NEW word \in Bytes, NEW z \in Bytes, NEW n \in 0 .. Len(z), \A i \in 1 .. n : ~Begins(word, z, i)
  PROVE  /\ FirstAt(word, From(z, n + 1)) = IF FirstAt(word, z) = 0 THEN 0 ELSE FirstAt(word, z) - n
         /\ FirstAt(word, z) # 0 => FirstAt(word, z) > n
<1> DEFINE a == UpTo(z, n)
           y == From(z, n + 1)
           k == FirstAt(word, z)
<1>1. /\ a \in Bytes /\ Len(a) = n /\ y \in Bytes /\ Len(y) = Len(z) - n /\ a \o y = z
  BY Cut DEF Bytes
<1>2. Len(z) \in Nat /\ n \in Nat
  BY LenProperties DEF Bytes
<1> HIDE DEF a, y
<1>3. \A i \in 1 .. Len(y) : Begins(word, z, n + i) <=> Begins(word, y, i)
  <2> TAKE i \in 1 .. Len(y)
  <2>1. i \in Nat /\ i >= 1
    BY <1>1, <1>2
  <2>2. Begins(word, a \o y, Len(a) + i) <=> Begins(word, y, i)
    BY <1>1, <2>1, BeginsShifted
  <2> QED BY <1>1, <2>2
<1>4. /\ k \in 0 .. Len(z)
      /\ k = 0 => \A i \in 1 .. Len(z) : ~Begins(word, z, i)
      /\ k # 0 => Begins(word, z, k) /\ \A i \in 1 .. Len(z) : Begins(word, z, i) => k <= i
  BY FirstAtIs
<1> HIDE DEF k
<1>5. CASE k = 0
  <2>1. \A i \in 1 .. Len(y) : ~Begins(word, y, i)
    <3> TAKE i \in 1 .. Len(y)
    <3>1. n + i \in 1 .. Len(z)
      BY <1>1, <1>2
    <3> QED BY <1>3, <1>4, <1>5, <3>1
  <2>2. 0 \in 0 .. Len(y)
    BY <1>1, <1>2
  <2>3. FirstAt(word, y) = 0
    BY <1>1, <2>1, <2>2, FirstAtWhere
  <2> QED BY <1>5, <2>3 DEF y, k
<1>6. CASE k # 0
  <2>1. k > n
    <3>1. k \in 1 .. Len(z) /\ k \notin 1 .. n
      BY <1>2, <1>4, <1>6
    <3> QED BY <1>2, <3>1
  <2> DEFINE j == k - n
  <2>2. j \in 1 .. Len(y) /\ j \in 0 .. Len(y) /\ j # 0 /\ n + j = k
    BY <1>1, <1>2, <1>4, <2>1
  <2>3. k = n + j
    BY <2>2
  <2> HIDE DEF j
  <2>4. Begins(word, y, j)
    BY <1>3, <1>4, <1>6, <2>2
  <2>5. \A i \in 1 .. Len(y) : Begins(word, y, i) => j <= i
    <3> TAKE i \in 1 .. Len(y)
    <3> HAVE Begins(word, y, i)
    <3>1. n + i \in 1 .. Len(z)
      BY <1>1, <1>2
    <3>2. k <= n + i
      BY <1>3, <1>4, <1>6, <3>1
    <3> QED BY <1>1, <1>2, <2>2, <3>2
  <2>6. FirstAt(word, y) = j
    BY <1>1, <2>2, <2>4, <2>5, FirstAtWhere
  <2> QED BY <1>6, <2>1, <2>6 DEF y, k, j
<1> QED BY <1>5, <1>6

\* What the splitter lets go of an unfinished section is no tag, whatever follows.
LEMMA HoldIs ==
  ASSUME NEW word \in Bytes, word # << >>, NEW text \in Bytes, FirstAt(word, text) = 0
  PROVE  /\ SplitHold(word, text) \in 0 .. Len(text)
         /\ \A x \in Bytes : \A i \in 1 .. (Len(text) - SplitHold(word, text)) : ~Begins(word, text \o x, i)
<1>1. Len(word) \in Nat /\ Len(word) # 0 /\ Len(text) \in Nat
  BY CutEnds DEF Bytes
<1>2. SplitHold(word, text) = IF Len(word) - 1 <= Len(text) THEN Len(word) - 1 ELSE Len(text)
  BY <1>1, MinOfTwo DEF SplitHold
<1>3. SplitHold(word, text) \in 0 .. Len(text)
  BY <1>1, <1>2
<1>4. ASSUME NEW x \in Bytes, NEW i \in 1 .. (Len(text) - SplitHold(word, text))
      PROVE  ~Begins(word, text \o x, i)
  <2>1. i \in Nat /\ i >= 1 /\ i + Len(word) - 1 <= Len(text) /\ i \in 1 .. Len(text)
    BY <1>1, <1>2
  <2>2. Begins(word, text \o x, i) <=> Begins(word, text, i)
    BY <2>1, BeginsBefore
  <2>3. ~Begins(word, text, i)
    BY <2>1, FirstAtIs
  <2> QED BY <2>2, <2>3
<1> QED BY <1>3, <1>4

-----------------------------------------------------------------------------
(* Spaces at the beginning.                                                *)

LEMMA SpacesAre ==
  ASSUME NEW text \in Bytes, NEW n \in 0 .. Len(text), \A i \in 1 .. n : Space(text[i]),
         n < Len(text) => ~Space(text[n + 1])
  PROVE  Spaces(text) = n
<1> DEFINE S == {i \in 1 .. Len(text) : \A j \in 1 .. i : Space(text[j])}
<1>1. Len(text) \in Nat /\ n \in Nat
  BY LenProperties DEF Bytes
<1>2. S = 1 .. n
  <2>1. \A i \in 1 .. n : i \in S
    <3> TAKE i \in 1 .. n
    <3>1. i \in 1 .. Len(text) /\ \A j \in 1 .. i : j \in 1 .. n
      BY <1>1
    <3> QED BY <3>1
  <2>2. \A i \in S : i \in 1 .. n
    <3> TAKE i \in S
    <3> SUFFICES ASSUME i \notin 1 .. n PROVE FALSE
      OBVIOUS
    <3>1. n + 1 \in 1 .. i /\ n < Len(text)
      BY <1>1
    <3> QED BY <3>1
  <2> HIDE DEF S
  <2> QED BY <2>1, <2>2
<1>3. Cardinality(1 .. n) = n
  <2>1. Cardinality(1 .. n) = IF 1 > n THEN 0 ELSE n - 1 + 1
    BY <1>1, FS_Interval
  <2> QED BY <1>1, <2>1
<1> QED BY <1>2, <1>3 DEF Spaces

LEMMA SpacesEnd ==
  ASSUME NEW text \in Bytes
  PROVE  /\ Spaces(text) \in 0 .. Len(text)
         /\ \A i \in 1 .. Spaces(text) : Space(text[i])
         /\ Spaces(text) < Len(text) => ~Space(text[Spaces(text) + 1])
<1> DEFINE n == Len(text)
           T == {i \in 1 .. n : ~Space(text[i])}
<1>1. n \in Nat
  BY LenProperties DEF Bytes
<1>2. CASE T = {}
  <2>1. \A i \in 1 .. n : Space(text[i])
    BY <1>2
  <2>2. n \in 0 .. Len(text) /\ ~(n < Len(text))
    BY <1>1
  <2>3. n = Len(text)
    OBVIOUS
  <2> HIDE DEF n, T
  <2>4. Spaces(text) = n
    BY <2>1, <2>2, SpacesAre
  <2> QED BY <1>1, <2>1, <2>2, <2>3, <2>4
<1>3. CASE T # {}
  <2>1. PICK m \in T : \A i \in T : m <= i
    <3>1. T \in SUBSET Nat
      OBVIOUS
    <3> HIDE DEF T
    <3> QED BY <1>3, <3>1, SmallestNat
  <2> DEFINE k == m - 1
  <2>2. k \in 0 .. n /\ k + 1 = m /\ k < n /\ ~Space(text[m])
    BY <1>1
  <2>3. \A i \in 1 .. k : Space(text[i])
    <3> TAKE i \in 1 .. k
    <3>1. i \in 1 .. n /\ ~(m <= i)
      BY <1>1
    <3>2. i \notin T
      BY <2>1, <3>1
    <3> QED BY <3>1, <3>2
  <2> HIDE DEF k, T
  <2>4. Spaces(text) = k
    BY <2>2, <2>3, SpacesAre DEF n
  <2> QED BY <2>2, <2>3, <2>4 DEF n
<1> QED BY <1>2, <1>3

LEMMA TrimIs ==
  ASSUME NEW text \in Bytes
  PROVE  /\ Trim(text) \in Bytes /\ Len(Trim(text)) = Len(text) - Spaces(text)
         /\ Trim(text) # << >> => \A x \in Bytes : Trim(text \o x) = Trim(text) \o x
         /\ Trim(text) = << >> => \A x \in Bytes : Trim(text \o x) = Trim(x)
<1> DEFINE n == Spaces(text)
<1>1. /\ n \in 0 .. Len(text) /\ (\A i \in 1 .. n : Space(text[i]))
      /\ n < Len(text) => ~Space(text[n + 1])
  BY SpacesEnd
<1>2. Len(text) \in Nat
  BY LenProperties DEF Bytes
<1>3. Trim(text) = From(text, n + 1)
  BY DEF Trim
<1> HIDE DEF n
<1>4. Trim(text) \in Bytes /\ Len(Trim(text)) = Len(text) - n /\ UpTo(text, n) \in Bytes
      /\ Len(UpTo(text, n)) = n /\ UpTo(text, n) \o Trim(text) = text
  <2>1. text \in Bytes
    OBVIOUS
  <2> QED BY ONLY <1>1, <1>3, <2>1, Halves
<1>5. Trim(text) = << >> <=> n = Len(text)
  <2>1. Trim(text) = << >> <=> Len(Trim(text)) = 0
    BY <1>4, CutEnds DEF Bytes
  <2> QED BY <1>1, <1>2, <1>4, <2>1
<1>6. ASSUME Trim(text) # << >>, NEW x \in Bytes PROVE Trim(text \o x) = Trim(text) \o x
  <2> DEFINE z == text \o x
             a == UpTo(text, n)
             t == Trim(text)
  <2>1. z \in Bytes /\ Len(z) = Len(text) + Len(x) /\ Len(x) \in Nat
        /\ \A k \in 1 .. Len(text) : z[k] = text[k]
    BY Joined DEF Bytes
  <2>2. n < Len(text)
    BY <1>1, <1>2, <1>5, <1>6
  <2> HIDE DEF z
  <2>3. n \in 0 .. Len(z) /\ (\A i \in 1 .. n : Space(z[i])) /\ ~Space(z[n + 1])
    <3>1. n \in 0 .. Len(z) /\ n + 1 \in 1 .. Len(text) /\ \A i \in 1 .. n : i \in 1 .. Len(text)
      BY <1>1, <1>2, <2>1, <2>2
    <3> QED BY <1>1, <2>1, <2>2, <3>1
  <2>4. Spaces(z) = n
    BY <2>1, <2>3, SpacesAre
  <2>5. Trim(z) = From(z, n + 1)
    BY <2>4 DEF Trim
  <2>6. a \o (t \o x) = (a \o t) \o x
    <3> HIDE DEF a, t
    <3>1. a \in Bytes /\ t \in Bytes /\ x \in Bytes
      BY <1>4 DEF a, t
    <3> QED BY ONLY <3>1, Regroup
  <2>7. z = a \o (t \o x)
    BY <1>4, <2>6 DEF z
  <2> HIDE DEF a, t
  <2>8. t \o x \in Bytes /\ a \in Bytes /\ Len(a) = n /\ Len(t \o x) \in Nat
    <3>1. t \in Bytes /\ a \in Bytes /\ Len(a) = n
      BY <1>4 DEF a, t
    <3>2. t \o x \in Seq(Byte)
      BY <3>1, ConcatProperties DEF Bytes
    <3> HIDE DEF Bytes
    <3>3. Len(t \o x) \in Nat
      BY <3>2, LenProperties
    <3> QED BY <3>1, <3>2, <3>3 DEF Bytes
  <2>9. From(a \o (t \o x), n + 1) = t \o x
    <3> DEFINE b == t \o x
    <3>1. b \in Seq(Byte) /\ a \in Seq(Byte) /\ 0 \in 0 .. Len(b)
      BY <2>8 DEF Bytes
    <3> HIDE DEF b
    <3>2. From(a \o b, Len(a) + 0 + 1) = From(b, 0 + 1)
      BY <3>1, CutJoined
    <3>3. From(b, 1) = b
      BY <3>1, CutEnds
    <3>4. Len(a) + 0 + 1 = n + 1 /\ 0 + 1 = 1
      BY <2>8
    <3> QED BY <3>2, <3>3, <3>4 DEF b
  <2> QED BY <2>5, <2>7, <2>9 DEF z, t
<1>7. ASSUME Trim(text) = << >>, NEW x \in Bytes PROVE Trim(text \o x) = Trim(x)
  <2> DEFINE z == text \o x
             k == Spaces(x)
             m == Len(text) + k
  <2>1. z \in Bytes /\ Len(z) = Len(text) + Len(x) /\ Len(x) \in Nat
        /\ (\A i \in 1 .. Len(text) : z[i] = text[i])
        /\ \A i \in 1 .. Len(x) : z[Len(text) + i] = x[i]
    BY Joined DEF Bytes
  <2>2. /\ k \in 0 .. Len(x) /\ (\A i \in 1 .. k : Space(x[i])) /\ (k < Len(x) => ~Space(x[k + 1]))
    BY SpacesEnd
  <2>3. n = Len(text)
    BY <1>5, <1>7
  <2> HIDE DEF z, k
  <2>4. m \in 0 .. Len(z)
    BY <1>2, <2>1, <2>2
  <2>5. \A i \in 1 .. m : Space(z[i])
    <3> TAKE i \in 1 .. m
    <3>1. CASE i <= Len(text)
      <4>1. i \in 1 .. Len(text) /\ i \in 1 .. n
        BY <1>2, <2>3, <3>1
      <4> QED BY <1>1, <2>1, <4>1
    <3>2. CASE ~(i <= Len(text))
      <4> DEFINE j == i - Len(text)
      <4>1. j \in 1 .. k /\ j \in 1 .. Len(x) /\ Len(text) + j = i
        BY <1>2, <2>1, <2>2, <3>2
      <4> HIDE DEF j
      <4>2. z[Len(text) + j] = x[j] /\ Space(x[j])
        BY <2>1, <2>2, <4>1
      <4> QED BY <4>1, <4>2
    <3> QED BY <3>1, <3>2
  <2>6. m < Len(z) => ~Space(z[m + 1])
    <3> SUFFICES ASSUME m < Len(z) PROVE ~Space(z[m + 1])
      OBVIOUS
    <3>1. k < Len(x) /\ k + 1 \in 1 .. Len(x) /\ Len(text) + (k + 1) = m + 1
      BY <1>2, <2>1, <2>2
    <3>2. z[Len(text) + (k + 1)] = x[k + 1]
      BY <2>1, <3>1
    <3> QED BY <2>2, <3>1, <3>2
  <2>7. m = Len(text) + k
    OBVIOUS
  <2> HIDE DEF m
  <2>8. Spaces(z) = m
    BY <2>1, <2>4, <2>5, <2>6, SpacesAre
  <2>9. Trim(z) = From(text \o x, Len(text) + k + 1)
    BY <2>7, <2>8 DEF Trim, z
  <2>10. From(text \o x, Len(text) + k + 1) = From(x, k + 1)
    BY <2>2, CutJoined DEF Bytes
  <2> QED BY <2>9, <2>10 DEF z, k, Trim
<1> QED BY <1>4, <1>6, <1>7 DEF n

-----------------------------------------------------------------------------
(* Reading: that the function exists, and what it says of a section.       *)

Sections == {"content", "think", "ws"}

\* One value for each channel.
Voice(r) == DOMAIN r = Kinds /\ \A k \in Kinds : r[k] \in Bytes

SectionOf(f, tag, word, channel, next) ==
  IF FirstAt(tag, word) = 0 THEN Says(channel, word, Silence)
  ELSE Says(channel, UpTo(word, FirstAt(tag, word) - 1), f[From(word, FirstAt(tag, word) + Len(tag))][next])

\* What Reading makes of a text if f reads the shorter ones.
ReadingOf(f, text) ==
  [section \in {"content", "think", "ws"} |->
     CASE section = "content" -> SectionOf(f, conf.open, text, "content", "ws")
       [] section = "think"   -> SectionOf(f, conf.close, text, "reason", "content")
       [] section = "ws"      -> SectionOf(f, conf.close, Trim(text), "reason", "content")]

Shorter(n) == {t \in Bytes : Len(t) < n}

\* f reads the texts shorter than n.
Approx(n, f) ==
  /\ f = [t \in Shorter(n) |-> ReadingOf(f, t)]
  /\ \A t \in Shorter(n) : \A s \in Sections : Voice(f[t][s])

LEMMA SaysIs ==
  ASSUME NEW channel, channel \in Kinds, NEW word \in Bytes, NEW r, Voice(r)
  PROVE  LET v == Says(channel, word, r)
         IN  /\ Voice(v) /\ v[channel] = word \o r[channel]
             /\ \A k \in Kinds : k # channel => v[k] = r[k]
<1> DEFINE v == Says(channel, word, r)
           w == word \o r[channel]
<1>1. v = [r EXCEPT ![channel] = w]
  BY DEF Says
<1>2. w \in Bytes
  <2> DEFINE s == r[channel]
  <2>1. s \in Bytes
    BY DEF Voice
  <2> HIDE DEF s
  <2>2. word \o s \in Bytes
    BY <2>1, ConcatProperties DEF Bytes
  <2> QED BY <2>2 DEF s
<1> HIDE DEF v, w
<1>3. v[channel] = w /\ \A k \in Kinds : k # channel => v[k] = r[k]
  BY <1>1 DEF Voice
<1>4. Voice(v)
  BY <1>1, <1>2, <1>3 DEF Voice
<1> QED BY <1>3, <1>4 DEF v, w

LEMMA SilenceIs == Voice(Silence) /\ \A k \in Kinds : Silence[k] = << >>
<1>1. << >> \in Bytes
  BY EmptySeq DEF Bytes
<1> QED BY <1>1 DEF Voice, Silence, Kinds

\* The rest of a text behind a tag is shorter.
LEMMA RestIs ==
  ASSUME NEW tag \in Bytes, tag # << >>, NEW word \in Bytes, FirstAt(tag, word) # 0
  PROVE  LET at == FirstAt(tag, word)
             rest == From(word, at + Len(tag))
         IN  /\ at \in 1 .. Len(word) /\ UpTo(word, at - 1) \in Bytes
             /\ rest \in Bytes /\ Len(rest) < Len(word)
             /\ \A x \in Bytes : /\ From(word \o x, at + Len(tag)) = rest \o x
                                 /\ UpTo(word \o x, at - 1) = UpTo(word, at - 1)
<1> DEFINE at == FirstAt(tag, word)
           rest == From(word, at + Len(tag))
           n == at + Len(tag) - 1
           m == at - 1
<1>1. Len(tag) \in Nat /\ Len(tag) # 0 /\ Len(word) \in Nat
  BY CutEnds DEF Bytes
<1>2. at \in 0 .. Len(word) /\ at # 0 /\ Begins(tag, word, at)
  BY FirstAtIs
<1>3. at \in 1 .. Len(word) /\ n \in 0 .. Len(word) /\ n # 0 /\ n + 1 = at + Len(tag) /\ m \in 0 .. Len(word)
  BY <1>1, <1>2 DEF Begins
<1>4. at + Len(tag) = n + 1
  BY <1>3
<1> HIDE DEF at, n, m
<1>5. UpTo(word, m) \in Bytes /\ From(word, n + 1) \in Bytes /\ Len(From(word, n + 1)) = Len(word) - n
      /\ UpTo(word, n) \in Bytes /\ Len(UpTo(word, n)) = n /\ UpTo(word, n) \o From(word, n + 1) = word
      /\ Len(UpTo(word, m)) = m /\ From(word, m + 1) \in Bytes /\ UpTo(word, m) \o From(word, m + 1) = word
  <2>1. word \in Bytes
    OBVIOUS
  <2> QED BY ONLY <1>3, <2>1, Halves
<1>6. rest = From(word, n + 1)
  BY <1>4
<1>7. Len(rest) < Len(word)
  BY <1>1, <1>3, <1>5, <1>6
<1>8. ASSUME NEW x \in Bytes, NEW k \in 0 .. Len(word)
      PROVE  From(word \o x, k + 1) = From(word, k + 1) \o x /\ UpTo(word \o x, k) = UpTo(word, k)
  <2> DEFINE a == UpTo(word, k)
             b == From(word, k + 1)
             c == b \o x
  <2>1. a \in Bytes /\ b \in Bytes /\ Len(a) = k /\ a \o b = word
    BY <1>8, Cut DEF Bytes
  <2> HIDE DEF a, b
  <2>2. c \in Bytes
    BY <2>1, ConcatProperties DEF Bytes
  <2>3. (a \o b) \o x = a \o c
    <3>1. a \in Bytes /\ b \in Bytes /\ x \in Bytes
      BY <2>1
    <3> QED BY ONLY <3>1, Regroup
  <2> HIDE DEF c
  <2>4. Len(c) \in Nat /\ 0 \in 0 .. Len(c)
    <3>1. Len(c) \in Nat
      BY <2>2, LenProperties DEF Bytes
    <3> QED BY <3>1
  <2>5. UpTo(a \o c, Len(a) + 0) = a \o UpTo(c, 0) /\ From(a \o c, Len(a) + 0 + 1) = From(c, 0 + 1)
    BY <2>1, <2>2, <2>4, CutJoined DEF Bytes
  <2>6. UpTo(c, 0) = << >> /\ From(c, 1) = c
    BY <2>2, CutEnds DEF Bytes
  <2>7. a \o << >> = a
    BY <2>1, ConcatEmptySeq DEF Bytes
  <2>8. Len(a) + 0 = k /\ Len(a) + 0 + 1 = k + 1 /\ 0 + 1 = 1
    BY <1>1, <2>1
  <2>9. UpTo(a \o c, k) = a /\ From(a \o c, k + 1) = c
    BY <2>5, <2>6, <2>7, <2>8
  <2>10. a \o c = word \o x
    BY <2>1, <2>3
  <2> QED BY <2>9, <2>10 DEF a, b, c
<1>9. ASSUME NEW x \in Bytes
      PROVE  From(word \o x, at + Len(tag)) = rest \o x /\ UpTo(word \o x, m) = UpTo(word, m)
  BY <1>3, <1>4, <1>6, <1>8
<1> QED BY <1>3, <1>5, <1>6, <1>7, <1>9 DEF at, m

\* SectionOf depends on f at the shorter texts alone.
LEMMA SectionOfIs ==
  ASSUME NEW f, NEW g, NEW tag \in Bytes, tag # << >>, NEW word \in Bytes, NEW channel, channel \in Kinds,
         NEW next, next \in Sections,
         \A t \in Shorter(Len(word)) : g[t] = f[t] /\ \A s \in Sections : Voice(f[t][s])
  PROVE  /\ SectionOf(g, tag, word, channel, next) = SectionOf(f, tag, word, channel, next)
         /\ Voice(SectionOf(f, tag, word, channel, next))
<1> DEFINE at == FirstAt(tag, word)
           rest == From(word, at + Len(tag))
           cut == UpTo(word, at - 1)
<1>1. CASE at = 0
  <2>1. /\ SectionOf(g, tag, word, channel, next) = Says(channel, word, Silence)
        /\ SectionOf(f, tag, word, channel, next) = Says(channel, word, Silence)
    BY <1>1 DEF SectionOf
  <2>2. Voice(Says(channel, word, Silence))
    BY SilenceIs, SaysIs
  <2> QED BY <2>1, <2>2
<1>2. CASE at # 0
  <2>1. /\ SectionOf(g, tag, word, channel, next) = Says(channel, cut, g[rest][next])
        /\ SectionOf(f, tag, word, channel, next) = Says(channel, cut, f[rest][next])
    BY <1>2 DEF SectionOf
  <2>2. cut \in Bytes /\ rest \in Bytes /\ Len(rest) < Len(word)
    BY <1>2, RestIs
  <2> HIDE DEF cut, rest, at
  <2>3. rest \in Shorter(Len(word))
    BY <2>2 DEF Shorter
  <2>4. g[rest] = f[rest] /\ Voice(f[rest][next])
    BY <2>3
  <2> DEFINE r == f[rest][next]
  <2>5. Voice(r)
    BY <2>4
  <2> HIDE DEF r
  <2>6. Voice(Says(channel, cut, r))
    BY <2>2, <2>5, SaysIs
  <2> QED BY <2>1, <2>4, <2>6 DEF r
<1> QED BY <1>1, <1>2

LEMMA ReadingOfIs ==
  ASSUME conf \in Setups, Tagged, NEW f, NEW g, NEW text \in Bytes,
         \A t \in Shorter(Len(text)) : g[t] = f[t] /\ \A s \in Sections : Voice(f[t][s])
  PROVE  /\ ReadingOf(g, text) = ReadingOf(f, text)
         /\ \A s \in Sections : Voice(ReadingOf(f, text)[s])
<1> DEFINE trim == Trim(text)
           open == conf.open
           close == conf.close
<1>1. open \in Bytes /\ open # << >> /\ close \in Bytes /\ close # << >>
  BY SetupIs DEF Tagged
<1>2. trim \in Bytes /\ Len(trim) <= Len(text)
  <2>1. trim \in Bytes /\ Len(trim) = Len(text) - Spaces(text)
    BY TrimIs
  <2>2. Spaces(text) \in 0 .. Len(text) /\ Len(text) \in Nat
    BY SpacesIn, LenProperties DEF Bytes
  <2> QED BY <2>1, <2>2
<1>3. "content" \in Kinds /\ "reason" \in Kinds /\ "ws" \in Sections /\ "content" \in Sections
  BY DEF Kinds, Sections
<1> HIDE DEF trim, open, close
<1>4. \A t \in Shorter(Len(trim)) : t \in Shorter(Len(text))
  <2> TAKE t \in Shorter(Len(trim))
  <2>1. t \in Bytes /\ Len(t) < Len(trim)
    BY DEF Shorter
  <2>2. Len(t) \in Nat /\ Len(trim) \in Nat /\ Len(text) \in Nat
    BY <1>2, <2>1, LenProperties DEF Bytes
  <2>3. Len(t) < Len(text)
    BY <1>2, <2>1, <2>2
  <2> QED BY <2>1, <2>3 DEF Shorter
<1>12. \A t \in Shorter(Len(text)) : g[t] = f[t] /\ \A s \in Sections : Voice(f[t][s])
  OBVIOUS
<1>13. text \in Bytes
  OBVIOUS
<1>5. /\ SectionOf(g, open, text, "content", "ws") = SectionOf(f, open, text, "content", "ws")
      /\ Voice(SectionOf(f, open, text, "content", "ws"))
  BY ONLY <1>1, <1>3, <1>12, <1>13, SectionOfIs
<1>6. /\ SectionOf(g, close, text, "reason", "content") = SectionOf(f, close, text, "reason", "content")
      /\ Voice(SectionOf(f, close, text, "reason", "content"))
  BY ONLY <1>1, <1>3, <1>12, <1>13, SectionOfIs
<1>7. /\ SectionOf(g, close, trim, "reason", "content") = SectionOf(f, close, trim, "reason", "content")
      /\ Voice(SectionOf(f, close, trim, "reason", "content"))
  <2>1. \A t \in Shorter(Len(trim)) : g[t] = f[t] /\ \A s \in Sections : Voice(f[t][s])
    BY <1>4
  <2> QED BY ONLY <1>1, <1>2, <1>3, <2>1, SectionOfIs
<1>8. \A h : ReadingOf(h, text) =
        [section \in {"content", "think", "ws"} |->
           CASE section = "content" -> SectionOf(h, open, text, "content", "ws")
             [] section = "think"   -> SectionOf(h, close, text, "reason", "content")
             [] section = "ws"      -> SectionOf(h, close, trim, "reason", "content")]
  BY DEF ReadingOf, open, close, trim
<1>9. ReadingOf(g, text) = ReadingOf(f, text)
  BY <1>5, <1>6, <1>7, <1>8
<1>10. ASSUME NEW s \in Sections PROVE Voice(ReadingOf(f, text)[s])
  <2>1. CASE s = "content"
    <3>1. ReadingOf(f, text)[s] = SectionOf(f, open, text, "content", "ws")
      BY <1>8, <2>1
    <3> QED BY <1>5, <3>1
  <2>2. CASE s = "think"
    <3>1. ReadingOf(f, text)[s] = SectionOf(f, close, text, "reason", "content")
      BY <1>8, <2>2
    <3> QED BY <1>6, <3>1
  <2>3. CASE s = "ws"
    <3>1. ReadingOf(f, text)[s] = SectionOf(f, close, trim, "reason", "content")
      BY <1>8, <2>3
    <3> QED BY <1>7, <3>1
  <2> QED BY <2>1, <2>2, <2>3 DEF Sections
<1> QED BY <1>9, <1>10

LEMMA ApproxAt ==
  ASSUME NEW n, NEW f, Approx(n, f)
  PROVE  \A t \in Shorter(n) : f[t] = ReadingOf(f, t) /\ \A s \in Sections : Voice(f[t][s])
<1>1. f = [t \in Shorter(n) |-> ReadingOf(f, t)] /\ \A t \in Shorter(n) : \A s \in Sections : Voice(f[t][s])
  BY DEF Approx
<1>2. \A t \in Shorter(n) : f[t] = ReadingOf(f, t)
  BY <1>1
<1> QED BY <1>1, <1>2

LEMMA ApproxExists == ASSUME conf \in Setups, Tagged, NEW n \in Nat PROVE \E f : Approx(n, f)
<1> DEFINE T == {m \in Nat : ~\E f : Approx(m, f)}
<1> SUFFICES ASSUME T # {} PROVE FALSE
  OBVIOUS
<1>1. PICK m \in T : \A k \in T : m <= k
  <2> HIDE DEF T
  <2>1. T \in SUBSET Nat
    BY DEF T
  <2> QED BY <2>1, SmallestNat
<1>2. m # 0
  <2> SUFFICES ASSUME m = 0 PROVE FALSE
    OBVIOUS
  <2>1. \A t \in Bytes : ~(Len(t) < 0)
    <3> TAKE t \in Bytes
    <3>1. Len(t) \in Nat
      BY LenProperties DEF Bytes
    <3> QED BY <3>1
  <2>2. Shorter(0) = {}
    BY <2>1 DEF Shorter
  <2> DEFINE f == [t \in Shorter(0) |-> << >>]
  <2>3. f = [t \in Shorter(0) |-> ReadingOf(f, t)]
    BY <2>2
  <2> HIDE DEF f
  <2>4. Approx(0, f)
    BY <2>2, <2>3 DEF Approx
  <2> QED BY <2>4
<1>3. m - 1 \in Nat /\ m \in Nat
  BY <1>2
<1>4. m - 1 \notin T
  <2>1. ~(m <= m - 1)
    BY <1>3
  <2> QED BY <1>1, <2>1
<1>5. PICK h : Approx(m - 1, h)
  BY <1>3, <1>4
<1> DEFINE f == [t \in Shorter(m) |-> ReadingOf(h, t)]
           p == m - 1
<1>6. \A u \in Shorter(p) : u \in Shorter(m)
  <2> TAKE u \in Shorter(p)
  <2>1. u \in Bytes /\ Len(u) < p
    BY DEF Shorter
  <2>2. Len(u) \in Nat
    BY <2>1, LenProperties DEF Bytes
  <2> QED BY <1>3, <2>1, <2>2 DEF Shorter
<1>7. \A t \in Shorter(m) : t \in Bytes /\ \A u \in Shorter(Len(t)) : u \in Shorter(p)
  <2> TAKE t \in Shorter(m)
  <2>1. t \in Bytes /\ Len(t) < m
    BY DEF Shorter
  <2>2. Len(t) \in Nat
    BY <2>1, LenProperties DEF Bytes
  <2>3. ASSUME NEW u \in Shorter(Len(t)) PROVE u \in Shorter(p)
    <3>1. u \in Bytes /\ Len(u) < Len(t)
      BY DEF Shorter
    <3>2. Len(u) \in Nat
      BY <3>1, LenProperties DEF Bytes
    <3> QED BY <1>3, <2>1, <2>2, <3>1, <3>2 DEF Shorter
  <2> QED BY <2>1, <2>3
<1>8. \A u \in Shorter(p) : h[u] = ReadingOf(h, u) /\ \A s \in Sections : Voice(h[u][s])
  BY <1>5, ApproxAt
<1>9. \A u \in Shorter(p) : f[u] = h[u]
  BY <1>6, <1>8
<1>10. \A t \in Shorter(m) : f[t] = ReadingOf(h, t)
  OBVIOUS
<1>11. f = [t \in Shorter(m) |-> f[t]]
  OBVIOUS
<1> HIDE DEF f, p
<1>12. ASSUME NEW t \in Shorter(m)
       PROVE  f[t] = ReadingOf(f, t) /\ \A s \in Sections : Voice(f[t][s])
  <2>1. t \in Bytes /\ \A u \in Shorter(Len(t)) : f[u] = h[u] /\ \A s \in Sections : Voice(h[u][s])
    BY <1>7, <1>8, <1>9
  <2>2. ReadingOf(f, t) = ReadingOf(h, t) /\ \A s \in Sections : Voice(ReadingOf(h, t)[s])
    BY <2>1, ReadingOfIs
  <2> QED BY <1>10, <2>2
<1>13. f = [t \in Shorter(m) |-> ReadingOf(f, t)]
  <2>1. [t \in Shorter(m) |-> f[t]] = [t \in Shorter(m) |-> ReadingOf(f, t)]
    BY <1>12
  <2> QED BY <1>11, <2>1
<1>14. Approx(m, f)
  BY <1>12, <1>13 DEF Approx
<1> QED BY <1>1, <1>14

LEMMA ApproxAgree ==
  ASSUME conf \in Setups, Tagged, NEW m, NEW n, NEW f, NEW g, Approx(m, f), Approx(n, g), m \in Nat, n \in Nat,
         m <= n
  PROVE  \A t \in Shorter(m) : f[t] = g[t]
<1> DEFINE T == {k \in Nat : \E t \in Shorter(m) : Len(t) = k /\ f[t] # g[t]}
<1>1. \A t \in Shorter(m) : t \in Bytes /\ Len(t) \in Nat /\ Len(t) < m /\ t \in Shorter(n)
  <2> TAKE t \in Shorter(m)
  <2>1. t \in Bytes /\ Len(t) < m
    BY DEF Shorter
  <2>2. Len(t) \in Nat
    BY <2>1, LenProperties DEF Bytes
  <2> QED BY <2>1, <2>2 DEF Shorter
<1> SUFFICES ASSUME T # {} PROVE FALSE
  <2>1. ASSUME NEW t \in Shorter(m), f[t] # g[t] PROVE FALSE
    <3>1. Len(t) \in T
      BY <1>1, <2>1
    <3> QED BY <3>1
  <2> QED BY <2>1
<1>2. PICK k \in T : \A j \in T : k <= j
  <2> HIDE DEF T
  <2>1. T \in SUBSET Nat
    BY DEF T
  <2> QED BY <2>1, SmallestNat
<1>3. PICK t \in Shorter(m) : Len(t) = k /\ f[t] # g[t]
  BY <1>2
<1>4. /\ \A u \in Shorter(m) : f[u] = ReadingOf(f, u) /\ \A s \in Sections : Voice(f[u][s])
      /\ \A u \in Shorter(n) : g[u] = ReadingOf(g, u)
  BY ApproxAt
<1>5. ASSUME NEW u \in Shorter(Len(t)) PROVE g[u] = f[u] /\ \A s \in Sections : Voice(f[u][s])
  <2>1. u \in Bytes /\ Len(u) < Len(t)
    BY DEF Shorter
  <2>2. Len(u) \in Nat
    BY <2>1, LenProperties DEF Bytes
  <2>3. u \in Shorter(m)
    <3>1. Len(t) \in Nat /\ Len(t) < m
      BY <1>1
    <3>2. Len(u) < m
      BY <2>1, <2>2, <3>1
    <3> QED BY <2>1, <3>2 DEF Shorter
  <2>4. f[u] = g[u]
    <3> SUFFICES ASSUME f[u] # g[u] PROVE FALSE
      OBVIOUS
    <3>1. Len(u) \in T
      BY <2>2, <2>3
    <3>2. k <= Len(u) /\ k \in Nat
      BY <1>2, <3>1
    <3> QED BY <1>3, <2>1, <2>2, <3>2
  <2> QED BY <1>4, <2>3, <2>4
<1>6. ReadingOf(g, t) = ReadingOf(f, t)
  BY <1>1, <1>5, ReadingOfIs
<1> QED BY <1>1, <1>3, <1>4, <1>6

LEMMA ReadingIs ==
  ASSUME conf \in Setups, Tagged
  PROVE  \A t \in Bytes : Reading[t] = ReadingOf(Reading, t) /\ \A s \in Sections : Voice(Reading[t][s])
<1>0. ASSUME NEW m, NEW n, NEW f, NEW g, Approx(m, f), Approx(n, g), m \in Nat, n \in Nat, m <= n
      PROVE  \A t \in Shorter(m) : f[t] = g[t]
  BY <1>0, ApproxAgree
<1> DEFINE R(r) == r = [text \in Bytes |-> ReadingOf(r, text)]
           G(n) == CHOOSE f : Approx(n, f)
           F == [t \in Bytes |-> G(Len(t) + 1)[t]]
<1>1. \A n \in Nat : Approx(n, G(n))
  BY ApproxExists
<1> HIDE DEF G
<1>11. \A m, n \in Nat : m <= n => \A t \in Shorter(m) : G(m)[t] = G(n)[t]
  <2> SUFFICES ASSUME NEW m, NEW n, m \in Nat, n \in Nat, m <= n
               PROVE  \A t \in Shorter(m) : G(m)[t] = G(n)[t]
    OBVIOUS
  <2> DEFINE f == G(m)
             g == G(n)
  <2>1. Approx(m, f) /\ Approx(n, g)
    BY <1>1
  <2> HIDE DEF f, g
  <2>2. \A t \in Shorter(m) : f[t] = g[t]
    BY <1>0, <2>1
  <2> QED BY <2>2 DEF f, g
<1>2. \A t \in Bytes : Len(t) \in Nat /\ Len(t) + 1 \in Nat /\ t \in Shorter(Len(t) + 1)
  <2> TAKE t \in Bytes
  <2>1. Len(t) \in Nat
    BY LenProperties DEF Bytes
  <2> QED BY <2>1 DEF Shorter
<1>3. ASSUME NEW t \in Bytes
      PROVE  F[t] = ReadingOf(F, t)
  <2> DEFINE n == Len(t) + 1
             g == G(n)
  <2>1. n \in Nat /\ Approx(n, g) /\ F[t] = g[t] /\ t \in Shorter(n)
    BY <1>1, <1>2
  <2>2. \A u \in Shorter(n) : g[u] = ReadingOf(g, u) /\ \A s \in Sections : Voice(g[u][s])
    BY <2>1, ApproxAt
  <2>3. ASSUME NEW u \in Shorter(Len(t)) PROVE F[u] = g[u] /\ u \in Shorter(n)
    <3> DEFINE m == Len(u) + 1
               f == G(m)
    <3>1. u \in Bytes /\ Len(u) < Len(t) /\ Len(t) \in Nat
      BY <1>2 DEF Shorter
    <3>2. m \in Nat /\ Approx(m, f) /\ F[u] = f[u] /\ u \in Shorter(m) /\ Len(u) \in Nat
      BY <1>1, <1>2, <3>1
    <3>3. m <= n /\ Len(u) < n
      BY <3>1, <3>2
    <3> HIDE DEF m, f, n, g, F
    <3>4. f[u] = g[u]
      <4>1. m \in Nat /\ n \in Nat /\ m <= n
        BY <2>1, <3>2, <3>3
      <4>2. \A v \in Shorter(m) : G(m)[v] = G(n)[v]
        BY <1>11, <4>1
      <4> QED BY <3>2, <4>2 DEF f, g
    <3> QED BY <3>1, <3>2, <3>3, <3>4 DEF Shorter
  <2> HIDE DEF F, g, n
  <2>4. ReadingOf(F, t) = ReadingOf(g, t)
    <3>1. \A u \in Shorter(Len(t)) : F[u] = g[u] /\ \A s \in Sections : Voice(g[u][s])
      BY <2>2, <2>3
    <3> QED BY <3>1, ReadingOfIs
  <2> QED BY <2>1, <2>2, <2>4
<1>4. F = [t \in Bytes |-> F[t]]
  OBVIOUS
<1> HIDE DEF F
<1>5. R(F)
  <2>1. [t \in Bytes |-> F[t]] = [t \in Bytes |-> ReadingOf(F, t)]
    BY <1>3
  <2> QED BY <1>4, <2>1
<1>6. Reading = CHOOSE r : R(r)
  BY DEF Reading, ReadingOf, SectionOf, Bytes
<1>7. R(Reading)
  <2> HIDE DEF R
  <2> QED BY <1>5, <1>6
<1> DEFINE r == Reading
<1>8. r = [text \in Bytes |-> ReadingOf(r, text)]
  BY <1>7
<1> HIDE DEF r
<1>9. \A t \in Bytes : r[t] = ReadingOf(r, t)
  BY <1>8
<1>10. \A t \in Bytes : \A s \in Sections : Voice(r[t][s])
  <2> DEFINE T == {k \in Nat : \E t \in Bytes : Len(t) = k /\ ~(\A s \in Sections : Voice(r[t][s]))}
  <2> SUFFICES ASSUME T # {} PROVE FALSE
    <3>1. ASSUME NEW t \in Bytes, ~(\A s \in Sections : Voice(r[t][s])) PROVE FALSE
      <4>1. Len(t) \in T
        BY <1>2, <3>1
      <4> QED BY <4>1
    <3> QED BY <3>1
  <2>1. PICK k \in T : \A j \in T : k <= j
    <3> HIDE DEF T
    <3>1. T \in SUBSET Nat
      BY DEF T
    <3> QED BY <3>1, SmallestNat
  <2>2. PICK t \in Bytes : Len(t) = k /\ ~(\A s \in Sections : Voice(r[t][s]))
    BY <2>1
  <2>3. \A u \in Shorter(Len(t)) : r[u] = r[u] /\ \A s \in Sections : Voice(r[u][s])
    <3> SUFFICES ASSUME NEW u \in Shorter(Len(t)), ~(\A s \in Sections : Voice(r[u][s])) PROVE FALSE
      OBVIOUS
    <3>1. u \in Bytes /\ Len(u) < Len(t) /\ Len(u) \in Nat
      BY <1>2 DEF Shorter
    <3>2. Len(u) \in T
      BY <3>1
    <3>3. k <= Len(u) /\ k \in Nat
      BY <2>1, <3>2
    <3> QED BY <2>2, <3>1, <3>3
  <2>4. \A s \in Sections : Voice(ReadingOf(r, t)[s])
    BY <2>3, ReadingOfIs
  <2>5. r[t] = ReadingOf(r, t)
    BY <1>9
  <2> QED BY <2>2, <2>4, <2>5
<1> QED BY <1>9, <1>10 DEF r

-----------------------------------------------------------------------------
(* A section, up to its tag and beyond.                                    *)

TagOf(s)  == IF s = "content" THEN conf.open ELSE conf.close
ChanOf(s) == IF s = "content" THEN "content" ELSE "reason"
NextOf(s) == IF s = "content" THEN "ws" ELSE "content"

\* A word of section s, by channel.
Lead(s, word, k) == IF k = ChanOf(s) THEN word ELSE << >>

LEMMA TagIs ==
  ASSUME conf \in Setups, Tagged, NEW s
  PROVE  TagOf(s) \in Bytes /\ TagOf(s) # << >> /\ ChanOf(s) \in Kinds /\ NextOf(s) \in Sections
  BY SetupIs DEF Tagged, TagOf, ChanOf, NextOf, Kinds, Sections

LEMMA LeadIs ==
  ASSUME NEW s, NEW u, NEW v, NEW k, u \in Bytes, v \in Bytes
  PROVE  /\ Lead(s, u, k) \in Bytes /\ Lead(s, u, k) \o Lead(s, v, k) = Lead(s, u \o v, k)
         /\ Lead(s, u, k) \o << >> = Lead(s, u, k)
<1>1. << >> \in Bytes
  BY EmptySeq DEF Bytes
<1>2. << >> \o << >> = << >> /\ u \o << >> = u
  BY <1>1, ConcatEmptySeq DEF Bytes
<1> QED BY <1>1, <1>2 DEF Lead

LEMMA ReadsHeard ==
  ASSUME conf \in Setups, Tagged, NEW t \in Bytes, NEW s, s \in Sections, NEW k, k \in Kinds
  PROVE  Reading[t][s][k] \in Bytes
<1>1. Voice(Reading[t][s])
  BY ReadingIs
<1> QED BY <1>1 DEF Voice

LEMMA SectionIs ==
  ASSUME conf \in Setups, Tagged, NEW z \in Bytes, NEW s, s \in {"content", "think"}
  PROVE  Reading[z][s] = SectionOf(Reading, TagOf(s), z, ChanOf(s), NextOf(s))
<1> DEFINE r == Reading
<1>1. r[z] = ReadingOf(r, z)
  BY ReadingIs
<1>2. s \in {"content", "think", "ws"}
  OBVIOUS
<1> HIDE DEF r
<1>3. r[z][s] = CASE s = "content" -> SectionOf(r, conf.open, z, "content", "ws")
                  [] s = "think"   -> SectionOf(r, conf.close, z, "reason", "content")
                  [] s = "ws"      -> SectionOf(r, conf.close, Trim(z), "reason", "content")
  BY <1>1, <1>2 DEF ReadingOf
<1>4. CASE s = "content"
  <2>1. r[z][s] = SectionOf(r, conf.open, z, "content", "ws")
    BY <1>3, <1>4
  <2> QED BY <1>4, <2>1 DEF TagOf, ChanOf, NextOf, r
<1>5. CASE s = "think"
  <2>1. r[z][s] = SectionOf(r, conf.close, z, "reason", "content")
    BY <1>3, <1>5
  <2> QED BY <1>5, <2>1 DEF TagOf, ChanOf, NextOf, r
<1> QED BY <1>4, <1>5

LEMMA WsIs ==
  ASSUME conf \in Setups, Tagged, NEW z \in Bytes
  PROVE  Reading[z]["ws"] = Reading[Trim(z)]["think"]
<1> DEFINE r == Reading
           t == Trim(z)
<1>1. r[z] = ReadingOf(r, z)
  BY ReadingIs
<1>2. t \in Bytes
  BY TrimIs
<1> HIDE DEF r
<1>3. r[z]["ws"] = SectionOf(r, conf.close, t, "reason", "content")
  <2> HIDE DEF t
  <2>1. ReadingOf(r, z) = [section \in {"content", "think", "ws"} |->
          CASE section = "content" -> SectionOf(r, conf.open, z, "content", "ws")
            [] section = "think"   -> SectionOf(r, conf.close, z, "reason", "content")
            [] section = "ws"      -> SectionOf(r, conf.close, t, "reason", "content")]
    BY DEF ReadingOf, t
  <2> QED BY <1>1, <2>1
<1> HIDE DEF t
<1>4. Reading[t]["think"] = SectionOf(Reading, TagOf("think"), t, ChanOf("think"), NextOf("think"))
  BY <1>2, SectionIs
<1> QED BY <1>3, <1>4 DEF TagOf, ChanOf, NextOf, r, t

LEMMA NoTag ==
  ASSUME conf \in Setups, Tagged, NEW z \in Bytes, NEW s, s \in {"content", "think"},
         FirstAt(TagOf(s), z) = 0, NEW k, k \in Kinds
  PROVE  Reading[z][s][k] = Lead(s, z, k)
<1> DEFINE c == ChanOf(s)
           v == Says(c, z, Silence)
<1>1. Reading[z][s] = v
  BY SectionIs DEF SectionOf
<1>2. c \in Kinds
  BY TagIs
<1> HIDE DEF c
<1>3. v[c] = z \o Silence[c] /\ \A j \in Kinds : j # c => v[j] = Silence[j]
  BY <1>2, SilenceIs, SaysIs
<1>4. z \o << >> = z
  BY ConcatEmptySeq DEF Bytes
<1> HIDE DEF v
<1>5. v[k] = IF k = c THEN z ELSE << >>
  BY <1>2, <1>3, <1>4, SilenceIs
<1> QED BY <1>1, <1>5 DEF Lead, c

LEMMA TagFound ==
  ASSUME conf \in Setups, Tagged, NEW z \in Bytes, NEW s, s \in {"content", "think"},
         FirstAt(TagOf(s), z) # 0, NEW k, k \in Kinds
  PROVE  Reading[z][s][k] = Lead(s, UpTo(z, FirstAt(TagOf(s), z) - 1), k)
                              \o Reading[From(z, FirstAt(TagOf(s), z) + Len(TagOf(s)))][NextOf(s)][k]
<1> DEFINE tag == TagOf(s)
           c == ChanOf(s)
           n == NextOf(s)
           at == FirstAt(tag, z)
           cut == UpTo(z, at - 1)
           rest == From(z, at + Len(tag))
           r == Reading[rest][n]
           v == Says(c, cut, r)
<1>1. Reading[z][s] = v
  <2>1. Reading[z][s] = SectionOf(Reading, tag, z, c, n)
    BY SectionIs
  <2> QED BY <2>1 DEF SectionOf
<1>2. tag \in Bytes /\ tag # << >> /\ c \in Kinds /\ n \in Sections
  BY TagIs
<1>3. cut \in Bytes /\ rest \in Bytes
  <2>1. at # 0
    OBVIOUS
  <2> HIDE DEF tag
  <2> QED BY <1>2, <2>1, RestIs
<1> HIDE DEF c, n, tag, cut, rest
<1>4. Voice(r)
  BY <1>2, <1>3, ReadingIs
<1> HIDE DEF r
<1>5. v[c] = cut \o r[c] /\ \A j \in Kinds : j # c => v[j] = r[j]
  BY <1>2, <1>3, <1>4, SaysIs
<1>6. r[k] \in Bytes
  BY <1>4 DEF Voice
<1>7. << >> \o r[k] = r[k]
  <2> DEFINE w == r[k]
  <2>1. w \in Bytes
    BY <1>6
  <2> HIDE DEF w
  <2>2. << >> \o w = w
    BY <2>1, ConcatEmptySeq DEF Bytes
  <2> QED BY <2>2 DEF w
<1> HIDE DEF v
<1>8. v[k] = (IF k = c THEN cut ELSE << >>) \o r[k]
  BY <1>5, <1>7
<1> QED BY <1>1, <1>8 DEF Lead, c, n, cut, rest, r, tag

\* A text with a tag reads as what leads up to the tag and what follows it.
Parts(z, s, k) ==
  Reading[z][s][k] = Lead(s, UpTo(z, FirstAt(TagOf(s), z) - 1), k)
                       \o Reading[From(z, FirstAt(TagOf(s), z) + Len(TagOf(s)))][NextOf(s)][k]

LEMMA TagParts ==
  ASSUME conf \in Setups, Tagged, NEW z, z \in Bytes, NEW s, s \in {"content", "think"},
         FirstAt(TagOf(s), z) # 0, NEW k, k \in Kinds
  PROVE  Parts(z, s, k)
  BY TagFound DEF Parts

\* Where a section may be cut without losing its tag.
LEMMA SectionCut ==
  ASSUME conf \in Setups, Tagged, NEW z \in Bytes, NEW s, s \in {"content", "think"}, NEW n \in 0 .. Len(z),
         \A i \in 1 .. n : ~Begins(TagOf(s), z, i), NEW k, k \in Kinds
  PROVE  Reading[z][s][k] = Lead(s, UpTo(z, n), k) \o Reading[From(z, n + 1)][s][k]
<1>0. \A u \in Bytes : \A v \in Bytes : Lead(s, u, k) \in Bytes /\ Lead(s, u, k) \o Lead(s, v, k) = Lead(s, u \o v, k)
  BY ONLY LeadIs
<1> DEFINE tag == TagOf(s)
           a == UpTo(z, n)
           y == From(z, n + 1)
           at == FirstAt(tag, z)
<1>1. tag \in Bytes /\ tag # << >> /\ NextOf(s) \in Sections
  BY TagIs
<1>2. \A i \in 1 .. n : ~Begins(tag, z, i)
  OBVIOUS
<1>3. a \in Bytes /\ y \in Bytes /\ Len(a) = n /\ Len(y) = Len(z) - n /\ a \o y = z
  BY Cut DEF Bytes
<1>4. Len(z) \in Nat /\ n \in Nat /\ Len(tag) \in Nat /\ Len(tag) # 0
  <2> HIDE DEF tag
  <2> QED BY <1>1, CutEnds DEF Bytes
<1> HIDE DEF tag
<1>5. FirstAt(tag, y) = (IF at = 0 THEN 0 ELSE at - n) /\ (at # 0 => at > n)
  BY <1>1, <1>2, FirstAtCut
<1> HIDE DEF a, y, at
<1>6. CASE at = 0
  <2>1. Reading[z][s][k] = Lead(s, z, k)
    BY <1>6, NoTag DEF at, tag
  <2>2. FirstAt(TagOf(s), y) = 0
    BY <1>5, <1>6 DEF tag
  <2>3. Reading[y][s][k] = Lead(s, y, k)
    BY <1>3, <2>2, NoTag
  <2>4. Lead(s, a, k) \o Lead(s, y, k) = Lead(s, a \o y, k)
    BY <1>0, <1>3
  <2> QED BY <1>3, <2>1, <2>3, <2>4 DEF a, y
<1>7. CASE at # 0
  <2> DEFINE b == at - n
             m == b - 1
             e == b + Len(tag) - 1
             cut == UpTo(y, m)
             rest == From(y, e + 1)
             r == Reading[rest][NextOf(s)][k]
  <2>1. at \in 0 .. Len(z) /\ Begins(tag, z, at)
    BY <1>1, <1>7, FirstAtIs DEF at
  <2>2. at + Len(tag) - 1 <= Len(z)
    BY <2>1 DEF Begins
  <2>3. at > n
    BY <1>5, <1>7
  <2>4. m \in 0 .. Len(y) /\ e \in 0 .. Len(y) /\ b # 0
    BY <1>3, <1>4, <2>1, <2>2, <2>3
  <2>5. Len(a) + m = at - 1 /\ Len(a) + e + 1 = at + Len(tag) /\ e + 1 = b + Len(tag) /\ m = b - 1
    BY <1>3, <1>4, <2>1
  <2>6. FirstAt(TagOf(s), y) = b
    BY <1>5, <1>7 DEF tag
  <2> HIDE DEF b, m, e
  <2>7. UpTo(a \o y, Len(a) + m) = a \o cut
    BY <1>3, <2>4, CutJoined DEF Bytes
  <2>8. From(a \o y, Len(a) + e + 1) = rest
    BY <1>3, <2>4, CutJoined DEF Bytes
  <2>9. cut \in Bytes /\ rest \in Bytes
    BY <1>3, <2>4, Cut DEF Bytes
  <2>10. UpTo(z, at - 1) = a \o cut /\ From(z, at + Len(tag)) = rest
    BY <1>3, <2>5, <2>7, <2>8
  <2>11. UpTo(y, b - 1) = cut /\ From(y, b + Len(tag)) = rest
    BY <2>5
  <2> HIDE DEF cut, rest
  <2>12. Reading[z][s][k] = Lead(s, a \o cut, k) \o r
    <3>1. FirstAt(TagOf(s), z) # 0
      BY <1>7 DEF at, tag
    <3>2. Reading[z][s][k] = Lead(s, UpTo(z, FirstAt(TagOf(s), z) - 1), k)
                              \o Reading[From(z, FirstAt(TagOf(s), z) + Len(TagOf(s)))][NextOf(s)][k]
      BY <3>1, TagFound
    <3> QED BY <2>10, <3>2 DEF at, tag
  <2>13. Reading[y][s][k] = Lead(s, cut, k) \o r
    <3>1. FirstAt(TagOf(s), y) # 0
      BY <2>4, <2>6
    <3>2. Reading[y][s][k] = Lead(s, UpTo(y, FirstAt(TagOf(s), y) - 1), k)
                              \o Reading[From(y, FirstAt(TagOf(s), y) + Len(TagOf(s)))][NextOf(s)][k]
      <4>1. conf \in Setups /\ Tagged /\ s \in {"content", "think"} /\ k \in Kinds
        OBVIOUS
      <4>2. y \in Bytes
        BY <1>3
      <4>3. Parts(y, s, k)
        BY ONLY <3>1, <4>1, <4>2, TagParts
      <4> QED BY ONLY <4>3 DEF Parts
    <3> QED BY <2>6, <2>11, <3>2 DEF tag
  <2>14. r \in Bytes
    BY <1>1, <2>9, ReadsHeard
  <2> HIDE DEF r
  <2> DEFINE p == Lead(s, a, k)
             q == Lead(s, cut, k)
  <2>15. p \in Bytes /\ q \in Bytes /\ p \o q = Lead(s, a \o cut, k)
    BY <1>0, <1>3, <2>9
  <2> HIDE DEF p, q
  <2>16. (p \o q) \o r = p \o (q \o r)
    <3>1. p \in Seq(Byte) /\ q \in Seq(Byte) /\ r \in Seq(Byte)
      BY <2>14, <2>15 DEF Bytes
    <3> QED BY <3>1, ConcatAssociative
  <2>17. Reading[z][s][k] = p \o Reading[y][s][k]
    BY <2>12, <2>13, <2>15, <2>16 DEF q
  <2> QED BY <2>17 DEF p, a, y
<1> QED BY <1>6, <1>7

-----------------------------------------------------------------------------
(* The splitter pays what Reading owes.                                    *)

\* More text behind a cut.
LEMMA CutLonger ==
  ASSUME NEW text, NEW x, NEW n, text \in Bytes, x \in Bytes, n \in 0 .. Len(text)
  PROVE  /\ UpTo(text \o x, n) = UpTo(text, n)
         /\ From(text \o x, n + 1) = From(text, n + 1) \o x
<1> DEFINE a == UpTo(text, n)
           y == From(text, n + 1)
           z == y \o x
<1>1. a \in Seq(Byte) /\ y \in Seq(Byte) /\ Len(a) = n /\ a \o y = text
  BY Cut DEF Bytes
<1>2. x \in Seq(Byte) /\ n \in Nat
  BY DEF Bytes
<1> HIDE DEF a, y
<1>3. z \in Seq(Byte) /\ Len(z) \in Nat
  BY <1>1, <1>2, Joined
<1>4. (a \o y) \o x = a \o z
  <2>1. a \in Bytes /\ y \in Bytes /\ x \in Bytes
    BY <1>1 DEF Bytes
  <2> QED BY ONLY <2>1, Regroup
<1> HIDE DEF z
<1>5. 0 \in 0 .. Len(z)
  BY <1>3
<1>6. UpTo(a \o z, Len(a) + 0) = a \o UpTo(z, 0) /\ From(a \o z, Len(a) + 0 + 1) = From(z, 0 + 1)
  BY <1>1, <1>3, <1>5, CutJoined
<1>7. UpTo(z, 0) = << >> /\ From(z, 1) = z
  BY <1>3, CutEnds
<1>8. a \o << >> = a
  BY <1>1, ConcatEmptySeq
<1>9. Len(a) + 0 = n /\ Len(a) + 0 + 1 = n + 1 /\ 0 + 1 = 1
  BY <1>1, <1>2
<1>10. UpTo(a \o z, n) = a /\ From(a \o z, n + 1) = z
  BY <1>6, <1>7, <1>8, <1>9
<1> QED BY <1>1, <1>4, <1>10 DEF a, y, z

\* The section a round works in, and its text.
Working(s) == IF s = "ws" THEN "think" ELSE s
TextOf(s, text) == IF s = "ws" THEN Trim(text) ELSE text

\* The text is in section s, what it says comes behind what the channels have.
Owes(g, s, text, said) ==
  /\ text \in Bytes /\ said \in Bytes
  /\ \A x \in Bytes : \A k \in Kinds :
       Reading[said \o x][Context.split][k] = Channel(g, k) \o Reading[text \o x][s][k]

LEMMA OwesTrimmed ==
  ASSUME conf \in Setups, Tagged, NEW g, NEW s, NEW text, NEW said, s \in Sections, Owes(g, s, text, said)
  PROVE  /\ TextOf(s, text) \in Bytes /\ Len(TextOf(s, text)) <= Len(text)
         /\ s = "ws" /\ TextOf(s, text) = << >> => Owes(g, s, << >>, said)
         /\ ~(s = "ws" /\ TextOf(s, text) = << >>) => Owes(g, Working(s), TextOf(s, text), said)
<1> DEFINE t == Trim(text)
<1>1. text \in Bytes /\ said \in Bytes
  BY DEF Owes
<1>2. \A x \in Bytes : \A k \in Kinds :
       Reading[said \o x][Context.split][k] = Channel(g, k) \o Reading[text \o x][s][k]
  BY DEF Owes
<1>3. t \in Bytes /\ Len(t) = Len(text) - Spaces(text)
  BY <1>1, TrimIs
<1>4. t # << >> => \A x \in Bytes : Trim(text \o x) = t \o x
  BY <1>1, TrimIs
<1>5. t = << >> => \A x \in Bytes : Trim(text \o x) = Trim(x)
  BY <1>1, TrimIs
<1>6. Len(text) \in Nat /\ Spaces(text) \in Nat
  <2>1. Len(text) \in Nat
    BY <1>1, CutEnds DEF Bytes
  <2>2. Spaces(text) \in 0 .. Len(text)
    BY <1>1, SpacesEnd
  <2> QED BY <2>1, <2>2
<1>7. \A z \in Bytes : Reading[z]["ws"] = Reading[Trim(z)]["think"]
  BY WsIs
<1>8. \A x \in Bytes : text \o x \in Bytes /\ << >> \o x = x
  BY <1>1, Joined, ConcatEmptySeq DEF Bytes
<1>9. << >> \in Bytes
  BY EmptySeq DEF Bytes
<1> HIDE DEF t
<1>10. CASE s # "ws"
  BY <1>1, <1>2, <1>6, <1>10 DEF Owes, Working, TextOf
<1>11. CASE s = "ws" /\ t # << >>
  <2>1. \A x \in Bytes : Reading[text \o x][s] = Reading[t \o x]["think"]
    BY <1>4, <1>7, <1>8, <1>11
  <2>2. Owes(g, "think", t, said)
    BY <1>1, <1>2, <1>3, <2>1 DEF Owes
  <2>3. Len(t) <= Len(text)
    BY <1>3, <1>6
  <2> QED BY <1>3, <1>11, <2>2, <2>3 DEF Working, TextOf, t
<1>12. CASE s = "ws" /\ t = << >>
  <2>1. \A x \in Bytes : Reading[text \o x][s] = Reading[x][s]
    BY <1>5, <1>7, <1>8, <1>12
  <2>2. \A x \in Bytes : Reading[text \o x][s] = Reading[<< >> \o x][s]
    BY <1>8, <2>1
  <2>3. Owes(g, s, << >>, said)
    BY <1>1, <1>2, <1>9, <2>2 DEF Owes
  <2>4. Len(t) <= Len(text)
    BY <1>3, <1>6
  <2> QED BY <1>3, <1>12, <2>3, <2>4 DEF Working, TextOf, t
<1> QED BY <1>10, <1>11, <1>12

\* What a round says, and what is left to say.
Pays(s, text, lead, t, rest) ==
  \A x \in Bytes : \A k \in Kinds :
    Reading[text \o x][s][k] = Lead(s, lead, k) \o Reading[rest \o x][t][k]

LEMMA OwesLess ==
  ASSUME conf \in Setups, Tagged, NEW g, NEW h, NEW s, NEW text, NEW said, NEW lead, NEW t, NEW rest,
         Owes(g, s, text, said), Pays(s, text, lead, t, rest), lead \in Bytes, rest \in Bytes, t \in Sections,
         \A k \in Kinds : Channel(g, k) \in Bytes /\ Channel(h, k) = Channel(g, k) \o Lead(s, lead, k)
  PROVE  Owes(h, t, rest, said)
<1>1. said \in Bytes
  BY DEF Owes
<1> SUFFICES ASSUME NEW x, x \in Bytes, NEW k, k \in Kinds
             PROVE  Reading[said \o x][Context.split][k] = Channel(h, k) \o Reading[rest \o x][t][k]
  BY <1>1 DEF Owes
<1> DEFINE c == Channel(g, k)
           l == Lead(s, lead, k)
           z == rest \o x
           r == Reading[z][t][k]
<1>2. Reading[said \o x][Context.split][k] = c \o Reading[text \o x][s][k]
  BY DEF Owes
<1>3. Reading[text \o x][s][k] = l \o r
  BY DEF Pays
<1>4. Channel(h, k) = c \o l /\ c \in Bytes
  OBVIOUS
<1>5. l \in Bytes
  BY LeadIs
<1>6. r \in Bytes
  <2>1. z \in Bytes
    BY Joined DEF Bytes
  <2> HIDE DEF z
  <2> QED BY <2>1, ReadsHeard
<1> HIDE DEF c, l, r
<1>7. c \in Seq(Byte) /\ l \in Seq(Byte) /\ r \in Seq(Byte)
  BY <1>4, <1>5, <1>6 DEF Bytes
<1>8. (c \o l) \o r = c \o (l \o r)
  BY <1>7, ConcatAssociative
<1> QED BY <1>2, <1>3, <1>4, <1>8 DEF r, z

\* A section without its tag is said up to what the tag may begin with.
LEMMA PaysHeld ==
  ASSUME conf \in Setups, Tagged, NEW s, s \in {"content", "think"}, NEW text, text \in Bytes,
         FirstAt(TagOf(s), text) = 0
  PROVE  LET n == Len(text) - SplitHold(TagOf(s), text)
         IN  /\ UpTo(text, n) \in Bytes /\ From(text, n + 1) \in Bytes
             /\ Pays(s, text, UpTo(text, n), s, From(text, n + 1))
             /\ FirstAt(TagOf(s), From(text, n + 1)) = 0
<1>0. ASSUME NEW z \in Bytes, NEW m \in 0 .. Len(z), \A i \in 1 .. m : ~Begins(TagOf(s), z, i), NEW k, k \in Kinds
      PROVE  Reading[z][s][k] = Lead(s, UpTo(z, m), k) \o Reading[From(z, m + 1)][s][k]
  BY <1>0, SectionCut
<1> DEFINE tag == TagOf(s)
           n == Len(text) - SplitHold(TagOf(s), text)
           a == UpTo(text, n)
           y == From(text, n + 1)
<1>1. tag \in Bytes /\ tag # << >> /\ FirstAt(tag, text) = 0
  BY TagIs
<1>2. SplitHold(tag, text) \in 0 .. Len(text)
  <2> HIDE DEF tag
  <2> QED BY <1>1, HoldIs
<1>3. \A x \in Bytes : \A i \in 1 .. n : ~Begins(tag, text \o x, i)
  <2> HIDE DEF n
  <2>1. \A x \in Bytes : \A i \in 1 .. (Len(text) - SplitHold(tag, text)) : ~Begins(tag, text \o x, i)
    <3> HIDE DEF tag
    <3> QED BY <1>1, HoldIs
  <2> QED BY <2>1 DEF n
<1>4. Len(text) \in Nat
  BY CutEnds DEF Bytes
<1>5. n \in 0 .. Len(text)
  BY <1>2, <1>4
<1> HIDE DEF n
<1>6. a \in Bytes /\ y \in Bytes
  BY <1>5, Cut DEF Bytes
<1>7. \A i \in 1 .. n : ~Begins(tag, text, i)
  <2>1. text \o << >> = text /\ << >> \in Bytes
    BY EmptySeq, ConcatEmptySeq DEF Bytes
  <2> QED BY <1>3, <2>1
<1>8. FirstAt(tag, y) = 0
  <2> HIDE DEF tag
  <2> QED BY <1>1, <1>5, <1>7, FirstAtCut
<1>9. Pays(s, text, a, s, y)
  <2> SUFFICES ASSUME NEW x, x \in Bytes, NEW k, k \in Kinds
               PROVE  Reading[text \o x][s][k] = Lead(s, a, k) \o Reading[y \o x][s][k]
    BY DEF Pays
  <2> DEFINE z == text \o x
  <2>1. UpTo(z, n) = a /\ From(z, n + 1) = y \o x
    BY <1>5, CutLonger
  <2>2. z \in Bytes /\ Len(z) = Len(text) + Len(x) /\ Len(x) \in Nat
    BY Joined DEF Bytes
  <2>3. n \in 0 .. Len(z)
    BY <1>4, <1>5, <2>2
  <2>4. \A i \in 1 .. n : ~Begins(TagOf(s), z, i)
    BY <1>3
  <2> HIDE DEF z, a, y
  <2>5. Reading[z][s][k] = Lead(s, UpTo(z, n), k) \o Reading[From(z, n + 1)][s][k]
    BY <1>0, <2>2, <2>3, <2>4
  <2> QED BY <2>1, <2>5 DEF z
<1> QED BY <1>6, <1>8, <1>9 DEF n

\* A section is said up to its tag, and the next one begins behind it.
LEMMA PaysTag ==
  ASSUME conf \in Setups, Tagged, NEW s, s \in {"content", "think"}, NEW text, text \in Bytes,
         FirstAt(TagOf(s), text) # 0
  PROVE  LET at == FirstAt(TagOf(s), text)
             rest == From(text, at + Len(TagOf(s)))
         IN  /\ UpTo(text, at - 1) \in Bytes /\ rest \in Bytes /\ Len(rest) < Len(text)
             /\ Pays(s, text, UpTo(text, at - 1), NextOf(s), rest)
<1> DEFINE tag == TagOf(s)
           at == FirstAt(tag, text)
           a == UpTo(text, at - 1)
           rest == From(text, at + Len(tag))
<1>1. tag \in Bytes /\ tag # << >> /\ FirstAt(tag, text) # 0
  BY TagIs
<1> HIDE DEF tag
<1>2. a \in Bytes /\ rest \in Bytes /\ Len(rest) < Len(text)
  BY <1>1, RestIs
<1>3. \A x \in Bytes : From(text \o x, at + Len(tag)) = rest \o x /\ UpTo(text \o x, at - 1) = a
  BY <1>1, RestIs
<1>4. \A x \in Bytes : FirstAt(tag, text \o x) = at
  BY <1>1, FirstAtJoined
<1>5. at # 0
  BY <1>1
<1> HIDE DEF at, a, rest
<1>6. Pays(s, text, a, NextOf(s), rest)
  <2> SUFFICES ASSUME NEW x, x \in Bytes, NEW k, k \in Kinds
               PROVE  Reading[text \o x][s][k] = Lead(s, a, k) \o Reading[rest \o x][NextOf(s)][k]
    BY DEF Pays
  <2> DEFINE z == text \o x
  <2>1. From(z, at + Len(tag)) = rest \o x /\ UpTo(z, at - 1) = a /\ FirstAt(tag, z) = at
    BY <1>3, <1>4
  <2>2. z \in Bytes
    BY Joined DEF Bytes
  <2> HIDE DEF z
  <2>3. FirstAt(TagOf(s), z) # 0
    BY <1>5, <2>1 DEF tag
  <2>4. Reading[z][s][k] = Lead(s, UpTo(z, FirstAt(TagOf(s), z) - 1), k)
                              \o Reading[From(z, FirstAt(TagOf(s), z) + Len(TagOf(s)))][NextOf(s)][k]
    <3>1. conf \in Setups /\ Tagged /\ s \in {"content", "think"} /\ k \in Kinds
      OBVIOUS
    <3>2. Parts(z, s, k)
      BY ONLY <2>2, <2>3, <3>1, TagParts
    <3> QED BY ONLY <3>2 DEF Parts
  <2> QED BY <2>1, <2>4 DEF z, tag
<1> QED BY <1>2, <1>6 DEF at, a, rest, tag

\* From w to v a word of section s has been sent.
Sends(w, v, s, word) ==
  /\ DOMAIN v = WorkFields /\ v.e = w.e /\ v.fed = w.fed /\ v.prelude = w.prelude
  /\ Response(v.g) /\ Untouched(w.g, v.g)
  /\ \A k \in Kinds : Channel(w.g, k) \in Bytes /\ Channel(v.g, k) = Channel(w.g, k) \o Lead(s, word, k)

\* A word of a section goes to its channel.
LEMMA EmitLead ==
  ASSUME NEW w, NEW s, NEW word, DOMAIN w = WorkFields, Response(w.g), conf.stops = {},
         s \in {"content", "think"}, word \in Bytes
  PROVE  Sends(w, GenEmit(w, s # "content", word, FALSE), s, word)
<1> DEFINE v == GenEmit(w, s # "content", word, FALSE)
           b == s # "content"
           h == EmitChannel(w.g, b, word)
<1>1. w.g.out \in Bytes /\ w.g.reason \in Bytes /\ DOMAIN w.g = ContextFields
  BY DEF Response, ContextType
<1>2. \A k \in Kinds : Channel(w.g, k) \in Bytes
  BY <1>1 DEF Channel
<1>3. w.g.out \o << >> = w.g.out /\ w.g.reason \o << >> = w.g.reason
  BY <1>1, ConcatEmptySeq DEF Bytes
<1>4. CASE word = << >>
  <2>1. v = w
    BY <1>4 DEF GenEmit
  <2>2. Untouched(w.g, w.g)
    BY <1>1 DEF Untouched
  <2>3. \A k \in Kinds : Channel(w.g, k) = Channel(w.g, k) \o Lead(s, word, k)
    BY <1>3, <1>4 DEF Channel, Lead
  <2> QED BY <1>2, <2>1, <2>2, <2>3 DEF Sends
<1>5. CASE word # << >>
  <2>1. v = [w EXCEPT !.g = h]
    BY <1>5 DEF GenEmit
  <2>2. b \in BOOLEAN
    OBVIOUS
  <2> HIDE DEF b
  <2>3. Response(h) /\ Untouched(w.g, h)
    BY <2>2, EmitIs
  <2>4. h.out = IF b THEN w.g.out ELSE w.g.out \o word
    BY <2>2, EmitIs
  <2>5. h.reason = IF b THEN w.g.reason \o word ELSE w.g.reason
    BY <2>2, EmitIs
  <2> HIDE DEF h
  <2>6. DOMAIN v = WorkFields /\ v.e = w.e /\ v.fed = w.fed /\ v.prelude = w.prelude /\ v.g = h
    BY <2>1 DEF WorkFields
  <2> HIDE DEF v
  <2>7. \A k \in Kinds : Channel(h, k) = Channel(w.g, k) \o Lead(s, word, k)
    <3>1. CASE s = "content"
      BY <3>1, <1>3, <2>4, <2>5 DEF Channel, Lead, ChanOf, Kinds, b
    <3>2. CASE s = "think"
      BY <3>2, <1>3, <2>4, <2>5 DEF Channel, Lead, ChanOf, Kinds, b
    <3> QED BY <3>1, <3>2
  <2> QED BY <1>2, <2>3, <2>6, <2>7 DEF v, Sends
<1> QED BY <1>4, <1>5

\* The splitter at rest: it owes what it holds, and no tag is left in that.
Settled(g, said) ==
  /\ Response(g) /\ ~g.stopped /\ g.hold = << >> /\ Owes(g, g.split, g.buf, said)
  /\ IF g.split = "ws" THEN g.buf = << >> ELSE FirstAt(TagOf(g.split), g.buf) = 0

\* A round that began with the work w0, of a response that owes what was said.
RoundOk(r, w0, said) ==
  /\ DOMAIN r = {"w", "text", "more"} /\ r.more \in BOOLEAN
  /\ DOMAIN r.w = WorkFields /\ r.w.e = w0.e /\ r.w.fed = w0.fed /\ r.w.prelude = w0.prelude
  /\ IF r.more
     THEN /\ Response(r.w.g) /\ ~r.w.g.stopped /\ r.w.g.hold = << >> /\ r.w.g.buf = << >>
          /\ Owes(r.w.g, r.w.g.split, r.text, said)
     ELSE Settled(r.w.g, said)

\* The parts of a round, named.
Here(w)        == [w EXCEPT !.g.split = Working(w.g.split)]
Part(w, word)  == GenEmit(Here(w), Working(w.g.split) # "content", word, FALSE)

RoundText(r) == TextOf(r.w.g.split, r.text)
RoundTag(r)  == TagOf(Working(r.w.g.split))
RoundAt(r)   == FirstAt(RoundTag(r), RoundText(r))
Sent(r)      == Part(r.w, UpTo(RoundText(r), IF RoundAt(r) = 0 THEN Len(RoundText(r)) - SplitHold(RoundTag(r), RoundText(r))
                                               ELSE RoundAt(r) - 1))

LEMMA RoundIs ==
  ASSUME NEW r, r.w.g.split \in Sections
  PROVE  LET s == r.w.g.split
             text == RoundText(r)
             tag == RoundTag(r)
             at == RoundAt(r)
             part == Sent(r)
             empty == s = "ws" /\ text = << >>
         IN  SplitRound(r, FALSE) =
               CASE empty -> [r EXCEPT !.more = FALSE]
                 [] at = 0 /\ ~empty ->
                      [r EXCEPT !.w = [part EXCEPT !.g.buf = From(text, Len(text) - SplitHold(tag, text) + 1)],
                                !.more = FALSE]
                 [] at > 0 /\ part.g.stopped /\ ~r.w.g.stopped ->
                      [r EXCEPT !.w = [part EXCEPT !.g.buf = From(text, at + Len(tag))], !.more = FALSE]
                 [] OTHER -> [r EXCEPT !.w = [part EXCEPT !.g.split = NextOf(Working(s))],
                                       !.text = From(text, at + Len(tag))]
<1> DEFINE s == r.w.g.split
<1>1. CASE s = "content"
  BY <1>1 DEF SplitRound, RoundText, RoundTag, RoundAt, Sent, TextOf, TagOf, Working, NextOf, Part, Here
<1>2. CASE s = "think"
  BY <1>2 DEF SplitRound, RoundText, RoundTag, RoundAt, Sent, TextOf, TagOf, Working, NextOf, Part, Here
<1>3. CASE s = "ws"
  BY <1>3 DEF SplitRound, RoundText, RoundTag, RoundAt, Sent, TextOf, TagOf, Working, NextOf, Part, Here
<1> QED BY <1>1, <1>2, <1>3 DEF Sections

\* A part of the response changed that sending does not use.
LEMMA BufIs ==
  ASSUME NEW w, NEW b, DOMAIN w = WorkFields, Response(w.g), b \in Bytes
  PROVE  LET v == [w EXCEPT !.g.buf = b]
         IN  /\ DOMAIN v = WorkFields /\ v.e = w.e /\ v.fed = w.fed /\ v.prelude = w.prelude
             /\ Response(v.g) /\ v.g.split = w.g.split /\ v.g.stopped = w.g.stopped
             /\ v.g.hold = w.g.hold /\ v.g.buf = b /\ \A k \in Kinds : Channel(v.g, k) = Channel(w.g, k)
<1> DEFINE v == [w EXCEPT !.g.buf = b]
           h == [w.g EXCEPT !.buf = b]
<1>1. v = [w EXCEPT !.g = h]
  BY DEF WorkFields
<1>2. DOMAIN w.g = ContextFields
  BY DEF Response, ContextType
<1>3. DOMAIN h = ContextFields /\ h.split = w.g.split /\ h.stopped = w.g.stopped /\ h.hold = w.g.hold
       /\ h.buf = b /\ h.out = w.g.out /\ h.reason = w.g.reason /\ h.u8_pend = w.g.u8_pend
       /\ h.items = w.g.items /\ h.item_open = w.g.item_open
  BY <1>2 DEF ContextFields
<1> HIDE DEF h
<1>4. w.g.stopped \in BOOLEAN /\ w.g.split \in {"content", "think", "ws"} /\ w.g.hold \in Bytes
  BY DEF Response, ContextType
<1>5. h.split \in {"content", "think", "ws"} /\ h.stopped \in BOOLEAN /\ h.buf \in Bytes /\ h.hold \in Bytes
  BY <1>3, <1>4
<1>6. Response(h)
  BY <1>3, <1>5, ResponseKept
<1>7. DOMAIN v = WorkFields /\ v.e = w.e /\ v.fed = w.fed /\ v.prelude = w.prelude /\ v.g = h
  BY <1>1 DEF WorkFields
<1> HIDE DEF v
<1> QED BY <1>3, <1>6, <1>7 DEF Channel, v

LEMMA SplitAtIs ==
  ASSUME NEW w, NEW s, DOMAIN w = WorkFields, Response(w.g), s \in Sections
  PROVE  LET v == [w EXCEPT !.g.split = s]
         IN  /\ DOMAIN v = WorkFields /\ v.e = w.e /\ v.fed = w.fed /\ v.prelude = w.prelude
             /\ Response(v.g) /\ v.g.split = s /\ v.g.stopped = w.g.stopped
             /\ v.g.hold = w.g.hold /\ v.g.buf = w.g.buf /\ \A k \in Kinds : Channel(v.g, k) = Channel(w.g, k)
<1> DEFINE v == [w EXCEPT !.g.split = s]
           h == [w.g EXCEPT !.split = s]
<1>1. v = [w EXCEPT !.g = h]
  BY DEF WorkFields
<1>2. DOMAIN w.g = ContextFields
  BY DEF Response, ContextType
<1>3. DOMAIN h = ContextFields /\ h.split = s /\ h.stopped = w.g.stopped /\ h.hold = w.g.hold
       /\ h.buf = w.g.buf /\ h.out = w.g.out /\ h.reason = w.g.reason /\ h.u8_pend = w.g.u8_pend
       /\ h.items = w.g.items /\ h.item_open = w.g.item_open
  BY <1>2 DEF ContextFields
<1> HIDE DEF h
<1>4. w.g.stopped \in BOOLEAN /\ w.g.buf \in Bytes /\ w.g.hold \in Bytes
  BY DEF Response, ContextType
<1>5. h.split \in {"content", "think", "ws"} /\ h.stopped \in BOOLEAN /\ h.buf \in Bytes /\ h.hold \in Bytes
  BY <1>3, <1>4 DEF Sections
<1>6. Response(h)
  BY <1>3, <1>5, ResponseKept
<1>7. DOMAIN v = WorkFields /\ v.e = w.e /\ v.fed = w.fed /\ v.prelude = w.prelude /\ v.g = h
  BY <1>1 DEF WorkFields
<1> HIDE DEF v
<1> QED BY <1>3, <1>6, <1>7 DEF Channel, v

\* What a round sends.
LEMMA PartIs ==
  ASSUME NEW w, NEW word, DOMAIN w = WorkFields, Response(w.g), conf.stops = {}, w.g.split \in Sections,
         word \in Bytes
  PROVE  LET v == Part(w, word)
         IN  /\ DOMAIN v = WorkFields /\ v.e = w.e /\ v.fed = w.fed /\ v.prelude = w.prelude
             /\ Response(v.g) /\ v.g.split = Working(w.g.split) /\ v.g.stopped = w.g.stopped
             /\ v.g.hold = w.g.hold /\ v.g.buf = w.g.buf
             /\ \A k \in Kinds : Channel(w.g, k) \in Bytes
                  /\ Channel(v.g, k) = Channel(w.g, k) \o Lead(Working(w.g.split), word, k)
<1> DEFINE h == Here(w)
           v == Part(w, word)
           q == Working(w.g.split)
<1>1. DOMAIN h = WorkFields /\ h.e = w.e /\ h.fed = w.fed /\ h.prelude = w.prelude
      /\ Response(h.g) /\ h.g.split = q /\ h.g.stopped = w.g.stopped
      /\ h.g.hold = w.g.hold /\ h.g.buf = w.g.buf /\ \A k \in Kinds : Channel(h.g, k) = Channel(w.g, k)
  <2>1. h = [w EXCEPT !.g.split = q]
    BY DEF Here
  <2>2. q \in Sections
    BY DEF Working, Sections
  <2> HIDE DEF q, h
  <2> QED BY <2>1, <2>2, SplitAtIs
<1>2. q \in {"content", "think"}
  BY DEF Working, Sections
<1>3. v = GenEmit(h, q # "content", word, FALSE)
  BY DEF Part
<1> HIDE DEF h, q, v
<1>4. Sends(h, v, q, word)
  BY <1>1, <1>2, <1>3, EmitLead
<1>5. v.g.split = h.g.split /\ v.g.stopped = h.g.stopped /\ v.g.hold = h.g.hold /\ v.g.buf = h.g.buf
  BY <1>4 DEF Sends, Untouched
<1>6. \A k \in Kinds : Channel(w.g, k) \in Bytes /\ Channel(v.g, k) = Channel(w.g, k) \o Lead(q, word, k)
  BY <1>1, <1>4 DEF Sends
<1>7. DOMAIN v = WorkFields /\ v.e = w.e /\ v.fed = w.fed /\ v.prelude = w.prelude /\ Response(v.g)
  BY <1>1, <1>4 DEF Sends
<1> QED BY <1>1, <1>5, <1>6, <1>7 DEF q, v

\* Without stops the filter lets the closing bytes pass like any others.
LEMMA ClosingRound == ASSUME conf.stops = {}, NEW r, NEW c PROVE SplitRound(r, c) = SplitRound(r, FALSE)
<1>1. ASSUME NEW w, NEW b, NEW x PROVE GenEmit(w, b, x, c) = GenEmit(w, b, x, FALSE)
  <2>1. CASE x = << >>
    BY <2>1 DEF GenEmit
  <2>2. CASE x # << >>
    <3>1. (b \/ c \/ conf.stops = {}) /\ (b \/ FALSE \/ conf.stops = {})
      OBVIOUS
    <3> QED BY <2>2, <3>1 DEF GenEmit
  <2> QED BY <2>1, <2>2
<1> DEFINE w     == r.w
           think == w.g.split # "content"
           text  == IF w.g.split = "ws" THEN Trim(r.text) ELSE r.text
           tag   == IF think THEN conf.close ELSE conf.open
           at    == FirstAt(tag, text)
           word  == UpTo(text, IF at = 0 THEN Len(text) - SplitHold(tag, text) ELSE at - 1)
           here  == [w EXCEPT !.g.split = IF think THEN "think" ELSE "content"]
<1>2. GenEmit(here, think, word, c) = GenEmit(here, think, word, FALSE)
  <2> HIDE DEF here, think, word
  <2> QED BY <1>1
<1> QED BY <1>2, Zenon DEF SplitRound

\* A round keeps what is owed, and one that goes on has less text.
LEMMA RoundStep ==
  ASSUME conf \in Setups, Tagged, conf.stops = {}, NEW r, NEW w0, NEW said, RoundOk(r, w0, said), r.more
  PROVE  LET v == SplitRound(r, FALSE)
         IN  RoundOk(v, w0, said) /\ (v.more => Len(v.text) < Len(r.text))
<1> DEFINE w == r.w
           s == w.g.split
           q == Working(s)
           text == RoundText(r)
           tag == RoundTag(r)
           at == RoundAt(r)
           hold == SplitHold(tag, text)
           n == Len(text) - hold
           part == Sent(r)
           empty == s = "ws" /\ text = << >>
           rest == From(text, at + Len(tag))
           buf == From(text, n + 1)
           v == SplitRound(r, FALSE)
<1>1. /\ DOMAIN r = {"w", "text", "more"}
      /\ DOMAIN w = WorkFields /\ w.e = w0.e /\ w.fed = w0.fed /\ w.prelude = w0.prelude
      /\ Response(w.g) /\ ~w.g.stopped /\ w.g.hold = << >> /\ w.g.buf = << >>
      /\ Owes(w.g, s, r.text, said)
  BY DEF RoundOk
<1>2. s \in Sections
  BY <1>1 DEF Response, ContextType, Sections
<1>3. v = CASE empty -> [r EXCEPT !.more = FALSE]
            [] at = 0 /\ ~empty ->
                 [r EXCEPT !.w = [part EXCEPT !.g.buf = From(text, n + 1)], !.more = FALSE]
            [] at > 0 /\ part.g.stopped /\ ~w.g.stopped ->
                 [r EXCEPT !.w = [part EXCEPT !.g.buf = rest], !.more = FALSE]
            [] OTHER -> [r EXCEPT !.w = [part EXCEPT !.g.split = NextOf(q)], !.text = rest]
  BY <1>2, RoundIs
<1>4. tag = TagOf(q) /\ at = FirstAt(tag, text) /\ q \in {"content", "think"}
  BY <1>2 DEF RoundTag, RoundAt, Working, Sections
<1>5. text \in Bytes /\ Len(text) <= Len(r.text)
  BY <1>1, <1>2, OwesTrimmed DEF RoundText
<1>6. empty => Owes(w.g, s, << >>, said)
  BY <1>1, <1>2, OwesTrimmed DEF RoundText
<1>7. ~empty => Owes(w.g, q, text, said)
  BY <1>1, <1>2, OwesTrimmed DEF RoundText
<1>8. at \in Nat /\ (text = << >> => at = 0)
  <2>1. tag \in Bytes
    BY <1>4, TagIs
  <2> HIDE DEF tag, text, at
  <2>2. FirstAt(tag, text) \in 0 .. Len(text)
    BY <1>5, <2>1, FirstAtIs
  <2>3. text = << >> => Len(text) = 0
    OBVIOUS
  <2> QED BY <1>4, <2>2, <2>3
<1>9. Len(text) \in Nat /\ Len(r.text) \in Nat
  BY <1>1, <1>5, CutEnds DEF Owes, Bytes
<1> HIDE DEF w, s, q, v
<1>10. CASE empty
  <2>1. at = 0
    BY <1>8, <1>10
  <2>2. v = [r EXCEPT !.more = FALSE]
    <3> HIDE DEF at, part, rest, n, text
    <3> QED BY <1>3, <1>10, <2>1
  <2>3. v.w = w /\ v.more = FALSE /\ DOMAIN v = {"w", "text", "more"}
    BY <1>1, <2>2 DEF w
  <2>4. Settled(v.w.g, said)
    BY <1>1, <1>6, <1>10, <2>3 DEF Settled, s
  <2> QED BY <1>1, <2>3, <2>4 DEF RoundOk, v
<1>11. CASE at = 0 /\ ~empty
  <2> DEFINE word == UpTo(text, n)
             p == [part EXCEPT !.g.buf = buf]
  <2>1. v = [r EXCEPT !.w = p, !.more = FALSE]
    BY <1>3, <1>11
  <2>2. v.w = p /\ v.more = FALSE /\ DOMAIN v = {"w", "text", "more"}
    BY <1>1, <2>1
  <2>3. word \in Bytes /\ buf \in Bytes /\ Pays(q, text, word, q, buf) /\ FirstAt(TagOf(q), buf) = 0
    BY <1>4, <1>5, <1>11, PaysHeld
  <2>4. part = Part(w, word)
    BY <1>11 DEF Sent, w
  <2> HIDE DEF word, buf, part, text, at, tag
  <2>5. /\ DOMAIN part = WorkFields /\ part.e = w.e /\ part.fed = w.fed /\ part.prelude = w.prelude
        /\ Response(part.g) /\ part.g.split = q /\ part.g.stopped = w.g.stopped
        /\ part.g.hold = w.g.hold /\ part.g.buf = w.g.buf
        /\ \A k \in Kinds : Channel(w.g, k) \in Bytes
             /\ Channel(part.g, k) = Channel(w.g, k) \o Lead(q, word, k)
    BY <1>1, <1>2, <2>3, <2>4, PartIs DEF s, q
  <2>6. /\ DOMAIN p = WorkFields /\ p.e = part.e /\ p.fed = part.fed /\ p.prelude = part.prelude
        /\ Response(p.g) /\ p.g.split = part.g.split /\ p.g.stopped = part.g.stopped
        /\ p.g.hold = part.g.hold /\ p.g.buf = buf /\ \A k \in Kinds : Channel(p.g, k) = Channel(part.g, k)
    BY <2>3, <2>5, BufIs
  <2> HIDE DEF p
  <2>7. q \in Sections
    BY <1>4 DEF Sections
  <2>8. \A k \in Kinds : Channel(w.g, k) \in Bytes /\ Channel(p.g, k) = Channel(w.g, k) \o Lead(q, word, k)
    BY <2>5, <2>6
  <2>9. Owes(p.g, q, buf, said)
    BY <1>7, <1>11, <2>3, <2>7, <2>8, OwesLess
  <2>10. Settled(p.g, said)
    BY <1>1, <1>4, <2>3, <2>5, <2>6, <2>9 DEF Settled
  <2> QED BY <1>1, <2>2, <2>5, <2>6, <2>10 DEF RoundOk, v
<1>12. CASE at # 0 /\ ~empty
  <2> DEFINE word == UpTo(text, at - 1)
             t == NextOf(q)
             p == [part EXCEPT !.g.split = t]
  <2>1. word \in Bytes /\ rest \in Bytes /\ Len(rest) < Len(text) /\ Pays(q, text, word, t, rest)
    BY <1>4, <1>5, <1>12, PaysTag
  <2>2. part = Part(w, word)
    BY <1>12 DEF Sent, w
  <2> HIDE DEF word, rest, part, text, at, tag
  <2>3. /\ DOMAIN part = WorkFields /\ part.e = w.e /\ part.fed = w.fed /\ part.prelude = w.prelude
        /\ Response(part.g) /\ part.g.split = q /\ part.g.stopped = w.g.stopped
        /\ part.g.hold = w.g.hold /\ part.g.buf = w.g.buf
        /\ \A k \in Kinds : Channel(w.g, k) \in Bytes
             /\ Channel(part.g, k) = Channel(w.g, k) \o Lead(q, word, k)
    BY <1>1, <1>2, <2>1, <2>2, PartIs DEF s, q
  <2>4. v = [r EXCEPT !.w = p, !.text = rest]
    BY <1>1, <1>3, <1>12, <2>3 DEF rest
  <2>5. v.w = p /\ v.more /\ v.text = rest /\ DOMAIN v = {"w", "text", "more"}
    BY <1>1, <2>4 DEF RoundOk
  <2>6. t \in Sections
    BY TagIs
  <2> HIDE DEF t
  <2>7. /\ DOMAIN p = WorkFields /\ p.e = part.e /\ p.fed = part.fed /\ p.prelude = part.prelude
        /\ Response(p.g) /\ p.g.split = t /\ p.g.stopped = part.g.stopped
        /\ p.g.hold = part.g.hold /\ p.g.buf = part.g.buf /\ \A k \in Kinds : Channel(p.g, k) = Channel(part.g, k)
    BY <2>3, <2>6, SplitAtIs
  <2> HIDE DEF p
  <2>8. \A k \in Kinds : Channel(w.g, k) \in Bytes /\ Channel(p.g, k) = Channel(w.g, k) \o Lead(q, word, k)
    BY <2>3, <2>7
  <2>9. Owes(p.g, t, rest, said)
    BY <1>7, <1>12, <2>1, <2>6, <2>8, OwesLess
  <2>10. Len(rest) < Len(r.text)
    <3>1. Len(rest) \in Nat
      BY <2>1, CutEnds DEF Bytes
    <3> QED BY <1>5, <1>9, <2>1, <3>1
  <2> QED BY <1>1, <2>3, <2>5, <2>7, <2>9, <2>10 DEF RoundOk, v
<1> QED BY <1>10, <1>11, <1>12

\* The rounds of the splitter's loop.
Turn(r, c) == IF r.more THEN SplitRound(r, c) ELSE r

Rounds(r0, c, n, f) == f = [i \in 0 .. n |-> IF i = 0 THEN r0 ELSE Turn(f[i - 1], c)]

LEMMA RoundsAt ==
  ASSUME NEW r0, NEW c, NEW n \in Nat, NEW f, Rounds(r0, c, n, f)
  PROVE  /\ f[0] = r0 /\ \A i \in 1 .. n : f[i] = Turn(f[i - 1], c)
<1>1. \A i \in 0 .. n : f[i] = IF i = 0 THEN r0 ELSE Turn(f[i - 1], c)
  BY DEF Rounds
<1>2. 0 \in 0 .. n /\ \A i \in 1 .. n : i \in 0 .. n /\ i # 0
  OBVIOUS
<1> QED BY <1>1, <1>2

LEMMA RoundsExist == ASSUME NEW r0, NEW c, NEW n \in Nat PROVE \E f : Rounds(r0, c, n, f)
<1> DEFINE P(m) == \E f : Rounds(r0, c, m, f)
           S == {m \in Nat : ~P(m)}
<1> SUFFICES ASSUME ~P(n) PROVE FALSE
  OBVIOUS
<1>1. PICK m \in S : \A k \in S : m <= k
  <2>1. n \in S /\ S \in SUBSET Nat
    OBVIOUS
  <2> HIDE DEF S
  <2> QED BY <2>1, SmallestNat
<1>2. m \in Nat /\ ~P(m) /\ \A k \in Nat : k < m => P(k)
  <2>1. m \in Nat /\ ~P(m)
    OBVIOUS
  <2>2. \A k \in Nat : ~P(k) => m <= k
    BY <1>1
  <2> HIDE DEF P
  <2> QED BY <2>1, <2>2
<1>3. m # 0
  <2> DEFINE f == [i \in 0 .. 0 |-> r0]
  <2>1. \A i \in 0 .. 0 : i = 0
    OBVIOUS
  <2>2. f = [i \in 0 .. 0 |-> IF i = 0 THEN r0 ELSE Turn(f[i - 1], c)]
    BY <2>1
  <2>3. P(0)
    BY <2>2 DEF Rounds
  <2> HIDE DEF P
  <2> QED BY <1>2, <2>3
<1>4. m - 1 \in Nat /\ m - 1 < m
  BY <1>2, <1>3
<1>5. P(m - 1)
  <2> HIDE DEF P
  <2> QED BY <1>2, <1>4
<1>6. PICK g : Rounds(r0, c, m - 1, g)
  BY <1>5
<1>7. g[0] = r0 /\ \A i \in 1 .. (m - 1) : g[i] = Turn(g[i - 1], c)
  BY <1>4, <1>6, RoundsAt
<1> DEFINE f == [i \in 0 .. m |-> IF i = m THEN Turn(g[m - 1], c) ELSE g[i]]
<1>8. \A i \in 0 .. m : f[i] = IF i = 0 THEN r0 ELSE Turn(f[i - 1], c)
  <2> TAKE i \in 0 .. m
  <2>1. CASE i = 0
    BY <1>2, <1>3, <1>7, <2>1
  <2>2. CASE i # 0 /\ i # m
    <3>1. i \in 1 .. (m - 1) /\ i - 1 \in 0 .. m /\ i - 1 # m
      BY <1>2, <2>2
    <3>2. f[i] = g[i] /\ f[i - 1] = g[i - 1]
      BY <2>2, <3>1
    <3> QED BY <1>7, <2>2, <3>1, <3>2
  <2>3. CASE i = m
    <3>1. i - 1 \in 0 .. m /\ i - 1 # m /\ i # 0
      BY <1>2, <1>3, <2>3
    <3>2. f[i] = Turn(g[m - 1], c) /\ f[i - 1] = g[i - 1]
      BY <2>3, <3>1
    <3> QED BY <2>3, <3>1, <3>2
  <2> QED BY <2>1, <2>2, <2>3
<1>9. f = [i \in 0 .. m |-> IF i = 0 THEN r0 ELSE Turn(f[i - 1], c)]
  <2> DEFINE h == [i \in 0 .. m |-> IF i = 0 THEN r0 ELSE Turn(f[i - 1], c)]
  <2>1. \A i \in 0 .. m : h[i] = IF i = 0 THEN r0 ELSE Turn(f[i - 1], c)
    OBVIOUS
  <2>2. DOMAIN h = 0 .. m /\ DOMAIN f = 0 .. m /\ h = [i \in 0 .. m |-> h[i]] /\ f = [i \in 0 .. m |-> f[i]]
    OBVIOUS
  <2>3. \A i \in 0 .. m : h[i] = f[i]
    BY <1>8, <2>1
  <2> HIDE DEF h, f
  <2>4. h = f
    BY <2>2, <2>3
  <2> QED BY <2>4 DEF h
<1>10. P(m)
  BY <1>9 DEF Rounds
<1> HIDE DEF P
<1> QED BY <1>2, <1>10

LEMMA RoundsAgree ==
  ASSUME NEW r0, NEW c, NEW n \in Nat, NEW m \in Nat, n <= m, NEW f, NEW g,
         Rounds(r0, c, n, f), Rounds(r0, c, m, g)
  PROVE  \A i \in 0 .. n : f[i] = g[i]
<1> DEFINE S == {i \in 0 .. n : f[i] # g[i]}
<1> SUFFICES ASSUME S # {} PROVE FALSE
  OBVIOUS
<1>1. PICK k \in S : \A j \in S : k <= j
  <2>1. S \in SUBSET Nat
    OBVIOUS
  <2> HIDE DEF S
  <2> QED BY <2>1, SmallestNat
<1>2. /\ f[0] = r0 /\ \A i \in 1 .. n : f[i] = Turn(f[i - 1], c)
      /\ g[0] = r0 /\ \A i \in 1 .. m : g[i] = Turn(g[i - 1], c)
  BY RoundsAt
<1>3. k \in 0 .. n /\ f[k] # g[k] /\ k # 0
  BY <1>2
<1>4. k - 1 \in 0 .. n /\ k \in 1 .. n /\ k \in 1 .. m /\ ~(k <= k - 1)
  BY <1>3
<1>5. f[k - 1] = g[k - 1]
  BY <1>1, <1>4
<1> QED BY <1>2, <1>3, <1>4, <1>5

AllRounds(r0, c, f) == f = [n \in Nat |-> IF n = 0 THEN r0 ELSE Turn(f[n - 1], c)]

LEMMA AllRoundsExist == ASSUME NEW r0, NEW c PROVE \E f : AllRounds(r0, c, f)
<1> DEFINE G(n) == CHOOSE f : Rounds(r0, c, n, f)
           F == [n \in Nat |-> G(n)[n]]
<1>1. \A n \in Nat : Rounds(r0, c, n, G(n))
  <2> TAKE n \in Nat
  <2>1. \E f : Rounds(r0, c, n, f)
    BY RoundsExist
  <2> QED BY <2>1
<1> HIDE DEF G
<1>2. \A n \in Nat : F[n] = G(n)[n]
  OBVIOUS
<1>3. \A n \in Nat : F[n] = IF n = 0 THEN r0 ELSE Turn(F[n - 1], c)
  <2> TAKE n \in Nat
  <2> HIDE DEF F
  <2>1. CASE n = 0
    <3>1. G(0)[0] = r0
      BY <1>1, RoundsAt
    <3> QED BY <1>2, <2>1, <3>1
  <2>2. CASE n # 0
    <3> DEFINE f == G(n)
               g == G(n - 1)
    <3>1. n - 1 \in Nat /\ n - 1 <= n /\ n \in 1 .. n /\ n - 1 \in 0 .. (n - 1)
      BY <2>2
    <3>2. Rounds(r0, c, n, f) /\ Rounds(r0, c, n - 1, g)
      BY <1>1, <3>1
    <3>3. F[n] = f[n] /\ F[n - 1] = g[n - 1]
      BY <1>2, <3>1
    <3> HIDE DEF f, g
    <3>4. f[n] = Turn(f[n - 1], c)
      BY <3>1, <3>2, RoundsAt
    <3>5. g[n - 1] = f[n - 1]
      BY <3>1, <3>2, RoundsAgree
    <3> QED BY <2>2, <3>3, <3>4, <3>5
  <2> QED BY <2>1, <2>2
<1>4. AllRounds(r0, c, F)
  <2> DEFINE h == [n \in Nat |-> IF n = 0 THEN r0 ELSE Turn(F[n - 1], c)]
  <2>1. \A n \in Nat : h[n] = IF n = 0 THEN r0 ELSE Turn(F[n - 1], c)
    OBVIOUS
  <2>2. h = [n \in Nat |-> h[n]] /\ F = [n \in Nat |-> F[n]]
    OBVIOUS
  <2> HIDE DEF h, F
  <2>3. h = F
    BY <1>3, <2>1, <2>2
  <2> QED BY <2>3 DEF AllRounds, h
<1> QED BY <1>4

\* The splitter comes to rest before its rounds are over.
LEMMA SplitIs ==
  ASSUME conf \in Setups, Tagged, conf.stops = {}, NEW w, NEW text, NEW said, NEW c, DOMAIN w = WorkFields, Response(w.g),
         ~w.g.stopped, w.g.hold = << >>, w.g.buf = << >>, Owes(w.g, w.g.split, text, said)
  PROVE  LET v == Split(w, text, c)
         IN  /\ DOMAIN v = WorkFields /\ v.e = w.e /\ v.fed = w.fed /\ v.prelude = w.prelude
             /\ Settled(v.g, said)
<1> DEFINE r0 == [w |-> w, text |-> text, more |-> TRUE]
           Round == CHOOSE f : AllRounds(r0, c, f)
           last == Round[Len(text) + 1]
           Fine(i) == RoundOk(Round[i], w, said) /\ (Round[i].more => Len(Round[i].text) + i <= Len(text))
           S == {i \in Nat : ~Fine(i)}
<1>1. Split(w, text, c) = last.w
  BY DEF Split, AllRounds, Turn
<1>2. AllRounds(r0, c, Round)
  <2>1. \E f : AllRounds(r0, c, f)
    BY AllRoundsExist
  <2> QED BY <2>1
<1> HIDE DEF Round
<1>3. \A n \in Nat : Round[n] = IF n = 0 THEN r0 ELSE Turn(Round[n - 1], c)
  BY <1>2 DEF AllRounds
<1>4. Len(text) \in Nat
  BY CutEnds DEF Owes, Bytes
<1>5. RoundOk(r0, w, said) /\ r0.more /\ r0.text = text
  BY DEF RoundOk
<1> HIDE DEF r0
<1>6. Fine(0)
  BY <1>3, <1>4, <1>5
<1>7. \A n \in Nat : Fine(n) => Fine(n + 1)
  <2> SUFFICES ASSUME NEW n \in Nat, Fine(n) PROVE Fine(n + 1)
    OBVIOUS
  <2> DEFINE r == Round[n]
             v == Round[n + 1]
  <2>1. v = Turn(r, c)
    BY <1>3
  <2>2. RoundOk(r, w, said) /\ (r.more => Len(r.text) + n <= Len(text))
    OBVIOUS
  <2> HIDE DEF r, v
  <2>3. CASE ~r.more
    <3>1. v = r
      BY <2>1, <2>3 DEF Turn
    <3> QED BY <2>2, <2>3, <3>1 DEF v
  <2>4. CASE r.more
    <3>1. v = SplitRound(r, FALSE)
      <4>1. v = SplitRound(r, c)
        BY <2>1, <2>4 DEF Turn
      <4> QED BY <4>1, ClosingRound
    <3>2. RoundOk(v, w, said) /\ (v.more => Len(v.text) < Len(r.text))
      <4>1. conf \in Setups /\ Tagged /\ conf.stops = {}
        OBVIOUS
      <4> QED BY ONLY <2>2, <2>4, <3>1, <4>1, RoundStep
    <3>3. v.more => Len(v.text) \in Nat /\ Len(r.text) \in Nat
      <4>1. v.more => v.text \in Bytes
        BY <3>2 DEF RoundOk, Owes
      <4>2. r.text \in Bytes
        BY <2>2, <2>4 DEF RoundOk, Owes
      <4> QED BY <4>1, <4>2, CutEnds DEF Bytes
    <3> DEFINE a == Len(v.text)
               b == Len(r.text)
               l == Len(text)
    <3>4. (v.more => a < b /\ a \in Nat /\ b \in Nat) /\ b + n <= l /\ l \in Nat
      BY <1>4, <2>2, <2>4, <3>2, <3>3
    <3> HIDE DEF a, b, l
    <3>5. v.more => a + (n + 1) <= l
      BY <3>4
    <3> QED BY <3>2, <3>5 DEF v, a, l
  <2> QED BY <2>3, <2>4
<1>8. \A n \in Nat : Fine(n)
  <2> SUFFICES ASSUME S # {} PROVE FALSE
    OBVIOUS
  <2>1. PICK k \in S : \A j \in S : k <= j
    <3>1. S \in SUBSET Nat
      OBVIOUS
    <3> HIDE DEF S
    <3> QED BY <3>1, SmallestNat
  <2>2. k \in Nat /\ ~Fine(k)
    OBVIOUS
  <2>3. \A j \in Nat : j < k => Fine(j)
    <3> SUFFICES ASSUME NEW j \in Nat, j < k, ~Fine(j) PROVE FALSE
      OBVIOUS
    <3>1. j \in S
      OBVIOUS
    <3>2. k <= j
      BY <2>1, <3>1
    <3> QED BY <2>2, <3>2
  <2> HIDE DEF Fine
  <2>4. k # 0
    BY <1>6, <2>2
  <2>5. k - 1 \in Nat /\ k - 1 < k /\ (k - 1) + 1 = k
    BY <2>2, <2>4
  <2> QED BY <1>7, <2>2, <2>3, <2>5
<1>9. Fine(Len(text) + 1)
  <2> HIDE DEF Fine
  <2> QED BY <1>4, <1>8
<1>10. RoundOk(last, w, said) /\ (last.more => Len(last.text) + (Len(text) + 1) <= Len(text))
  BY <1>9
<1> HIDE DEF last
<1>11. ~last.more
  <2>1. last.more => Len(last.text) \in Nat
    BY <1>10, CutEnds DEF RoundOk, Owes, Bytes
  <2> DEFINE a == Len(last.text)
             l == Len(text)
  <2>2. last.more => a \in Nat /\ l \in Nat /\ a + (l + 1) <= l
    BY <1>4, <1>10, <2>1
  <2> HIDE DEF a, l
  <2> QED BY <2>2
<1> QED BY <1>1, <1>10, <1>11 DEF RoundOk

\* The callback for a split response without stops.
LEMMA CollectSplit ==
  ASSUME conf \in Setups, Splits, conf.stops = {}, NEW w, NEW said, DOMAIN w = WorkFields, Settled(w.g, said),
         NEW bytes, bytes \in Bytes, NEW c \in BOOLEAN
  PROVE  LET v == GenCollect(w, bytes, c)
         IN  /\ DOMAIN v = WorkFields /\ v.e = w.e /\ v.prelude = w.prelude
             /\ v.fed = IF c \/ bytes = << >> THEN w.fed ELSE w.fed \o bytes
             /\ Settled(v.g, said \o bytes)
<1> DEFINE u == IF c THEN w ELSE [w EXCEPT !.fed = @ \o bytes]
           x == [u EXCEPT !.g.buf = << >>]
           text == w.g.buf \o bytes
           v == GenCollect(w, bytes, c)
<1>1. Tagged
  BY DEF Splits
<1>2. Response(w.g) /\ ~w.g.stopped /\ w.g.hold = << >> /\ Owes(w.g, w.g.split, w.g.buf, said)
  BY DEF Settled
<1>3. CASE bytes = << >>
  <2>1. v = w
    BY <1>3 DEF GenCollect
  <2> HIDE DEF v
  <2>2. said \o bytes = said
    BY <1>2, <1>3, ConcatEmptySeq DEF Owes, Bytes
  <2> QED BY <1>3, <2>1, <2>2 DEF v
<1>4. CASE bytes # << >>
  <2>1. v = Split(x, text, c)
    BY <1>2, <1>4 DEF GenCollect
  <2>2. DOMAIN u = WorkFields /\ u.e = w.e /\ u.g = w.g /\ u.prelude = w.prelude
        /\ u.fed = IF c THEN w.fed ELSE w.fed \o bytes
    BY DEF WorkFields
  <2> HIDE DEF u
  <2>3. << >> \in Bytes
    BY EmptySeq DEF Bytes
  <2>4. /\ DOMAIN x = WorkFields /\ x.e = u.e /\ x.fed = u.fed /\ x.prelude = u.prelude
        /\ Response(x.g) /\ x.g.split = u.g.split /\ x.g.stopped = u.g.stopped
        /\ x.g.hold = u.g.hold /\ x.g.buf = << >> /\ \A k \in Kinds : Channel(x.g, k) = Channel(u.g, k)
    BY <1>2, <2>2, <2>3, BufIs
  <2> HIDE DEF x
  <2> DEFINE now == said \o bytes
  <2>5. Owes(x.g, w.g.split, text, now)
    <3>1. w.g.buf \in Bytes /\ said \in Bytes
      BY <1>2 DEF Owes
    <3>2. text \in Bytes /\ now \in Bytes
      BY <3>1, Joined DEF Bytes
    <3>3. \A s \in Bytes : \A k \in Kinds :
            Reading[said \o s][Context.split][k] = Channel(w.g, k) \o Reading[w.g.buf \o s][w.g.split][k]
      BY <1>2 DEF Owes
    <3>4. \A q, r \in Bytes : q \o r \in Bytes
      BY ONLY Joined DEF Bytes
    <3>5. ASSUME NEW s \in Bytes, NEW k \in Kinds
          PROVE  Reading[now \o s][Context.split][k] = Channel(x.g, k) \o Reading[text \o s][w.g.split][k]
      <4>1. bytes \o s \in Bytes
        BY <3>4
      <4>2. Reading[said \o (bytes \o s)][Context.split][k]
              = Channel(w.g, k) \o Reading[w.g.buf \o (bytes \o s)][w.g.split][k]
        BY <3>3, <4>1
      <4>3. now \o s = said \o (bytes \o s) /\ text \o s = w.g.buf \o (bytes \o s)
        <5>3. bytes \in Bytes /\ s \in Bytes
          OBVIOUS
        <5>1. (said \o bytes) \o s = said \o (bytes \o s)
          BY ONLY <3>1, <5>3, Regroup
        <5>2. (w.g.buf \o bytes) \o s = w.g.buf \o (bytes \o s)
          BY ONLY <3>1, <5>3, Regroup
        <5> QED BY <5>1, <5>2
      <4>4. Channel(x.g, k) = Channel(w.g, k)
        BY <2>2, <2>4
      <4> HIDE DEF text, now
      <4> QED BY <4>2, <4>3, <4>4
    <3> QED BY <3>2, <3>5 DEF Owes
  <2>6. Owes(x.g, x.g.split, text, now) /\ ~x.g.stopped /\ x.g.hold = << >>
    BY <1>2, <2>2, <2>4, <2>5
  <2> HIDE DEF text, now
  <2> DEFINE z == Split(x, text, c)
  <2>7. /\ DOMAIN z = WorkFields /\ z.e = x.e /\ z.fed = x.fed /\ z.prelude = x.prelude
        /\ Settled(z.g, now)
    <3>1. Response(x.g) /\ x.g.buf = << >> /\ DOMAIN x = WorkFields
      BY <2>4
    <3> QED BY ONLY conf \in Setups, Tagged, conf.stops = {}, <1>1, <2>6, <3>1, SplitIs
  <2>8. /\ DOMAIN v = WorkFields /\ v.e = x.e /\ v.fed = x.fed /\ v.prelude = x.prelude
        /\ Settled(v.g, now)
    BY <2>1, <2>7
  <2> HIDE DEF v
  <2> QED BY <1>4, <2>2, <2>4, <2>8 DEF v, now
<1> QED BY <1>3, <1>4

-----------------------------------------------------------------------------
(* The callback of the generation.                                         *)

\* What the splitter holds at the end is said in its section.
LEMMA FinishSplit ==
  ASSUME conf \in Setups, Splits, conf.stops = {}, NEW w, NEW said, DOMAIN w = WorkFields, Settled(w.g, said)
  PROVE  LET v == ThinkFinish(w)
         IN  /\ Response(v.g) /\ ~v.g.stopped /\ v.g.hold = << >>
             /\ \A k \in Kinds : Channel(v.g, k) = Reading[said][Context.split][k]
<1> DEFINE s == w.g.split
           b == w.g.buf
           v == ThinkFinish(w)
<1>1. Tagged
  BY DEF Splits
<1>2. /\ Response(w.g) /\ ~w.g.stopped /\ w.g.hold = << >> /\ Owes(w.g, s, b, said)
      /\ IF s = "ws" THEN b = << >> ELSE FirstAt(TagOf(s), b) = 0
  BY DEF Settled
<1>3. s \in Sections
  BY <1>2 DEF Response, ContextType, Sections
<1>4. << >> \in Bytes
  BY EmptySeq DEF Bytes
<1>5. b \in Bytes /\ said \in Bytes /\ b \o << >> = b /\ said \o << >> = said
  BY <1>2, ConcatEmptySeq DEF Owes, Bytes
<1>6. \A k \in Kinds : Reading[said][Context.split][k] = Channel(w.g, k) \o Reading[b][s][k]
  <2>1. \A x \in Bytes : \A k \in Kinds :
          Reading[said \o x][Context.split][k] = Channel(w.g, k) \o Reading[b \o x][s][k]
    BY <1>2 DEF Owes
  <2> HIDE DEF s, b
  <2> QED BY <1>4, <1>5, <2>1
<1>7. \A k \in Kinds : Channel(w.g, k) \in Bytes /\ Channel(w.g, k) \o << >> = Channel(w.g, k)
  BY <1>2, ConcatEmptySeq DEF Response, ContextType, Channel, Bytes
<1>8. CASE s = "ws"
  <2> DEFINE u == [w EXCEPT !.g.buf = << >>]
  <2>1. v = u
    BY <1>8 DEF ThinkFinish
  <2>2. Response(u.g) /\ u.g.stopped = w.g.stopped /\ u.g.hold = w.g.hold
        /\ \A k \in Kinds : Channel(u.g, k) = Channel(w.g, k)
    <3>1. DOMAIN w = WorkFields
      OBVIOUS
    <3> QED BY ONLY <1>2, <1>4, <3>1, BufIs
  <2>3. \A k \in Kinds : Reading[b]["ws"][k] = << >>
    <3>1. b = << >>
      BY <1>2, <1>8
    <3>2. Reading[<< >>]["ws"] = Reading[Trim(<< >>)]["think"]
      BY <1>1, <1>4, WsIs
    <3>3. Trim(<< >>) = << >>
      <4>1. Trim(<< >>) \in Bytes /\ Len(Trim(<< >>)) = Len(<< >>) - Spaces(<< >>)
        BY <1>4, TrimIs
      <4>2. Spaces(<< >>) \in 0 .. Len(<< >>) /\ Len(<< >>) = 0
        BY <1>4, SpacesEnd, EmptySeq
      <4>3. Len(Trim(<< >>)) = 0
        BY <4>1, <4>2
      <4> QED BY <4>1, <4>3, CutEnds DEF Bytes
    <3>4. FirstAt(TagOf("think"), << >>) = 0
      <4>1. TagOf("think") \in Bytes
        BY <1>1, TagIs
      <4>2. FirstAt(TagOf("think"), << >>) \in 0 .. Len(<< >>)
        BY <1>4, <4>1, FirstAtIs
      <4> QED BY <4>2
    <3>5. \A k \in Kinds : Reading[<< >>]["think"][k] = Lead("think", << >>, k)
      BY <1>1, <1>4, <3>4, NoTag
    <3> QED BY <3>1, <3>2, <3>3, <3>5 DEF Lead
  <2> HIDE DEF u, v
  <2> QED BY <1>2, <1>6, <1>7, <1>8, <2>1, <2>2, <2>3 DEF v
<1>9. CASE s # "ws"
  <2> DEFINE z == GenEmit(w, s # "content", b, FALSE)
             u == [z EXCEPT !.g.buf = << >>]
  <2>1. s \in {"content", "think"}
    BY <1>3, <1>9 DEF Sections
  <2>2. v = u
    BY <2>1 DEF ThinkFinish
  <2> HIDE DEF v
  <2>3. Sends(w, z, s, b)
    BY <1>2, <1>5, <2>1, EmitLead
  <2> HIDE DEF z
  <2>4. DOMAIN z = WorkFields /\ Response(z.g) /\ z.g.stopped = w.g.stopped /\ z.g.hold = w.g.hold
    BY <2>3 DEF Sends, Untouched
  <2>5. \A k \in Kinds : Channel(z.g, k) = Channel(w.g, k) \o Lead(s, b, k)
    BY <2>3 DEF Sends
  <2>6. Response(u.g) /\ u.g.stopped = z.g.stopped /\ u.g.hold = z.g.hold
        /\ \A k \in Kinds : Channel(u.g, k) = Channel(z.g, k)
    BY <1>4, <2>4, BufIs
  <2>7. FirstAt(TagOf(s), b) = 0
    BY <1>2, <1>9
  <2> HIDE DEF s, b, u
  <2>8. \A k \in Kinds : Reading[b][s][k] = Lead(s, b, k)
    BY <1>1, <1>5, <2>1, <2>7, NoTag
  <2> QED BY <1>2, <1>6, <2>2, <2>4, <2>5, <2>6, <2>8 DEF v, u
<1> QED BY <1>8, <1>9

\* A response that is not split, and what reached its filter.
Direct(g, said) ==
  /\ Response(g) /\ g.split = "content" /\ g.buf = << >> /\ g.reason = << >>
  /\ Filtered(g, said) /\ (conf.stops = {} => g.hold = << >>)

\* From w to v the filter found a stop in the bytes, and the engine was told.
Cuts(w, v, bytes) ==
  LET all == (w.g.out \o w.g.hold) \o bytes
  IN  \E n \in 1 .. Len(all) : v.g.out = UpTo(all, Len(all) - n) /\ v.e = Truncate(w.e, n)

Collects(w, v, bytes) ==
  /\ DOMAIN v = WorkFields /\ v.prelude = w.prelude /\ Direct(v.g, v.fed)
  /\ w.g.stopped => v = w
  /\ ~w.g.stopped => /\ v.fed = w.fed \o bytes
                     /\ IF v.g.stopped THEN Cuts(w, v, bytes) ELSE v.e = w.e

LEMMA CollectDirect ==
  ASSUME conf \in Setups, ~Splits, NEW w, DOMAIN w = WorkFields, Direct(w.g, w.fed),
         NEW bytes, bytes \in Bytes
  PROVE  Collects(w, GenCollect(w, bytes, FALSE), bytes)
<1> DEFINE v == GenCollect(w, bytes, FALSE)
           u == [w EXCEPT !.fed = @ \o bytes]
<1>1. /\ Response(w.g) /\ w.g.split = "content" /\ w.g.buf = << >> /\ w.g.reason = << >>
      /\ Filtered(w.g, w.fed) /\ (conf.stops = {} => w.g.hold = << >>)
  BY DEF Direct
<1>2. StopsOk
  BY SetupIs
<1>3. w.fed \in Bytes /\ w.g.out \in Bytes /\ w.g.hold \in Bytes /\ w.g.stopped \in BOOLEAN
      /\ DOMAIN w.g = ContextFields
  BY <1>1 DEF Filtered, Response, ContextType
<1>4. w.fed \o << >> = w.fed
  BY <1>3, ConcatEmptySeq DEF Bytes
<1>5. CASE w.g.stopped
  BY <1>5 DEF GenCollect, Collects
<1>6. CASE ~w.g.stopped /\ bytes = << >>
  BY <1>4, <1>6 DEF GenCollect, Collects
<1>7. CASE ~w.g.stopped /\ bytes # << >>
  <2>1. v = GenEmit(u, FALSE, bytes, FALSE)
    BY <1>7 DEF GenCollect
  <2>2. DOMAIN u = WorkFields /\ u.e = w.e /\ u.g = w.g /\ u.prelude = w.prelude /\ u.fed = w.fed \o bytes
    BY DEF WorkFields
  <2> HIDE DEF u, v
  <2>3. CASE conf.stops = {}
    <3> DEFINE h == EmitChannel(w.g, FALSE, bytes)
    <3>1. v = [u EXCEPT !.g = h]
      BY <1>7, <2>1, <2>2, <2>3 DEF GenEmit
    <3>2. Response(h) /\ Untouched(w.g, h)
      BY <1>1, EmitIs
    <3>3. h.out = w.g.out \o bytes /\ h.reason = w.g.reason
      <4> DEFINE b == FALSE
      <4>1. b \in BOOLEAN /\ h = EmitChannel(w.g, b, bytes)
        OBVIOUS
      <4> HIDE DEF b, h
      <4> DEFINE g == w.g
                 z == EmitChannel(g, b, bytes)
      <4>2. Response(g)
        BY <1>1
      <4> HIDE DEF g
      <4>3. z.out = IF b THEN g.out ELSE g.out \o bytes
        BY <4>1, <4>2, EmitIs
      <4>4. z.reason = IF b THEN g.reason \o bytes ELSE g.reason
        BY <4>1, <4>2, EmitIs
      <4> QED BY <4>1, <4>3, <4>4 DEF b, g
    <3> HIDE DEF h
    <3>4. DOMAIN v = WorkFields /\ v.prelude = w.prelude /\ v.fed = w.fed \o bytes /\ v.e = w.e /\ v.g = h
      BY <2>2, <3>1 DEF WorkFields
    <3>5. h.split = w.g.split /\ h.buf = w.g.buf /\ h.hold = w.g.hold /\ h.stopped = w.g.stopped
      BY <3>2 DEF Untouched
    <3>6. Filtered(h, w.fed \o bytes)
      <4>1. w.g.out \o << >> = w.g.out /\ w.fed \o bytes \in Bytes
            /\ (w.fed \o bytes) \o << >> = w.fed \o bytes
        BY <1>3, Joined, ConcatEmptySeq DEF Bytes
      <4>2. w.fed = w.g.out
        BY <1>1, <1>7, <2>3, <4>1 DEF Filtered
      <4>3. StopsIn(w.fed \o bytes) = {} /\ Quiet(w.fed \o bytes, Len(h.out))
        BY <2>3 DEF StopsIn, Quiet
      <4>4. h.hold = << >> /\ ~h.stopped /\ h.out = w.fed \o bytes
        BY <1>1, <1>7, <2>3, <3>3, <3>5, <4>2
      <4>5. w.fed \o bytes = h.out \o h.hold
        BY <4>1, <4>4
      <4> QED BY <4>1, <4>3, <4>4, <4>5 DEF Filtered
    <3>7. Direct(v.g, v.fed) /\ ~v.g.stopped
      BY <1>1, <1>7, <2>3, <3>2, <3>3, <3>4, <3>5, <3>6 DEF Direct
    <3> QED BY <1>7, <3>4, <3>7 DEF Collects, v
  <2>4. CASE conf.stops # {}
    <3> DEFINE held == w.g.hold \o bytes
               m == Min(StopsIn(held))
               z == StopFeed(u, bytes)
    <3>1. v = z
      BY <1>7, <2>1, <2>4 DEF GenEmit
    <3>2. Response(u.g) /\ ~u.g.stopped /\ Filtered(u.g, w.fed)
      BY <1>1, <1>7, <2>2
    <3>3. /\ DOMAIN z = WorkFields /\ z.fed = u.fed /\ z.prelude = u.prelude
          /\ Response(z.g) /\ z.g.split = u.g.split /\ z.g.buf = u.g.buf /\ z.g.reason = u.g.reason
      BY <1>2, <2>2, <3>2, StopFeedIs
    <3>4. Filtered(z.g, w.fed \o bytes)
      BY <1>2, <2>2, <3>2, StopFeedIs
    <3>5. IF z.g.stopped
          THEN /\ z.g.out = u.g.out \o UpTo(u.g.hold \o bytes, Min(StopsIn(u.g.hold \o bytes)) - 1)
               /\ z.e = Truncate(u.e, Len(u.g.hold \o bytes) - (Min(StopsIn(u.g.hold \o bytes)) - 1))
               /\ Min(StopsIn(u.g.hold \o bytes)) \in 1 .. Len(u.g.hold \o bytes)
          ELSE z.e = u.e
      BY <1>2, <2>2, <3>2, StopFeedIs
    <3> HIDE DEF z
    <3>6. Direct(v.g, v.fed)
      BY <1>1, <2>2, <2>4, <3>1, <3>3, <3>4 DEF Direct
    <3>7. ~v.g.stopped => v.e = w.e
      BY <2>2, <3>1, <3>5
    <3>8. v.g.stopped => Cuts(w, v, bytes)
      <4> SUFFICES ASSUME v.g.stopped PROVE Cuts(w, v, bytes)
        OBVIOUS
      <4>1. v.g.out = w.g.out \o UpTo(held, m - 1) /\ v.e = Truncate(w.e, Len(held) - (m - 1)) /\ m \in 1 .. Len(held)
        BY <2>2, <3>1, <3>5
      <4> DEFINE all == (w.g.out \o w.g.hold) \o bytes
                 n == Len(held) - (m - 1)
      <4>2. held \in Bytes
        BY <1>3, Joined DEF Bytes
      <4>3. all = w.g.out \o held
        <5>1. \A p, q, r \in Bytes : (p \o q) \o r = p \o (q \o r)
          BY Regroup
        <5> QED BY <1>3, <5>1
      <4> HIDE DEF all, held, m
      <4>4. Len(all) = Len(w.g.out) + Len(held) /\ Len(w.g.out) \in Nat /\ Len(held) \in Nat
        BY <1>3, <4>2, <4>3, Joined DEF Bytes
      <4>5. n \in 1 .. Len(all) /\ Len(all) - n = Len(w.g.out) + (m - 1) /\ m - 1 \in 0 .. Len(held)
        BY <4>1, <4>4
      <4>6. UpTo(w.g.out \o held, Len(w.g.out) + (m - 1)) = w.g.out \o UpTo(held, m - 1)
        <5> DEFINE k == m - 1
        <5>1. k \in 0 .. Len(held)
          BY <4>5
        <5> HIDE DEF k
        <5>2. UpTo(w.g.out \o held, Len(w.g.out) + k) = w.g.out \o UpTo(held, k)
          BY <1>3, <4>2, <5>1, CutJoined DEF Bytes
        <5> QED BY <5>2 DEF k
      <4>7. v.g.out = UpTo(all, Len(all) - n) /\ v.e = Truncate(w.e, n)
        BY <4>1, <4>3, <4>5, <4>6
      <4> HIDE DEF n
      <4> QED BY <4>5, <4>7 DEF Cuts, all
    <3> QED BY <1>7, <2>2, <3>1, <3>3, <3>6, <3>7, <3>8 DEF Collects, v
  <2> QED BY <2>3, <2>4
<1> QED BY <1>3, <1>5, <1>6, <1>7

-----------------------------------------------------------------------------
(* The invariant of the generation.                                        *)

Sound(g, said) == IF Splits THEN Settled(g, said) ELSE Direct(g, said)

WorkOk(w) == DOMAIN w = WorkFields /\ EngType(w.e) /\ Sound(w.g, w.fed)

LEMMA CollectIs ==
  ASSUME conf \in Setups, OneStage, NEW w, WorkOk(w), NEW bytes, bytes \in Bytes
  PROVE  WorkOk(GenCollect(w, bytes, FALSE))
<1> DEFINE v == GenCollect(w, bytes, FALSE)
<1>1. DOMAIN w = WorkFields /\ EngType(w.e) /\ Sound(w.g, w.fed)
  BY DEF WorkOk
<1>2. CASE Splits
  <2>1. conf.stops = {} /\ Settled(w.g, w.fed)
    BY <1>1, <1>2 DEF OneStage, Sound
  <2> DEFINE said == w.fed
             c == FALSE
  <2>2. Settled(w.g, said) /\ c \in BOOLEAN /\ said \o << >> = said
    BY <2>1, ConcatEmptySeq DEF Settled, Owes, Bytes
  <2> HIDE DEF said, c
  <2> DEFINE x == GenCollect(w, bytes, c)
  <2>3. /\ DOMAIN x = WorkFields /\ x.e = w.e /\ x.fed = IF c \/ bytes = << >> THEN w.fed ELSE w.fed \o bytes
        /\ Settled(x.g, said \o bytes)
    BY <1>1, <1>2, <2>1, <2>2, CollectSplit
  <2>4. v = x
    BY DEF c
  <2> HIDE DEF v, x
  <2>5. v.fed = said \o bytes
    BY <2>2, <2>3, <2>4 DEF said, c
  <2> QED BY <1>1, <1>2, <2>3, <2>4, <2>5 DEF WorkOk, Sound, v
<1>3. CASE ~Splits
  <2>1. Direct(w.g, w.fed)
    BY <1>1, <1>3 DEF Sound
  <2>2. Collects(w, v, bytes)
    BY <1>1, <1>3, <2>1, CollectDirect
  <2> HIDE DEF v
  <2>3. DOMAIN v = WorkFields /\ Direct(v.g, v.fed)
    BY <2>2 DEF Collects
  <2>4. EngType(v.e)
    <3>1. CASE v.e = w.e
      BY <1>1, <3>1
    <3>2. CASE Cuts(w, v, bytes)
      <4>1. PICK n \in 1 .. Len((w.g.out \o w.g.hold) \o bytes) : v.e = Truncate(w.e, n)
        BY <3>2 DEF Cuts
      <4>2. w.g.out \in Bytes /\ w.g.hold \in Bytes
        BY <2>1 DEF Direct, Response, ContextType
      <4>3. Len((w.g.out \o w.g.hold) \o bytes) \in Nat
        <5> DEFINE sent == w.g.out \o w.g.hold
        <5>1. bytes \in Bytes
          OBVIOUS
        <5>2. sent \in Bytes
          BY ONLY <4>2, Joined DEF Bytes
        <5> HIDE DEF sent
        <5>3. sent \o bytes \in Bytes
          BY ONLY <5>1, <5>2, Joined DEF Bytes
        <5> QED BY ONLY <5>3, LenProperties DEF Bytes, sent
      <4>4. n \in Nat
        BY <4>3
      <4>5. EngType(Truncate(w.e, n))
        BY <1>1, <4>4, TruncateIs
      <4> QED BY <4>1, <4>5
    <3>3. CASE v = w
      BY <1>1, <3>3
    <3>4. w.g.stopped \in BOOLEAN
      BY <2>1 DEF Direct, Response, ContextType
    <3> QED BY <2>2, <3>1, <3>2, <3>3, <3>4 DEF Collects
  <2> QED BY <1>3, <2>3, <2>4 DEF WorkOk, Sound, v
<1> QED BY <1>2, <1>3

\* The state of the engine replaced.
LEMMA EngineChange ==
  ASSUME NEW w, WorkOk(w), NEW e, EngType(e)
  PROVE  WorkOk([w EXCEPT !.e = e]) /\ [w EXCEPT !.e = e].g = w.g /\ [w EXCEPT !.e = e].e = e
  BY DEF WorkOk, WorkFields

LEMMA FinishThinkIs ==
  ASSUME conf \in Setups, OneStage, NEW w, WorkOk(w)
  PROVE  WorkOk(FinishThink(w))
<1> DEFINE c == IF w.e.phase = "think" /\ Splits THEN GenCollect(w, conf.close, FALSE) ELSE w
           p == IF w.e.phase = "think" THEN "after_think" ELSE "output"
           t == InThink(c.e)
           e == PayloadReset([t EXCEPT !.phase = p])
<1>1. WorkOk(c)
  <2>1. conf.close \in Bytes
    BY SetupIs
  <2> QED BY <2>1, CollectIs
<1>2. FinishThink(w) = [c EXCEPT !.e = e]
  <2> HIDE DEF c, p
  <2>1. FinishThink(w) = [c EXCEPT !.e = PayloadReset([InThink(@) EXCEPT !.phase = p])]
    BY DEF FinishThink, c, p
  <2>2. DOMAIN c = WorkFields
    BY <1>1 DEF WorkOk
  <2> QED BY <2>1, <2>2 DEF WorkFields
<1>3. p \in Phases
  BY DEF Phases
<1> HIDE DEF c, p
<1>4. EngType(c.e)
  BY <1>1 DEF WorkOk
<1>5. EngType(t)
  BY <1>4, InThinkType
<1> HIDE DEF t
<1> DEFINE f == [t EXCEPT !.phase = p]
<1>6. EngType(f)
  BY <1>3, <1>5, PhaseType
<1> HIDE DEF f
<1>7. EngType(e)
  BY <1>6, PayloadResetIs DEF f
<1> HIDE DEF e
<1> QED BY <1>1, <1>2, <1>7, EngineChange

LEMMA CountPreludeIs ==
  ASSUME conf \in Setups, OneStage, NEW w, WorkOk(w)
  PROVE  WorkOk(CountPrelude(w))
<1> DEFINE more == [w EXCEPT !.prelude = @ + 1]
<1>1. WorkOk(more)
  BY DEF WorkOk, WorkFields
<1>2. CountPrelude(w) \in {w, more, FinishThink(more)}
  BY DEF CountPrelude
<1> HIDE DEF more
<1>3. WorkOk(FinishThink(more))
  BY <1>1, FinishThinkIs
<1> QED BY <1>1, <1>2, <1>3

LEMMA ControlAcceptIs ==
  ASSUME conf \in Setups, OneStage, NEW w, WorkOk(w), NEW t
  PROVE  WorkOk(ControlAccept(t, w))
  BY FinishThinkIs DEF ControlAccept

-----------------------------------------------------------------------------
(* The request does not change, and with it nothing that is said of it.    *)

LEMMA ReadingSame == ASSUME conf' = conf PROVE Reading' = Reading /\ Context.split' = Context.split /\ (Splits' <=> Splits)
  BY DEF Reading, Context, Splits, Tagged

LEMMA ResponseSame == ASSUME conf' = conf PROVE \A g : Response(g)' <=> Response(g)
  BY DEF Response, ContextType, Streams
LEMMA FilteredSame == ASSUME conf' = conf PROVE \A g, s : Filtered(g, s)' <=> Filtered(g, s)
  BY DEF Filtered, StopsIn, Quiet, BeforeStop, Differs
LEMMA DirectSame == ASSUME conf' = conf PROVE \A g, s : Direct(g, s)' <=> Direct(g, s)
  BY ResponseSame, FilteredSame DEF Direct
LEMMA OwesSame == ASSUME conf' = conf PROVE \A g, s, t, u : Owes(g, s, t, u)' <=> Owes(g, s, t, u)
  BY ReadingSame DEF Owes
LEMMA SettledSame == ASSUME conf' = conf PROVE \A g, s : Settled(g, s)' <=> Settled(g, s)
  BY ResponseSame, OwesSame DEF Settled, TagOf
LEMMA SoundSame == ASSUME conf' = conf PROVE \A g, s : Sound(g, s)' <=> Sound(g, s)
  BY SettledSame, DirectSame, ReadingSame DEF Sound
LEMMA EngSame == ASSUME conf' = conf PROVE \A e : EngType(e)' <=> EngType(e)
  BY DEF EngType

\* The response after its closing bytes: the part before them, and what is withheld.
Shut(g, said, t, l) ==
  /\ Response(g) /\ g.split = "content" /\ g.buf = << >> /\ g.reason = << >>
  /\ said \in Bytes /\ t \in Bytes
  /\ IF g.stopped THEN g.hold = << >> /\ StopsIn(said) # {} /\ g.out = BeforeStop(said) \o t
     ELSE /\ l = g.hold /\ StopsIn(said) = {}
          /\ \E a \in Bytes : said = a \o g.hold /\ g.out = a \o t

LEMMA StopsSame ==
  ASSUME conf' = conf
  PROVE  \A s : StopsIn(s)' = StopsIn(s) /\ BeforeStop(s)' = BeforeStop(s)
  BY DEF StopsIn, BeforeStop
LEMMA ShutSame == ASSUME conf' = conf PROVE \A g, s, t, u : Shut(g, s, t, u)' <=> Shut(g, s, t, u)
<1> TAKE g, s, t, u
<1>1. (Response(g)' <=> Response(g)) /\ StopsIn(s)' = StopsIn(s) /\ BeforeStop(s)' = BeforeStop(s)
  BY ResponseSame, StopsSame
<1> QED BY <1>1 DEF Shut

Running  == EngType(eng) /\ Sound(ctx, fed)
Closing  == IF Splits THEN Settled(ctx, fed \o tail) ELSE Shut(ctx, fed, tail, late)
Flow     == /\ pc \in {"step", "close"} => Running
            /\ pc = "finish" => Closing
            /\ pc = "ended" => ContentIsDelivered
FlowInv  == conf \in Setups /\ (OneStage => Flow)

LEMMA RunningNext ==
  ASSUME conf' = conf, NEW v, WorkOk(v), eng' = v.e, ctx' = v.g, fed' = v.fed
  PROVE  Running'
<1>1. EngType(v.e)' /\ Sound(v.g, v.fed)'
  BY EngSame, SoundSame DEF WorkOk
<1> QED BY <1>1 DEF Running

LEMMA EngineType == ASSUME conf \in Setups PROVE EngType(Engine)
<1>1. Len(conf.open) \in Nat
  BY SetupIs DEF Bytes
<1>2. 0 \in 0 .. Len(conf.open)
  BY <1>1
<1>3. << >> \in Bytes /\ JvType(Start)
  BY EmptySeq, StartType DEF Bytes
<1> DEFINE e == Engine
<1>4. DOMAIN e = EngFields
  BY DEF Engine, EngFields
<1>5. e.phase \in Phases /\ e.tag_possible \in BOOLEAN
  BY DEF Engine, Phases, Tagged
<1>6. e.tag_match = 0 /\ e.jv = Start /\ e.doc = << >>
  BY DEF Engine
<1> HIDE DEF e
<1>7. EngType(e)
  BY <1>2, <1>3, <1>4, <1>5, <1>6 DEF EngType
<1> QED BY <1>7 DEF e

LEMMA ContextResponse == Response(Context)
<1>1. << >> \in Bytes /\ << >> \in Seq(Item) /\ << >> \in Seq(Bytes) /\ << >> \o << >> = << >>
  BY EmptySeq, ConcatEmptySeq DEF Bytes
<1>2. ContextType(Context)
  BY <1>1 DEF Context, ContextType, ContextFields, Kinds
<1>3. ItemsOk(Context)
  BY <1>1 DEF Context, ItemsOk, Alternate
<1>4. FlattenSeq(<< >>) = << >>
  BY FlattenFacts
<1>5. StreamOf(<< >>, << >>, << >>)
  BY <1>1, <1>4 DEF StreamOf, Boundaries
<1>6. \A k \in Kinds : DeltasIn(Context.items, k) = << >> /\ Context.u8_pend[k] = << >> /\ Channel(Context, k) = << >>
  BY DeltasNone DEF Context, Kinds, Channel
<1> QED BY <1>2, <1>3, <1>5, <1>6 DEF Response, Streams

LEMMA NoneInNone ==
  ASSUME NEW word, word \in Bytes
  PROVE  FirstAt(word, << >>) = 0
<1>1. << >> \in Bytes /\ Len(<< >>) = 0
  BY EmptySeq DEF Bytes
<1>2. FirstAt(word, << >>) \in 0 .. Len(<< >>)
  BY <1>1, FirstAtIs
<1> QED BY <1>1, <1>2

LEMMA FlowInit == Init => FlowInv
<1> SUFFICES ASSUME Init PROVE FlowInv
  OBVIOUS
<1>1. conf \in Setups /\ pc = "step" /\ ctx = Context /\ fed = << >>
  BY DEF Init
<1>2. EngType(eng)
  <2>1. EngType(Engine) /\ EngType(InThink(Engine))
    BY <1>1, EngineType, InThinkType
  <2> QED BY <2>1 DEF Init
<1>3. << >> \in Bytes /\ << >> \o << >> = << >>
  BY EmptySeq, ConcatEmptySeq DEF Bytes
<1>4. /\ ~Context.stopped /\ Context.hold = << >> /\ Context.buf = << >> /\ Context.out = << >>
      /\ Context.reason = << >> /\ Context.split \in {"content", "think"}
      /\ (~Splits => Context.split = "content")
  BY DEF Context
<1>5. ASSUME Splits PROVE Settled(Context, << >>)
  <2>1. Tagged
    BY <1>5 DEF Splits
  <2>2. FirstAt(TagOf(Context.split), << >>) = 0
    <3>1. TagOf(Context.split) \in Bytes
      BY <1>1, <2>1, TagIs
    <3> QED BY <3>1, NoneInNone
  <2>3. ASSUME NEW x \in Bytes, NEW k \in Kinds
        PROVE  Reading[<< >> \o x][Context.split][k] = Channel(Context, k) \o Reading[<< >> \o x][Context.split][k]
    <3> DEFINE r == Reading[<< >> \o x][Context.split][k]
    <3>1. << >> \o x \in Bytes
      BY <1>3, Joined DEF Bytes
    <3>2. Context.split \in Sections
      BY <1>4 DEF Sections
    <3>3. r \in Bytes
      <4> DEFINE s == Context.split
                 z == << >> \o x
      <4> HIDE DEF s, z
      <4>1. Reading[z][s][k] \in Bytes
        BY <1>1, <2>1, <3>1, <3>2, ReadsHeard DEF s, z
      <4> QED BY <4>1 DEF s, z
    <3>4. Channel(Context, k) = << >>
      BY <1>4 DEF Channel
    <3> HIDE DEF r
    <3>5. << >> \o r = r
      BY <3>3, ConcatEmptySeq DEF Bytes
    <3> QED BY <3>4, <3>5 DEF r
  <2>4. Owes(Context, Context.split, Context.buf, << >>)
    BY <1>3, <1>4, <2>3 DEF Owes
  <2> QED BY <1>4, <2>2, <2>4, ContextResponse DEF Settled
<1>6. ASSUME ~Splits PROVE Direct(Context, << >>)
  <2>1. StopsIn(<< >>) = {}
    BY <1>3, StopsInIs
  <2>2. Quiet(<< >>, Len(<< >>))
    BY DEF Quiet
  <2>3. Filtered(Context, << >>)
    BY <1>3, <1>4, <2>1, <2>2 DEF Filtered
  <2> QED BY <1>4, <1>6, <2>3, ContextResponse DEF Direct
<1>7. Running
  BY <1>1, <1>2, <1>5, <1>6 DEF Running, Sound
<1> QED BY <1>1, <1>7 DEF FlowInv, Flow

LEMMA WorkIs ==
  /\ Work.e = eng /\ Work.g = ctx /\ Work.fed = fed /\ Work.prelude = prelude /\ DOMAIN Work = WorkFields
  /\ (Running <=> WorkOk(Work))
  BY DEF Work, WorkFields, WorkOk, Running

LEMMA AcceptIs ==
  ASSUME conf \in Setups, OneStage, Running, NEW t, t \in conf.tokens, NEW f, EngType(f.eng),
         f.hidden \in 0 .. Len(t.bytes)
  PROVE  WorkOk(Accept(t, f))
<1> DEFINE u == [Work EXCEPT !.e = f.eng]
           a == Shown(t, f.hidden)[1]
           b == Shown(t, f.hidden)[2]
           v == GenCollect(u, a, FALSE)
<1>1. WorkOk(u)
  BY WorkIs, EngineChange
<1>2. t.bytes \in Bytes
  BY SetupIs
<1>3. a \in Bytes /\ b \in Bytes
  <2>1. UpTo(t.bytes, f.hidden) \in Bytes /\ From(t.bytes, f.hidden + 1) \in Bytes /\ << >> \in Bytes
    BY <1>2, Cut, EmptySeq DEF Bytes
  <2> QED BY <1>2, <2>1 DEF Shown
<1>4. Accept(t, f) = GenCollect(v, b, FALSE)
  BY DEF Accept
<1> HIDE DEF u, a, b
<1>5. WorkOk(v)
  BY <1>1, <1>3, CollectIs
<1> HIDE DEF v
<1> QED BY <1>3, <1>4, <1>5, CollectIs

LEMMA SampleRuns ==
  ASSUME conf \in Setups, OneStage, Running, NEW t \in conf.tokens, Sample(t)
  PROVE  Running'
<1> DEFINE f == IF conf.json /\ t.kind = "text" THEN ConstraintFeed(eng, t.bytes)
                ELSE [eng |-> eng, hidden |-> 0]
           a == Accept(t, f)
           c == ControlAccept(t, a)
           v == CountPrelude(c)
<1>1. GenStep(v)
  BY DEF Sample
<1>2. t.bytes \in Bytes
  BY SetupIs
<1>3. EngType(eng)
  BY DEF Running
<1>4. Len(t.bytes) \in Nat
  BY <1>2, CutEnds DEF Bytes
<1>5. EngType(f.eng) /\ f.hidden \in 0 .. Len(t.bytes)
  <2>1. CASE conf.json /\ t.kind = "text"
    <3> DEFINE r == ConstraintFeed(eng, t.bytes)
    <3>1. Constrained(r, t.bytes)
      BY <1>2, <1>3, ConstraintFeedIs
    <3> HIDE DEF r
    <3>2. f = r
      BY <2>1 DEF r
    <3> HIDE DEF f
    <3> QED BY <3>1, <3>2 DEF Constrained
  <2>2. CASE ~(conf.json /\ t.kind = "text")
    <3>1. f.eng = eng /\ f.hidden = 0
      BY <2>2
    <3> HIDE DEF f
    <3> QED BY <1>3, <1>4, <3>1
  <2> QED BY <2>1, <2>2
<1> HIDE DEF f
<1>6. WorkOk(a)
  BY <1>5, AcceptIs
<1> HIDE DEF a
<1>7. WorkOk(c)
  BY <1>6, ControlAcceptIs
<1> HIDE DEF c
<1>8. WorkOk(v)
  BY <1>7, CountPreludeIs
<1> HIDE DEF v
<1>9. conf' = conf /\ eng' = v.e /\ ctx' = v.g /\ fed' = v.fed
  BY <1>1 DEF GenStep
<1> QED BY <1>8, <1>9, RunningNext

LEMMA CloseCloses ==
  ASSUME conf \in Setups, OneStage, Running, ConstraintClose
  PROVE  Closing'
<1> DEFINE e == IF conf.json /\ eng.phase # "output" THEN PayloadReset(eng) ELSE eng
           bytes == IF conf.json THEN Close(e.jv) ELSE << >>
           u == [Work EXCEPT !.e = e]
           w == GenCollect(u, bytes, TRUE)
<1>1. ctx' = w.g /\ tail' = bytes /\ late' = ctx.hold /\ fed' = fed /\ conf' = conf
  BY DEF ConstraintClose
<1>2. EngType(e)
  <2>1. EngType(eng)
    BY DEF Running
  <2>2. EngType(PayloadReset(eng))
    BY <2>1, PayloadResetIs
  <2> QED BY <2>1, <2>2
<1>3. u.g = ctx /\ DOMAIN u = WorkFields
  BY WorkIs DEF WorkFields
<1> HIDE DEF e
<1>4. bytes \in Bytes
  <2>1. JvType(e.jv)
    BY <1>2 DEF EngType
  <2>2. Close(e.jv) \in Bytes
    BY <2>1, CloseType
  <2> QED BY <2>2, EmptySeq DEF Bytes
<1> HIDE DEF bytes, u
<1>5. Sound(ctx, fed)
  BY DEF Running
<1>6. Splits' <=> Splits
  BY <1>1, ReadingSame
<1>7. CASE Splits
  <2>1. conf.stops = {} /\ Settled(u.g, fed)
    BY <1>3, <1>5, <1>7 DEF OneStage, Sound
  <2>2. Settled(w.g, fed \o bytes)
    <3> DEFINE c == TRUE
    <3>1. c \in BOOLEAN
      OBVIOUS
    <3> HIDE DEF c
    <3> DEFINE x == GenCollect(u, bytes, c)
    <3>2. Settled(x.g, fed \o bytes)
      BY <1>3, <1>4, <1>7, <2>1, <3>1, CollectSplit
    <3> HIDE DEF x
    <3> QED BY <3>2 DEF x, c
  <2> DEFINE g == w.g
             now == fed \o bytes
  <2>3. ctx' = g /\ fed' \o tail' = now /\ Settled(g, now)
    BY <1>1, <2>2
  <2> HIDE DEF g, now
  <2>4. \A x, y : Settled(x, y)' <=> Settled(x, y)
    BY <1>1, SettledSame
  <2>5. Settled(ctx, fed \o tail)'
    BY <2>3, <2>4
  <2> QED BY <1>6, <1>7, <2>5 DEF Closing
<1>8. CASE ~Splits
  <2>1. Direct(ctx, fed)
    BY <1>5, <1>8 DEF Sound
  <2> DEFINE h == EmitChannel(ctx, FALSE, bytes)
  <2>2. w.g = IF bytes = << >> THEN ctx ELSE h
    BY <1>3, <1>8 DEF GenCollect, GenEmit, WorkFields
  <2> HIDE DEF w
  <2>3. /\ Response(ctx) /\ ctx.split = "content" /\ ctx.buf = << >> /\ ctx.reason = << >>
        /\ Filtered(ctx, fed)
    BY <2>1 DEF Direct
  <2>4. ctx.out \in Bytes /\ ctx.hold \in Bytes /\ fed \in Bytes /\ ctx.out \o << >> = ctx.out
    BY <2>3, ConcatEmptySeq DEF Response, ContextType, Filtered, Bytes
  <2>5. /\ Response(w.g) /\ w.g.split = "content" /\ w.g.buf = << >> /\ w.g.reason = << >>
        /\ w.g.stopped = ctx.stopped /\ w.g.hold = ctx.hold /\ w.g.out = ctx.out \o bytes
    <3>1. CASE bytes = << >>
      BY <2>2, <2>3, <2>4, <3>1
    <3>2. CASE bytes # << >>
      <4> DEFINE b == FALSE
                 g == ctx
                 z == EmitChannel(g, b, bytes)
      <4>1. b \in BOOLEAN /\ h = z /\ Response(g) /\ g = ctx
        BY <2>3
      <4> HIDE DEF b, g, h
      <4>2. Response(z) /\ Untouched(g, z)
        BY <1>4, <4>1, EmitIs
      <4>3. z.out = IF b THEN g.out ELSE g.out \o bytes
        BY <1>4, <4>1, EmitIs
      <4>4. z.reason = IF b THEN g.reason \o bytes ELSE g.reason
        BY <1>4, <4>1, EmitIs
      <4> HIDE DEF z
      <4>5. w.g = z
        BY <2>2, <3>2, <4>1
      <4>6. z.out = ctx.out \o bytes /\ z.reason = ctx.reason
        BY <4>1, <4>3, <4>4 DEF b
      <4>7. z.split = ctx.split /\ z.buf = ctx.buf /\ z.hold = ctx.hold /\ z.stopped = ctx.stopped
        BY <4>1, <4>2 DEF Untouched
      <4> QED BY <2>3, <4>2, <4>5, <4>6, <4>7
    <3> QED BY <3>1, <3>2
  <2> HIDE DEF h
  <2>6. Shut(w.g, fed, bytes, ctx.hold)
    <3>1. CASE ctx.stopped
      BY <1>4, <2>3, <2>4, <2>5, <3>1 DEF Shut, Filtered
    <3>2. CASE ~ctx.stopped
      <4>1. StopsIn(fed) = {} /\ fed = ctx.out \o ctx.hold
        BY <2>3, <3>2 DEF Filtered
      <4>2. \E a \in Bytes : fed = a \o w.g.hold /\ w.g.out = a \o bytes
        BY <2>4, <2>5, <4>1
      <4> QED BY <1>4, <2>4, <2>5, <3>2, <4>1, <4>2 DEF Shut
    <3> QED BY <3>1, <3>2
  <2>7. Shut(ctx, fed, tail, late)'
    <3>1. \A g, s, t, l : Shut(g, s, t, l)' <=> Shut(g, s, t, l)
      BY <1>1, ShutSame
    <3> DEFINE g == w.g
               l == ctx.hold
    <3>2. Shut(g, fed, bytes, l) /\ ctx' = g /\ fed' = fed /\ tail' = bytes /\ late' = l
      BY <1>1, <2>6
    <3> HIDE DEF g, l
    <3> QED BY <3>1, <3>2
  <2> QED BY <1>6, <1>8, <2>7 DEF Closing
<1> QED BY <1>7, <1>8

\* What a finished response owes: the text c up to its first stop and the closing
\* bytes, and the reasoning r.
Outcome(g, c, r, t) ==
  /\ g.out = BeforeStop(c) \o t /\ g.reason = r /\ g.stopped = (StopsIn(c) # {}) /\ Delivered(g)

LEMMA OutcomeSame == ASSUME conf' = conf PROVE \A g, c, r, t : Outcome(g, c, r, t)' <=> Outcome(g, c, r, t)
<1> TAKE g, c, r, t
<1>1. (Delivered(g)' <=> Delivered(g)) /\ StopsIn(c)' = StopsIn(c) /\ BeforeStop(c)' = BeforeStop(c)
  <2>1. Delivered(g)' <=> Delivered(g)
    BY DEF Delivered
  <2> QED BY <2>1, StopsSame
<1> QED BY <1>1 DEF Outcome

LEMMA SaidSame == ASSUME conf' = conf, fed' = fed, tail' = tail PROVE Said' = Said /\ Appended' = Appended
  BY ReadingSame DEF Said, Appended

LEMMA OutcomeDelivers == OneStage /\ Outcome(ctx, Said.content, Said.reason, Appended) => ContentIsDelivered
<1> SUFFICES ASSUME OneStage, Outcome(ctx, Said.content, Said.reason, Appended) PROVE ContentIsDelivered
  OBVIOUS
<1>1. /\ ctx.out = BeforeStop(Said.content) \o Appended /\ ctx.reason = Said.reason
      /\ ctx.stopped = (StopsIn(Said.content) # {}) /\ Delivered(ctx)
  BY DEF Outcome
<1>2. \A k : Deltas(k) = DeltasIn(ctx.items, k)
  BY DEF Deltas, DeltasIn, Column
<1>3. ASSUME conf.api # "buffered"
      PROVE  /\ FlattenSeq(Deltas("content")) = ctx.out /\ FlattenSeq(Deltas("reason")) = ctx.reason
             /\ \A kind \in {"content", "reason"} :
                  \A i \in 2 .. Len(Deltas(kind)) : Whole(Deltas(kind)[i - 1]) \/ Deltas(kind)[i][1] # Further
             /\ \A i \in 2 .. Len(ctx.items) : ctx.items[i].kind # ctx.items[i - 1].kind
             /\ ~ctx.item_open
  <2>1. /\ \A k \in Kinds : FlattenSeq(DeltasIn(ctx.items, k)) = Channel(ctx, k) /\ Boundaries(DeltasIn(ctx.items, k))
        /\ Alternate(ctx.items) /\ ~ctx.item_open
    BY <1>1, <1>3 DEF Delivered
  <2>2. \A k \in Kinds : FlattenSeq(Deltas(k)) = Channel(ctx, k) /\ Boundaries(Deltas(k))
    BY <1>2, <2>1
  <2>3. FlattenSeq(Deltas("content")) = ctx.out /\ FlattenSeq(Deltas("reason")) = ctx.reason
    BY <2>2 DEF Kinds, Channel
  <2> QED BY <2>1, <2>2, <2>3 DEF Kinds, Boundaries, Alternate
<1> HIDE DEF Outcome
<1> QED BY <1>1, <1>3 DEF ContentIsDelivered

LEMMA FinishDelivers ==
  ASSUME conf \in Setups, OneStage, Closing, Finish, ~Overtaken
  PROVE  Outcome(ctx', Said.content, Said.reason, Appended)
<1> DEFINE w == ThinkFinish(Work)
           h == GiveUp(w.g)
<1>1. ctx' = h
  BY DEF Finish
<1>2. Work.g = ctx /\ Work.fed = fed /\ DOMAIN Work = WorkFields
  BY WorkIs
<1>3. CASE Splits
  <2> DEFINE said == fed \o tail
  <2>1. conf.stops = {} /\ Appended = << >> /\ Settled(ctx, said)
    BY <1>3 DEF OneStage, Closing, Appended
  <2> HIDE DEF said
  <2>2. Response(w.g) /\ ~w.g.stopped /\ w.g.hold = << >>
        /\ \A k \in Kinds : Channel(w.g, k) = Reading[said][Context.split][k]
    <3> DEFINE v == Work
    <3>1. DOMAIN v = WorkFields /\ Settled(v.g, said)
      BY <1>2, <2>1
    <3> HIDE DEF v
    <3> DEFINE z == ThinkFinish(v)
    <3>2. Response(z.g) /\ ~z.g.stopped /\ z.g.hold = << >>
          /\ \A k \in Kinds : Channel(z.g, k) = Reading[said][Context.split][k]
      BY <1>3, <2>1, <3>1, FinishSplit
    <3> HIDE DEF z
    <3> QED BY <3>1, <3>2 DEF z, v
  <2> HIDE DEF w
  <2>3. Delivered(h) /\ h.reason = w.g.reason /\ h.stopped = w.g.stopped
    BY <2>2, GiveUpIs
  <2>4. h.out = IF w.g.stopped THEN w.g.out ELSE w.g.out \o w.g.hold
    BY <2>2, GiveUpIs
  <2> HIDE DEF h
  <2>5. w.g.out \in Bytes /\ w.g.out \o << >> = w.g.out
    BY <2>2, ConcatEmptySeq DEF Response, ContextType, Bytes
  <2>6. Said.content = w.g.out /\ Said.reason = w.g.reason
    BY <1>3, <2>2 DEF Said, Channel, Kinds, said
  <2>7. \A x : StopsIn(x) = {}
    BY <2>1 DEF StopsIn
  <2>8. BeforeStop(Said.content) \o Appended = w.g.out
    BY <2>1, <2>5, <2>6, <2>7 DEF BeforeStop
  <2>9. h.out = w.g.out
    BY <2>2, <2>4, <2>5
  <2>10. h.stopped = (StopsIn(Said.content) # {})
    <3>1. h.stopped = FALSE
      <4>1. w.g.stopped \in BOOLEAN
        BY <2>2 DEF Response, ContextType
      <4> QED BY <2>2, <2>3, <4>1
    <3> QED BY <2>7, <3>1
  <2> QED BY <1>1, <2>3, <2>6, <2>8, <2>9, <2>10 DEF Outcome
<1>4. CASE ~Splits
  <2>1. Shut(ctx, fed, tail, late)
    BY <1>4 DEF Closing
  <2>2. /\ Response(ctx) /\ ctx.split = "content" /\ ctx.buf = << >> /\ ctx.reason = << >>
        /\ fed \in Bytes /\ tail \in Bytes
        /\ IF ctx.stopped THEN ctx.hold = << >> /\ StopsIn(fed) # {} /\ ctx.out = BeforeStop(fed) \o tail
           ELSE /\ late = ctx.hold /\ StopsIn(fed) = {}
                /\ \E a \in Bytes : fed = a \o ctx.hold /\ ctx.out = a \o tail
    BY <2>1 DEF Shut
  <2>3. Response(w.g) /\ w.g.out = ctx.out /\ w.g.reason = << >> /\ w.g.stopped = ctx.stopped /\ w.g.hold = ctx.hold
    <3> DEFINE v == Work
               u == [v EXCEPT !.g.buf = << >>]
    <3>1. DOMAIN v = WorkFields /\ v.g = ctx
      BY <1>2
    <3>2. w = u
      BY <2>2, <3>1 DEF ThinkFinish, GenEmit
    <3>3. << >> \in Bytes
      BY EmptySeq DEF Bytes
    <3>4. Response(v.g)
      BY <2>2, <3>1
    <3> HIDE DEF v, w
    <3>5. Response(u.g) /\ u.g.stopped = v.g.stopped /\ u.g.hold = v.g.hold
          /\ \A k \in Kinds : Channel(u.g, k) = Channel(v.g, k)
      BY <3>1, <3>3, <3>4, BufIs
    <3> HIDE DEF u
    <3> QED BY <2>2, <3>1, <3>2, <3>5 DEF Channel, Kinds
  <2> HIDE DEF w
  <2>4. Delivered(h) /\ h.reason = w.g.reason /\ h.stopped = w.g.stopped
    BY <2>3, GiveUpIs
  <2>5. h.out = IF w.g.stopped THEN w.g.out ELSE w.g.out \o w.g.hold
    BY <2>3, GiveUpIs
  <2> HIDE DEF h
  <2>6. fed \o << >> = fed
    BY <2>2, ConcatEmptySeq DEF Bytes
  <2>7. Said.content = fed /\ Said.reason = << >> /\ Appended = tail
    BY <1>4, <2>6 DEF Said, Says, Silence, Appended
  <2>8. h.stopped = (StopsIn(fed) # {})
    <3>1. ctx.stopped \in BOOLEAN
      BY <2>2 DEF Response, ContextType
    <3> QED BY <2>2, <2>3, <2>4, <3>1
  <2>9. h.out = BeforeStop(fed) \o tail
    <3>1. CASE ctx.stopped
      BY <2>2, <2>3, <2>5, <3>1
    <3>2. CASE ~ctx.stopped
      <4>1. PICK a \in Bytes : fed = a \o ctx.hold /\ ctx.out = a \o tail
        BY <2>2, <3>2
      <4>2. BeforeStop(fed) = fed
        BY <2>2, <3>2 DEF BeforeStop
      <4>3. h.out = (a \o tail) \o ctx.hold
        BY <2>3, <2>5, <3>2, <4>1
      <4>4. ctx.hold \in Bytes
        BY <2>2 DEF Response, ContextType
      <4>5. tail = << >> \/ ctx.hold = << >>
        BY <2>2, <3>2 DEF Overtaken
      <4>6. \A x \in Bytes : x \o << >> = x
        BY ConcatEmptySeq DEF Bytes
      <4>7. a \o tail \in Bytes
        BY <2>2, Joined DEF Bytes
      <4>8. (a \o tail) \o ctx.hold = fed \o tail
        <5>1. CASE tail = << >>
          BY <2>6, <4>1, <4>6, <5>1
        <5>2. CASE ctx.hold = << >>
          BY <4>1, <4>6, <4>7, <5>2
        <5> QED BY <4>5, <5>1, <5>2
      <4> QED BY <4>2, <4>3, <4>8
    <3> QED BY <3>1, <3>2
  <2> QED BY <1>1, <2>3, <2>4, <2>7, <2>8, <2>9 DEF Outcome
<1> QED BY <1>3, <1>4

LEMMA FinishStep ==
  ASSUME conf \in Setups, OneStage, Closing, Finish
  PROVE  ContentIsDelivered'
<1>1. conf' = conf /\ fed' = fed /\ tail' = tail /\ late' = late
  BY DEF Finish
<1>2. OneStage'
  BY <1>1, ReadingSame DEF OneStage
<1>3. CASE Overtaken
  <2>1. Overtaken'
    BY <1>1, <1>3 DEF Overtaken
  <2> QED BY <2>1 DEF ContentIsDelivered
<1>4. CASE ~Overtaken
  <2>1. Outcome(ctx', Said.content, Said.reason, Appended)
    BY <1>4, FinishDelivers
  <2>2. Said' = Said /\ Appended' = Appended
    BY <1>1, SaidSame
  <2>3. Outcome(ctx, Said.content, Said.reason, Appended)'
    <3> DEFINE g == ctx'
               c == Said.content
               r == Said.reason
               z == Appended
    <3>1. \A x, y, q, t : Outcome(x, y, q, t)' <=> Outcome(x, y, q, t)
      BY <1>1, OutcomeSame
    <3>2. ctx' = g /\ Said.content' = c /\ Said.reason' = r /\ Appended' = z
      BY <1>1, <2>2
    <3>3. Outcome(g, c, r, z)
      BY <2>1
    <3> HIDE DEF g, c, r, z
    <3> QED BY <3>1, <3>2, <3>3
  <2>4. (OneStage /\ Outcome(ctx, Said.content, Said.reason, Appended) => ContentIsDelivered)'
    BY OutcomeDelivers, PTL
  <2> QED BY <1>2, <2>3, <2>4
<1> QED BY <1>3, <1>4

LEMMA FlowStep == FlowInv /\ [Next]_vars => FlowInv'
<1> SUFFICES ASSUME FlowInv, [Next]_vars PROVE FlowInv'
  OBVIOUS
<1>1. conf \in Setups
  BY DEF FlowInv
<1>2. conf' = conf
  BY DEF Next, vars, StepDone, SampleStop, Sample, GenStep, ConstraintClose, Finish, Ended, Leave
<1>3. conf' \in Setups /\ (OneStage' <=> OneStage)
  BY <1>1, <1>2, ReadingSame DEF OneStage
<1> SUFFICES ASSUME OneStage PROVE Flow'
  BY <1>3 DEF FlowInv
<1>4. Flow
  BY DEF FlowInv
<1>5. CASE StepDone \/ SampleStop
  <2>1. Running /\ eng' = eng /\ ctx' = ctx /\ fed' = fed /\ prelude' = prelude
    BY <1>4, <1>5 DEF StepDone, SampleStop, Flow
  <2>2. pc' = "close"
    BY <1>5 DEF StepDone, SampleStop, Leave
  <2> DEFINE v == Work
  <2>3. WorkOk(v) /\ eng' = v.e /\ ctx' = v.g /\ fed' = v.fed
    BY <2>1, WorkIs
  <2> HIDE DEF v
  <2>4. Running'
    BY <1>2, <2>3, RunningNext
  <2> QED BY <2>2, <2>4 DEF Flow
<1>6. ASSUME NEW t \in conf.tokens, Sample(t) PROVE Flow'
  <2>1. Running /\ pc' \in {"step", "close"}
    BY <1>4, <1>6 DEF Sample, GenStep, Flow
  <2>2. Running'
    BY <1>1, <1>6, <2>1, SampleRuns
  <2> QED BY <2>1, <2>2 DEF Flow
<1>7. CASE ConstraintClose
  <2>1. Running /\ pc' = "finish"
    BY <1>4, <1>7 DEF ConstraintClose, Flow
  <2>2. Closing'
    BY <1>1, <1>7, <2>1, CloseCloses
  <2> QED BY <2>1, <2>2 DEF Flow
<1>8. CASE Finish
  <2>1. Closing /\ pc' = "ended"
    BY <1>4, <1>8 DEF Finish, Flow
  <2>2. ContentIsDelivered'
    BY <1>1, <1>8, <2>1, FinishStep
  <2> QED BY <2>1, <2>2 DEF Flow
<1>9. CASE UNCHANGED vars
  <2> USE <1>9 DEF vars
  <2>1. Running => Running'
    <3> SUFFICES ASSUME Running PROVE Running'
      OBVIOUS
    <3> DEFINE v == Work
    <3>1. WorkOk(v) /\ eng' = v.e /\ ctx' = v.g /\ fed' = v.fed
      BY WorkIs
    <3> HIDE DEF v
    <3> QED BY <1>2, <3>1, RunningNext
  <2>2. Closing => Closing'
    <3>1. (\A g, s : Settled(g, s)' <=> Settled(g, s)) /\ (\A g, s, t, l : Shut(g, s, t, l)' <=> Shut(g, s, t, l))
      BY <1>2, SettledSame, ShutSame
    <3>2. (Splits' <=> Splits) /\ ctx' = ctx /\ fed' = fed /\ tail' = tail /\ late' = late
      BY <1>2, ReadingSame
    <3> QED BY <3>1, <3>2 DEF Closing
  <2>3. ContentIsDelivered => ContentIsDelivered'
    <3>1. (OneStage' <=> OneStage) /\ (Overtaken' <=> Overtaken)
      BY DEF OneStage, Splits, Tagged, Overtaken
    <3>2. Said' = Said /\ Appended' = Appended /\ \A s : StopsIn(s)' = StopsIn(s) /\ BeforeStop(s)' = BeforeStop(s)
      BY <1>2, SaidSame, StopsSame
    <3>3. \A k : Deltas(k)' = Deltas(k)
      BY DEF Deltas
    <3> DEFINE c == Said.content
               r == Said.reason
    <3>4. Said'.content = c /\ Said'.reason = r
      BY <3>2
    <3>5. StopsIn(Said.content)' = StopsIn(c) /\ BeforeStop(Said.content)' = BeforeStop(c)
      <4> HIDE DEF c
      <4> QED BY <3>2, <3>4
    <3> HIDE DEF c, r
    <3> QED BY <3>1, <3>2, <3>3, <3>4, <3>5 DEF ContentIsDelivered, c, r
  <2> QED BY <1>4, <2>1, <2>2, <2>3 DEF Flow
<1> QED BY <1>5, <1>6, <1>7, <1>8, <1>9 DEF Next, Ended

\* However its bytes are cut into tokens, a finished response carries what was said up
\* to the first stop, each byte once, in order and in its own channel, followed by the
\* closing bytes alone, and a stream carries the same in its items (think_feed,
\* stop_feed, sse_send_delta and their ends): for every vocabulary, set of stops, pair
\* of tags and budget, in responses that are split or filtered but not both.
THEOREM SplitOrFilteredIsDelivered == Spec => [](OneStage => ContentIsDelivered)
<1>1. FlowInv => (OneStage => ContentIsDelivered)
  <2> SUFFICES ASSUME FlowInv, OneStage PROVE ContentIsDelivered
    OBVIOUS
  <2>1. pc = "ended" => ContentIsDelivered
    BY DEF FlowInv, Flow
  <2>2. pc # "ended" => ContentIsDelivered
    BY DEF ContentIsDelivered
  <2> QED BY <2>1, <2>2
<1> QED BY <1>1, FlowInit, FlowStep, PTL DEF Spec

-----------------------------------------------------------------------------
(* The validator and the client's document, for a response that is not split. *)

\* A document begins at its first byte, or has none.
Starts(doc) == doc = << >> \/ doc[1] = Brace

\* The client has, or will be given, the document; it has none before the output.
Document(e, g) ==
  /\ e.doc = g.out \o g.hold /\ Starts(e.doc)
  /\ e.phase # "output" => e.doc = << >>

Kept(v) == Document(v.e, v.g) /\ (~v.g.stopped /\ v.e.doc = << >> => v.e.jv = Start)

DocInv ==
  conf.json /\ ~Splits =>
    /\ pc \in {"step", "close"} => Document(eng, ctx)
    /\ pc = "step" => ~ctx.stopped /\ ~DocumentDone(eng) /\ (eng.doc = << >> => eng.jv = Start)

LEMMA StartsTrimmed ==
  ASSUME NEW doc, doc \in Bytes, Starts(doc)
  PROVE  Trim(doc) = doc
<1>1. Len(doc) \in Nat /\ From(doc, 1) = doc /\ (Len(doc) = 0 <=> doc = << >>)
  BY CutEnds DEF Bytes
<1>2. 0 < Len(doc) => ~Space(doc[1])
  <2>1. ~Space(Brace)
    BY DEF Space, Ws, Brace
  <2>2. 0 < Len(doc) => doc[1] = Brace
    <3> SUFFICES ASSUME 0 < Len(doc) PROVE doc[1] = Brace
      OBVIOUS
    <3>1. Len(doc) # 0
      BY <1>1
    <3>2. doc # << >>
      BY <1>1, <3>1
    <3> QED BY <3>2 DEF Starts
  <2> QED BY <2>1, <2>2
<1>3. 0 \in 0 .. Len(doc) /\ 0 + 1 = 1
  BY <1>1
<1>4. \A i \in 1 .. 0 : Space(doc[i])
  OBVIOUS
<1>5. Spaces(doc) = 0
  BY <1>2, <1>3, <1>4, SpacesAre
<1> QED BY <1>1, <1>5 DEF Trim

\* Truncation brings the validator back to what the client has.
LEMMA DocumentCut ==
  ASSUME conf \in Setups, conf.json, NEW w, NEW v, NEW bytes, EngType(w.e), w.e.phase = "output",
         w.e.doc = (w.g.out \o w.g.hold) \o bytes, Starts(w.e.doc), Cuts(w, v, bytes), v.g.hold = << >>
  PROVE  Document(v.e, v.g) /\ v.e.phase = "output"
<1> DEFINE all == w.e.doc
<1>1. PICK n \in 1 .. Len(all) : v.g.out = UpTo(all, Len(all) - n) /\ v.e = Truncate(w.e, n)
  BY DEF Cuts
<1>2. all \in Bytes /\ Len(all) \in Nat /\ (Len(all) = 0 <=> all = << >>)
  BY CutEnds DEF EngType, Bytes
<1>3. n \in Nat /\ Len(all) - n \in 0 .. Len(all) /\ n >= 1 /\ n <= Len(all) /\ Len(all) # 0
  <2> DEFINE l == Len(all)
  <2>1. l \in Nat /\ n \in 1 .. l
    BY <1>2
  <2> HIDE DEF l
  <2>2. n \in Nat /\ l - n \in 0 .. l /\ n >= 1 /\ n <= l /\ l # 0
    BY <2>1
  <2> QED BY <2>2 DEF l
<1>4. all # << >>
  BY <1>2, <1>3
<1> DEFINE f == Truncate(w.e, n)
<1>5. f.phase = w.e.phase
  BY <1>3, TruncateIs
<1>6. f.doc = IF n >= Len(all) THEN << >> ELSE UpTo(all, Len(all) - n)
  BY <1>3, <1>4, TruncateIs
<1> HIDE DEF f
<1>7. f.doc = UpTo(all, Len(all) - n)
  <2>1. UpTo(all, 0) = << >>
    BY <1>2, CutEnds DEF Bytes
  <2>2. n >= Len(all) => Len(all) - n = 0
    <3> DEFINE l == Len(all)
    <3>1. l \in Nat /\ n \in Nat /\ n <= l
      BY <1>2, <1>3
    <3> HIDE DEF l
    <3>2. n >= l => l - n = 0
      BY <3>1
    <3> QED BY <3>2 DEF l
  <2> QED BY <1>6, <2>1, <2>2
<1>8. v.e = f /\ v.e.doc = v.g.out
  BY <1>1, <1>7 DEF f
<1> DEFINE k == Len(all) - n
<1>9. k \in 0 .. Len(all)
  BY <1>3
<1> HIDE DEF all, k
<1>10. UpTo(all, k) \in Bytes /\ Len(UpTo(all, k)) = k /\ \A i \in 1 .. k : UpTo(all, k)[i] = all[i]
  BY <1>2, <1>9, Cut DEF Bytes
<1>11. Starts(UpTo(all, k))
  <2>1. CASE k = 0
    <3>1. Len(UpTo(all, k)) = 0
      BY <1>10, <2>1
    <3>2. UpTo(all, k) = << >>
      BY <1>10, <3>1, CutEnds DEF Bytes
    <3> QED BY <3>2 DEF Starts
  <2>2. CASE k # 0
    <3>1. 1 \in 1 .. k
      BY <1>2, <1>9, <2>2
    <3> QED BY <1>4, <1>10, <3>1 DEF Starts, all
  <2> QED BY <2>1, <2>2
<1>12. v.e.doc = UpTo(all, k)
  BY <1>7, <1>8 DEF all, k
<1>13. v.g.out \o << >> = v.g.out
  BY <1>8, <1>10, <1>12, ConcatEmptySeq DEF Bytes
<1>14. v.e.phase = "output"
  BY <1>5, <1>8
<1> QED BY <1>8, <1>11, <1>12, <1>13, <1>14 DEF Document

\* The document grows by what the client is sent, or is cut with it.
LEMMA DocumentCollected ==
  ASSUME conf \in Setups, conf.json, ~Splits, Direct(ctx, fed), ~ctx.stopped,
         NEW e, EngType(e), e.phase = "output", NEW bytes, bytes \in Bytes,
         e.doc = (ctx.out \o ctx.hold) \o bytes, Starts(e.doc), e.doc = << >> => e.jv = Start
  PROVE  LET v == GenCollect([Work EXCEPT !.e = e], bytes, FALSE) IN Kept(v) /\ v.e.phase = "output"
<1> DEFINE u == [Work EXCEPT !.e = e]
           v == GenCollect(u, bytes, FALSE)
<1>1. u.e = e /\ u.g = ctx /\ u.fed = fed /\ DOMAIN u = WorkFields
  BY WorkIs DEF WorkFields
<1> HIDE DEF u
<1>2. Collects(u, v, bytes)
  BY <1>1, CollectDirect
<1> HIDE DEF v
<1>3. CASE v.g.stopped
  <2>1. Cuts(u, v, bytes) /\ Direct(v.g, v.fed)
    BY <1>1, <1>2, <1>3 DEF Collects
  <2>2. v.g.hold = << >>
    BY <1>3, <2>1 DEF Direct, Filtered
  <2>3. u.e.doc = (u.g.out \o u.g.hold) \o bytes /\ Starts(u.e.doc) /\ EngType(u.e) /\ u.e.phase = "output"
    BY <1>1
  <2>4. Document(v.e, v.g) /\ v.e.phase = "output"
    BY <2>1, <2>2, <2>3, DocumentCut
  <2>5. Kept(v) /\ v.e.phase = "output"
    BY <1>3, <2>4 DEF Kept
  <2> QED BY <2>5 DEF v, u
<1>4. CASE ~v.g.stopped
  <2>1. v.e = e /\ v.fed = fed \o bytes /\ Direct(v.g, v.fed)
    BY <1>1, <1>2, <1>4 DEF Collects
  <2>2. v.fed = v.g.out \o v.g.hold
    BY <1>4, <2>1 DEF Direct, Filtered
  <2>3. fed = ctx.out \o ctx.hold
    BY DEF Direct, Filtered
  <2>4. Document(v.e, v.g)
    BY <2>1, <2>2, <2>3 DEF Document
  <2>5. Kept(v) /\ v.e.phase = "output"
    BY <2>1, <2>4 DEF Kept
  <2> QED BY <2>5 DEF v, u
<1> QED BY <1>3, <1>4

\* What the constraint layer makes of a token it accepts: the document goes on with the
\* bytes that are shown, or nothing is shown and there is none yet.
Continues(f, text, bytes) ==
  LET shown == From(bytes, f.hidden + 1)
  IN  IF f.eng.phase = "output"
      THEN f.eng.doc = text \o shown /\ Starts(f.eng.doc) /\ (f.eng.doc = << >> => f.eng.jv = Start)
      ELSE Blank(f.eng) /\ text = << >> /\ shown = << >>

LEMMA OpensContinues ==
  ASSUME NEW f, NEW bytes, bytes \in Bytes, BlankOrBegun(f, bytes), Constrained(f, bytes),
         f.eng.jv.st # "refused"
  PROVE  Continues(f, << >>, bytes)
<1> DEFINE h == f.hidden
           shown == From(bytes, h + 1)
<1>1. h \in 0 .. Len(bytes)
  BY DEF Constrained
<1> HIDE DEF h
<1>2. shown \in Bytes
  BY <1>1, Cut DEF Bytes
<1>3. From(bytes, Len(bytes) + 1) = << >>
  BY CutEnds DEF Bytes
<1> HIDE DEF shown
<1>4. << >> \o shown = shown
  BY <1>2, ConcatEmptySeq DEF Bytes
<1>5. CASE f.eng.phase = "output"
  <2>1. f.eng.doc = shown /\ f.eng.jv = Feed(Start, shown)
    BY <1>5 DEF BlankOrBegun, shown, h
  <2>2. Starts(shown)
    <3> SUFFICES ASSUME shown # << >> PROVE shown[1] = Brace
      BY DEF Starts
    <3> QED BY <1>2, <2>1, AcceptedBegins
  <2>3. shown = << >> => f.eng.jv = Start
    BY <2>1, FeedNothing
  <2> QED BY <1>4, <1>5, <2>1, <2>2, <2>3 DEF Continues, shown, h
<1>6. CASE f.eng.phase # "output"
  <2>1. Blank(f.eng) /\ h = Len(bytes)
    BY <1>6 DEF BlankOrBegun, h
  <2>2. shown = << >>
    BY <1>3, <2>1 DEF shown
  <2> QED BY <1>6, <2>1, <2>2 DEF Continues, shown, h
<1> QED BY <1>5, <1>6

LEMMA PayloadContinues ==
  ASSUME NEW e, EngType(e), e.phase = "output", Starts(e.doc), e.doc = << >> => e.jv = Start,
         NEW bytes, bytes \in Bytes, NEW f, f = [eng |-> PayloadFeed(e, bytes), hidden |-> 0],
         f.eng.jv.st # "refused"
  PROVE  Continues(f, e.doc, bytes)
<1> DEFINE d == e.doc
           x == PayloadFeed(e, bytes)
<1>1. EngType(x) /\ x.phase = e.phase /\ x.jv = Feed(e.jv, bytes) /\ x.doc = d \o bytes
  BY PayloadFeedIs
<1>2. d \in Bytes /\ Starts(d) /\ (d = << >> => e.jv = Start)
  BY DEF EngType
<1>3. f.eng = x /\ f.hidden = 0 /\ From(bytes, 1) = bytes
  BY CutEnds DEF Bytes
<1> HIDE DEF x, d
<1>4. d \o bytes \in Bytes /\ Len(d \o bytes) = Len(d) + Len(bytes) /\ Len(d) \in Nat /\ Len(bytes) \in Nat
      /\ \A i \in 1 .. Len(d) : (d \o bytes)[i] = d[i]
  BY <1>2, Joined DEF Bytes
<1>5. (Len(d) = 0 <=> d = << >>) /\ (Len(bytes) = 0 <=> bytes = << >>)
  BY <1>2, CutEnds DEF Bytes
<1>6. Starts(d \o bytes)
  <2>1. CASE d = << >>
    <3>1. d \o bytes = bytes
      BY <2>1, ConcatEmptySeq DEF Bytes
    <3>2. Feed(Start, bytes).st # "refused"
      BY <1>1, <1>2, <1>3, <2>1
    <3>3. bytes # << >> => bytes[1] = Brace
      BY <3>2, AcceptedBegins
    <3> QED BY <3>1, <3>3 DEF Starts
  <2>2. CASE d # << >>
    <3>1. 1 \in 1 .. Len(d)
      BY <1>4, <1>5, <2>2
    <3> QED BY <1>2, <1>4, <2>2, <3>1 DEF Starts
  <2> QED BY <2>1, <2>2
<1>7. d \o bytes = << >> => x.jv = Start
  <2> SUFFICES ASSUME d \o bytes = << >> PROVE x.jv = Start
    OBVIOUS
  <2>1. Len(<< >>) = 0
    OBVIOUS
  <2>2. d = << >> /\ bytes = << >>
    BY <1>4, <1>5, <2>1
  <2>3. x.jv = Feed(Start, << >>)
    BY <1>1, <1>2, <2>2
  <2> QED BY <2>3, FeedNothing
<1>8. From(bytes, f.hidden + 1) = bytes
  BY <1>3
<1>9. Continues(f, d, bytes)
  BY <1>1, <1>3, <1>6, <1>7, <1>8 DEF Continues
<1> QED BY <1>9 DEF d

\* A token the constraint layer accepts, from wherever the model is.
LEMMA FeedContinues ==
  ASSUME conf \in Setups, EngType(eng), Document(eng, ctx), eng.doc = << >> => eng.jv = Start,
         NEW bytes, bytes \in Bytes, NEW f, f = ConstraintFeed(eng, bytes), f.eng.jv.st # "refused"
  PROVE  Constrained(f, bytes) /\ Continues(f, ctx.out \o ctx.hold, bytes)
<1> DEFINE text == ctx.out \o ctx.hold
<1>1. Constrained(f, bytes)
  BY ConstraintFeedIs
<1>2. eng.doc = text /\ Starts(eng.doc)
  BY DEF Document
<1>3. CASE eng.phase \in {"probe", "think"}
  <2>1. eng.doc = << >> /\ Blank(eng)
    BY <1>3 DEF Document, Blank
  <2>2. BlankOrBegun(f, bytes)
    <3>1. CASE eng.phase = "probe"
      <4>1. f = FeedProbe(eng, bytes)
        BY <3>1 DEF ConstraintFeed
      <4>2. BlankOrBegun(FeedProbe(eng, bytes), bytes)
        BY <2>1, <3>1, FeedProbeIs
      <4> QED BY <4>1, <4>2
    <3>2. CASE eng.phase = "think"
      <4>1. f = FeedThink(eng, bytes)
        BY <3>2 DEF ConstraintFeed
      <4>2. BlankOrBegun(FeedThink(eng, bytes), bytes)
        BY <2>1, <3>2, FeedThinkIs
      <4> QED BY <4>1, <4>2
    <3> QED BY <1>3, <3>1, <3>2
  <2>3. Continues(f, << >>, bytes)
    BY <1>1, <2>2, OpensContinues
  <2> QED BY <1>1, <1>2, <2>1, <2>3
<1>4. CASE eng.phase \notin {"probe", "think"}
  <2> DEFINE x == [eng EXCEPT !.phase = "output"]
  <2>1. "output" \in Phases
    BY DEF Phases
  <2>2. EngType(x)
    BY <2>1, PhaseType
  <2>3. x.phase = "output" /\ x.jv = eng.jv /\ x.doc = eng.doc
    BY DEF EngType, EngFields
  <2>4. f = [eng |-> PayloadFeed(x, bytes), hidden |-> 0]
    BY <1>4 DEF ConstraintFeed
  <2> HIDE DEF x
  <2>5. Starts(x.doc) /\ (x.doc = << >> => x.jv = Start)
    BY <1>2, <2>3
  <2>6. Continues(f, x.doc, bytes)
    BY <2>2, <2>3, <2>4, <2>5, PayloadContinues
  <2> QED BY <1>1, <1>2, <2>3, <2>6
<1> QED BY <1>3, <1>4

\* Nothing has been shown.
Still(w) == DOMAIN w = WorkFields /\ EngType(w.e) /\ Blank(w.e) /\ w.g = ctx

LEMMA StillFinished ==
  ASSUME conf \in Setups, ~Splits, NEW w, Still(w)
  PROVE  Still(FinishThink(w))
<1> DEFINE p == IF w.e.phase = "think" THEN "after_think" ELSE "output"
           i == InThink(w.e)
           x == [i EXCEPT !.phase = p]
           e == PayloadReset(x)
           v == FinishThink(w)
<1>1. v = [w EXCEPT !.e = e]
  BY DEF FinishThink
<1>2. p \in Phases
  BY DEF Phases
<1>3. EngType(w.e) /\ DOMAIN w = WorkFields /\ w.g = ctx
  BY DEF Still
<1>4. EngType(i)
  BY <1>3, InThinkType
<1> HIDE DEF p, i
<1>5. EngType(x)
  BY <1>2, <1>4, PhaseType
<1> HIDE DEF x
<1>6. EngType(e) /\ Blank(e)
  BY <1>5, PayloadResetIs DEF Blank
<1> HIDE DEF e, v
<1>7. Still(v)
  BY <1>1, <1>3, <1>6 DEF Still, WorkFields
<1> QED BY <1>7 DEF v

LEMMA StillCounted ==
  ASSUME conf \in Setups, ~Splits, NEW w, Still(w)
  PROVE  Still(CountPrelude(w))
<1> DEFINE more == [w EXCEPT !.prelude = @ + 1]
<1>1. Still(more)
  BY DEF Still, WorkFields
<1>2. CountPrelude(w) \in {w, more, FinishThink(more)}
  BY DEF CountPrelude
<1> HIDE DEF more
<1>3. Still(FinishThink(more))
  BY <1>1, StillFinished
<1> QED BY <1>1, <1>2, <1>3

LEMMA StillControlled ==
  ASSUME conf \in Setups, ~Splits, NEW w, Still(w), NEW t
  PROVE  Still(ControlAccept(t, w))
<1>1. ControlAccept(t, w) \in {w, FinishThink(w)}
  BY DEF ControlAccept
<1>2. Still(FinishThink(w))
  BY StillFinished
<1> QED BY <1>1, <1>2

LEMMA StillKept ==
  ASSUME NEW w, Still(w), ctx.out \o ctx.hold = << >>
  PROVE  Kept(w)
  BY DEF Still, Kept, Document, Starts, Blank

\* Accepting a token: a hidden part, which the client does not get, and a shown one.
LEMMA AcceptsShown ==
  ASSUME conf.json, ~Splits, NEW t, NEW f
  PROVE  Accept(t, f) = GenCollect([Work EXCEPT !.e = f.eng], From(t.bytes, f.hidden + 1), FALSE)
<1> DEFINE u == [Work EXCEPT !.e = f.eng]
           shown == From(t.bytes, f.hidden + 1)
<1>1. Shown(t, f.hidden) = << << >>, shown >>
  BY DEF Shown
<1>2. GenCollect(u, << >>, FALSE) = u
  BY DEF GenCollect
<1>3. Accept(t, f) = GenCollect(GenCollect(u, Shown(t, f.hidden)[1], FALSE), Shown(t, f.hidden)[2], FALSE)
  BY DEF Accept
<1>4. Shown(t, f.hidden)[1] = << >> /\ Shown(t, f.hidden)[2] = shown
  BY <1>1
<1> HIDE DEF u, shown
<1> QED BY <1>2, <1>3, <1>4 DEF u, shown

LEMMA StillAccepted ==
  ASSUME conf \in Setups, conf.json, ~Splits, NEW t, NEW f, EngType(f.eng), Blank(f.eng),
         From(t.bytes, f.hidden + 1) = << >>
  PROVE  Still(CountPrelude(ControlAccept(t, Accept(t, f))))
<1> DEFINE u == [Work EXCEPT !.e = f.eng]
           a == Accept(t, f)
           c == ControlAccept(t, a)
<1>1. DOMAIN u = WorkFields /\ u.e = f.eng /\ u.g = ctx
  BY WorkIs DEF WorkFields
<1>7. a = GenCollect(u, From(t.bytes, f.hidden + 1), FALSE)
  BY AcceptsShown
<1> HIDE DEF u, a
<1>2. GenCollect(u, << >>, FALSE) = u
  BY DEF GenCollect
<1>3. a = u
  BY <1>2, <1>7
<1>4. Still(a)
  BY <1>1, <1>3 DEF Still
<1>5. Still(c)
  BY <1>4, StillControlled
<1> HIDE DEF c
<1>6. Still(CountPrelude(c))
  BY <1>5, StillCounted
<1> QED BY <1>6 DEF c, a

LEMMA SampleDocument ==
  ASSUME conf \in Setups, conf.json, ~Splits, Running, Document(eng, ctx), NEW t \in conf.tokens, Sample(t),
         ~ctx.stopped, ~DocumentDone(eng), eng.doc = << >> => eng.jv = Start
  PROVE  /\ Document(eng, ctx)'
         /\ pc' = "step" => (~ctx.stopped /\ ~DocumentDone(eng) /\ (eng.doc = << >> => eng.jv = Start))'
<1> DEFINE bytes == t.bytes
           text == ctx.out \o ctx.hold
           f == IF t.kind = "text" THEN ConstraintFeed(eng, bytes) ELSE [eng |-> eng, hidden |-> 0]
           a == Accept(t, f)
           c == ControlAccept(t, a)
           v == CountPrelude(c)
<1>1. EngType(eng) /\ Direct(ctx, fed)
  BY DEF Running, Sound
<1>2. bytes \in Bytes /\ (t.kind # "text" => bytes = << >>)
  BY SetupIs
<1>3. TokenOk(t) /\ GenStep(v)
  <2>1. GenStep(CountPrelude(ControlAccept(t, Accept(t,
          IF conf.json /\ t.kind = "text" THEN ConstraintFeed(eng, t.bytes) ELSE [eng |-> eng, hidden |-> 0]))))
    BY DEF Sample
  <2> QED BY <2>1 DEF Sample
<1>4. Constrained(f, bytes) /\ Continues(f, text, bytes)
  <2>1. CASE t.kind = "text"
    <3> DEFINE g == ConstraintFeed(eng, bytes)
    <3>1. f = g
      BY <2>1
    <3>2. g.eng.jv.st # "refused"
      BY <1>3, <2>1 DEF TokenOk
    <3> HIDE DEF f
    <3>3. Constrained(g, bytes) /\ Continues(g, text, bytes)
      BY <1>1, <1>2, <3>2, FeedContinues
    <3> QED BY <3>1, <3>3
  <2>2. CASE t.kind # "text"
    <3>1. f.eng = eng /\ f.hidden = 0 /\ DOMAIN f = {"eng", "hidden"}
      BY <2>2
    <3>2. eng.phase # "output"
      BY <1>3, <2>2 DEF TokenOk
    <3>3. eng.doc = << >> /\ text = << >> /\ Blank(eng)
      BY <3>2 DEF Document, Blank
    <3>4. bytes = << >> /\ From(bytes, 1) = << >> /\ Len(bytes) = 0
      <4>1. bytes = << >> /\ From(bytes, 1) = bytes
        BY <1>2, <2>2, CutEnds DEF Bytes
      <4> QED BY <4>1
    <3> HIDE DEF f
    <3>5. From(bytes, f.hidden + 1) = << >>
      BY <3>1, <3>4
    <3>6. Continues(f, text, bytes)
      BY <3>1, <3>2, <3>3, <3>5 DEF Continues
    <3>7. Constrained(f, bytes)
      BY <1>1, <3>1, <3>4 DEF Constrained
    <3> QED BY <3>6, <3>7
  <2> QED BY <2>1, <2>2
<1>5. EngType(f.eng) /\ f.hidden \in 0 .. Len(bytes)
  BY <1>4 DEF Constrained
<1> DEFINE shown == From(bytes, f.hidden + 1)
<1>6. shown \in Bytes
  <2> DEFINE h == f.hidden
  <2>1. h \in 0 .. Len(bytes)
    BY <1>5
  <2> HIDE DEF h
  <2>2. From(bytes, h + 1) \in Seq(Byte)
    BY <1>2, <2>1, Cut DEF Bytes
  <2> QED BY <2>2 DEF h, Bytes
<1>7. Kept(v)
  <2>1. CASE f.eng.phase = "output"
    <3>1. /\ f.eng.doc = text \o shown /\ Starts(f.eng.doc)
          /\ f.eng.doc = << >> => f.eng.jv = Start
      BY <1>4, <2>1 DEF Continues
    <3> DEFINE e == f.eng
               w == GenCollect([Work EXCEPT !.e = e], shown, FALSE)
    <3>2. a = w
      BY AcceptsShown
    <3>3. EngType(e) /\ e.phase = "output" /\ e.doc = text \o shown /\ Starts(e.doc) /\ (e.doc = << >> => e.jv = Start)
      BY <1>5, <2>1, <3>1
    <3> HIDE DEF e, shown, a, f
    <3>4. Kept(w) /\ w.e.phase = "output"
      BY <1>1, <1>6, <3>3, DocumentCollected
    <3> HIDE DEF w
    <3>5. c = a
      BY <3>2, <3>4 DEF ControlAccept
    <3> HIDE DEF c
    <3>6. v = c
      BY <3>2, <3>4, <3>5 DEF CountPrelude
    <3> QED BY <3>2, <3>4, <3>5, <3>6
  <2>2. CASE f.eng.phase # "output"
    <3>1. Blank(f.eng) /\ text = << >> /\ shown = << >>
      BY <1>4, <2>2 DEF Continues
    <3> HIDE DEF f
    <3>2. Still(v)
      BY <1>5, <3>1, StillAccepted
    <3> HIDE DEF v
    <3> QED BY <3>1, <3>2, StillKept
  <2> QED BY <2>1, <2>2
<1> HIDE DEF v
<1>8. conf' = conf /\ eng' = v.e /\ ctx' = v.g /\ (pc' = "step" => ~v.g.stopped /\ ~DocumentDone(v.e))
  BY <1>3 DEF GenStep
<1>9. Document(eng, ctx)'
  BY <1>7, <1>8 DEF Kept, Document, Starts
<1>10. ASSUME pc' = "step" PROVE (~ctx.stopped /\ ~DocumentDone(eng) /\ (eng.doc = << >> => eng.jv = Start))'
  BY <1>7, <1>8, <1>10 DEF Kept, DocumentDone
<1> QED BY <1>9, <1>10

LEMMA DocInit == Init => DocInv
<1> SUFFICES ASSUME Init, conf.json, ~Splits
             PROVE  Document(eng, ctx) /\ ~ctx.stopped /\ ~DocumentDone(eng) /\ eng.jv = Start
  BY DEF DocInv, Init
<1>1. eng \in {Engine, InThink(Engine)} /\ ctx = Context
  BY DEF Init
<1>2. eng.doc = << >> /\ eng.jv = Start
  <2> DEFINE e == Engine
  <2>1. DOMAIN e = EngFields /\ e.doc = << >> /\ e.jv = Start
    BY DEF Engine, EngFields
  <2> HIDE DEF e
  <2>2. InThink(e).doc = e.doc /\ InThink(e).jv = e.jv
    BY <2>1 DEF InThink, EngFields
  <2>3. eng = e \/ eng = InThink(e)
    BY <1>1 DEF e
  <2> QED BY <2>1, <2>2, <2>3
<1>3. ctx.out \o ctx.hold = << >> /\ ~ctx.stopped
  <2>1. << >> \o << >> = << >>
    BY ConcatEmptySeq, EmptySeq
  <2> QED BY <1>1, <2>1 DEF Context
<1>4. Start.st # "done"
  BY DEF Start
<1> QED BY <1>2, <1>3, <1>4 DEF Document, Starts, DocumentDone

LEMMA DocStep == FlowInv /\ DocInv /\ [Next]_vars => DocInv'
<1> SUFFICES ASSUME FlowInv, DocInv, [Next]_vars, (conf.json /\ ~Splits)' PROVE
      /\ pc' \in {"step", "close"} => Document(eng, ctx)'
      /\ pc' = "step" => (~ctx.stopped /\ ~DocumentDone(eng) /\ (eng.doc = << >> => eng.jv = Start))'
  BY DEF DocInv
<1>1. conf' = conf
  BY DEF Next, vars, StepDone, SampleStop, Sample, GenStep, ConstraintClose, Finish, Ended, Leave
<1>2. conf \in Setups /\ conf.json /\ ~Splits
  BY <1>1 DEF FlowInv, Splits, Tagged
<1>3. pc \in {"step", "close"} => Document(eng, ctx)
  BY <1>2 DEF DocInv
<1>4. pc = "step" => ~ctx.stopped /\ ~DocumentDone(eng) /\ (eng.doc = << >> => eng.jv = Start)
  BY <1>2 DEF DocInv
<1>5. CASE StepDone \/ SampleStop
  <2>1. pc = "step" /\ pc' = "close" /\ eng' = eng /\ ctx' = ctx
    BY <1>5 DEF StepDone, SampleStop, Leave
  <2> QED BY <1>3, <2>1 DEF Document, Starts
<1>6. ASSUME NEW t \in conf.tokens, Sample(t)
      PROVE  /\ Document(eng, ctx)'
             /\ pc' = "step" => (~ctx.stopped /\ ~DocumentDone(eng) /\ (eng.doc = << >> => eng.jv = Start))'
  <2>1. pc = "step"
    BY <1>6 DEF Sample
  <2>2. Running
    BY <1>2, <2>1 DEF FlowInv, Flow, OneStage
  <2> QED BY <1>2, <1>3, <1>4, <1>6, <2>1, <2>2, SampleDocument
<1>7. CASE ConstraintClose \/ Finish
  BY <1>7 DEF ConstraintClose, Finish
<1>8. CASE UNCHANGED vars
  BY <1>3, <1>4, <1>8 DEF vars, Document, Starts, DocumentDone
<1> QED BY <1>5, <1>6, <1>7, <1>8 DEF Next, Ended

\* When a generation is over the validator stands at the end of the document the
\* client has or will be given, not of the one the model had reached: a stop takes back
\* what it withholds (engine_constraint_truncate, stop_feed), and nothing of a thinking
\* prelude, however it ends, is in either (constraint_feed, constraint_finish_think).
\* For every vocabulary, set of stops and pair of tags.
THEOREM ValidatorFollowsClient == Spec => []ClientHasDocument
<1>1. FlowInv /\ DocInv => ClientHasDocument
  <2> SUFFICES ASSUME FlowInv, DocInv, ~Splits, pc = "close", conf.json
               PROVE  eng.doc = Trim(ctx.out \o ctx.hold)
    BY DEF ClientHasDocument
  <2>1. Document(eng, ctx)
    BY DEF DocInv
  <2>2. EngType(eng)
    BY DEF FlowInv, Flow, OneStage, Running
  <2> DEFINE doc == ctx.out \o ctx.hold
  <2>3. doc \in Bytes /\ Starts(doc) /\ eng.doc = doc
    BY <2>1, <2>2 DEF Document, EngType
  <2> HIDE DEF doc
  <2>4. Trim(doc) = doc
    BY <2>3, StartsTrimmed
  <2> QED BY <2>3, <2>4 DEF doc
<1> QED BY <1>1, FlowInit, FlowStep, DocInit, DocStep, PTL DEF Spec
====
