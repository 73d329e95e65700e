-------------------------- MODULE TurnstileProofs --------------------------
(***************************************************************************)
(* The device turn is exclusive for any number of threads and any counter  *)
(* width above it, also across the wrap of the unsigned tickets.           *)
(***************************************************************************)
EXTENDS Turnstile, Sequences, FiniteSetTheorems, TLAPS

\* The set of ticket holders is finite and, when somebody is outside, smaller
\* than the counter width.
LEMMA QueuedFinite ==
  /\ IsFiniteSet(Queued)
  /\ Cardinality(Queued) \in Nat
  /\ \A t \in Threads \ Queued : Cardinality(Queued) + 1 < TicketMod
<1>1. IsFiniteSet(Queued) /\ Cardinality(Queued) \in Nat
  BY FS_Subset, FS_CardinalityType, TurnstileAssumption DEF Queued
<1>2. ASSUME NEW t \in Threads \ Queued
      PROVE  Cardinality(Queued) + 1 < TicketMod
  <2>1. Queued \cup {t} \in SUBSET Threads
    BY DEF Queued
  <2>2. Cardinality(Queued \cup {t}) = Cardinality(Queued) + 1
    BY <1>1, FS_AddElement
  <2>3. Cardinality(Queued \cup {t}) <= Cardinality(Threads)
    BY <2>1, FS_Subset, TurnstileAssumption
  <2>4. Cardinality(Threads) \in Nat
    BY FS_CardinalityType, TurnstileAssumption
  <2>5. QED
    BY <1>1, <2>2, <2>3, <2>4, TurnstileAssumption
<1>3. QED
  BY <1>1, <1>2

\* Nobody holds a ticket at the start.
LEMMA InitTurnInv == TurnInit => TurnInv
<1> SUFFICES ASSUME TurnInit PROVE TurnInv
  OBVIOUS
<1>1. TicketMod \in Nat /\ TicketMod > 0
  <2>1. Cardinality(Threads) \in Nat
    BY FS_CardinalityType, TurnstileAssumption
  <2>2. QED
    BY <2>1, TurnstileAssumption
<1>2. TurnTypeOK
  BY <1>1 DEF TurnInit, TurnTypeOK, Tickets, NoTicket
<1>3. Queued = {}
  BY DEF TurnInit, Queued
<1>4. TicketsContiguous
  BY <1>1, <1>3, FS_EmptySet DEF TurnInit, TicketsContiguous, Distance
<1>5. QED
  BY <1>2, <1>4 DEF TurnInv

\* dev_take's first section keeps the tickets contiguous: the new ticket is the
\* one past the last, and the width leaves room for it.
LEMMA DrawKeepsTurnInv ==
  ASSUME TurnInv, NEW t \in Threads, Draw(t)
  PROVE  TurnInv'
<1> USE TurnstileAssumption DEF TurnInv, Tickets, NoTicket
<1> DEFINE D == Distance(dev_next)
<1>1. t \notin Queued
  BY DEF Draw, Queued
<1>2. D \in Nat /\ D + 1 < TicketMod /\ D = Cardinality(Queued)
  BY <1>1, QueuedFinite DEF TicketsContiguous
<1>3. TurnTypeOK'
  BY DEF TurnTypeOK, Draw, Bump
<1>4. Distance(dev_next)' = D + 1
  BY <1>2 DEF TurnTypeOK, Draw, Bump, Distance
<1>5. Queued' = Queued \cup {t}
  BY DEF Draw, Queued, TurnTypeOK
<1>6. Cardinality(Queued') = D + 1
  BY <1>1, <1>2, <1>5, QueuedFinite, FS_AddElement
<1>7. \A s \in Queued : mine'[s] = mine[s] /\ Distance(mine[s]) < D
  BY <1>1 DEF Draw, Queued, TurnTypeOK, TicketsContiguous
<1>8. mine'[t] = dev_next
  BY DEF Draw, TurnTypeOK
<1>9. \A s \in Queued' : Distance(mine[s])' < Distance(dev_next)'
  <2>1. Distance(mine[t])' = D
    BY <1>8 DEF Draw, Distance
  <2>2. \A s \in Queued : Distance(mine[s])' = Distance(mine[s])
    BY <1>7 DEF Draw, Distance
  <2>3. \A s \in Queued : Distance(mine[s]) \in Int
    BY DEF Distance, TurnTypeOK, Queued
  <2>4. QED
    BY <1>2, <1>4, <1>5, <1>7, <2>1, <2>2, <2>3
<1>10. \A r, s \in Queued' : mine'[r] = mine'[s] => r = s
  <2>1. \A s \in Queued : mine[s] # dev_next
    BY <1>2, <1>7
  <2>2. QED
    BY <1>5, <1>7, <1>8, <2>1 DEF TicketsContiguous
<1>11. QED
  BY <1>3, <1>4, <1>6, <1>9, <1>10 DEF TicketsContiguous

\* dev_give moves every other ticket one place forward.
LEMMA GiveKeepsTurnInv ==
  ASSUME TurnInv, NEW t \in Threads, Give(t)
  PROVE  TurnInv'
<1> USE TurnstileAssumption DEF TurnInv, Tickets, NoTicket
<1> DEFINE D == Distance(dev_next)
<1>1. t \in Queued /\ mine[t] = dev_serving
  BY DEF Give, Served, Queued, TurnTypeOK
<1>2. D \in Nat /\ D = Cardinality(Queued) /\ D # 0
  <2>1. Distance(mine[t]) = 0
    BY <1>1 DEF Distance, TurnTypeOK
  <2>2. QED
    BY <1>1, <2>1, QueuedFinite DEF TicketsContiguous
<1>3. TurnTypeOK'
  BY DEF TurnTypeOK, Give, Bump
<1>4. \A x \in 0 .. TicketMod - 1 :
        x # dev_serving =>
          (IF x >= dev_serving' THEN x - dev_serving'
           ELSE x - dev_serving' + TicketMod) = Distance(x) - 1
  BY DEF TurnTypeOK, Give, Bump, Distance
<1>5. Distance(dev_next)' = D - 1
  <2>1. dev_next # dev_serving
    BY <1>2 DEF Distance, TurnTypeOK
  <2>2. QED
    BY <1>4, <2>1 DEF Give, TurnTypeOK, Distance
<1>6. Queued' = Queued \ {t}
  BY DEF Give, Queued, TurnTypeOK
<1>7. Cardinality(Queued') = D - 1
  BY <1>1, <1>2, <1>6, QueuedFinite, FS_RemoveElement
<1>8. \A s \in Queued' : mine'[s] = mine[s] /\ mine[s] # dev_serving
                         /\ mine[s] \in 0 .. TicketMod - 1
  BY <1>1, <1>6 DEF Give, Queued, TurnTypeOK, TicketsContiguous
<1>9. \A s \in Queued' : Distance(mine[s])' < Distance(dev_next)'
  <2>1. \A s \in Queued' : Distance(mine[s])' = Distance(mine[s]) - 1
    BY <1>4, <1>8 DEF Distance
  <2>2. \A s \in Queued' : Distance(mine[s]) \in Int /\ Distance(mine[s]) < D
    BY <1>6, <1>8 DEF Distance, TurnTypeOK, TicketsContiguous
  <2>3. QED
    BY <1>2, <1>5, <2>1, <2>2
<1>10. \A r, s \in Queued' : mine'[r] = mine'[s] => r = s
  BY <1>6, <1>8 DEF TicketsContiguous
<1>11. QED
  BY <1>3, <1>5, <1>7, <1>9, <1>10 DEF TicketsContiguous

\* Two admitted threads would hold the same ticket.
LEMMA ContiguousIsExclusive == TurnInv => MutualExclusion
  BY DEF TurnInv, TurnTypeOK, TicketsContiguous, MutualExclusion, Served, Queued,
         Tickets, NoTicket

\* Tickets stay contiguous for ever (dev_take, dev_give).
THEOREM TurnstileInvariant == TurnSpec => []TurnInv
<1>1. TurnInv /\ [TurnNext]_turnVars => TurnInv'
  <2> SUFFICES ASSUME TurnInv, [TurnNext]_turnVars PROVE TurnInv'
    OBVIOUS
  <2>1. CASE \E t \in Threads : Draw(t)
    BY <2>1, DrawKeepsTurnInv
  <2>2. CASE \E t \in Threads : Give(t)
    BY <2>2, GiveKeepsTurnInv
  <2>3. CASE UNCHANGED turnVars
    BY <2>3 DEF turnVars, TurnInv, TurnTypeOK, TicketsContiguous, Queued, Distance
  <2>4. QED
    BY <2>1, <2>2, <2>3 DEF TurnNext
<1>2. QED
  BY InitTurnInv, <1>1, PTL DEF TurnSpec

\* At most one thread is inside the turn, whatever the number of threads and
\* wherever the ticket counters are ("prefill and decode take turns here").
THEOREM TurnIsExclusive == TurnSpec => []MutualExclusion
  BY TurnstileInvariant, ContiguousIsExclusive, PTL

-----------------------------------------------------------------------------
(* The turn is a first-come, first-served queue.                           *)

\* No ticket between the served one and the next is without a holder.
NoTicketLost ==
  \A k \in Nat : k < Distance(dev_next) => \E t \in Queued : Distance(mine[t]) = k

LineInv == TurnInv /\ NoTicketLost

\* The place of a ticket in the queue is a number, and different tickets have
\* different places.
LEMMA Places ==
  ASSUME TurnTypeOK
  PROVE  /\ \A x \in Tickets : Distance(x) \in Nat
         /\ \A x, y \in Tickets : Distance(x) = Distance(y) => x = y
  BY TurnstileAssumption DEF TurnTypeOK, Tickets, Distance

\* Drawing adds a place at the end.
LEMMA DrawKeepsPlaces ==
  ASSUME TurnInv, NEW t \in Threads, Draw(t)
  PROVE  /\ Distance(dev_next)' = Distance(dev_next) + 1
         /\ t \notin Queued /\ Queued' = Queued \cup {t}
         /\ Distance(mine[t])' = Distance(dev_next)
         /\ \A s \in Queued : Distance(mine[s])' = Distance(mine[s])
<1> USE TurnstileAssumption DEF Tickets, NoTicket
<1>1. TurnTypeOK /\ t \notin Queued /\ Queued' = Queued \cup {t}
  BY DEF TurnInv, TurnTypeOK, Draw, Queued
<1>2. Distance(dev_next) + 1 < TicketMod
  BY <1>1, QueuedFinite DEF TurnInv, TicketsContiguous
<1>3. Distance(dev_next)' = Distance(dev_next) + 1
  BY <1>1, <1>2 DEF TurnTypeOK, Draw, Bump, Distance
<1>4. mine'[t] = dev_next /\ \A s \in Queued : mine'[s] = mine[s]
  BY <1>1 DEF TurnTypeOK, Draw, Queued
<1>5. Distance(mine[t])' = Distance(dev_next)
      /\ \A s \in Queued : Distance(mine[s])' = Distance(mine[s])
  BY <1>4 DEF Draw, Distance
<1> QED BY <1>1, <1>3, <1>5

\* Giving takes the first place away and moves everybody up.
LEMMA GiveKeepsPlaces ==
  ASSUME TurnInv, NEW t \in Threads, Give(t)
  PROVE  /\ Distance(dev_next)' = Distance(dev_next) - 1
         /\ t \in Queued /\ Queued' = Queued \ {t}
         /\ Distance(mine[t]) = 0
         /\ \A s \in Queued' : Distance(mine[s])' = Distance(mine[s]) - 1
<1> USE TurnstileAssumption DEF Tickets, NoTicket
<1>1. TurnTypeOK /\ t \in Queued /\ mine[t] = dev_serving /\ Queued' = Queued \ {t}
  BY DEF TurnInv, TurnTypeOK, Give, Served, Queued
<1>2. Distance(mine[t]) = 0
  BY <1>1 DEF Distance, TurnTypeOK
<1>3. dev_next # dev_serving
  BY <1>1, <1>2 DEF TurnInv, TicketsContiguous, TurnTypeOK, Distance
<1>4. \A x \in 0 .. TicketMod - 1 :
        x # dev_serving =>
          (IF x >= dev_serving' THEN x - dev_serving'
           ELSE x - dev_serving' + TicketMod) = Distance(x) - 1
  BY <1>1 DEF TurnTypeOK, Give, Bump, Distance
<1>5. Distance(dev_next)' = Distance(dev_next) - 1
  BY <1>1, <1>3, <1>4 DEF Give, TurnTypeOK, Distance
<1>6. \A s \in Queued' : /\ mine'[s] = mine[s] /\ mine[s] # dev_serving
                         /\ mine[s] \in 0 .. TicketMod - 1
  BY <1>1 DEF Give, Queued, TurnTypeOK, TurnInv, TicketsContiguous
<1>7. \A s \in Queued' : Distance(mine[s])' = Distance(mine[s]) - 1
  BY <1>4, <1>6 DEF Distance
<1> QED BY <1>1, <1>2, <1>5, <1>7

LEMMA InitLine == TurnInit => LineInv
<1> SUFFICES ASSUME TurnInit PROVE NoTicketLost
  BY InitTurnInv DEF LineInv
<1>1. Distance(dev_next) = 0
  BY DEF TurnInit, Distance
<1> QED BY <1>1 DEF NoTicketLost

LEMMA DrawKeepsLine ==
  ASSUME LineInv, NEW t \in Threads, Draw(t)
  PROVE  LineInv'
<1> DEFINE D == Distance(dev_next)
<1>1. TurnInv /\ TurnInv' /\ D \in Nat
  BY DrawKeepsTurnInv, Places DEF LineInv, TurnInv, TurnTypeOK
<1>2. ASSUME NEW k \in Nat, k < Distance(dev_next)'
      PROVE  \E s \in Queued' : Distance(mine[s])' = k
  <2>1. k < D + 1
    BY <1>1, <1>2, DrawKeepsPlaces
  <2>2. CASE k = D
    BY <1>1, <2>2, DrawKeepsPlaces
  <2>3. CASE k < D
    <3>1. PICK s \in Queued : Distance(mine[s]) = k
      BY <2>3 DEF LineInv, NoTicketLost
    <3> QED BY <1>1, <3>1, DrawKeepsPlaces
  <2> HIDE DEF D
  <2> QED BY <1>1, <2>1, <2>2, <2>3
<1> QED BY <1>1, <1>2 DEF LineInv, NoTicketLost

LEMMA GiveKeepsLine ==
  ASSUME LineInv, NEW t \in Threads, Give(t)
  PROVE  LineInv'
<1> DEFINE D == Distance(dev_next)
<1>1. TurnInv /\ TurnInv' /\ D \in Nat
  BY GiveKeepsTurnInv, Places DEF LineInv, TurnInv, TurnTypeOK
<1>2. ASSUME NEW k \in Nat, k < Distance(dev_next)'
      PROVE  \E s \in Queued' : Distance(mine[s])' = k
  <2>1. k + 1 \in Nat /\ k + 1 < D
    BY <1>1, <1>2, GiveKeepsPlaces
  <2>2. PICK s \in Queued : Distance(mine[s]) = k + 1
    BY <2>1 DEF LineInv, NoTicketLost
  <2>3. s # t
    BY <1>1, <2>2, GiveKeepsPlaces
  <2>4. s \in Queued' /\ Distance(mine[s])' = Distance(mine[s]) - 1
    BY <1>1, <2>3, GiveKeepsPlaces
  <2> QED BY <2>2, <2>4
<1> QED BY <1>1, <1>2 DEF LineInv, NoTicketLost

LEMMA NextLine == LineInv /\ [TurnNext]_turnVars => LineInv'
<1> SUFFICES ASSUME LineInv, [TurnNext]_turnVars PROVE LineInv'
  OBVIOUS
<1>1. CASE \E t \in Threads : Draw(t)
  BY <1>1, DrawKeepsLine
<1>2. CASE \E t \in Threads : Give(t)
  BY <1>2, GiveKeepsLine
<1>3. CASE UNCHANGED turnVars
  BY <1>3 DEF turnVars, LineInv, NoTicketLost, TurnInv, TurnTypeOK, TicketsContiguous, Queued, Distance
<1> QED BY <1>1, <1>2, <1>3 DEF TurnNext

\* The line as a sequence: everybody stands at the place of their ticket.
InPlace ==
  /\ Distance(dev_next) \in Nat
  /\ QueueOf \in Seq(Threads) /\ Len(QueueOf) = Distance(dev_next)
  /\ \A t \in Queued : /\ Distance(mine[t]) + 1 \in 1 .. Distance(dev_next)
                      /\ QueueOf[Distance(mine[t]) + 1] = t
  /\ \A k \in 1 .. Distance(dev_next) :
       QueueOf[k] \in Queued /\ Distance(mine[QueueOf[k]]) = k - 1

LEMMA PlaceHolder == LineInv => InPlace
<1> SUFFICES ASSUME LineInv PROVE InPlace
  OBVIOUS
<1> DEFINE D == Distance(dev_next)
           Holds(t, k) == t \in Queued /\ Distance(mine[t]) = k - 1
<1>1. /\ D \in Nat /\ \A t \in Queued : mine[t] \in Tickets /\ Distance(mine[t]) \in Nat
      /\ \A s, t \in Queued : Distance(mine[s]) = Distance(mine[t]) => s = t
      /\ \A t \in Queued : Distance(mine[t]) < D
  BY Places DEF LineInv, TurnInv, TurnTypeOK, TicketsContiguous, Queued
<1>2. ASSUME NEW k \in 1 .. D PROVE Holds(QueueOf[k], k)
  <2>1. k - 1 \in Nat /\ k - 1 < D
    BY <1>1
  <2>2. \E t \in Queued : Distance(mine[t]) = k - 1
    BY <2>1 DEF LineInv, NoTicketLost
  <2>3. QueueOf[k] = CHOOSE t \in Queued : Distance(mine[t]) = k - 1
    BY <2>2 DEF QueueOf
  <2> QED BY <2>2, <2>3
<1>3. QueueOf = [k \in 1 .. D |-> QueueOf[k]]
  BY DEF QueueOf
<1>4. QueueOf \in Seq(Threads) /\ Len(QueueOf) = D
  <2>1. \A k \in 1 .. D : QueueOf[k] \in Threads
    BY <1>2 DEF Queued
  <2>2. DOMAIN QueueOf = 1 .. D
    BY DEF QueueOf
  <2> HIDE DEF D
  <2>3. QueueOf \in [1 .. D -> Threads]
    BY <1>3, <2>1
  <2> QED BY <1>1, <2>2, <2>3
<1>5. ASSUME NEW t \in Queued
      PROVE  Distance(mine[t]) + 1 \in 1 .. D /\ QueueOf[Distance(mine[t]) + 1] = t
  <2> DEFINE k == Distance(mine[t]) + 1
  <2>1. k \in 1 .. D /\ k - 1 = Distance(mine[t])
    BY <1>1
  <2>2. Holds(QueueOf[k], k)
    BY <1>2, <2>1
  <2> QED BY <1>1, <2>1, <2>2
<1> QED BY <1>1, <1>2, <1>4, <1>5 DEF InPlace

LEMMA PlaceHolderNext == LineInv' => InPlace'
  BY PlaceHolder, PTL

\* dev_take's first section joins the back.
LEMMA DrawAsks ==
  ASSUME LineInv, NEW t \in Threads, Draw(t)
  PROVE  Fifo!Ask(t)
<1> DEFINE D == Distance(dev_next)
<1>1. LineInv' /\ D \in Nat
  BY DrawKeepsLine, PlaceHolder DEF InPlace
<1>2. /\ QueueOf \in Seq(Threads) /\ Len(QueueOf) = D
      /\ \A k \in 1 .. D : QueueOf[k] \in Queued /\ Distance(mine[QueueOf[k]]) = k - 1
  BY PlaceHolder DEF InPlace
<1>3. /\ QueueOf' \in Seq(Threads) /\ Len(QueueOf') = Distance(dev_next)'
      /\ \A s \in Queued' : QueueOf'[Distance(mine[s])' + 1] = s
  BY <1>1, PlaceHolderNext DEF InPlace
<1>4. /\ Distance(dev_next)' = D + 1 /\ t \notin Queued /\ Queued' = Queued \cup {t}
      /\ Distance(mine[t])' = D
      /\ \A s \in Queued : Distance(mine[s])' = Distance(mine[s])
  BY DrawKeepsPlaces DEF LineInv
<1> HIDE DEF D
<1>5. t \notin Fifo!ToSet(QueueOf)
  BY <1>1, <1>2, <1>4 DEF Fifo!ToSet
<1>6. ASSUME NEW k \in 1 .. D PROVE QueueOf'[k] = QueueOf[k]
  <2>1. PICK s \in Queued : s = QueueOf[k] /\ Distance(mine[s]) = k - 1
    BY <1>2
  <2>2. s \in Queued' /\ Distance(mine[s])' = k - 1
    BY <1>4, <2>1
  <2>3. QueueOf'[(k - 1) + 1] = s
    BY <1>3, <2>2
  <2> QED BY <1>1, <2>1, <2>3
<1>7. QueueOf'[D + 1] = t
  BY <1>3, <1>4
<1>8. QueueOf' = Append(QueueOf, t)
  BY <1>1, <1>2, <1>3, <1>4, <1>6, <1>7
<1> QED BY <1>5, <1>8 DEF Fifo!Ask

\* dev_give leaves from the front.
LEMMA GiveLeaves ==
  ASSUME LineInv, NEW t \in Threads, Give(t)
  PROVE  Fifo!Leave
<1> DEFINE D == Distance(dev_next)
<1>1. LineInv' /\ D \in Nat
  BY GiveKeepsLine, PlaceHolder DEF InPlace
<1>2. /\ QueueOf \in Seq(Threads) /\ Len(QueueOf) = D
      /\ \A k \in 1 .. D : QueueOf[k] \in Queued /\ Distance(mine[QueueOf[k]]) = k - 1
  BY PlaceHolder DEF InPlace
<1>3. /\ QueueOf' \in Seq(Threads) /\ Len(QueueOf') = Distance(dev_next)'
      /\ Distance(dev_next)' \in Nat
      /\ \A s \in Queued' : QueueOf'[Distance(mine[s])' + 1] = s
  BY <1>1, PlaceHolderNext DEF InPlace
<1>4. /\ Distance(dev_next)' = D - 1 /\ t \in Queued /\ Queued' = Queued \ {t}
      /\ Distance(mine[t]) = 0
      /\ \A s \in Queued' : Distance(mine[s])' = Distance(mine[s]) - 1
  BY GiveKeepsPlaces DEF LineInv
<1> HIDE DEF D
<1>5. QueueOf # <<>>
  BY <1>1, <1>2, <1>3, <1>4
<1>6. ASSUME NEW k \in 1 .. D - 1 PROVE QueueOf'[k] = QueueOf[k + 1]
  <2>1. k + 1 \in 1 .. D /\ (k + 1) - 1 = k /\ k # 0
    BY <1>1
  <2>2. PICK s \in Queued : s = QueueOf[k + 1] /\ Distance(mine[s]) = k
    BY <1>2, <2>1
  <2>3. s \in Queued'
    BY <1>4, <2>1, <2>2
  <2>4. Distance(mine[s])' = k - 1
    BY <1>4, <2>2, <2>3
  <2>5. QueueOf'[(k - 1) + 1] = s
    BY <1>3, <2>3, <2>4
  <2> QED BY <1>1, <2>2, <2>5
<1>7. QueueOf' = Tail(QueueOf)
  BY <1>1, <1>2, <1>3, <1>4, <1>5, <1>6
<1> QED BY <1>5, <1>7 DEF Fifo!Leave

\* Tickets make the turn a queue: who draws joins the back, and the turn passes to
\* whoever has waited longest, also across the wrap of the counters ("Tickets make the
\* order explicit, so giving the turn back means giving it up").
THEOREM TurnstileIsFifo == TurnSpec => RefinesFifo
<1>1. TurnInit => Fifo!Init
  <2> SUFFICES ASSUME TurnInit PROVE QueueOf = <<>>
    BY DEF Fifo!Init
  <2>1. Distance(dev_next) = 0
    BY DEF TurnInit, Distance
  <2>2. QueueOf \in Seq(Threads) /\ Len(QueueOf) = 0
    BY <2>1, InitLine, PlaceHolder DEF InPlace
  <2> QED BY <2>2
<1>2. LineInv /\ [TurnNext]_turnVars => [Fifo!Next]_QueueOf
  <2> SUFFICES ASSUME LineInv, [TurnNext]_turnVars PROVE [Fifo!Next]_QueueOf
    OBVIOUS
  <2>1. CASE \E t \in Threads : Draw(t)
    BY <2>1, DrawAsks DEF Fifo!Next
  <2>2. CASE \E t \in Threads : Give(t)
    BY <2>2, GiveLeaves DEF Fifo!Next
  <2>3. CASE UNCHANGED turnVars
    BY <2>3 DEF turnVars, QueueOf, Queued, Distance
  <2> QED BY <2>1, <2>2, <2>3 DEF TurnNext
<1> QED BY <1>1, <1>2, InitLine, NextLine, PTL DEF TurnSpec, RefinesFifo, Fifo!Spec
=============================================================================
