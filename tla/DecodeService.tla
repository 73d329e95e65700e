--------------------------- MODULE DecodeService ---------------------------
(***************************************************************************)
(* What sched_forward promises a slot thread: a forward it asks for is      *)
(* answered with the row of that very forward or refused; until the batch   *)
(* is cut it may be withdrawn, and from then on it is answered.             *)
(***************************************************************************)
CONSTANTS Slots, Forwards, NoRow

VARIABLES asked,   \* the forward each slot waits for, NoRow if none
          taken,   \* the slots whose forward can no longer be withdrawn
          answer,  \* "none", "refused" or "row"
          row      \* the row a slot may read, NoRow if none

vars == <<asked, taken, answer, row>>

Open == {i \in Slots : asked[i] # NoRow /\ answer[i] = "none"}

Init ==
  /\ asked = [i \in Slots |-> NoRow]
  /\ taken = {}
  /\ answer = [i \in Slots |-> "none"]
  /\ row = [i \in Slots |-> NoRow]

Ask(i) ==
  /\ asked[i] = NoRow
  /\ \E f \in Forwards \ {NoRow} : asked' = [asked EXCEPT ![i] = f]
  /\ UNCHANGED <<taken, answer, row>>

Withdraw(i) ==
  /\ i \in Open \ taken
  /\ asked' = [asked EXCEPT ![i] = NoRow]
  /\ UNCHANGED <<taken, answer, row>>

\* The sequences that wait together are decoded together, one batch at a time.
Take ==
  /\ taken = {} /\ Open # {}
  /\ taken' = Open
  /\ UNCHANGED <<asked, answer, row>>

\* A batch succeeds or fails as a whole.
Resolve ==
  /\ taken # {} /\ taken' = {}
  /\ \/ /\ answer' = [i \in Slots |-> IF i \in taken THEN "row" ELSE answer[i]]
        /\ row' = [i \in Slots |-> IF i \in taken THEN asked[i] ELSE row[i]]
     \/ /\ answer' = [i \in Slots |-> IF i \in taken THEN "refused" ELSE answer[i]]
        /\ UNCHANGED row
  /\ UNCHANGED asked

Collect(i) ==
  /\ answer[i] # "none"
  /\ asked' = [asked EXCEPT ![i] = NoRow]
  /\ answer' = [answer EXCEPT ![i] = "none"]
  /\ row' = [row EXCEPT ![i] = NoRow]
  /\ UNCHANGED taken

Next == Take \/ Resolve \/ \E i \in Slots : Ask(i) \/ Withdraw(i) \/ Collect(i)

Spec == Init /\ [][Next]_vars
=============================================================================
