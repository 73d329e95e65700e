------------------------------ MODULE JsonMode ------------------------------
(* The incremental JSON validator of src/jsonmode.c: a byte machine that      *)
(* accepts a text only while it is a prefix of one JSON object, and the       *)
(* closing bytes that complete the text from any state.  The generation loop  *)
(* asks it about every candidate token, so the machine and the parser that    *)
(* later reads the document (module JsonParser) must agree.  Bytes are        *)
(* strings of length one.  A refused byte leads to the state "refused".       *)
EXTENDS Naturals, Sequences, SequencesExt

Quote     == "\""
Backslash == "\\"
Ws        == {" ", "\t", "\n", "\r"}
Control   == {"\t", "\n", "\r", "\f"}
NonZero   == {"1", "2", "3", "4", "5", "6", "7", "8", "9"}
Digit     == NonZero \cup {"0"}
StackMax  == 200

Lower == <<"0", "1", "2", "3", "4", "5", "6", "7", "8", "9", "a", "b", "c", "d", "e", "f">>
Upper == <<"0", "1", "2", "3", "4", "5", "6", "7", "8", "9", "A", "B", "C", "D", "E", "F">>

IsHex(c)    == \E i \in 1..16 : c \in {Lower[i], Upper[i]}
HexValue(c) == (CHOOSE i \in 1..16 : c \in {Lower[i], Upper[i]}) - 1

High(cp) == cp \in 55296..56319  \* D800..DBFF
Low(cp)  == cp \in 56320..57343  \* DC00..DFFF

Literal == <<<<"t", "r", "u", "e">>, <<"f", "a", "l", "s", "e">>, <<"n", "u", "l", "l">>>>
Null    == Literal[3]

-----------------------------------------------------------------------------
(* Escapes.  sub counts through an escape: 1 after the backslash, 2..5 the    *)
(* digits, 6 and 7 the backslash and the u of the low half of a pair, 8..11   *)
(* its digits.  esc is the value read so far, sixteen bits wide.              *)

\* Is digit d, the nth of its half, one that leads to a character?
DigitFits(low, nth, val, d) ==
  IF low THEN (nth = 0 => d = 13) /\ (nth = 1 => val \in 220..223)
  ELSE (nth = 1 => val \notin 220..223) /\ (nth = 3 => val # 0)

EscapeHex(v, c) ==
  LET low == v.sub >= 8
      nth == v.sub - (IF low THEN 8 ELSE 2)
      val == ((IF nth = 0 THEN 0 ELSE v.esc) * 16 + HexValue(c)) % 65536
  IN  IF ~IsHex(c) \/ ~DigitFits(low, nth, val, HexValue(c))
      THEN [v EXCEPT !.st = "refused"]
      ELSE [v EXCEPT !.esc = val,
                     !.sub = IF nth < 3 THEN v.sub + 1
                             ELSE IF ~low /\ High(val) THEN 6 ELSE 0]

LowHalf == <<Backslash, "u", "D", "C", "0", "0">>

\* A bug: missing digits become zeros.
EscapeClose_Zeros(sub, esc) ==
  IF sub = 0 THEN <<>>
  ELSE IF sub = 1 THEN <<"n">>
  ELSE IF sub \in 2..5 THEN [i \in 1..(6 - sub) |-> "0"]
  ELSE SubSeq(LowHalf, sub - 5, 6)

\* What completes an escape of which sub and esc tell how far it came.
EscapeClose(sub, esc) ==
  LET first == sub \in 2..5
      cp    == ((IF sub = 2 THEN 0 ELSE esc) * 16 ^ (6 - sub)) % 65536
      pad   == IF cp = 0 THEN [i \in 1..(5 - sub) |-> "0"] \o <<"1">>
               ELSE [i \in 1..(6 - sub) |-> "0"]
      from  == IF first THEN (IF High(cp) THEN 1 ELSE 7) ELSE sub - 5
  IN  IF sub = 0 THEN <<>>
      ELSE IF sub = 1 THEN <<"n">>
      ELSE (IF first THEN pad ELSE <<>>) \o SubSeq(LowHalf, from, 6)

-----------------------------------------------------------------------------
(* The machine: where it stands, the open containers, the escape or literal   *)
(* in progress.                                                               *)

Start == [st |-> "start", stack |-> <<>>, sub |-> 0, lit |-> 0, esc |-> 0]

Refuse(v)    == [v EXCEPT !.st = "refused"]
Goto(v, st)  == [v EXCEPT !.st = st]
ValueDone(v) == Goto(v, IF v.stack = <<>> THEN "done" ELSE "after")
Pop(v)       == ValueDone([v EXCEPT !.stack = Front(@)])
Push(v, c)   == IF Len(v.stack) >= StackMax THEN Refuse(v)
                ELSE [v EXCEPT !.st = IF c = "O" THEN "key_or_end" ELSE "arr_first",
                               !.stack = Append(@, c)]

BeginValue(v, c) ==
  CASE c \in Ws      -> v
    [] c = "{"       -> Push(v, "O")
    [] c = "["       -> Push(v, "A")
    [] c = Quote     -> [v EXCEPT !.st = "string", !.sub = 0]
    [] c = "-"       -> Goto(v, "num_minus")
    [] c = "0"       -> Goto(v, "num_zero")
    [] c \in NonZero -> Goto(v, "num_int")
    [] \E i \in 1..3 : c = Literal[i][1] ->
         [v EXCEPT !.st = "lit", !.sub = 1, !.lit = CHOOSE i \in 1..3 : c = Literal[i][1]]
    [] OTHER         -> Refuse(v)

BeginKey(v, c) ==
  CASE c \in Ws  -> v
    [] c = Quote -> [v EXCEPT !.st = "key", !.sub = 0]
    [] c = "}" /\ v.st = "key_or_end" -> Pop(v)
    [] OTHER     -> Refuse(v)

\* The moves inside an escape outside its digits: from, on a byte of, to.
EscapeMoves ==
  {<<1, {Quote, Backslash, "/", "b", "f", "n", "r", "t"}, 0>>, <<1, {"u"}, 2>>,
   <<6, {Backslash}, 7>>, <<7, {"u"}, 8>>}

InText(v, c) ==
  CASE c = Quote      -> IF v.st = "key" THEN Goto(v, "colon") ELSE ValueDone(v)
    [] c = Backslash  -> [v EXCEPT !.sub = 1]
    [] c \in Control  -> Refuse(v)
    [] OTHER          -> v

InString(v, c) ==
  LET moves == {m \in EscapeMoves : m[1] = v.sub /\ c \in m[2]}
  IN  CASE v.sub = 0            -> InText(v, c)
        [] v.sub \in {1, 6, 7}  -> IF moves = {} THEN Refuse(v)
                                   ELSE [v EXCEPT !.sub = (CHOOSE m \in moves : TRUE)[3]]
        [] OTHER                -> EscapeHex(v, c)

AfterValue(v, c) ==
  LET top == Last(v.stack)
  IN  CASE c \in Ws                -> v
        [] c = "," /\ top = "O"    -> Goto(v, "key_expect")
        [] c = "," /\ top = "A"    -> Goto(v, "value")
        [] <<c, top>> \in {<<"}", "O">>, <<"]", "A">>} -> Pop(v)
        [] OTHER                   -> Refuse(v)

\* The moves inside a number: from, on a byte of, to.
NumberMoves ==
  {<<"num_minus", {"0"}, "num_zero">>, <<"num_minus", NonZero, "num_int">>,
   <<"num_int", Digit, "num_int">>,
   <<"num_zero", {"."}, "num_frac0">>, <<"num_int", {"."}, "num_frac0">>,
   <<"num_zero", {"e", "E"}, "num_exp0">>, <<"num_int", {"e", "E"}, "num_exp0">>,
   <<"num_frac0", Digit, "num_frac">>, <<"num_frac", Digit, "num_frac">>,
   <<"num_frac", {"e", "E"}, "num_exp0">>,
   <<"num_exp0", {"+", "-"}, "num_exp1">>, <<"num_exp0", Digit, "num_exp">>,
   <<"num_exp1", Digit, "num_exp">>, <<"num_exp", Digit, "num_exp">>}

NumberEnds  == {"num_zero", "num_int", "num_frac", "num_exp"}
NumberOpens == {"num_minus", "num_frac0", "num_exp0", "num_exp1"}

NumberGoes(v, c) == {m \in NumberMoves : m[1] = v.st /\ c \in m[2]}

Step(v, c) ==
  CASE v.st = "start"     -> IF c = "{" THEN Push(v, "O") ELSE Refuse(v)
    [] v.st = "arr_first" -> IF c = "]" THEN Pop(v) ELSE BeginValue(v, c)
    [] v.st = "value"     -> BeginValue(v, c)
    [] v.st \in {"key_or_end", "key_expect"} -> BeginKey(v, c)
    [] v.st \in {"key", "string"}            -> InString(v, c)
    [] v.st = "colon"     -> IF c \in Ws THEN v ELSE IF c = ":" THEN Goto(v, "value") ELSE Refuse(v)
    [] v.st = "after"     -> AfterValue(v, c)
    [] v.st \in NumberEnds \cup NumberOpens ->
         IF NumberGoes(v, c) = {} THEN Refuse(v) ELSE Goto(v, (CHOOSE m \in NumberGoes(v, c) : TRUE)[3])
    [] v.st = "lit"       ->
         IF c # Literal[v.lit][v.sub + 1] THEN Refuse(v)
         ELSE IF v.sub + 1 = Len(Literal[v.lit]) THEN ValueDone(v)
         ELSE [v EXCEPT !.sub = @ + 1]
    [] OTHER              -> Refuse(v)

\* A number ends at the byte that cannot continue it, which is then read again.
FeedByte(v, c) ==
  IF v.st \in NumberEnds /\ NumberGoes(v, c) = {} THEN Step(ValueDone(v), c) ELSE Step(v, c)

Feed(v, bytes) == FoldLeft(FeedByte, v, bytes)

\* The bytes that finish the value, name or literal the text stopped in.
CloseValue(v) ==
  CASE v.st = "key"    -> EscapeClose(v.sub, v.esc) \o <<Quote, ":">> \o Null
    [] v.st = "string" -> EscapeClose(v.sub, v.esc) \o <<Quote>>
    [] v.st = "colon"  -> <<":">> \o Null
    [] v.st = "key_expect"            -> <<Quote, "_", Quote, ":">> \o Null
    [] v.st \in {"value", "arr_first"} -> Null
    [] v.st = "lit"    -> SubSeq(Literal[v.lit], v.sub + 1, Len(Literal[v.lit]))
    [] v.st \in NumberOpens -> <<"0">>
    [] OTHER           -> <<>>

\* The bytes a document is closed with.
CloseBytes ==
  {Quote, ":", "_", "}", "]", Backslash, "D", "C", "0", "1", "n", "u", "l", "t", "r", "e", "f", "a", "s"}

Close(v) ==
  IF v.st \in {"start", "done"} THEN <<>>
  ELSE CloseValue(v) \o
       [i \in 1..Len(v.stack) |-> IF v.stack[Len(v.stack) + 1 - i] = "O" THEN "}" ELSE "]"]
=============================================================================
