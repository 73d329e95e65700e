----------------------------- MODULE JsonParser -----------------------------
(* The reader of src/json.c as a recognizer: does a byte sequence parse?      *)
(* Each operator takes the text and a position and returns the position after *)
(* what it read, or 0.  Left out: the refusal of a repeated member name, the  *)
(* range of numbers and the well-formedness of multi-byte characters, none of *)
(* which the incremental validator (JsonMode) looks at either.                *)
EXTENDS Naturals, Sequences, JsonMode

DepthMax == 128

At(s, i) == IF i <= Len(s) THEN s[i] ELSE "end"

Hex4At(s, i) == \A j \in i..(i + 3) : IsHex(At(s, j))
Hex4(s, i)   == HexValue(s[i]) * 4096 + HexValue(s[i + 1]) * 256
                + HexValue(s[i + 2]) * 16 + HexValue(s[i + 3])

RECURSIVE SkipWs(_, _)
SkipWs(s, i) == IF At(s, i) \in Ws THEN SkipWs(s, i + 1) ELSE i

RECURSIVE Digits(_, _)
Digits(s, i) == IF At(s, i) \in Digit THEN Digits(s, i + 1) ELSE i

Escape(s, i) ==
  LET cp == Hex4(s, i + 2)
      lo == Hex4(s, i + 8)
  IN  IF At(s, i + 1) \in {Quote, Backslash, "/", "b", "f", "n", "r", "t"} THEN i + 2
      ELSE IF At(s, i + 1) # "u" \/ ~Hex4At(s, i + 2) THEN 0
      ELSE IF cp = 0 \/ Low(cp) THEN 0
      ELSE IF ~High(cp) THEN i + 6
      ELSE IF At(s, i + 6) = Backslash /\ At(s, i + 7) = "u" /\ Hex4At(s, i + 8) /\ Low(lo)
           THEN i + 12 ELSE 0

\* From after the opening quote.
RECURSIVE StringRest(_, _)
StringRest(s, i) ==
  CASE i = 0 \/ i > Len(s)  -> 0
    [] At(s, i) = Quote     -> i + 1
    [] At(s, i) = Backslash -> StringRest(s, Escape(s, i))
    [] At(s, i) \in Control -> 0
    [] OTHER                -> StringRest(s, i + 1)

String(s, i) == IF At(s, i) = Quote THEN StringRest(s, i + 1) ELSE 0

Number(s, i) ==
  LET from == IF At(s, i) = "-" THEN i + 1 ELSE i
      int  == CASE At(s, from) = "0" -> IF At(s, from + 1) \in Digit THEN 0 ELSE from + 1
                [] At(s, from) \in NonZero -> Digits(s, from)
                [] OTHER -> 0
      frac == IF int = 0 \/ At(s, int) # "." THEN int
              ELSE IF At(s, int + 1) \in Digit THEN Digits(s, int + 1) ELSE 0
      exp  == IF At(s, frac + 1) \in {"+", "-"} THEN frac + 2 ELSE frac + 1
  IN  IF frac = 0 \/ At(s, frac) \notin {"e", "E"} THEN frac
      ELSE IF At(s, exp) \in Digit THEN Digits(s, exp) ELSE 0

LiteralAt(s, i) ==
  LET fits == {k \in 1..3 : \A j \in 1..Len(Literal[k]) : At(s, i + j - 1) = Literal[k][j]}
  IN  IF fits = {} THEN 0 ELSE i + Len(Literal[CHOOSE k \in fits : TRUE])

RECURSIVE Value(_, _, _), Items(_, _, _, _)

Value(s, i, depth) ==
  LET at    == SkipWs(s, i)
      inner == SkipWs(s, at + 1)
  IN  IF depth > DepthMax THEN 0
      ELSE CASE At(s, at) = "{"   -> IF At(s, inner) = "}" THEN inner + 1 ELSE Items(s, inner, "}", depth)
             [] At(s, at) = "["   -> IF At(s, inner) = "]" THEN inner + 1 ELSE Items(s, inner, "]", depth)
             [] At(s, at) = Quote -> String(s, at)
             [] At(s, at) \in Digit \cup {"-"} -> Number(s, at)
             [] OTHER             -> LiteralAt(s, at)

Items(s, i, closer, depth) ==
  LET name  == String(s, SkipWs(s, i))
      colon == SkipWs(s, name)
      first == IF closer = "]" THEN i
               ELSE IF name # 0 /\ At(s, colon) = ":" THEN colon + 1 ELSE 0
      value == IF first = 0 THEN 0 ELSE Value(s, first, depth + 1)
      after == SkipWs(s, value)
  IN  CASE value = 0              -> 0
        [] At(s, after) = ","    -> Items(s, after + 1, closer, depth)
        [] At(s, after) = closer -> after + 1
        [] OTHER                 -> 0

Parses(s) == LET end == Value(s, 1, 1) IN end # 0 /\ SkipWs(s, end) = Len(s) + 1
=============================================================================
