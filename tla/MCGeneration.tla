---------------------------- MODULE MCGeneration ----------------------------
(* Setups of Generation for TLC: small vocabularies, each aimed at one part   *)
(* of the constraint layer, the splitter and the stop filter.                 *)
EXTENDS Generation, JsonParser

Text(bytes) == [kind |-> "text", bytes |-> bytes]
Texts(words) == {Text(w) : w \in words}
Stop     == [kind |-> "stop", bytes |-> <<>>]
ThinkEnd == [kind |-> "think_end", bytes |-> <<>>]

\* The bytes of the vocabularies below.
Alphabet ==
  CloseBytes \cup {"{", "[", ",", " ", "-", "+", ".", "8", "x", "y", "z", "<", ">", "/", "L2", "L3", "K"}

Name == <<"{", Quote, "a", Quote, ":">>

Base ==
  [json |-> TRUE, api |-> "buffered", chat |-> TRUE, started |-> FALSE, open |-> <<>>, close |-> <<>>,
   stops |-> {}, limit |-> 6, tokens |-> {Stop}]

\* Strings with escapes, cut anywhere; pairs of surrogates and U+0000.
Escapes ==
  [Base EXCEPT !.tokens = Texts(
     {Name \o <<Quote>>, <<"{", Quote>>, <<Backslash>>, <<"u">>, <<Backslash, "u">>, <<"0">>, <<"0", "0">>,
      <<"D", "8">>, <<"D", "C">>, <<Quote>>})]

\* Containers, names, white space and literals.
Structure ==
  [Base EXCEPT !.tokens = Texts(
     {<<"{">>, <<"}">>, <<"[">>, <<"]">>, <<Quote>>, <<":">>, <<",">>, <<" ">>, <<"t", "r">>,
      <<"u", "e">>, <<"n">>})]

Numbers ==
  [Base EXCEPT !.limit = 7, !.tokens = Texts(
     {Name, <<"-">>, <<"0">>, <<"1">>, <<".">>, <<"e">>, <<"+">>, <<",">>, <<"}">>, <<" ">>})]

\* Stops that a token cuts in two, overlap each other or match the closing bytes.
Stopped ==
  [Base EXCEPT !.stops = {<<"x", "y">>, <<"y", "x", "x">>, <<Quote, "}">>, <<"n", "u">>},
     !.tokens = Texts({Name, Name \o <<Quote>>, <<"x">>, <<"y">>, <<"x", "y">>, <<"n">>, <<Quote>>, <<"}">>,
                       <<"n", "u", "l", "l">>})]

Unconstrained == [Stopped EXCEPT !.json = FALSE, !.limit = 7, !.tokens = Texts({<<"x">>, <<"y">>, <<"y", "x">>, <<"z">>})]

\* A model that thinks.  Opening and closing tag share their first byte.
Thinking == [Base EXCEPT !.open = <<"<", "t", ">">>, !.close = <<"<", "/", ">">>]

ThinkingText ==
  [Thinking EXCEPT !.json = FALSE, !.limit = 6,
     !.tokens = Texts({<<"<">>, <<"t", ">">>, <<"/">>, <<">">>, <<" ">>, <<"<", "/", ">", "<">>})]

ThinkingJson ==
  [Thinking EXCEPT
     !.tokens = {Stop, ThinkEnd} \cup
       Texts({Thinking.open, <<"<">>, <<"t", ">">>, <<"<", "/">>, <<">">>, <<"/", ">", "{">>, <<" ">>, <<"{">>,
              Name, <<"1">>, <<"}">>})]

\* Tags and stops at once: a stop may begin like a tag, or take in part of one.
ThinkingStops ==
  [ThinkingText EXCEPT !.stops = {<<"x">>, <<"y", "<">>}, !.limit = 5,
     !.tokens = Texts({<<"x">>, <<"y">>, <<"<">>, <<"t", ">">>, <<"/", ">">>, <<">", "y">>})]

\* Streams: characters cut between tokens, and channels that alternate.
StreamedText ==
  [ThinkingText EXCEPT !.api = "responses", !.limit = 5,
     !.tokens = Texts({Thinking.open, Thinking.close, <<"<">>, <<"L3", "K">>, <<"K">>, <<"L2">>, <<"x">>})]

StreamedStops ==
  [Unconstrained EXCEPT !.api = "messages", !.limit = 5, !.stops = @ \cup {<<"y", "L3", "K", "K">>},
     !.tokens = Texts({<<"x">>, <<"y">>, <<"L3">>, <<"K">>, <<"K", "K">>})]

SoundSetups ==
  {StreamedText, [StreamedText EXCEPT !.started = TRUE, !.api = "messages"], StreamedStops,
   [Stopped EXCEPT !.api = "messages", !.limit = 4],
   Escapes, Structure, Numbers, Stopped, Unconstrained, ThinkingText,
   [ThinkingText EXCEPT !.started = TRUE], ThinkingStops,
   [ThinkingStops EXCEPT !.started = TRUE, !.api = "responses", !.limit = 4],
   [ThinkingJson EXCEPT !.stops = {<<":">>, <<"1", "}">>}, !.limit = 5]}
  \cup {[ThinkingJson EXCEPT !.chat = c, !.started = s] : <<c, s>> \in {<<TRUE, FALSE>>, <<TRUE, TRUE>>, <<FALSE, FALSE>>}}

\* A generation may end while part of a stop is withheld.
HeldSetups == {Stopped}

\* A stop may match while the splitter holds text behind it.
PastStopSetups == {ThinkingStops}

-----------------------------------------------------------------------------
(* What the parser says of the response.                                      *)

\* A response in json mode that is not split and has begun parses, whichever way the
\* generation ended: at a stop sequence, at a limit inside a string, an escape, a
\* number or a name, or by itself (constraint_close, engine_constraint_truncate).
\* (In a split response a tag inside a string is cut out, and part of an opening tag
\* in front of the document is sent.)
LegalOutput ==
  pc = "ended" /\ conf.json /\ ~Splits /\ Trim(ctx.out) # <<>> => Parses(ctx.out) \/ Overtaken

\* The same without the exception.
ClosedDocumentParses == pc = "ended" /\ conf.json /\ Trim(ctx.out) # <<>> => Parses(ctx.out)

\* "`stop` sequence drops the matched bytes and whatever was held behind them"
\* (engine.h): nothing follows the text before a stop but the closing bytes.
StopEndsTheText == pc = "ended" /\ ctx.stopped => ctx.out = BeforeStop(Said.content) \o Appended
=============================================================================
