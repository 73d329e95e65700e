----------------------------- MODULE Generation -----------------------------
(* One generation on its way from the sampler to the client: the constraint   *)
(* layer of src/engine.c (json mode with an optional thinking prelude), the   *)
(* splitter of thinking blocks of src/template.c, the filter of stop          *)
(* sequences of src/completion.c, and the end of a generation, which          *)
(* completes a document that was cut short; for a streamed response also the  *)
(* items of the event protocols, which never cut a character in two.  The     *)
(* stages see the bytes in this order, each holding some back; they have to   *)
(* agree on what the client has received.                                     *)
(*                                                                            *)
(* A step is one token.  The client stays connected and allocations succeed.  *)
(* Schemas, tool envelopes, log probabilities and speculation are left out.   *)
EXTENDS Naturals, Sequences, FiniteSets, SequencesExt, FiniteSetsExt, JsonMode

\* A setup names the request and the model:
\*   json     the response is one JSON object
\*   api      "buffered", or the protocol of a streamed response:
\*            "responses" (items) or "messages" (content blocks)
\*   chat     a chat response: thinking goes to its own channel
\*   started  the prompt ends inside a thinking block
\*   open, close  the model's thinking tags, <<>> for a model without
\*   stops    the request's stop sequences
\*   tokens   the vocabulary: [kind : {"text", "stop", "think_end"}, bytes]
\*   limit    max_tokens
CONSTANTS Setups, Byte

\* Byte is the alphabet of texts, and has the bytes that close a document.
ASSUME ByteAssumption == CloseBytes \subseteq Byte

\* The tags of a model come in pairs, and none contains the byte that opens a document
\* (think_open, model.c).  A control token decodes to nothing (tok_decode).  A stop of
\* length zero is refused (run_completion).
ASSUME SetupsAssumption ==
  \A c \in Setups :
    /\ c.open \in Seq(Byte) /\ c.close \in Seq(Byte) /\ (c.open # <<>> => c.close # <<>>)
    /\ \A i \in 1..Len(c.open) : c.open[i] # "{"
    /\ c.stops \in SUBSET (Seq(Byte) \ {<<>>})
    /\ \A t \in c.tokens : t.bytes \in Seq(Byte) /\ (t.kind # "text" => t.bytes = <<>>)

VARIABLES
  conf,     \* the setup
  pc,       \* "step", "close", "finish" or "ended"
  eng,      \* the constraint state of the engine
  ctx,      \* the response under construction (gen_ctx)
  count,    \* gen_count
  prelude,  \* prelude_count
  fed,      \* history: every byte of the model's that reached the callback
  tail,     \* history: the bytes that closed the document
  late      \* history: the partial stop withheld when the document was closed

vars == <<conf, pc, eng, ctx, count, prelude, fed, tail, late>>

Tagged == conf.open # <<>>
Splits == conf.chat /\ Tagged  \* think_init was given an opening tag

\* Where does a word begin in a text for the first time?  0: nowhere.
Begins(word, text, i) == /\ i + Len(word) - 1 <= Len(text)
                         /\ SubSeq(text, i, i + Len(word) - 1) = word
FirstAt(word, text)   == LET at == {i \in 1..Len(text) : Begins(word, text, i)}
                         IN  IF at = {} THEN 0 ELSE Min(at)
From(text, i)         == SubSeq(text, i, Len(text))
UpTo(text, i)         == SubSeq(text, 1, i)

Space(c)    == c \in Ws
Spaces(text) == Cardinality({i \in 1..Len(text) : \A j \in 1..i : Space(text[j])})
Trim(text)  == From(text, Spaces(text) + 1)

-----------------------------------------------------------------------------
(* The constraint layer.  phase tells where the model is: "probe" while it    *)
(* may open a thinking block or start the document, "think" inside the block, *)
(* "after_think" and "output".  doc records the document for truncation.      *)

Engine ==
  [phase |-> IF Tagged THEN "probe" ELSE "output", tag_possible |-> Tagged,
   tag_match |-> 0, close_match |-> 0, jv |-> Start, doc |-> <<>>]

InThink(e) == [e EXCEPT !.phase = "think", !.tag_possible = FALSE, !.tag_match = 0,
                        !.close_match = 0]

PayloadFeed(e, bytes) == [e EXCEPT !.jv = Feed(@, bytes), !.doc = @ \o bytes]
PayloadReset(e)       == [e EXCEPT !.jv = Start, !.doc = <<>>]

\* How much of the tag the text ends with, one byte further.
TagAdvance(tag, match, c) ==
  LET text == Append(UpTo(tag, match), c)
  IN  Max({k \in 0..Len(tag) : IsSuffix(UpTo(tag, k), text)})

\* Bytes inside a thinking block; the payload begins after the closing tag.
FeedThink(e, bytes) ==
  LET match(i) == FoldLeft(LAMBDA m, c : TagAdvance(conf.close, m, c), e.close_match, UpTo(bytes, i))
      ends     == {i \in 1..Len(bytes) : match(i) = Len(conf.close)}
      out      == PayloadReset([e EXCEPT !.phase = "output", !.close_match = 0])
  IN  IF ends = {} THEN [eng |-> [e EXCEPT !.close_match = match(Len(bytes))], hidden |-> Len(bytes)]
      ELSE [eng |-> PayloadFeed(out, From(bytes, Min(ends) + 1)), hidden |-> Min(ends)]

\* Bytes while both starts are open: the document, or spaces and the tag.
FeedProbe(e, bytes) ==
  LET spaces  == IF e.tag_match = 0 THEN Spaces(bytes) ELSE 0
      rest    == From(bytes, spaces + 1)
      needed  == From(conf.open, e.tag_match + 1)
      inside  == FeedThink(PayloadReset(InThink(e)), From(rest, Len(needed) + 1))
      payload == PayloadFeed(e, bytes)
      tag     == e.tag_possible /\ IsPrefix(rest, needed)
      kept    == IF payload.jv.st # "refused" THEN payload
                 ELSE IF tag THEN e ELSE [e EXCEPT !.jv = Refuse(@)]
  IN  IF e.tag_possible /\ IsPrefix(needed, rest)
      THEN [eng |-> inside.eng, hidden |-> Len(bytes) - Len(rest) + Len(needed) + inside.hidden]
      ELSE IF tag
      THEN [eng |-> [kept EXCEPT !.tag_match = @ + Len(rest)], hidden |-> Len(bytes)]
      ELSE [eng |-> [kept EXCEPT !.tag_possible = FALSE, !.tag_match = 0, !.phase = "output"],
            hidden |-> 0]

\* A token's bytes, and how many of them come before the document.
ConstraintFeed(e, bytes) ==
  CASE e.phase = "probe" -> FeedProbe(e, bytes)
    [] e.phase = "think" -> FeedThink(e, bytes)
    [] OTHER -> [eng |-> PayloadFeed([e EXCEPT !.phase = "output"], bytes), hidden |-> 0]

DocumentDone(e) == conf.json /\ e.phase = "output" /\ e.jv.st = "done"

\* May the sampler pick the token?
TokenOk(t) ==
  \/ ~conf.json
  \/ t.kind = "text" /\ ConstraintFeed(eng, t.bytes).eng.jv.st # "refused"
  \/ t.kind # "text" /\ (eng.phase \in {"think", "after_think"} \/ DocumentDone(eng))

\* A bug: the validator stays ahead of the client.
Truncate_Not(e, n) == e

\* The last n bytes of the document will not reach the client.
Truncate(e, n) ==
  LET doc == UpTo(e.doc, Len(e.doc) - n)
  IN  IF ~conf.json \/ e.doc = <<>> THEN e
      ELSE IF n >= Len(e.doc) THEN PayloadReset(e)
      ELSE [e EXCEPT !.jv = Feed(Start, doc), !.doc = doc]

-----------------------------------------------------------------------------
(* The sink.  Its operators take and return the state [e, g, fed, prelude] of *)
(* engine and response, because a stop reaches back into the engine.          *)

Work == [e |-> eng, g |-> ctx, fed |-> fed, prelude |-> prelude]

Context ==
  [split |-> IF conf.started /\ Splits THEN "think" ELSE "content", buf |-> <<>>,
   hold |-> <<>>, stopped |-> FALSE, out |-> <<>>, reason |-> <<>>,
   u8_pend |-> [content |-> <<>>, reason |-> <<>>], items |-> <<>>, item_open |-> FALSE]

\* An item of the other kind is closed by the one that opens.
OpenItem(g, kind) ==
  IF g.item_open /\ Last(g.items).kind = kind THEN g
  ELSE [g EXCEPT !.items = Append(@, [kind |-> kind, deltas |-> <<>>]), !.item_open = TRUE]

SendRaw(g, kind, bytes) ==
  LET at == Len(OpenItem(g, kind).items)
  IN  IF bytes = <<>> THEN g
      ELSE [OpenItem(g, kind) EXCEPT !.items[at].deltas = Append(@, bytes)]

\* Bytes of characters of more than one: the leads, and what continues them.
Further  == "K"
Width(c) == CASE c = "L2" -> 2 [] c = "L3" -> 3 [] c = "L4" -> 4 [] OTHER -> 0

\* How many bytes at the end are a character that is not complete yet.
IncompleteTail(text) ==
  LET FromEnd(k) == text[Len(text) + 1 - k]
      leads == {k \in 1..Min({3, Len(text)}) :
                  /\ FromEnd(k) # Further
                  /\ \A j \in 1..(k - 1) : FromEnd(j) = Further}
      waits == {k \in leads : Width(FromEnd(k)) > k}
  IN  IF waits = {} THEN 0 ELSE Min(waits)

SendDelta(g, kind, bytes) ==
  LET joined == g.u8_pend[kind] \o bytes
      emit   == Len(joined) - IncompleteTail(joined)
  IN  [SendRaw(g, kind, UpTo(joined, emit)) EXCEPT !.u8_pend[kind] = From(joined, emit + 1)]

FlushDelta(g, kind) == [SendRaw(g, kind, g.u8_pend[kind]) EXCEPT !.u8_pend[kind] = <<>>]

\* What a stream owes its client at the end: a message has at least one block, and
\* what was opened is closed.
Terminal(g) ==
  IF conf.api = "messages" /\ g.items = <<>>
  THEN [OpenItem(g, "content") EXCEPT !.item_open = FALSE]
  ELSE [g EXCEPT !.item_open = FALSE]

EmitChannel(g, reasoning, bytes) ==
  LET kind == IF reasoning THEN "reason" ELSE "content"
      sent == IF conf.api = "buffered" THEN g ELSE SendDelta(g, kind, bytes)
  IN  IF reasoning THEN [sent EXCEPT !.reason = @ \o bytes] ELSE [sent EXCEPT !.out = @ \o bytes]

\* The longest end of the text that a stop may begin with.
Keep(text) ==
  Max({k \in 0..Len(text) :
         k = 0 \/ \E s \in conf.stops : k < Len(s) /\ IsSuffix(UpTo(s, k), text)})

StopFeed(w, bytes) ==
  LET held == w.g.hold \o bytes
      hits == {i \in 1..Len(held) : \E s \in conf.stops : Begins(s, held, i)}
      at   == Min(hits) - 1
      free == Len(held) - Keep(held)
  IN  IF hits # {}
      THEN [w EXCEPT
              !.e = Truncate(@, Len(held) - at),
              !.g = [EmitChannel(@, FALSE, UpTo(held, at)) EXCEPT !.hold = <<>>, !.stopped = TRUE]]
      ELSE [w EXCEPT !.g = [EmitChannel(w.g, FALSE, UpTo(held, free))
                              EXCEPT !.hold = From(held, free + 1)]]

\* closing: the bytes are the engine's, not the model's.
GenEmit(w, reasoning, bytes, closing) ==
  IF bytes = <<>> THEN w
  ELSE IF reasoning \/ closing \/ conf.stops = {}
  THEN [w EXCEPT !.g = EmitChannel(w.g, reasoning, bytes)]
  ELSE StopFeed(w, bytes)

\* A bug: one byte too few.
SplitHold_Short(tag, text) == IF Len(tag) < 2 THEN 0 ELSE Min({Len(tag) - 2, Len(text)})

\* How much of an unfinished section may be the beginning of its tag.
SplitHold(tag, text) == Min({Len(tag) - 1, Len(text)})

\* One turn of the splitter's loop over the text that is left, up to the next tag.
\* White space after an opening tag is dropped.
SplitRound(r, closing) ==
  LET w     == r.w
      think == w.g.split # "content"
      text  == IF w.g.split = "ws" THEN Trim(r.text) ELSE r.text
      tag   == IF think THEN conf.close ELSE conf.open
      at    == FirstAt(tag, text)
      hold  == SplitHold(tag, text)
      rest  == From(text, at + Len(tag))
      here  == [w EXCEPT !.g.split = IF think THEN "think" ELSE "content"]
      part  == GenEmit(here, think, UpTo(text, IF at = 0 THEN Len(text) - hold ELSE at - 1), closing)
      next  == IF think THEN "content" ELSE "ws"
  IN  CASE w.g.split = "ws" /\ text = <<>> -> [r EXCEPT !.more = FALSE]
        [] at = 0 /\ ~(w.g.split = "ws" /\ text = <<>>) ->
             [r EXCEPT !.w = [part EXCEPT !.g.buf = From(text, Len(text) - hold + 1)], !.more = FALSE]
        [] at > 0 /\ part.g.stopped /\ ~w.g.stopped ->
             [r EXCEPT !.w = [part EXCEPT !.g.buf = rest], !.more = FALSE]
        [] OTHER -> [r EXCEPT !.w = [part EXCEPT !.g.split = next], !.text = rest]

\* The splitter over the bytes it held and the new ones.  A round that goes on has
\* consumed a tag.
Split(w, text, closing) ==
  LET round[n \in Nat] ==
        IF n = 0 THEN [w |-> w, text |-> text, more |-> TRUE]
        ELSE LET last == round[n - 1] IN IF last.more THEN SplitRound(last, closing) ELSE last
  IN  round[Len(text) + 1].w

\* The callback of the generation, which no stop has ended.
GenCollect(w, bytes, closing) ==
  LET heard == IF closing THEN w ELSE [w EXCEPT !.fed = @ \o bytes]
  IN  IF bytes = <<>> \/ (w.g.stopped /\ ~closing) THEN w
      ELSE IF Splits THEN Split([heard EXCEPT !.g.buf = <<>>], w.g.buf \o bytes, closing)
      ELSE GenEmit(heard, FALSE, bytes, closing)

\* What is left in the splitter is text of the section it stopped in.
ThinkFinish(w) ==
  IF w.g.split = "ws" THEN [w EXCEPT !.g.buf = <<>>]
  ELSE [GenEmit(w, w.g.split = "think", w.g.buf, FALSE) EXCEPT !.g.buf = <<>>]

-----------------------------------------------------------------------------
(* The generation.                                                            *)

PreludeMax == IF conf.limit > 1 THEN conf.limit \div 2 ELSE conf.limit

\* The bytes of a token for which the engine calls the sink, in two parts.
Shown(t, hidden) ==
  IF ~conf.json THEN <<<<>>, t.bytes>>
  ELSE <<IF Splits THEN UpTo(t.bytes, hidden) ELSE <<>>, From(t.bytes, hidden + 1)>>

\* constraint_accept: f tells what the constraint layer made of the token.
Accept(t, f) ==
  GenCollect(GenCollect([Work EXCEPT !.e = f.eng], Shown(t, f.hidden)[1], FALSE),
             Shown(t, f.hidden)[2], FALSE)

\* The end of a thinking block that no closing tag announced.
FinishThink(w) ==
  LET closed == IF w.e.phase = "think" /\ Splits THEN GenCollect(w, conf.close, FALSE) ELSE w
  IN  [closed EXCEPT !.e = PayloadReset(
         [InThink(@) EXCEPT !.phase = IF w.e.phase = "think" THEN "after_think" ELSE "output"])]

ControlAccept(t, w) ==
  IF conf.json /\ t.kind = "think_end" /\ w.e.phase = "think" THEN FinishThink(w) ELSE w

\* The prelude may use up half of the budget and is then closed.
CountPrelude(w) ==
  LET more == [w EXCEPT !.prelude = @ + 1]
  IN  IF ~conf.json \/ eng.phase = "output" \/ w.g.stopped \/ w.e.phase \notin {"probe", "think"}
      THEN w
      ELSE IF more.prelude < PreludeMax THEN more ELSE FinishThink(more)

Leave == pc' = "close" /\ UNCHANGED <<conf, tail, late>>

\* The budget is spent, or no token continues the document.
StepDone ==
  /\ pc = "step"
  /\ count = conf.limit \/ ~\E t \in conf.tokens : TokenOk(t)
  /\ Leave
  /\ UNCHANGED <<eng, ctx, count, prelude, fed>>

SampleStop ==
  /\ pc = "step" /\ count < conf.limit
  /\ \E t \in conf.tokens : t.kind = "stop" /\ TokenOk(t)
  /\ Leave
  /\ UNCHANGED <<eng, ctx, count, prelude, fed>>

\* The generation goes on unless a stop matched, the document is complete, or a
\* deadline, a shutdown or a failed forward cuts it.
GenStep(w) ==
  /\ eng' = w.e /\ ctx' = w.g /\ fed' = w.fed /\ prelude' = w.prelude
  /\ count' = count + 1
  /\ \/ ~w.g.stopped /\ ~DocumentDone(w.e) /\ pc' = "step"
     \/ pc' = "close"
  /\ UNCHANGED <<conf, tail, late>>

\* A token that does not end it is validated, split, filtered and counted.
Sample(t) ==
  /\ pc = "step" /\ count < conf.limit
  /\ t.kind # "stop" /\ TokenOk(t)
  /\ LET f == IF conf.json /\ t.kind = "text" THEN ConstraintFeed(eng, t.bytes)
              ELSE [eng |-> eng, hidden |-> 0]
     IN  GenStep(CountPrelude(ControlAccept(t, Accept(t, f))))

\* engine_gen_end: a document cut short is completed, past the stop filter.
ConstraintClose ==
  /\ pc = "close"
  /\ LET e     == IF conf.json /\ eng.phase # "output" THEN PayloadReset(eng) ELSE eng
         bytes == IF conf.json THEN Close(e.jv) ELSE <<>>
         w     == GenCollect([Work EXCEPT !.e = e], bytes, TRUE)
     IN  /\ eng' = [e EXCEPT !.doc = <<>>, !.jv = IF bytes = <<>> THEN @ ELSE Goto(Start, "done"),
                             !.phase = IF conf.json THEN "output" ELSE @]
         /\ ctx' = w.g
         /\ tail' = bytes
  /\ late' = ctx.hold
  /\ pc' = "finish"
  /\ UNCHANGED <<conf, count, prelude, fed>>

\* The stop filter gives up what it still holds, and the stream ends.
GiveUp(g) ==
  LET all == IF g.stopped THEN g ELSE [EmitChannel(g, FALSE, g.hold) EXCEPT !.hold = <<>>]
  IN  IF conf.api = "buffered" THEN all
      ELSE Terminal(FlushDelta(FlushDelta(all, "content"), "reason"))

\* After the splitter has.
Finish ==
  /\ pc = "finish"
  /\ LET w == ThinkFinish(Work)
     IN  /\ eng' = w.e
         /\ ctx' = GiveUp(w.g)
  /\ pc' = "ended"
  /\ UNCHANGED <<conf, count, prelude, fed, tail, late>>

Ended == pc = "ended" /\ UNCHANGED vars

Init ==
  /\ conf \in Setups
  /\ pc = "step"
  /\ eng = IF conf.started /\ Tagged THEN InThink(Engine) ELSE Engine
  /\ ctx = Context
  /\ count = 0 /\ prelude = 0
  /\ fed = <<>> /\ tail = <<>> /\ late = <<>>

Next ==
  \/ StepDone
  \/ SampleStop
  \/ \E t \in conf.tokens : Sample(t)
  \/ ConstraintClose
  \/ Finish
  \/ Ended

Spec == Init /\ [][Next]_vars

-----------------------------------------------------------------------------
(* Properties.                                                                *)

\* A batch reading of the thinking tags: what a whole text says by channel, if it
\* begins in the given section.
Silence == [content |-> <<>>, reason |-> <<>>]
Says(channel, word, rest) == [rest EXCEPT ![channel] = word \o @]

Reading[text \in Seq(Byte)] ==
  LET Section(tag, word, channel, next) ==
        LET at == FirstAt(tag, word)
        IN  IF at = 0 THEN Says(channel, word, Silence)
            ELSE Says(channel, UpTo(word, at - 1), Reading[From(word, at + Len(tag))][next])
  IN  [section \in {"content", "think", "ws"} |->
         CASE section = "content" -> Section(conf.open, text, "content", "ws")
           [] section = "think"   -> Section(conf.close, text, "reason", "content")
           [] section = "ws"      -> Section(conf.close, Trim(text), "reason", "content")]

\* At most one of the splitter and the filter withholds content.
OneStage == ~Splits \/ conf.stops = {}

\* What was said, by channel: by the model, and in a split response by the closing
\* bytes too, which pass through the splitter like the model's.
Said == IF Splits THEN Reading[fed \o tail][Context.split] ELSE Says("content", fed, Silence)

\* The closing bytes of another response go to the client as they are.
Appended == IF Splits THEN <<>> ELSE tail

\* The part of a text before the first stop.
StopsIn(text)     == {i \in 1..Len(text) : \E s \in conf.stops : Begins(s, text, i)}
BeforeStop(text)  == IF StopsIn(text) = {} THEN text ELSE UpTo(text, Min(StopsIn(text)) - 1)

\* The generation ended while part of a stop was withheld, and the closing
\* bytes went out before it.
Overtaken == tail # <<>> /\ late # <<>>

\* The deltas of a channel, as the items of a stream carry them.
Deltas(kind) ==
  FlattenSeq([i \in 1..Len(ctx.items) |->
                IF ctx.items[i].kind = kind THEN ctx.items[i].deltas ELSE <<>>])

\* No character is cut off at the end of the text.
Whole(text) ==
  \A i \in 1..Len(text) : (\A j \in (i + 1)..Len(text) : text[j] = Further) =>
                          Width(text[i]) <= Len(text) + 1 - i

\* However its bytes were cut into tokens, a finished response carries what was said up
\* to the first stop, every byte once, in order and in its own channel, followed by the
\* closing bytes alone; and it counts as stopped exactly if a stop was said (think_feed,
\* stop_feed, and their ends).  This is for responses that are split or filtered, not
\* both.  One that is both must not have been closed; and if a stop matched in it,
\* nothing before the stop is missing and no reasoning is made up, but bytes behind the
\* stop may follow (StopEndsTheText of MCGeneration).  A stream carries the same in its
\* items, however characters were cut ("silently dropping bytes would make the streamed
\* turn shorter than the buffered one, which is the invariant that matters",
\* completion.c); no two deltas of a channel share a character, neighbouring items
\* differ in kind, and every item is closed.
ContentIsDelivered ==
  pc = "ended" /\ ~Overtaken /\ (OneStage \/ tail = <<>>) =>
    /\ OneStage \/ ~ctx.stopped =>
         ctx.out = BeforeStop(Said.content) \o Appended /\ ctx.reason = Said.reason
    /\ ~OneStage => IsPrefix(BeforeStop(Said.content), ctx.out) /\ IsPrefix(ctx.reason, Said.reason)
    /\ ctx.stopped = (StopsIn(Said.content) # {})
    /\ conf.api # "buffered" =>
         /\ FlattenSeq(Deltas("content")) = ctx.out /\ FlattenSeq(Deltas("reason")) = ctx.reason
         /\ \A kind \in {"content", "reason"} :
              \A i \in 2..Len(Deltas(kind)) :
                Whole(Deltas(kind)[i - 1]) \/ Deltas(kind)[i][1] # Further
         /\ \A i \in 2..Len(ctx.items) : ctx.items[i].kind # ctx.items[i - 1].kind
         /\ ~ctx.item_open

\* When a generation whose response is not split is over, the validator stands at the
\* end of the document the client has or will be given, not of the one the model had
\* reached.  (In a split response the splitter may take for a tag, or send ahead of the
\* document, what the validator reads otherwise.)
ClientHasDocument ==
  pc = "close" /\ conf.json /\ eng.phase = "output" /\ ~Splits =>
    eng.doc = Trim(ctx.out \o ctx.hold)
=============================================================================
