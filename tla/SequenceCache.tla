--------------------------- MODULE SequenceCache ---------------------------
(***************************************************************************)
(* What a slot has computed, and the store of prefix snapshots that slots   *)
(* share: src/src/engine.c (rewind, fork, publish, feed, the solo and the   *)
(* speculative decode loop) with the state it drives in model.c (KV rows,   *)
(* recurrent fold and its snapshot) and cuda.c (device mirror of the rows). *)
(*                                                                          *)
(* A KV row is modelled by what it was computed from: the model's key and   *)
(* the tokens up to its own.  A recurrent fold is the sequence folded.  So  *)
(* a row, a fold or a draft that belongs to other tokens is told apart from *)
(* the right one, and sampling from it is visible in `logits`.              *)
(***************************************************************************)
EXTENDS Integers, Sequences, SequencesExt, FiniteSetsExt

CONSTANTS
  Slots, Tokens,
  NBatch,      \* n_batch: the chunk of engine_feed
  MinTokens,   \* PFX_MIN_TOKENS
  MaxEntries,  \* PFX_MAX_ENTRIES
  DraftMax,    \* draft_k
  Setups       \* what is served: see SetupsAssumption

ASSUME SetupsAssumption ==
  \A c \in Setups :
    /\ c.recurrent \in BOOLEAN     \* model_has_recurrent
    /\ c.snapbuf \in BOOLEAN       \* its snapshot buffers were allocated
    /\ c.gpu \in BOOLEAN           \* full offload (dense models only, here)
    /\ c.gpu => ~c.recurrent
    /\ c.draft \in {"none", "dense", "recurrent"}
    /\ c.spec \in BOOLEAN          \* requests may speculate (engine_wants_spec)
    /\ c.slots \subseteq Slots
    /\ c.ctx \in Nat               \* n_ctx
    /\ c.keys # {}                 \* more than one: a registry, hence one slot
    /\ c.prompts \subseteq Seq(Tokens) /\ \A p \in c.prompts : Len(p) \in 1 .. c.ctx
    /\ c.budget \in Nat            \* bytes: a row is one, a fold is one
    /\ c.requests \in Nat          \* bound of the model: requests in a behaviour

ASSUME BoundsAssumption ==
  /\ NBatch \in Nat \ {0} /\ MinTokens \in Nat /\ MinTokens >= 2
  /\ MaxEntries \in Nat \ {0} /\ DraftMax \in Nat

VARIABLES
  conf,   \* the setup, fixed at the start
  e,      \* the engine of each slot, with its model's sequence state
  store,  \* PFX: the snapshots, least recently used first
  served  \* requests so far

vars == <<conf, e, store, served>>

NoSnap == [pos |-> -1, fold |-> <<>>]
Prefix(toks, n) == SubSeq(toks, 1, n)
Common(p, q) == Len(LongestCommonPrefix({p, q}))

\* engine_init: nothing computed by the model of this key.
Fresh(k, gpu) ==
  [key |-> k, gpu |-> gpu,
   hist |-> <<>>,                            \* hist[0 .. pos)
   kv |-> [q \in 1 .. conf.ctx |-> <<>>],         \* host rows
   dev |-> [q \in 1 .. conf.ctx |-> <<>>],        \* device rows
   last_pos |-> -2,                          \* of the device
   fold |-> <<k>>, snap |-> NoSnap,
   draft |-> [toks |-> <<>>, fold |-> <<>>], \* the draft's rows [0, dpos), its fold
   logits |-> <<>>,
   pc |-> "idle", prompt |-> <<>>, share |-> FALSE, spec |-> FALSE]

\* The request is over: what it left is the sequence, not its arguments.
Ended(x) ==
  [x EXCEPT !.pc = "idle", !.prompt = <<>>, !.share = FALSE, !.spec = FALSE, !.logits = <<>>]

Pos(x) == Len(x.hist)
Own(x, n) == <<x.key>> \o Prefix(x.hist, n)  \* what row n - 1 has to be

-----------------------------------------------------------------------------
(* The forward pass.                                                       *)

\* What attention over rows [0, pos) and the fold amount to: one sequence, if
\* they all belong to the same one, and no sequence of the program otherwise.
Context(k, rows, fold, pos) ==
  LET ctx == IF pos = 0 THEN <<k>> ELSE rows[pos]
  IN  IF /\ Len(ctx) = pos + 1
         /\ \A q \in 1 .. pos : rows[q] = Prefix(ctx, q + 1)
         /\ conf.recurrent => fold = ctx
      THEN ctx ELSE <<"garbled">>

\* Device rows follow the host's only when the position is not the next one.
Resync(x, pos) == IF pos # x.last_pos + 1 THEN x.kv ELSE x.dev

\* model_forward_batch: rows [pos, pos + n), on the device and copied back, or on
\* the host.  Position 0 is where a fold starts over.
Forward(x, toks, pos) ==
  LET seen == IF x.gpu THEN Resync(x, pos) ELSE x.kv
      fold == IF pos = 0 THEN <<x.key>> ELSE x.fold
      ctx  == Context(x.key, seen, fold, pos)
      new  == pos + 1 .. pos + Len(toks)
      Row(q) == ctx \o Prefix(toks, q - pos)
  IN  [x EXCEPT
        !.kv = [q \in 1 .. conf.ctx |-> IF q \in new THEN Row(q) ELSE @[q]],
        !.dev = IF x.gpu THEN [q \in 1 .. conf.ctx |-> IF q \in new THEN Row(q)
                                                 ELSE IF q <= pos THEN seen[q] ELSE @[q]]
                         ELSE @,
        !.last_pos = IF x.gpu THEN pos + Len(toks) - 1 ELSE @,
        !.fold = IF conf.recurrent THEN fold \o toks ELSE @,
        !.snap = IF pos = 0 THEN NoSnap ELSE @,
        !.logits = ctx \o toks]

CanRestore(x, pos) == conf.snapbuf /\ x.snap.pos = pos

\* Mutant: a recurrent draft is clamped like a dense one.
DposRewind_Clamps(d, n) == IF Len(d.toks) <= n THEN d ELSE [d EXCEPT !.toks = Prefix(@, n)]

\* A dense draft keeps its first n rows; a recurrent one starts over.
DposRewind(d, n) ==
  IF Len(d.toks) <= n THEN d
  ELSE [d EXCEPT !.toks = IF conf.draft = "recurrent" THEN <<>> ELSE Prefix(@, n)]

DraftRewound(x, n) == [x EXCEPT !.draft = DposRewind(@, n)]

DraftForward(d, toks) ==
  [toks |-> d.toks \o toks, fold |-> (IF d.toks = <<>> THEN <<>> ELSE d.fold) \o toks]

-----------------------------------------------------------------------------
(* Reuse: the slot's own rows, then the store.                             *)

\* engine_rewind: the fold is not sliceable, so without a snapshot at the very
\* position nothing is kept.
EngineRewind(x, toks) ==
  LET same == Min({Common(x.hist, toks), Len(toks) - 1})
      moves == conf.recurrent /\ same < Pos(x)
      keep == IF moves /\ ~CanRestore(x, same) THEN 0 ELSE same
  IN  [x EXCEPT !.hist = Prefix(@, keep),
                !.draft = DposRewind(@, keep),
                !.fold = IF ~moves THEN @
                         ELSE IF CanRestore(x, same) THEN x.snap.fold ELSE <<x.key>>,
                !.snap = IF moves /\ ~CanRestore(x, same) THEN NoSnap ELSE @]

\* engine_reset
EngineReset(x) == [x EXCEPT !.hist = <<>>, !.draft.toks = <<>>]

\* Entries unused for longer than the ttl are gone: the oldest ones.
Unexpired == {SubSeq(store, i, Len(store)) : i \in 1 .. Len(store) + 1}

Matched(x, toks, entry) ==
  IF entry.key = x.key THEN Min({Common(entry.toks, toks), Len(toks) - 1}) ELSE 0

\* Mutant: the mirror is not moved off the position.
Disturb_Not(x, tok) == x

\* One forward at position 0: the next one cannot be contiguous.
Disturb(x, tok) == IF x.gpu THEN Forward(x, <<tok>>, 0) ELSE x

\* pfx_load, with the fold of an exact hit.
Fork(x, toks, entry, n) ==
  LET y == Disturb(x, toks[1])
  IN  [y EXCEPT !.kv = [q \in 1 .. conf.ctx |-> IF q <= n THEN entry.rows[q] ELSE @[q]],
                !.fold = IF conf.recurrent THEN entry.fold ELSE @,
                !.snap = IF conf.recurrent THEN NoSnap ELSE @,
                !.hist = Prefix(toks, n),
                !.draft.toks = <<>>]

Used(st, i) == Append(RemoveAt(st, i), st[i])

MayFork(x, entry, n) ==
  /\ conf.recurrent => n = Len(entry.toks) /\ ~x.gpu
  /\ n >= MinTokens /\ n > Pos(x)

\* A request starts: cache_prompt and prefix_cache choose how much is reused.
\* (Of equally long matches the code takes the one stored last.)
Begin(s, toks, how, spec) ==
  /\ e[s].pc = "idle" /\ served < conf.requests
  /\ served' = served + 1
  /\ LET x == IF how = "none" THEN EngineReset(e[s]) ELSE EngineRewind(e[s], toks)
         y == [x EXCEPT !.pc = "feed", !.prompt = toks, !.spec = spec,
                        !.share = how = "share"]
     IN  IF how # "share" \/ Len(toks) < 2
           THEN e' = [e EXCEPT ![s] = y] /\ UNCHANGED store
           ELSE \E st \in Unexpired :
                  LET best == Max({Matched(y, toks, st[i]) : i \in DOMAIN st} \cup {0})
                      Hits == {i \in DOMAIN st : Matched(y, toks, st[i]) = best}
                      May(i) == best > 0 /\ MayFork(y, st[i], best)
                  IN  \/ \E i \in Hits :
                           /\ May(i)
                           /\ e' = [e EXCEPT ![s] = Fork(y, toks, st[i], best)]
                           /\ store' = [Used(st, i) EXCEPT ![Len(st)].proven = TRUE]
                      \/ /\ Hits = {} \/ \E i \in Hits : ~May(i)
                         /\ e' = [e EXCEPT ![s] = y] /\ store' = st
  /\ UNCHANGED conf

-----------------------------------------------------------------------------
(* Prefill and publication.                                                *)

\* One chunk of engine_feed.
Feed(s) ==
  /\ e[s].pc = "feed"
  /\ LET x == e[s]
         rest == SubSeq(x.prompt, Pos(x) + 1, Len(x.prompt))
         chunk == Prefix(rest, Min({NBatch, Len(rest)}))
         y == Forward([x EXCEPT !.hist = @ \o chunk], chunk, Pos(x))
     IN  \/ Len(chunk) = Len(rest) /\ e' = [e EXCEPT ![s] = [y EXCEPT !.pc = "publish"]]
         \/ Len(chunk) < Len(rest) /\ e' = [e EXCEPT ![s] = y]
         \/ Len(chunk) < Len(rest) /\ e' = [e EXCEPT ![s] = Ended(y)]  \* the client left
  /\ UNCHANGED <<conf, store, served>>

EntryBytes(n) == n + (IF conf.recurrent THEN 1 ELSE 0)
Bytes(st) == MapThenSumSet(LAMBDA i : EntryBytes(Len(st[i].toks)), DOMAIN st)

\* The entries at the positions T, in the order of the list.
InOrder(T) ==
  CHOOSE f \in [1 .. Cardinality(T) -> T] : \A i, j \in DOMAIN f : i < j => f[i] < f[j]
Among(st, T) == [i \in 1 .. Cardinality(T) |-> st[InOrder(T)[i]]]

\* pfx_trim: unproven entries leave first, each class from the least recently used.
Trim(st, need) ==
  LET Proven == {i \in DOMAIN st : st[i].proven}
      order == InOrder(DOMAIN st \ Proven) \o InOrder(Proven)
      Left(k) == Among(st, {order[i] : i \in k + 1 .. Len(order)})
      Fits(k) == \/ k = Len(order)
                 \/ Bytes(Left(k)) + need <= conf.budget /\ Len(order) - k < MaxEntries
  IN  Left(Min({k \in 0 .. Len(order) : Fits(k)}))

\* pfx_save: rows [0, n) and the live fold.
Snapshot(x, n) ==
  [key |-> x.key, toks |-> Prefix(x.prompt, n),
   rows |-> SubSeq(x.kv, 1, n), fold |-> x.fold, proven |-> FALSE]

Covers(entry, k, toks) == entry.key = k /\ IsPrefix(toks, entry.toks)

\* Mutant: the truncated prompt is not looked up again.
StoreTo_Blind(x, kept, toks, n) ==
  LET st == Trim(kept, EntryBytes(n))
  IN  {st} \cup (IF Bytes(st) + EntryBytes(n) > conf.budget THEN {}
                 ELSE {Append(st, Snapshot(x, n))})

\* The stores that storing x's first n tokens can leave: an allocation may fail.
StoreTo(x, kept, toks, n) ==
  LET st == Trim(kept, EntryBytes(n))
      Covering == {i \in DOMAIN kept : Covers(kept[i], x.key, Prefix(toks, n))}
  IN  IF Covering # {} THEN {Used(kept, i) : i \in Covering}
      ELSE {st} \cup (IF Bytes(st) + EntryBytes(n) > conf.budget THEN {}
                      ELSE {Append(st, Snapshot(x, n))})

\* engine_prefix_publish: half the budget at most, and only up to the point where
\* a stored prompt was seen to differ.
Published(x, st) ==
  LET n == IF EntryBytes(Len(x.prompt)) > conf.budget \div 2
             THEN (conf.budget \div 2) \div EntryBytes(1) ELSE Len(x.prompt)
      toks == Prefix(x.prompt, n)
      Covering == {i \in DOMAIN st : Covers(st[i], x.key, toks)}
      kept == Among(st, {i \in DOMAIN st :
                           ~(st[i].key = x.key /\ IsPrefix(st[i].toks, toks))})
      diverge == Max({0} \cup {Common(entry.toks, toks) :
                               entry \in {y \in Range(kept) : y.key = x.key}})
  IN  IF n < MinTokens THEN {st}
      ELSE IF Covering # {} THEN {Used(st, i) : i \in Covering}
      ELSE StoreTo(x, kept, toks, IF diverge >= MinTokens THEN diverge ELSE n)

Publish(s) ==
  /\ e[s].pc = "publish"
  /\ e' = [e EXCEPT ![s].pc = "gen", ![s].prompt = <<>>, ![s].share = FALSE]
  /\ IF e[s].share /\ Len(e[s].prompt) >= MinTokens /\ conf.budget > 0
       THEN \E st \in Unexpired : store' \in Published(e[s], st)
       ELSE UNCHANGED store
  /\ UNCHANGED <<conf, served>>

\* prefix_cache_clear: an unload or the endpoint.
Clear == store # <<>> /\ store' = <<>> /\ UNCHANGED <<conf, e, served>>

-----------------------------------------------------------------------------
(* Decoding.                                                               *)

\* The generation ends between two tokens: limit, stop token, hang-up, end of
\* document.
Finish(s) ==
  /\ e[s].pc = "gen"
  /\ e' = [e EXCEPT ![s] = Ended(@)]
  /\ UNCHANGED <<conf, store, served>>

\* engine_gen_step hands out the sampled token and its position ...
GenStep(s, tok) ==
  /\ e[s].pc = "gen" /\ ~e[s].spec /\ Pos(e[s]) < conf.ctx
  /\ e' = [e EXCEPT ![s].hist = Append(@, tok), ![s].pc = "forward"]
  /\ UNCHANGED <<conf, store, served>>

\* ... the caller forwards it, alone or in a batch ...
GenForward(s) ==
  /\ e[s].pc = "forward"
  /\ e' = [e EXCEPT ![s] =
             [Forward(@, <<Last(@.hist)>>, Pos(@) - 1) EXCEPT !.pc = "gen"]]
  /\ UNCHANGED <<conf, store, served>>

\* ... or gives it up, and engine_gen_end takes the token back.
GenAbandon(s) ==
  /\ e[s].pc = "forward"
  /\ LET x == [e[s] EXCEPT !.hist = Front(@)]
     IN  e' = [e EXCEPT ![s] = Ended(x)]
  /\ UNCHANGED <<conf, store, served>>

\* Mutant: the fold keeps what the round rejected.
SpecFoldSync_Skipped(x, d, acc) == x

\* spec_fold_sync, with d verified on top of x's history and acc of it accepted.
SpecFoldSync(x, d, acc) ==
  IF Len(d) = 0 \/ acc = Len(d) \/ ~conf.recurrent THEN x
  ELSE IF CanRestore(x, Pos(x))
         THEN LET y == [x EXCEPT !.fold = x.snap.fold]
              IN  IF acc = 0 THEN y ELSE Forward(y, Prefix(d, acc), Pos(x))
         ELSE Forward(x, x.hist \o Prefix(d, acc), 0)

\* Drafted tokens: by the draft model, caught up first, or by the grammar.
Proposals(x) ==
  LET room == Min({DraftMax, conf.ctx - Pos(x) - 1})
      Words == UNION {[1 .. n -> Tokens] : n \in 0 .. room}
      caught == DraftForward(x.draft, SubSeq(x.hist, Len(x.draft.toks) + 1, Pos(x)))
      up == IF Len(x.draft.toks) < Pos(x) THEN caught ELSE x.draft
  IN  {[toks |-> d, draft |-> x.draft] : d \in Words}
      \cup (IF conf.draft = "none" THEN {}
            ELSE {[toks |-> d, draft |-> IF d = <<>> THEN up ELSE DraftForward(up, d)] :
                    d \in Words})

\* One round of engine_generate_spec: the drafts are verified in one forward (a
\* full offload cannot), acc of them are accepted, and the round ends there or
\* with a token of the target's own.
SpecRound(s, p, acc, tok, ends) ==
  /\ e[s].pc = "gen" /\ e[s].spec /\ Pos(e[s]) < conf.ctx
  /\ p \in Proposals(e[s])
  /\ LET x == e[s]
         d == IF x.gpu THEN <<>> ELSE p.toks
         marked == IF p.toks # <<>> /\ conf.recurrent /\ conf.snapbuf
                     THEN [x EXCEPT !.snap = [pos |-> Pos(x), fold |-> x.fold]] ELSE x
         seen == IF d = <<>> THEN marked ELSE Forward(marked, d, Pos(x))
         y == [SpecFoldSync(seen, d, acc) EXCEPT !.hist = @ \o Prefix(d, acc),
                                                 !.draft = p.draft]
         n == Pos(x) + acc
     IN  /\ acc <= Len(d)
         /\ \/ /\ ends  \* stopped, out of budget, nothing to sample, or complete
               /\ e' = [e EXCEPT ![s] = Ended(DraftRewound(y, n))]
            \/ /\ acc < Len(d) /\ ~ends => tok # d[acc + 1]
               /\ LET z == DraftRewound(Forward([y EXCEPT !.hist = Append(@, tok)], <<tok>>, n), n)
                  IN  e' = [e EXCEPT ![s] = IF ends THEN Ended(z) ELSE z]
  /\ UNCHANGED <<conf, store, served>>

\* A device forward fails: gpu_disable, and the slot goes on with the host's rows.
GpuDisable(s) ==
  /\ e[s].gpu /\ e[s].pc \in {"feed", "forward"}
  /\ e' = [e EXCEPT ![s].gpu = FALSE]
  /\ UNCHANGED <<conf, store, served>>

\* swap_to installs another model in the one slot of a registry.
Swap(s, k) ==
  /\ e[s].pc = "idle" /\ k # e[s].key /\ served < conf.requests
  /\ e' = [e EXCEPT ![s] = Fresh(k, conf.gpu)]
  /\ UNCHANGED <<conf, store, served>>

\* The bound of the model.
Rest ==
  /\ served = conf.requests /\ \A s \in conf.slots : e[s].pc = "idle"
  /\ UNCHANGED vars

-----------------------------------------------------------------------------

Init ==
  /\ conf \in Setups
  /\ e \in [conf.slots -> {Fresh(CHOOSE k \in conf.keys : TRUE, conf.gpu)}]
  /\ store = <<>>
  /\ served = 0

Next ==
  \/ \E s \in conf.slots :
       \/ \E toks \in conf.prompts, how \in {"share", "own", "none"}, spec \in {FALSE, conf.spec} :
            Begin(s, toks, how, spec)
       \/ Feed(s) \/ Publish(s) \/ Finish(s)
       \/ \E tok \in Tokens : GenStep(s, tok)
       \/ GenForward(s) \/ GenAbandon(s)
       \/ \E p \in Proposals(e[s]), acc \in 0 .. DraftMax, tok \in Tokens, ends \in BOOLEAN :
            SpecRound(s, p, acc, tok, ends)
       \/ GpuDisable(s)
       \/ \E k \in conf.keys : Swap(s, k)
  \/ Clear
  \/ Rest

Spec == Init /\ [][Next]_vars

-----------------------------------------------------------------------------
(* Properties.                                                             *)

\* What is sampled from was computed from the slot's own prompt and output, by
\* the model now in the slot: not from rows of an earlier request, of another
\* slot's prompt past the match, of another model, or left on the device
\* (engine_rewind, the fork in engine_prefix_reuse, gpu_forward_batch's resync).
ReadsOwnContext ==
  \A s \in conf.slots : e[s].pc \in {"publish", "gen"} => e[s].logits = Own(e[s], Pos(e[s]))

\* Whatever was accepted, rejected, abandoned, rewound or forked, the recurrent
\* fold is the fold of the history ("never leave the fold desynced from e->pos",
\* spec_fold_sync).
FoldMatchesHistory ==
  \A s \in conf.slots :
    LET n == IF e[s].pc = "forward" THEN Pos(e[s]) - 1 ELSE Pos(e[s])
    IN  conf.recurrent /\ n > 0 => e[s].fold = Own(e[s], n)

\* The draft never runs ahead of the target between rounds, and what it keeps
\* was computed from the accepted history (dpos_rewind, the catch-up loop).
DraftMatchesHistory ==
  \A s \in conf.slots :
    LET d == e[s].draft
    IN  /\ IsPrefix(d.toks, e[s].hist)
        /\ conf.draft = "recurrent" /\ d.toks # <<>> => d.fold = d.toks

\* The store stays within its budget and count, holds no snapshot that another
\* one of the same model covers, and every snapshot's rows are those of its
\* tokens (pfx_trim, the two coverage scans of engine_prefix_publish, pfx_save).
StoreIsLean ==
  /\ Bytes(store) <= conf.budget /\ Len(store) <= MaxEntries
  /\ \A i, j \in DOMAIN store : i # j => ~Covers(store[i], store[j].key, store[j].toks)
  /\ \A entry \in Range(store), q \in 1 .. conf.ctx :
       q <= Len(entry.toks) => entry.rows[q] = <<entry.key>> \o Prefix(entry.toks, q)
=============================================================================
