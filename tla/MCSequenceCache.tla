--------------------------- MODULE MCSequenceCache ---------------------------
(* Setups of SequenceCache for TLC. *)
EXTENDS SequenceCache

CONSTANTS s1, s2, a, b

\* A dense model on the host in one slot.
Plain ==
  [slots |-> {s1}, keys |-> {"m"}, ctx |-> 4, recurrent |-> FALSE, gpu |-> FALSE,
   snapbuf |-> TRUE, spec |-> FALSE, draft |-> "none", budget |-> 6, requests |-> 3,
   prompts |-> {<<a, a, b>>, <<a, b>>, <<a, a, a>>}]

\* Two slots of a recurrent model.
Recurrent ==
  [Plain EXCEPT !.slots = {s1, s2}, !.recurrent = TRUE, !.budget = 20,
                !.prompts = {<<a, a, b>>, <<a, a>>, <<b, a>>}]

Speculating ==
  [Plain EXCEPT !.spec = TRUE, !.ctx = 5, !.requests = 2, !.prompts = {<<a, b>>, <<a, a>>}]

\* The store is large enough that no recurrent snapshot is cut to half of it.
SoundSetups ==
  {Recurrent,
   [Plain EXCEPT !.keys = {"m", "n"}],  \* a registry of two models
   [Plain EXCEPT !.ctx = 6, !.prompts = {<<a, a, b, a, b, b>>, <<a, a, b, b>>, <<b, b, a, b>>}],
   [Plain EXCEPT !.gpu = TRUE, !.spec = TRUE]}
  \cup {[Speculating EXCEPT !.draft = d] : d \in {"dense", "recurrent"}}
  \cup {[Speculating EXCEPT !.recurrent = TRUE, !.snapbuf = sb] : sb \in BOOLEAN}

\* Half of the store holds less than a prompt of a recurrent model.
CutSetups ==
  {[Recurrent EXCEPT !.budget = 8, !.ctx = 5, !.prompts = {<<a, a, b, b>>, <<a, a, a>>}]}
==============================================================================
