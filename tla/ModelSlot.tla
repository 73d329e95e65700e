----------------------------- MODULE ModelSlot -----------------------------
(***************************************************************************)
(* What the model registry promises its one inference slot: the slot holds  *)
(* at most one model, a model is put in or taken out only while no request  *)
(* uses it, and a request uses exactly the model it asked for.              *)
(***************************************************************************)
EXTENDS Naturals

CONSTANTS Models, NoModel

VARIABLES model,  \* the model in the slot, or NoModel
          using   \* the model a running request uses, or NoModel

Init == model \in Models \cup {NoModel} /\ using = NoModel

Insert ==
  /\ using = NoModel /\ model = NoModel
  /\ model' \in Models
  /\ UNCHANGED using

Remove ==
  /\ using = NoModel
  /\ model' = NoModel
  /\ UNCHANGED using

Start == using = NoModel /\ model # NoModel /\ using' = model /\ UNCHANGED model

Finish == using' = NoModel /\ UNCHANGED model

InsertAndStart ==
  /\ using = NoModel /\ model = NoModel
  /\ model' \in Models /\ using' = model'

Next == Insert \/ Remove \/ Start \/ Finish \/ InsertAndStart

Spec == Init /\ [][Next]_<<model, using>>
=============================================================================
