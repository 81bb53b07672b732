---------------------------- MODULE EventDelivery ----------------------------
(***************************************************************************)
(* What both streams promise (helpers/gmail/watch.rs, module doc): items   *)
(* are delivered at least once.  An item is announced to the subscription, *)
(* dealt with (printed or written, or withheld by Model Armor) by the      *)
(* stream any number of times, and settled, so that nobody is told of it   *)
(* again, only after that.  What was announced, dealt with or settled      *)
(* stays so, whatever stops, fails or is killed in between.                *)
(***************************************************************************)
CONSTANT Item
VARIABLES announced, dealt, settled

deliveryVars == <<announced, dealt, settled>>

Init == announced = {} /\ dealt = {} /\ settled = {}

Announce ==
  /\ \E I \in SUBSET (Item \ announced) : announced' = announced \cup I
  /\ UNCHANGED <<dealt, settled>>

Deal ==
  /\ \E I \in SUBSET announced : dealt' = dealt \cup I
  /\ UNCHANGED <<announced, settled>>

Settle ==
  /\ \E I \in SUBSET dealt : settled' = settled \cup I
  /\ UNCHANGED <<announced, dealt>>

Next == Announce \/ Deal \/ Settle

Spec == Init /\ [][Next]_deliveryVars
=============================================================================
