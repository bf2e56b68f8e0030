---------------------------- MODULE OrderLifecycle ----------------------------
(***************************************************************************)
(* What the order service promises about one order, without saying how:    *)
(* an order is opened once, may put a wallet amount on hold, and ends by   *)
(* being fulfilled or closed.  A hold is settled exactly once, by          *)
(* fulfilment or by closing the order; nothing reopens an order that has   *)
(* ended; and an order is refunded at most once.                           *)
(***************************************************************************)
CONSTANT Orders

VARIABLE stage   \* where each order is in its life

Stages == {"none", "open", "held", "fulfilled", "closed", "refunded"}

LifecycleTypeOK == stage \in [Orders -> Stages]

Init == stage = [o \in Orders |-> "none"]

Move(o, from, to) ==
  /\ stage[o] \in from
  /\ stage' = [stage EXCEPT ![o] = to]

Open(o)    == Move(o, {"none"}, "open")
Hold(o)    == Move(o, {"open"}, "held")
Fulfil(o)  == Move(o, {"open", "held"}, "fulfilled")
Close(o)   == Move(o, {"open", "held"}, "closed")
Refund(o)  == Move(o, {"open", "fulfilled"}, "refunded")

(* Replacing an untouched order closes it and opens another. *)
Replace(old, new) ==
  /\ stage[old] = "open"
  /\ stage[new] = "none"
  /\ stage' = [stage EXCEPT ![old] = "closed", ![new] = "open"]

Next ==
  \/ \E o \in Orders :
       Open(o) \/ Hold(o) \/ Fulfil(o) \/ Close(o) \/ Refund(o)
  \/ \E old, new \in Orders : Replace(old, new)

Spec == Init /\ [][Next]_stage
=============================================================================
