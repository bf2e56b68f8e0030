---------------------------- MODULE MCOrderLedger ----------------------------
(* Small instances of OrderLedger: the orders of one customer, each with the
   price of one unit, and a wallet that can pay for one of them. *)
EXTENDS OrderLedger, TLC

CONSTANT u1

OneOwner == [o \in Orders |-> u1]
UnitPrice == [o \in Orders |-> 1]
OneUnit == [u \in Users |-> 1]
=============================================================================
