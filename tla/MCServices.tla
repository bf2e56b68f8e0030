------------------------------- MODULE MCServices -------------------------------
(* The services around the orders and keys, each explored on its own: what a
   behaviour is about is chosen first, and the others stay as they begin. *)
EXTENDS FreeClaims, Fleet, Staff, Outbox, Readings, Capacity, Releases

VARIABLE focus

services == <<freeVars, fleetVars, staffVars, outboxVars, readingsVars, capacityVars,
              releasesVars, focus>>

Foci == {"free", "fleet", "staff", "outbox", "readings", "capacity", "releases"}

(* Where a module begins in several ways, the others see one of them.  A winner
   limit matters where gifts are claimed, and commits are interchangeable. *)
ServicesInit ==
  /\ focus \in Foci
  /\ FreeInit /\ FleetInit /\ StaffInit /\ OutboxInit /\ ReadingsInit /\ CapacityInit
  /\ ReleasesInit
  /\ focus # "free" => market = CHOOSE m \in Markets : TRUE
  /\ focus # "free" \/ market.gift = {} => promo.limit = CHOOSE n \in Limits : TRUE
  /\ focus # "fleet" => growth = CHOOSE g \in Growths : TRUE
  /\ focus # "staff" => desk = (CHOOSE d \in Desks : TRUE) /\ admins = {}
  /\ focus # "outbox" => wants = {}
  /\ focus # "readings" => selected = [e \in Receipts |-> CHOOSE w \in Wallets : TRUE]
  /\ focus # "capacity" => shop = CHOOSE s \in Shops : TRUE
  /\ head = CHOOSE c \in Commits : TRUE

OtherThan(f) ==
  /\ focus = f /\ UNCHANGED focus
  /\ f # "free" => UNCHANGED freeVars
  /\ f # "fleet" => UNCHANGED fleetVars
  /\ f # "staff" => UNCHANGED staffVars
  /\ f # "outbox" => UNCHANGED outboxVars
  /\ f # "readings" => UNCHANGED readingsVars
  /\ f # "capacity" => UNCHANGED capacityVars
  /\ f # "releases" => UNCHANGED releasesVars

ServicesNext ==
  \/ OtherThan("free") /\ FreeNext
  \/ OtherThan("fleet") /\ FleetNext
  \/ OtherThan("staff") /\ StaffNext
  \/ OtherThan("outbox") /\ OutboxNext
  \/ OtherThan("readings") /\ ReadingsNext
  \/ OtherThan("capacity") /\ CapacityNext
  \/ OtherThan("releases") /\ ReleasesNext

ServicesSpec == ServicesInit /\ [][ServicesNext]_services

-----------------------------------------------------------------------------
CONSTANTS u1, u2, owner, admin

Claims(d, g, p, n, changes) ==
  [daily |-> d, gift |-> g, plan |-> p, slots |-> n, decisions |-> changes]
MarketsDef == {Claims({u1}, {}, {u1}, 2, 0), Claims({}, {u1, u2}, {}, 1, 1),
               Claims({u1}, {u1}, {}, 1, 0), Claims({u1, u2}, {}, {}, 1, 0)}

GrowthsDef == {[jobs |-> {1}, crashes |-> 1, edits |-> 1],
               [jobs |-> FleetJobs, crashes |-> 1, edits |-> 0]}

Desk(order, offers, n, crashes) ==
  [order |-> order, offers |-> offers, updates |-> n, restarts |-> crashes]
DesksDef == {Desk("verified", {"approve", "refund"}, 4, 0),
             Desk("verified", {"approve", "refund"}, 3, 1),
             Desk("open", {"verify", "reject"}, 3, 0),
             Desk("open", {"drain", "admit"}, 3, 1)}

Offers(a, b) == [p |-> a, q |-> b]
RulesFor(first, second, slots1, slots2) ==
  [usable |-> <<first, second>>, slots |-> <<slots1, slots2>>, accepts |-> {1, 2}]
Roomy == [RulesFor(2, 1, Offers(Unset, Unset), Offers(Unset, Unset)) EXCEPT !.accepts = {1}]
Tight == RulesFor(1, 1, Offers(1, 0), Offers(Unset, 1))
Drained == [RulesFor(1, 2, Offers(1, 2), Offers(1, 1)) EXCEPT !.accepts = {2}]
Endless == RulesFor(1, Unset, Offers(Unset, Unset), Offers(Unset, Unset))
ShopsDef == {[policy |-> Roomy, later |-> {}, gifts |-> Gifts, outages |-> 0],
             [policy |-> Endless, later |-> {}, gifts |-> {}, outages |-> 0],
             [policy |-> Tight, later |-> {}, gifts |-> {}, outages |-> 2],
             [policy |-> Tight, later |-> {Drained}, gifts |-> {}, outages |-> 0]}

(* Every variable of the service in focus stays within its type. *)
ServicesTypeOK ==
  /\ focus \in Foci
  /\ focus = "free" => FreeTypeOK
  /\ focus = "fleet" => FleetTypeOK
  /\ focus = "staff" => StaffTypeOK
  /\ focus = "outbox" => OutboxTypeOK
  /\ focus = "readings" => ReadingsTypeOK
  /\ focus = "capacity" => CapacityTypeOK
  /\ focus = "releases" => ReleasesTypeOK
=============================================================================
