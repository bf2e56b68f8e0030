-------------------------------- MODULE Capacity --------------------------------
(***************************************************************************)
(* Selling no more than the servers hold.  An order reserves a place on a  *)
(* server for a day; selection adds the keys of the last inventory, the    *)
(* reservations and the subscriptions still without a key.  Free claims    *)
(* share the same headroom, with a selection of their own.                 *)
(*                                                                         *)
(* The bot thread takes orders and claims; the maintenance thread makes    *)
(* and removes keys, and either lists a server's keys and writes their     *)
(* number down later.  Each transaction is a step.                         *)
(***************************************************************************)
EXTENDS Integers, FiniteSets

CONSTANTS
  Hosts,              \* outline_servers, numbered in the order of their ids
  Plans,              \* plan codes
  Sales,              \* orders
  Gifts,              \* free claims
  Shops,              \* bound: the first policy, those it may change to, who claims
                      \* a free key, and the inventories that fail or come too late
  RecoveryThreshold,  \* AURIX_ENDPOINT_RECOVERY_THRESHOLD
  FailureThreshold    \* AURIX_ENDPOINT_FAILURE_THRESHOLD

(* No allocation row, or no max_keys: a server that takes any number. *)
Unset == -1

Policy(p) == /\ p.usable \in [Hosts -> Nat \cup {Unset}] /\ p.accepts \subseteq Hosts
             /\ p.slots \in [Hosts -> [Plans -> Nat \cup {Unset}]]

ASSUME CapacityAssumption ==
  /\ Hosts \subseteq Nat \ {0} /\ IsFiniteSet(Sales) /\ IsFiniteSet(Gifts)
  /\ \A s \in Shops : /\ \A p \in {s.policy} \cup s.later : Policy(p)
                      /\ s.gifts \subseteq Gifts /\ s.outages \in Nat
  /\ {RecoveryThreshold, FailureThreshold} \subseteq Nat \ {0}

VARIABLES
  shop,      \* what this behaviour explores
  policy,    \* max_keys less reserved_keys, plan slots, lifecycle 'active'
  widest,    \* history: the largest limits so far
  health,    \* health_status and its two streaks
  fresh,     \* hosts synced within AURIX_SERVER_HEALTH_MAX_AGE_SECONDS
  counted,   \* remote_key_count
  probe,     \* the listing under way: its host and the keys it saw
  outages,   \* inventories that failed or came too late so far
  sale,      \* an order and its subscription
  gift       \* a free claim: reserved, with a key, or over

capacityVars == <<shop, policy, widest, health, fresh, counted, probe, outages, sale, gift>>
policyVars == <<shop, policy, widest>>
probeVars == <<health, fresh, counted, probe, outages>>

NoSale == [status |-> "none", host |-> 0, plan |-> "none", lapsed |-> FALSE,
           touched |-> FALSE, blind |-> FALSE]
NoProbe == [host |-> 0, keys |-> 0]
NoGift == [status |-> "none", host |-> 0, blind |-> FALSE]

CapacityInit ==
  /\ shop \in Shops /\ policy = shop.policy
  /\ widest = [usable |-> policy.usable, slots |-> policy.slots]
  /\ health = [h \in Hosts |-> [state |-> "healthy", ok |-> 1, bad |-> 0]]
  /\ fresh = Hosts /\ counted = [h \in Hosts |-> 0] /\ probe = NoProbe /\ outages = 0
  /\ sale = [o \in Sales |-> NoSale] /\ gift = [g \in Gifts |-> NoGift]

-----------------------------------------------------------------------------
(* What selection looks at. *)

SalesAt(h, statuses) == {o \in Sales : sale[o].host = h /\ sale[o].status \in statuses}
GiftsAt(h, statuses) == {g \in Gifts : gift[g].host = h /\ gift[g].status \in statuses}

(* A reservation holds for a day, or as long as a payment is under review. *)
ReservedAt(h) == SalesAt(h, {"submitted"})
                   \cup {o \in SalesAt(h, {"awaiting"}) : ~sale[o].lapsed}
TakenAt(h) == ReservedAt(h) \cup SalesAt(h, {"pending", "active"})

(* The keys there are; an ended subscription's is there until it is revoked. *)
KeysAt(h) == Cardinality(SalesAt(h, {"active", "ending"})) + Cardinality(GiftsAt(h, {"held"}))

(* Orders being replaced ("but") are cancelled before the selection. *)
Allocated(h, p, but) == Cardinality({o \in TakenAt(h) \ but : sale[o].plan = p})
Slot(h, p) == policy.slots[h][p]

Admits(h) == h \in policy.accepts /\ health[h].state = "healthy" /\ h \in fresh

FitsPlan(h, p, but) ==
  IF Slot(h, p) = Unset THEN \A k \in Hosts : Slot(k, p) = Unset
  ELSE Allocated(h, p, but) < Slot(h, p)

Demand_NoPending(h, but) ==                \* mutant: subscriptions without a key forgotten
  counted[h] + Cardinality(ReservedAt(h) \ but)

Demand(h, but) == counted[h] + Cardinality((ReservedAt(h) \cup SalesAt(h, {"pending"})) \ but)

HasRoom(h, n) == policy.usable[h] = Unset \/ n < policy.usable[h]

(* The traffic budget, a third limit of the same form, is left out. *)
Candidates(p, but) ==
  {h \in Hosts : Admits(h) /\ FitsPlan(h, p, but) /\ HasRoom(h, Demand(h, but))}

Larger(a, b) == IF a > b THEN a ELSE b

(* By its slots, else by its keys; a server without either counts as one. *)
Share(h, p) == Larger(1, IF Slot(h, p) > 0 THEN Slot(h, p) ELSE policy.usable[h])

(* The least filled in proportion, then the first id. *)
SelectServer(h, p, but) ==
  /\ h \in Candidates(p, but)
  /\ \A k \in Candidates(p, but) \ {h} :
       LET ours == Allocated(h, p, but) * Share(k, p)
           theirs == Allocated(k, p, but) * Share(h, p)
       IN  ours < theirs \/ (ours = theirs /\ h < k)

(* Whether the selection knows all there is: it cannot see keys made since the
   last inventory, nor free claims without a key. *)
SeesAll(h) == counted[h] >= KeysAt(h) /\ GiftsAt(h, {"reserved"}) = {}

-----------------------------------------------------------------------------
(* The Telegram thread: orders. *)

Opened(h, p) == [NoSale EXCEPT !.status = "awaiting", !.host = h, !.plan = p,
                                  !.blind = ~SeesAll(h)]

CreateOrder(o, p) ==
  /\ sale[o] = NoSale
  /\ \E h \in Hosts : SelectServer(h, p, {}) /\ sale' = [sale EXCEPT ![o] = Opened(h, p)]
  /\ UNCHANGED <<policyVars, probeVars, gift>>

ReplaceOpenOrder(o, p) ==
  /\ sale[o].status = "awaiting" /\ ~sale[o].touched /\ sale[o].plan # p
  /\ \E h \in Hosts : SelectServer(h, p, {o}) /\ sale' = [sale EXCEPT ![o] = Opened(h, p)]
  /\ UNCHANGED <<policyVars, probeVars, gift>>

(* A receipt or a wallet payment: the order is looked at, its place is not. *)
SubmitPayment(o) ==
  /\ sale[o].status = "awaiting"
  /\ sale' = [sale EXCEPT ![o].status = "submitted", ![o].touched = TRUE,
                          ![o].blind = @ \/ sale[o].lapsed]
  /\ UNCHANGED <<policyVars, probeVars, gift>>

(* The receipt is recorded, its upload fails: the order stays open. *)
UploadFails(o) ==
  /\ sale[o].status = "awaiting" /\ ~sale[o].touched
  /\ sale' = [sale EXCEPT ![o].touched = TRUE]
  /\ UNCHANGED <<policyVars, probeVars, gift>>

ReservationLapses(o) ==
  /\ sale[o].status = "awaiting" /\ ~sale[o].lapsed
  /\ sale' = [sale EXCEPT ![o].lapsed = TRUE]
  /\ UNCHANGED <<policyVars, probeVars, gift>>

Over(o) == sale' = [sale EXCEPT ![o] = [NoSale EXCEPT !.status = "over"]]

(* cancel_order where nothing was paid, reject_order at any time. *)
CloseOrder(o) ==
  /\ sale[o].status \in {"awaiting", "submitted"} /\ Over(o)
  /\ UNCHANGED <<policyVars, probeVars, gift>>

ApproveOrder(o) ==
  /\ sale[o].status = "submitted" /\ sale' = [sale EXCEPT ![o].status = "pending"]
  /\ UNCHANGED <<policyVars, probeVars, gift>>

-----------------------------------------------------------------------------
(* The maintenance thread: orders and keys. *)

ExpireOpenOrders ==
  LET due == {o \in Sales : sale[o].status = "awaiting" /\ sale[o].lapsed /\ ~sale[o].touched}
  IN /\ due # {}
     /\ sale' = [o \in Sales |-> IF o \in due THEN [NoSale EXCEPT !.status = "over"] ELSE sale[o]]
     /\ UNCHANGED <<policyVars, probeVars, gift>>

(* The key exists at once; remote_key_count hears of it from the inventory. *)
Provision(o) ==
  /\ sale[o].status = "pending" /\ sale' = [sale EXCEPT ![o].status = "active"]
  /\ UNCHANGED <<policyVars, probeVars, gift>>

(* A refund, the end of the period or of the quota. *)
EndSubscription(o) ==
  /\ IF sale[o].status = "pending" THEN Over(o)
     ELSE /\ sale[o].status = "active"
          /\ sale' = [sale EXCEPT ![o].status = "ending"]
  /\ UNCHANGED <<policyVars, probeVars, gift>>

RevokeKey(o) ==
  /\ sale[o].status = "ending" /\ Over(o)
  /\ UNCHANGED <<policyVars, probeVars, gift>>

-----------------------------------------------------------------------------
(* Free claims: paid reservations and keys to come are not looked at.  Their
   keys are added to remote_key_count as they come and go. *)

ClaimPlace(g) ==
  /\ gift[g] = NoGift
  /\ \E h \in Hosts :
       /\ Admits(h)
       /\ HasRoom(h, counted[h] + Cardinality(GiftsAt(h, {"reserved"})))
       /\ gift' = [gift EXCEPT ![g] =
            [status |-> "reserved", host |-> h,
             blind |-> \/ counted[h] < KeysAt(h)
                       \/ ReservedAt(h) \cup SalesAt(h, {"pending"}) # {}]]
  /\ UNCHANGED <<policyVars, probeVars, sale>>

FreeKeyMade(g) ==
  /\ gift[g].status = "reserved" /\ gift' = [gift EXCEPT ![g].status = "held"]
  /\ counted' = [counted EXCEPT ![gift[g].host] = @ + 1]
  /\ UNCHANGED <<policyVars, health, fresh, probe, outages, sale>>

FreeKeyEnds_Unclamped(g) ==                \* mutant: subtracted whatever is there
  /\ gift[g].status = "held" /\ gift' = [gift EXCEPT ![g] = [NoGift EXCEPT !.status = "over"]]
  /\ counted' = [counted EXCEPT ![gift[g].host] = @ - 1]
  /\ UNCHANGED <<policyVars, health, fresh, probe, outages, sale>>

(* An inventory listed before the key was made may have said 0 since. *)
FreeKeyEnds(g) ==
  /\ gift[g].status = "held" /\ gift' = [gift EXCEPT ![g] = [NoGift EXCEPT !.status = "over"]]
  /\ counted' = [counted EXCEPT ![gift[g].host] = IF @ > 0 THEN @ - 1 ELSE 0]
  /\ UNCHANGED <<policyVars, health, fresh, probe, outages, sale>>

-----------------------------------------------------------------------------
(* The inventory, one host at a time: the first step lists the keys, the
   second writes. *)

RefreshInventory(h) ==
  /\ probe = NoProbe /\ probe' = [host |-> h, keys |-> KeysAt(h)]
  /\ UNCHANGED <<policyVars, health, fresh, counted, outages, sale, gift>>

AtMost(n, limit) == IF n < limit THEN n ELSE limit

(* _record_endpoint_health: recovery takes several good probes in a row. *)
Healthier(s) == LET ok == AtMost(s.ok + 1, RecoveryThreshold) IN
  [state |-> IF s.state = "healthy" \/ ok = RecoveryThreshold THEN "healthy" ELSE s.state,
   ok |-> ok, bad |-> 0]
Sicker(s) == LET bad == AtMost(s.bad + 1, FailureThreshold) IN
  [state |-> IF bad = FailureThreshold THEN "unreachable" ELSE "degraded", ok |-> 0, bad |-> bad]

InventoryDone(h) ==
  /\ probe.host = h /\ probe' = NoProbe
  /\ counted' = [counted EXCEPT ![h] = probe.keys] /\ fresh' = fresh \cup {h}
  /\ health' = [health EXCEPT ![h] = Healthier(@)]
  /\ UNCHANGED <<policyVars, outages, sale, gift>>

Outage == outages < shop.outages /\ outages' = outages + 1

InventoryFails(h) ==
  /\ probe.host = h /\ probe' = NoProbe /\ Outage
  /\ fresh' = fresh \cup {h} /\ health' = [health EXCEPT ![h] = Sicker(@)]
  /\ UNCHANGED <<policyVars, counted, sale, gift>>

InventoryAges(h) ==
  /\ h \in fresh /\ fresh' = fresh \ {h} /\ Outage
  /\ UNCHANGED <<policyVars, health, counted, probe, sale, gift>>

-----------------------------------------------------------------------------
(* The owner: apply_server_policy, or its parts one by one, and draining. *)

(* An allocation, once made, is changed but never removed. *)
ApplyPolicy(new) ==
  /\ new # policy
  /\ \A h \in Hosts, p \in Plans : new.slots[h][p] = Unset => Slot(h, p) = Unset
  /\ policy' = new
  /\ widest' = [usable |-> [h \in Hosts |->
                   IF Unset \in {widest.usable[h], new.usable[h]} THEN Unset
                   ELSE Larger(widest.usable[h], new.usable[h])],
                slots |-> [h \in Hosts |-> [p \in Plans |->
                   IF widest.slots[h][p] = Unset THEN Unset
                   ELSE Larger(widest.slots[h][p], new.slots[h][p])]]]
  /\ UNCHANGED <<shop, probeVars, sale, gift>>

CapacityNext ==
  \/ \E o \in Sales : \/ \E p \in Plans : CreateOrder(o, p) \/ ReplaceOpenOrder(o, p)
                      \/ SubmitPayment(o) \/ UploadFails(o) \/ ReservationLapses(o)
                      \/ CloseOrder(o) \/ ApproveOrder(o)
                      \/ Provision(o) \/ EndSubscription(o) \/ RevokeKey(o)
  \/ ExpireOpenOrders
  \/ \E g \in shop.gifts : ClaimPlace(g) \/ FreeKeyMade(g) \/ FreeKeyEnds(g)
  \/ \E h \in Hosts : \/ RefreshInventory(h) \/ InventoryDone(h) \/ InventoryFails(h)
                      \/ InventoryAges(h)
  \/ \E new \in shop.later : ApplyPolicy(new)

CapacitySpec == CapacityInit /\ [][CapacityNext]_capacityVars

-----------------------------------------------------------------------------
CapacityTypeOK ==
  /\ policy \in {shop.policy} \cup shop.later /\ fresh \subseteq Hosts
  /\ \A h \in Hosts : /\ counted[h] \in Nat
                      /\ health[h].state \in {"healthy", "degraded", "unreachable"}
  /\ \A o \in Sales : sale[o].status \in {"none", "awaiting", "submitted", "pending",
                                          "active", "ending", "over"}
  /\ \A g \in Gifts : gift[g].status \in {"none", "reserved", "held", "over"}

(* The keys of a server and the places promised on it never exceed what the
   owner allows, except by those admitted blindly: with a key or a claim the
   selection could not see, or paid for after the reservation had lapsed.  A
   plan's slots are exceeded by the latter alone.  This is about admission: an
   endpoint migration, which is no action here, puts a key on another server
   without asking for a place and leaves its subscription on the old one. *)
SoldWithinLimits ==
  \A h \in Hosts :
    LET promised == ReservedAt(h) \cup SalesAt(h, {"pending", "active", "ending"})
        claimed == GiftsAt(h, {"reserved", "held"})
    IN /\ widest.usable[h] # Unset =>
            Cardinality({o \in promised : ~sale[o].blind})
              + Cardinality({g \in claimed : ~gift[g].blind}) <= widest.usable[h]
       /\ \A p \in Plans : widest.slots[h][p] # Unset =>
            Cardinality({o \in TakenAt(h) : sale[o].plan = p /\ ~sale[o].lapsed})
              <= widest.slots[h][p]
=============================================================================
