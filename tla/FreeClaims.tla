------------------------------ MODULE FreeClaims ------------------------------
(***************************************************************************)
(* Free and promotional keys (entitlements.py): a customer claims the      *)
(* daily key or the gift of a promotion, an intent is reserved, the key is *)
(* created on the server, and the claim is written down; quota, expiry and *)
(* a paid upgrade end the key again.                                       *)
(*                                                                         *)
(* The Telegram thread "bot" carries out an intent right after reserving   *)
(* it; the maintenance thread "pass" carries out what is left over and     *)
(* ends keys.  Both live in one process: a crash stops both.  A            *)
(* transaction is a step and a call to the server is a step.  The monthly  *)
(* trial is the daily claim with another period, and is left out.          *)
(***************************************************************************)
EXTENDS Integers, FiniteSets

CONSTANTS
  Users,         \* customers
  Markets,       \* bound: who claims, who buys, the slot_limit of the server for each
                 \* kind, and how often the owner changes the promotion
  Intents,       \* free_provisioning_intents ids, an interval from 1
  Limits,        \* winner limits the owner sets
  GiftDays,      \* days a gift lasts
  LastDay,       \* bound: days explored
  MaxAttempts,   \* FREE_INTENT_MAX_ATTEMPTS
  FreeCrashes    \* bound: crashes explored

ASSUME FreeAssumption ==
  /\ \A m \in Markets :
       m.daily \cup m.gift \cup m.plan \subseteq Users /\ {m.slots, m.decisions} \subseteq Nat
  /\ Intents \subseteq Nat \ {0} /\ Limits \subseteq Nat /\ Limits # {} /\ Users # {}
  /\ IsFiniteSet(Users) /\ IsFiniteSet(Intents)
  /\ GiftDays \in Nat \ {0} /\ LastDay \in Nat
  /\ MaxAttempts \in Nat \ {0} /\ FreeCrashes \in Nat

Kinds == {"daily", "gift"}
Threads == {"bot", "pass"}
Reasons == {"quota", "expiry", "upgrade"}
Never == -1
Days == 0..LastDay

(* A key id is a digest of the customer and, for the daily key, of the last
   claim before it; a promotion has one gift per customer. *)
KeyIds == [user : Users, kind : Kinds, after : {Never} \cup Days]
Lasts(kind) == IF kind = "daily" THEN 1 ELSE GiftDays

VARIABLES
  market,      \* who claims the daily key, the gift, and buys a plan
  day,         \* the clock, in days
  intent,      \* free_provisioning_intents
  freeKey,     \* keys: [status, ends]
  lastClaim,   \* users.last_claim_at
  won,         \* giveaway_claims: the window of each winner's gift
  promo,       \* giveaway_campaigns: [open, limit], and changes so far
  used,        \* ids that have transferred their quota
  spent,       \* rows with a quota_reason
  ending,      \* key_termination_events still retrying or escalated
  onServer,    \* ids that exist on the server
  upgrade,     \* how far a customer's paid upgrade is
  work,        \* what each thread holds
  freeCrashes, \* crashes so far
  swept,       \* history: ids the upgrade deleted by name
  wobbled,     \* history: intents that failed at least once
  promised     \* history: the highest winner limit so far

freeVars == <<market, day, intent, freeKey, lastClaim, won, promo, used, spent, ending,
              onServer, upgrade, work, freeCrashes, swept, wobbled, promised>>
claimVars == <<lastClaim, won>>
keyVars == <<freeKey, used, spent, ending, onServer, swept>>
promoVars == <<promo, promised>>
worldVars == <<market, day, upgrade, freeCrashes>>

NoKey == [user |-> CHOOSE u \in Users : TRUE, kind |-> "gift", after |-> Never]
NoIntent == [status |-> "none", id |-> NoKey, from |-> 0, tries |-> 0]
NoWork == [op |-> "rest", intent |-> 0, id |-> NoKey, todo |-> {}, keys |-> {}]

FreeTypeOK ==
  /\ market \in Markets /\ day \in Days
  /\ intent \in [Intents -> [status : {"none", "pending", "running", "failed", "done"},
                             id : KeyIds, from : Days, tries : 0..MaxAttempts]]
  /\ freeKey \in [KeyIds -> [status : {"none", "active", "revoked"},
                             ends : 0..(LastDay + GiftDays + 1)]]
  /\ lastClaim \in [Users -> {Never} \cup Days]
  /\ won \in [Users -> {Never} \cup Days]
  /\ promo \in [open : BOOLEAN, limit : Limits, changes : 0..market.decisions]
  /\ used \subseteq KeyIds /\ spent \subseteq KeyIds
  /\ ending \in [KeyIds -> SUBSET Reasons]
  /\ onServer \subseteq KeyIds
  /\ upgrade \in [Users -> {"no", "paid", "cleaned"}]
  /\ work \in [Threads -> [op : {"rest", "claim", "create", "commit", "delete",
                                 "deleted", "sweep", "mark"},
                           intent : Intents \cup {0}, id : KeyIds,
                           todo : SUBSET Reasons, keys : SUBSET KeyIds]]
  /\ freeCrashes \in 0..FreeCrashes
  /\ swept \subseteq KeyIds /\ wobbled \subseteq Intents /\ promised \in Limits

FreeInit ==
  /\ market \in Markets /\ day = 0 /\ intent = [i \in Intents |-> NoIntent]
  /\ freeKey = [k \in KeyIds |-> [status |-> "none", ends |-> 0]]
  /\ lastClaim = [u \in Users |-> Never] /\ won = [u \in Users |-> Never]
  /\ \E n \in Limits : promo = [open |-> TRUE, limit |-> n, changes |-> 0] /\ promised = n
  /\ used = {} /\ spent = {} /\ ending = [k \in KeyIds |-> {}]
  /\ onServer = {} /\ upgrade = [u \in Users |-> "no"]
  /\ work = [t \in Threads |-> NoWork] /\ freeCrashes = 0
  /\ swept = {} /\ wobbled = {}

-----------------------------------------------------------------------------
(* What a claim looks at. *)

Waiting(i) == intent[i].status \in {"pending", "running"}
OfKind(kind) == {i \in Intents : intent[i].status # "none" /\ intent[i].id.kind = kind}
Mine(u, kind) == {i \in OfKind(kind) : intent[i].id.user = u}
Live(k) == freeKey[k].status = "active"
Lapsed(k) == day >= freeKey[k].ends

(* A gift in use pauses the other free plans while its promotion is open. *)
ActiveGift(u) ==
  LET k == [user |-> u, kind |-> "gift", after |-> Never]
  IN  won[u] # Never /\ promo.open /\ Live(k) /\ ~Lapsed(k) /\ k \notin spent

(* Slots are taken by live keys and by reservations being carried out; a
   failed reservation takes none. *)
HasSlot_KeysOnly(kind) ==                  \* mutant: reservations not counted
  Cardinality({k \in KeyIds : k.kind = kind /\ Live(k)}) < market.slots

HasSlot(kind) ==
  Cardinality({k \in KeyIds : k.kind = kind /\ Live(k)})
    + Cardinality({i \in OfKind(kind) : Waiting(i)}) < market.slots

(* The gifts of a daily promotion are counted per day of the claim. *)
Claimed(window) == Cardinality({u \in Users : won[u] = window})
Reserved(window) == Cardinality({i \in OfKind("gift") : Waiting(i) /\ intent[i].from = window})
GiftsLeft == Claimed(day) + Reserved(day) < promo.limit

Free(t) == work[t].op = "rest"
Does(t, op) == work' = [work EXCEPT ![t].op = op]
Rests(t) == work' = [work EXCEPT ![t] = NoWork]

-----------------------------------------------------------------------------
(* The Telegram thread: reserve, then carry out. *)

Status(i, status) == [intent EXCEPT ![i].status = status]

(* An unfinished intent is taken up again, with its first day and server. *)
Resume(i) ==
  /\ intent[i].status \in {"pending", "running", "failed"}
  /\ intent' = IF intent[i].status = "failed"
               THEN [intent EXCEPT ![i].status = "pending", ![i].tries = 0]
               ELSE intent
  /\ work' = [work EXCEPT !["bot"].op = "claim", !["bot"].intent = i]

Reserve(u, kind, after) ==
  /\ HasSlot(kind)
  /\ \E i \in Intents :
       /\ intent[i].status = "none"
       /\ \A j \in Intents : j < i => intent[j].status # "none"
       /\ intent' = [intent EXCEPT ![i] =
            [status |-> "pending", from |-> day, tries |-> 0,
             id |-> [user |-> u, kind |-> kind, after |-> after]]]
       /\ work' = [work EXCEPT !["bot"].op = "claim", !["bot"].intent = i]

ClaimDaily(u) ==
  /\ Free("bot")
  /\ \/ \E i \in Mine(u, "daily") : Resume(i)
     \/ /\ \A i \in Mine(u, "daily") : intent[i].status = "done"
        /\ ~ActiveGift(u)
        /\ lastClaim[u] # Never => day >= lastClaim[u] + 1
        /\ Reserve(u, "daily", lastClaim[u])
  /\ UNCHANGED <<claimVars, keyVars, promoVars, worldVars, wobbled>>

ClaimGift(u) ==
  /\ Free("bot") /\ won[u] = Never
  /\ \/ \E i \in Mine(u, "gift") : Resume(i)
     \/ /\ Mine(u, "gift") = {}
        /\ promo.open /\ GiftsLeft /\ upgrade[u] = "no"
        /\ Reserve(u, "gift", Never)
  /\ UNCHANGED <<claimVars, keyVars, promoVars, worldVars, wobbled>>

(* A running intent nobody holds was left by a crash; its lock goes stale. *)
IntentHeld(i) == \E t \in Threads : work[t].intent = i /\ work[t].op \in {"create", "commit"}
Stale(i) == intent[i].status = "running" /\ ~IntentHeld(i)

Take(t, i) ==
  /\ intent' = [intent EXCEPT ![i].status = "running",
       ![i].tries = IF @ < MaxAttempts THEN @ + 1 ELSE @]
  /\ work' = [work EXCEPT ![t].op = "create", ![t].intent = i]

(* The other thread may have been faster; then the customer is told to wait.
   A failed intent is not due again within the handler. *)
BotTakes ==
  /\ work["bot"].op = "claim"
  /\ LET i == work["bot"].intent
     IN  IF intent[i].status = "pending" \/ Stale(i) THEN Take("bot", i)
         ELSE Rests("bot") /\ UNCHANGED intent
  /\ UNCHANGED <<claimVars, keyVars, promoVars, worldVars, wobbled>>

IntentDue(i) == \/ intent[i].status = "pending" \/ Stale(i)
                \/ intent[i].status = "failed" /\ intent[i].tries < MaxAttempts

(* The oldest first, but for one that failed, or was left running, and must wait. *)
PassTakes(i) ==
  /\ Free("pass") /\ IntentDue(i)
  /\ \A j \in Intents : intent[j].status = "pending" => i <= j
  /\ Take("pass", i)
  /\ UNCHANGED <<claimVars, keyVars, promoVars, worldVars, wobbled>>

IdInHand(t) == intent[work[t].intent].id

(* The id is fixed in advance: a key already there is adopted. *)
Create(t) ==
  /\ work[t].op = "create"
  /\ onServer' = onServer \cup {IdInHand(t)} /\ Does(t, "commit")
  /\ UNCHANGED <<intent, freeKey, used, spent, ending, swept, claimVars,
                 promoVars, worldVars, wobbled>>

(* A call fails, with or without its effect. *)
CreateFails(t) ==
  /\ work[t].op = "create"
  /\ onServer' \in {onServer, onServer \cup {IdInHand(t)}}
  /\ intent' = Status(work[t].intent, "failed")
  /\ wobbled' = wobbled \cup {work[t].intent} /\ Rests(t)
  /\ UNCHANGED <<freeKey, used, spent, ending, swept, claimVars, promoVars,
                 worldVars>>

(* One transaction: the key row, the claim and the intent.  The row counts
   from the day of the claim, however late it is written. *)
Finalize_FromNow(t) ==                     \* mutant: the key lasts from now on
  /\ work[t].op = "commit"
  /\ LET i == work[t].intent
         k == IdInHand(t)
     IN  /\ freeKey' = IF freeKey[k].status # "none" THEN freeKey
                       ELSE [freeKey EXCEPT ![k] =
                              [status |-> "active", ends |-> day + Lasts(k.kind)]]
         /\ IF k.kind = "daily"
            THEN lastClaim' = [lastClaim EXCEPT ![k.user] = intent[i].from]
                 /\ UNCHANGED won
            ELSE won' = [won EXCEPT ![k.user] = IF @ = Never THEN intent[i].from ELSE @]
                 /\ UNCHANGED lastClaim
         /\ intent' = Status(i, "done")
  /\ Rests(t)
  /\ UNCHANGED <<used, spent, ending, onServer, swept, promoVars, worldVars, wobbled>>

Finalize(t) ==
  /\ work[t].op = "commit"
  /\ LET i == work[t].intent
         k == IdInHand(t)
     IN  /\ freeKey' = IF freeKey[k].status # "none" THEN freeKey
                       ELSE [freeKey EXCEPT ![k] = [status |-> "active",
                               ends |-> intent[i].from + Lasts(k.kind)]]
         /\ IF k.kind = "daily"
            THEN lastClaim' = [lastClaim EXCEPT ![k.user] = intent[i].from]
                 /\ UNCHANGED won
            ELSE won' = [won EXCEPT ![k.user] = IF @ = Never THEN intent[i].from ELSE @]
                 /\ UNCHANGED lastClaim
         /\ intent' = Status(i, "done")
  /\ Rests(t)
  /\ UNCHANGED <<used, spent, ending, onServer, swept, promoVars, worldVars, wobbled>>

-----------------------------------------------------------------------------
(* The maintenance thread: ending a key. *)

(* The event is recorded before the server is called, one for each reason. *)
StartEnding_Unrecorded(k, reasons) ==      \* mutant: recorded only when it is over
  /\ Free("pass") /\ Live(k)
  /\ spent' = IF "quota" \in reasons THEN spent \cup {k} ELSE spent
  /\ work' = [work EXCEPT !["pass"].op = "delete", !["pass"].id = k,
                          !["pass"].todo = reasons]
  /\ UNCHANGED <<ending, intent, freeKey, used, onServer, swept, claimVars, promoVars,
                 worldVars, wobbled>>

StartEnding(k, reasons) ==
  /\ Free("pass") /\ Live(k)
  /\ ending' = [ending EXCEPT ![k] = @ \cup reasons]
  /\ spent' = IF "quota" \in reasons THEN spent \cup {k} ELSE spent
  /\ work' = [work EXCEPT !["pass"].op = "delete", !["pass"].id = k,
                          !["pass"].todo = reasons]
  /\ UNCHANGED <<intent, freeKey, used, onServer, swept, claimVars, promoVars,
                 worldVars, wobbled>>

EnforceFreeQuota(k) == k \in used /\ StartEnding(k, {"quota"})
RevokeExpired(k) == Lapsed(k) /\ StartEnding(k, {"expiry"})
ReconcileTerminations(k) == ending[k] # {} /\ StartEnding(k, ending[k])

DeleteKey ==
  /\ work["pass"].op = "delete"
  /\ onServer' = onServer \ {work["pass"].id} /\ Does("pass", "deleted")
  /\ UNCHANGED <<intent, freeKey, used, spent, ending, swept, claimVars,
                 promoVars, worldVars, wobbled>>

(* On to the next event of the listing, if any. *)
NextReason(r) ==
  work' = IF work["pass"].todo = {r} THEN [work EXCEPT !["pass"] = NoWork]
          ELSE [work EXCEPT !["pass"].op = "delete", !["pass"].todo = @ \ {r}]

DeleteFails(r) ==
  /\ work["pass"].op \in {"delete", "deleted"} /\ r \in work["pass"].todo
  /\ NextReason(r)
  /\ UNCHANGED <<intent, keyVars, claimVars, promoVars, worldVars, wobbled>>

KeyIsGone_Unverified(r) ==                 \* mutant: the outcome of the call ignored
  /\ work["pass"].op \in {"delete", "deleted"} /\ r \in work["pass"].todo
  /\ freeKey' = [freeKey EXCEPT ![work["pass"].id].status = "revoked"]
  /\ ending' = [ending EXCEPT ![work["pass"].id] = @ \ {r}]
  /\ NextReason(r)
  /\ UNCHANGED <<intent, used, spent, onServer, swept, claimVars, promoVars,
                 worldVars, wobbled>>

KeyIsGone(r) ==
  /\ work["pass"].op = "deleted" /\ r \in work["pass"].todo
  /\ freeKey' = [freeKey EXCEPT ![work["pass"].id].status = "revoked"]
  /\ ending' = [ending EXCEPT ![work["pass"].id] = @ \ {r}]
  /\ NextReason(r)
  /\ UNCHANGED <<intent, used, spent, onServer, swept, claimVars, promoVars,
                 worldVars, wobbled>>

-----------------------------------------------------------------------------
(* A plan replaces free keys: the provisioning worker sweeps what it finds on
   the server under the customer's name, gifts excepted. *)

Buy(u) ==
  /\ u \in market.plan /\ upgrade[u] = "no" /\ upgrade' = [upgrade EXCEPT ![u] = "paid"]
  /\ UNCHANGED <<market, day, freeCrashes, intent, keyVars, claimVars, promoVars, work, wobbled>>

Sweep(u) ==
  /\ Free("pass") /\ upgrade[u] = "paid"
  /\ upgrade' = [upgrade EXCEPT ![u] = "cleaned"]
  /\ work' = [work EXCEPT !["pass"].op = "sweep",
       !["pass"].keys = {k \in onServer : k.user = u /\ k.kind = "daily"}]
  /\ UNCHANGED <<market, day, freeCrashes, intent, keyVars, claimVars, promoVars, wobbled>>

SweepDeletes(k) ==
  /\ work["pass"].op = "sweep" /\ k \in work["pass"].keys
  /\ onServer' = onServer \ {k} /\ swept' = swept \cup {k}
  /\ work' = [work EXCEPT !["pass"].op = "mark", !["pass"].id = k]
  /\ UNCHANGED <<intent, freeKey, used, spent, ending, claimVars, promoVars,
                 worldVars, wobbled>>

SweepOn(k) == work' = [work EXCEPT !["pass"].op = "sweep", !["pass"].keys = @ \ {k}]

SweepMarks ==
  /\ work["pass"].op = "mark"
  /\ LET k == work["pass"].id
     IN  /\ IF freeKey[k].status = "none" THEN UNCHANGED <<freeKey, ending>>
            ELSE /\ freeKey' = [freeKey EXCEPT ![k].status = "revoked"]
                 /\ ending' = [ending EXCEPT ![k] = @ \ {"upgrade"}]
         /\ SweepOn(k)
  /\ UNCHANGED <<intent, used, spent, onServer, swept, claimVars, promoVars,
                 worldVars, wobbled>>

SweepFails(k) ==
  /\ work["pass"].op = "sweep" /\ k \in work["pass"].keys
  /\ ending' = IF freeKey[k].status = "none" THEN ending
               ELSE [ending EXCEPT ![k] = @ \cup {"upgrade"}]
  /\ SweepOn(k)
  /\ UNCHANGED <<intent, freeKey, used, spent, onServer, swept, claimVars,
                 promoVars, worldVars, wobbled>>

SweepEnds ==
  /\ work["pass"].op = "sweep" /\ work["pass"].keys = {} /\ Rests("pass")
  /\ UNCHANGED <<intent, keyVars, claimVars, promoVars, worldVars, wobbled>>

-----------------------------------------------------------------------------
(* The owner's promotion settings, customers' traffic, time and crashes. *)

(* Limits go down to what is claimed already; reservations are not looked at. *)
ConfigureGiveaway(n) ==
  /\ Free("bot") /\ promo.changes < market.decisions
  /\ n # promo.limit /\ \A w \in Days : Claimed(w) <= n
  /\ promo' = [open |-> TRUE, limit |-> n, changes |-> promo.changes + 1]
  /\ promised' = IF n > promised THEN n ELSE promised
  /\ UNCHANGED <<intent, keyVars, claimVars, worldVars, work, wobbled>>

SetGiveawayActive(open) ==
  /\ Free("bot") /\ promo.changes < market.decisions /\ promo.open # open
  /\ promo' = [promo EXCEPT !.open = open, !.changes = @ + 1]
  /\ UNCHANGED <<promised, intent, keyVars, claimVars, worldVars, work, wobbled>>

UseUp(k) ==
  /\ k \in onServer \ used /\ Live(k) /\ used' = used \cup {k}
  /\ UNCHANGED <<freeKey, spent, ending, onServer, swept, intent, claimVars,
                 promoVars, worldVars, work, wobbled>>

DayPasses ==
  /\ day < LastDay /\ day' = day + 1
  /\ UNCHANGED <<market, upgrade, freeCrashes, intent, keyVars, claimVars, promoVars,
                 work, wobbled>>

FreeCrash ==
  /\ freeCrashes < FreeCrashes /\ \E t \in Threads : ~Free(t)
  /\ freeCrashes' = freeCrashes + 1 /\ work' = [t \in Threads |-> NoWork]
  /\ UNCHANGED <<market, day, upgrade, intent, keyVars, claimVars, promoVars, wobbled>>

BotStep == \/ \E u \in market.daily : ClaimDaily(u)
           \/ \E u \in market.gift : ClaimGift(u)
           \/ \E n \in Limits : ConfigureGiveaway(n)
           \/ \E b \in BOOLEAN : SetGiveawayActive(b)
Carry(t) == Create(t) \/ CreateFails(t) \/ Finalize(t)
EndStep == DeleteKey \/ \E r \in Reasons : DeleteFails(r) \/ KeyIsGone(r)
SweepStep == \/ SweepMarks \/ SweepEnds
             \/ \E k \in KeyIds : SweepDeletes(k) \/ SweepFails(k)
StartEnd == \E k \in KeyIds : EnforceFreeQuota(k) \/ RevokeExpired(k)
                              \/ ReconcileTerminations(k)
WorldStep == \/ \E u \in Users : Buy(u) \/ Sweep(u)
             \/ \E k \in KeyIds : UseUp(k)
             \/ DayPasses \/ FreeCrash

FreeNext == \/ BotStep \/ BotTakes \/ Carry("bot") \/ Carry("pass")
            \/ \E i \in Intents : PassTakes(i)
            \/ StartEnd \/ EndStep \/ SweepStep \/ WorldStep

FreeSpec == FreeInit /\ [][FreeNext]_freeVars

-----------------------------------------------------------------------------
(* The slots of a tier and the gifts of a window are never sold twice by two
   claims under way; only an intent that failed, and gave its place up, comes
   back without asking again. *)
NoOversell ==
  LET again(kind) == Cardinality(wobbled \cap OfKind(kind)) IN
  /\ \A kind \in Kinds :
       Cardinality({k \in KeyIds : k.kind = kind /\ Live(k)})
         + Cardinality({i \in OfKind(kind) : Waiting(i)}) <= market.slots + again(kind)
  /\ \A w \in Days : Claimed(w) + Reserved(w) <= promised + again("gift")

(* A customer never has two daily keys that are both still valid, however late
   a claim is carried out. *)
OneLiveDailyKey ==
  LET valid == {k \in KeyIds : k.kind = "daily" /\ Live(k) /\ ~Lapsed(k)}
  IN  \A j, k \in valid : j.user = k.user => j = k

(* No free key works on the server unknown to the database, its row live or
   its intent unfinished; and no row is shown as live unless its key exists or
   its end is on record.  A paid upgrade deletes by name and ends the row
   later: a claim of the same key in between is the one exception. *)
FreeKeysMatchRows ==
  /\ \A k \in onServer \ swept : Live(k) \/ \E i \in Intents :
       intent[i].status \in {"pending", "running", "failed"} /\ intent[i].id = k
  /\ \A k \in KeyIds : Live(k) => k \in onServer \/ ending[k] # {} \/ k \in swept
=============================================================================
