---------------------------- MODULE Supply_proofs ----------------------------
(***************************************************************************)
(* Proofs about what is sold and given away: free and promotional keys     *)
(* (FreeClaims), and the limits orders and gifts are sold within           *)
(* (Capacity).                                                             *)
(***************************************************************************)
EXTENDS FreeClaims, Capacity, FiniteSetTheorems, TLAPS

-----------------------------------------------------------------------------
(* Free keys: the rows of the tables, and what a thread holds. *)
IntentRows == [status : {"none", "pending", "running", "failed", "done"}, id : KeyIds,
               from : Days, tries : 0..MaxAttempts]
KeyRows == [status : {"none", "active", "revoked"}, ends : 0..(LastDay + GiftDays + 1)]
Ops == {"rest", "claim", "create", "commit", "delete", "deleted", "sweep", "mark"}
WorkRows == [op : Ops, intent : Intents \cup {0}, id : KeyIds, todo : SUBSET Reasons,
             keys : SUBSET KeyIds]

FreeTypes ==
  /\ market \in Markets /\ day \in Days
  /\ intent \in [Intents -> IntentRows] /\ freeKey \in [KeyIds -> KeyRows]
  /\ lastClaim \in [Users -> {Never} \cup Days] /\ won \in [Users -> {Never} \cup Days]
  /\ promo \in [open : BOOLEAN, limit : Limits, changes : 0..market.decisions]
  /\ used \subseteq KeyIds /\ spent \subseteq KeyIds
  /\ ending \in [KeyIds -> SUBSET Reasons] /\ onServer \subseteq KeyIds
  /\ upgrade \in [Users -> {"no", "paid", "cleaned"}]
  /\ work \in [Threads -> WorkRows] /\ freeCrashes \in 0..FreeCrashes
  /\ swept \subseteq KeyIds /\ wobbled \subseteq Intents /\ promised \in Limits

(* A thread with an intent in hand has a real one. *)
Carrying == {"claim", "create", "commit"}
HasIntent == \A t \in Threads : work[t].op \in Carrying => work[t].intent \in Intents

(* The empty rows are rows. *)
LEMMA RestRows == NoKey \in KeyIds /\ NoWork \in WorkRows
<1>1. (CHOOSE u \in Users : TRUE) \in Users
  BY FreeAssumption
<1> QED BY <1>1 DEF NoKey, NoWork, KeyIds, WorkRows, Ops, Kinds

(* The types of the first state. *)
LEMMA FreeTypesInit == FreeInit => FreeTypes /\ HasIntent
<1> SUFFICES ASSUME FreeInit PROVE FreeTypes /\ HasIntent
  OBVIOUS
<1>1. 0 \in Days /\ 0 \in 0..(LastDay + GiftDays + 1) /\ 0 \in 0..MaxAttempts
      /\ 0 \in 0..FreeCrashes /\ 0 \in 0..market.decisions
  BY FreeAssumption DEF Days, FreeInit
<1>2. NoIntent \in IntentRows
  BY <1>1, RestRows DEF NoIntent, IntentRows
<1>3. [status |-> "none", ends |-> 0] \in KeyRows
  BY <1>1 DEF KeyRows
<1>4. work \in [Threads -> WorkRows] /\ HasIntent
  BY RestRows DEF FreeInit, HasIntent, Carrying, NoWork
<1> QED BY <1>1, <1>2, <1>3, <1>4 DEF FreeInit, FreeTypes

(* A thread's hand after a step: the thread t holds r, the other what it did. *)
Hand(t, r) == /\ work' \in [Threads -> WorkRows] /\ work'[t] = r /\ r \in WorkRows
              /\ \A s \in Threads \ {t} : work'[s] = work[s]

(* A hand written as a row. *)
LEMMA HandIs ==
  ASSUME FreeTypes, NEW t \in Threads, NEW r \in WorkRows, work' = [work EXCEPT ![t] = r]
  PROVE  Hand(t, r)
BY DEF FreeTypes, Hand

(* It rests, goes on with what it holds, or takes an intent. *)
LEMMA RestsIs ==
  ASSUME FreeTypes, NEW t \in Threads, Rests(t) PROVE Hand(t, NoWork)
BY HandIs, RestRows DEF Rests

Then(t, op) == [work[t] EXCEPT !.op = op]
(* The thread goes on to the next operation with what it holds. *)
LEMMA DoesIs ==
  ASSUME FreeTypes, NEW t \in Threads, NEW op \in Ops, Does(t, op)
  PROVE  Hand(t, Then(t, op))
<1>1. Then(t, op) \in WorkRows
  BY DEF FreeTypes, WorkRows, Then
<1>2. work' = [work EXCEPT ![t] = Then(t, op)]
  BY DEF Does, Then
<1> QED BY <1>1, <1>2, HandIs

WorkTakes(t, op, i) == [work[t] EXCEPT !.op = op, !.intent = i]
(* The thread takes an intent in hand. *)
LEMMA WorkTakesIs ==
  ASSUME FreeTypes, NEW t \in Threads, NEW op \in Ops, NEW i \in Intents,
         work' = [work EXCEPT ![t].op = op, ![t].intent = i]
  PROVE  Hand(t, WorkTakes(t, op, i)) /\ WorkTakes(t, op, i).op = op /\ WorkTakes(t, op, i).intent = i
<1>1. WorkTakes(t, op, i) \in WorkRows /\ WorkTakes(t, op, i).op = op /\ WorkTakes(t, op, i).intent = i
  BY DEF FreeTypes, WorkRows, WorkTakes
<1>2. work' = [work EXCEPT ![t] = WorkTakes(t, op, i)]
  BY DEF WorkTakes
<1> QED BY <1>1, <1>2, HandIs

(* An intent's row after a step: its status, and that no other row changes. *)
Turns(i, s) == /\ intent' \in [Intents -> IntentRows] /\ intent'[i].status = s
               /\ intent'[i].id = intent[i].id /\ intent'[i].from = intent[i].from
               /\ \A j \in Intents \ {i} : intent'[j] = intent[j]

(* Only the status of an intent changes. *)
LEMMA StatusIs ==
  ASSUME FreeTypes, NEW i \in Intents, NEW s, intent' = Status(i, s),
         s \in {"none", "pending", "running", "failed", "done"}
  PROVE  Turns(i, s)
BY DEF FreeTypes, IntentRows, Status, Turns

(* The status of an intent changes, and its count of tries. *)
LEMMA RetriedIs ==
  ASSUME FreeTypes, NEW i \in Intents, NEW n \in 0..MaxAttempts, NEW s,
         s \in {"none", "pending", "running", "failed", "done"},
         intent' = [intent EXCEPT ![i].status = s, ![i].tries = n]
  PROVE  Turns(i, s)
<1> DEFINE r == [intent[i] EXCEPT !.status = s, !.tries = n]
<1>1. intent' = [intent EXCEPT ![i] = r]
  OBVIOUS
<1>2. r \in IntentRows /\ r.status = s /\ r.id = intent[i].id /\ r.from = intent[i].from
  BY DEF FreeTypes, IntentRows
<1> HIDE DEF r
<1>3. intent \in [Intents -> IntentRows]
  BY DEF FreeTypes
<1>4. intent' \in [Intents -> IntentRows] /\ intent'[i] = r
  BY <1>1, <1>2, <1>3
<1>5. \A j \in Intents \ {i} : intent'[j] = intent[j]
  BY <1>1, <1>3
<1> QED BY <1>2, <1>4, <1>5 DEF Turns

(* What the claims do.  An intent is taken up again, or a new one is made for the
   day; either way the bot has it in hand. *)
ReservedRow(i, u, kind, after) ==
  /\ intent[i].status = "none" /\ intent' \in [Intents -> IntentRows]
  /\ intent'[i].status = "pending" /\ intent'[i].from = day
  /\ intent'[i].id = [user |-> u, kind |-> kind, after |-> after]
  /\ \A j \in Intents \ {i} : intent'[j] = intent[j]

(* reserve: a free id, the day of the claim, and the bot has it in hand. *)
LEMMA ReserveIs ==
  ASSUME FreeTypes, NEW u \in Users, NEW kind \in Kinds, NEW after \in {Never} \cup Days,
         Reserve(u, kind, after)
  PROVE  \E i \in Intents : /\ ReservedRow(i, u, kind, after) /\ HasSlot(kind)
                            /\ Hand("bot", WorkTakes("bot", "claim", i))
                            /\ WorkTakes("bot", "claim", i).op = "claim"
                            /\ WorkTakes("bot", "claim", i).intent = i
<1> DEFINE r == [status |-> "pending", from |-> day, tries |-> 0,
                 id |-> [user |-> u, kind |-> kind, after |-> after]]
<1>1. PICK i \in Intents :
        /\ intent[i].status = "none" /\ intent' = [intent EXCEPT ![i] = r]
        /\ work' = [work EXCEPT !["bot"].op = "claim", !["bot"].intent = i]
  BY DEF Reserve
<1>2. r \in IntentRows
  BY FreeAssumption DEF FreeTypes, IntentRows, KeyIds
<1>3. r.status = "pending" /\ r.from = day /\ r.id = [user |-> u, kind |-> kind, after |-> after]
  OBVIOUS
<1> HIDE DEF r
<1>4. ReservedRow(i, u, kind, after)
  BY <1>1, <1>2, <1>3 DEF FreeTypes, ReservedRow
<1>5. /\ Hand("bot", WorkTakes("bot", "claim", i)) /\ WorkTakes("bot", "claim", i).op = "claim"
      /\ WorkTakes("bot", "claim", i).intent = i
  BY <1>1, WorkTakesIs DEF Threads, Ops
<1>6. HasSlot(kind)
  BY DEF Reserve
<1> QED BY <1>4, <1>5, <1>6

(* An unfinished intent is taken up again; one that failed is pending again. *)
LEMMA ResumeIs ==
  ASSUME FreeTypes, NEW i \in Intents, Resume(i)
  PROVE  /\ intent[i].status \in {"pending", "running", "failed"}
         /\ UNCHANGED intent \/ (intent[i].status = "failed" /\ Turns(i, "pending"))
         /\ Hand("bot", WorkTakes("bot", "claim", i)) /\ WorkTakes("bot", "claim", i).op = "claim"
         /\ WorkTakes("bot", "claim", i).intent = i
<1>1. /\ Hand("bot", WorkTakes("bot", "claim", i)) /\ WorkTakes("bot", "claim", i).op = "claim"
      /\ WorkTakes("bot", "claim", i).intent = i
  BY WorkTakesIs DEF Resume, Threads, Ops
<1>2. CASE intent[i].status = "failed"
  <2>1. intent' = [intent EXCEPT ![i].status = "pending", ![i].tries = 0]
    BY <1>2 DEF Resume
  <2>2. 0 \in 0..MaxAttempts
    BY FreeAssumption
  <2>3. Turns(i, "pending")
    BY <2>1, <2>2, RetriedIs
  <2> QED BY <1>1, <1>2, <2>3
<1>3. CASE intent[i].status # "failed"
  BY <1>1, <1>3 DEF Resume
<1> QED BY <1>2, <1>3

(* An intent is marked running, and the thread that marked it holds it. *)
LEMMA TakeIs ==
  ASSUME FreeTypes, NEW t \in Threads, NEW i \in Intents, Take(t, i)
  PROVE  /\ Turns(i, "running") /\ Hand(t, WorkTakes(t, "create", i))
         /\ WorkTakes(t, "create", i).op = "create" /\ WorkTakes(t, "create", i).intent = i
<1> DEFINE n == IF intent[i].tries < MaxAttempts THEN intent[i].tries + 1 ELSE intent[i].tries
<1>1. n \in 0..MaxAttempts
  BY FreeAssumption DEF FreeTypes, IntentRows
<1>2. intent' = [intent EXCEPT ![i].status = "running", ![i].tries = n]
  BY DEF Take
<1> HIDE DEF n
<1>3. Turns(i, "running")
  BY <1>1, <1>2, RetriedIs
<1>4. work' = [work EXCEPT ![t].op = "create", ![t].intent = i] /\ "create" \in Ops
  BY DEF Take, Ops
<1>5. /\ Hand(t, WorkTakes(t, "create", i)) /\ WorkTakes(t, "create", i).op = "create"
      /\ WorkTakes(t, "create", i).intent = i
  BY <1>4, WorkTakesIs
<1> QED BY <1>3, <1>5

(* The two hands that carry an intent to its key. *)
LEMMA CreateIs ==
  ASSUME FreeTypes, HasIntent, NEW t \in Threads, Create(t)
  PROVE  /\ work[t].op = "create" /\ work[t].intent \in Intents
         /\ Hand(t, Then(t, "commit"))
         /\ onServer' = onServer \cup {IdInHand(t)} /\ IdInHand(t) \in KeyIds
<1>1. work[t].op = "create" /\ work[t].intent \in Intents
  BY DEF Create, HasIntent, Carrying
<1>2. intent[work[t].intent].id \in KeyIds
  BY <1>1 DEF FreeTypes, IntentRows
<1> QED BY <1>1, <1>2, DoesIs DEF Create, IdInHand, Ops

(* The call failed, or its answer was lost: the intent failed. *)
LEMMA CreateFailsIs ==
  ASSUME FreeTypes, HasIntent, NEW t \in Threads, CreateFails(t)
  PROVE  /\ work[t].op = "create" /\ work[t].intent \in Intents
         /\ Hand(t, NoWork) /\ Turns(work[t].intent, "failed")
         /\ wobbled' = wobbled \cup {work[t].intent}
         /\ onServer' \in {onServer, onServer \cup {IdInHand(t)}} /\ IdInHand(t) \in KeyIds
<1>1. work[t].op = "create" /\ work[t].intent \in Intents
  BY DEF CreateFails, HasIntent, Carrying
<1>2. intent[work[t].intent].id \in KeyIds
  BY <1>1 DEF FreeTypes, IntentRows
<1>3. Turns(work[t].intent, "failed")
  BY <1>1, StatusIs DEF CreateFails
<1> QED BY <1>1, <1>2, <1>3, RestsIs DEF CreateFails, IdInHand

(* The key's row counts from the day of the claim. *)
Ends(i) == intent[i].from + Lasts(intent[i].id.kind)

(* The transaction that writes the claim down: row, claim and intent. *)
LEMMA FinalizeIs ==
  ASSUME FreeTypes, HasIntent, NEW t \in Threads, Finalize(t)
  PROVE  LET i == work[t].intent
             k == IdInHand(t)
         IN  /\ work[t].op = "commit" /\ i \in Intents /\ Hand(t, NoWork) /\ Turns(i, "done")
             /\ k = intent[i].id /\ k \in KeyIds /\ k.user \in Users /\ k.kind \in Kinds
             /\ freeKey' \in [KeyIds -> KeyRows]
             /\ \A q \in KeyIds \ {k} : freeKey'[q] = freeKey[q]
             /\ freeKey[k].status # "none" => freeKey'[k] = freeKey[k]
             /\ freeKey[k].status = "none" =>
                  freeKey'[k].status = "active" /\ freeKey'[k].ends = Ends(i)
             /\ lastClaim' \in [Users -> {Never} \cup Days] /\ won' \in [Users -> {Never} \cup Days]
             /\ k.kind = "daily" => /\ won' = won /\ lastClaim'[k.user] = intent[i].from
                                    /\ \A u \in Users \ {k.user} : lastClaim'[u] = lastClaim[u]
             /\ k.kind = "gift" => /\ lastClaim' = lastClaim
                                   /\ \A u \in Users \ {k.user} : won'[u] = won[u]
                                   /\ won'[k.user] = IF won[k.user] = Never THEN intent[i].from
                                                     ELSE won[k.user]
<1> DEFINE i == work[t].intent
           k == IdInHand(t)
<1>1. work[t].op = "commit" /\ i \in Intents /\ k = intent[i].id
  BY DEF Finalize, HasIntent, Carrying, IdInHand
<1>2. intent[i] \in IntentRows
  BY <1>1 DEF FreeTypes
<1>3. k \in KeyIds /\ k.user \in Users /\ k.kind \in Kinds /\ intent[i].from \in Days
  BY <1>1, <1>2 DEF IntentRows, KeyIds
<1>4. Hand(t, NoWork) /\ Turns(i, "done")
  BY <1>1, RestsIs, StatusIs DEF Finalize
<1> DEFINE row == [status |-> "active", ends |-> Ends(i)]
<1>5. row \in KeyRows /\ row.status = "active" /\ row.ends = Ends(i)
  <2>1. LastDay \in Nat /\ GiftDays \in Nat \ {0}
    BY FreeAssumption
  <2>2. Lasts(k.kind) \in Nat /\ Lasts(k.kind) <= GiftDays
    BY <1>3, <2>1 DEF Lasts, Kinds
  <2>3. intent[i].from \in Nat /\ intent[i].from <= LastDay
    BY <1>3, <2>1 DEF Days
  <2>4. Ends(i) \in 0..(LastDay + GiftDays + 1)
    BY <1>1, <2>1, <2>2, <2>3 DEF Ends
  <2> QED BY <2>4 DEF KeyRows
<1>6. freeKey' = IF freeKey[k].status # "none" THEN freeKey ELSE [freeKey EXCEPT ![k] = row]
  BY <1>1 DEF Finalize, Ends
<1>7. /\ k.kind = "daily" => lastClaim' = [lastClaim EXCEPT ![k.user] = intent[i].from] /\ won' = won
      /\ k.kind = "gift" =>
           /\ won' = [won EXCEPT ![k.user] =
                        IF won[k.user] = Never THEN intent[i].from ELSE won[k.user]]
           /\ lastClaim' = lastClaim
  BY <1>1 DEF Finalize
<1> HIDE DEF i, k, row
<1>8. /\ freeKey' \in [KeyIds -> KeyRows]
      /\ \A q \in KeyIds \ {k} : freeKey'[q] = freeKey[q]
      /\ freeKey[k].status # "none" => freeKey'[k] = freeKey[k]
      /\ freeKey[k].status = "none" => freeKey'[k].status = "active" /\ freeKey'[k].ends = Ends(i)
  <2>1. freeKey \in [KeyIds -> KeyRows]
    BY DEF FreeTypes
  <2>2. CASE freeKey[k].status # "none"
    BY <1>6, <2>1, <2>2
  <2>3. CASE freeKey[k].status = "none"
    BY <1>3, <1>5, <1>6, <2>1, <2>3
  <2> QED BY <2>2, <2>3
<1>9. lastClaim \in [Users -> {Never} \cup Days] /\ won \in [Users -> {Never} \cup Days]
  BY DEF FreeTypes
<1>10. CASE k.kind = "daily"
  BY <1>1, <1>3, <1>4, <1>7, <1>8, <1>9, <1>10 DEF i, k
<1>11. CASE k.kind = "gift"
  <2>1. (IF won[k.user] = Never THEN intent[i].from ELSE won[k.user]) \in {Never} \cup Days
    BY <1>3, <1>9
  <2> QED BY <1>1, <1>3, <1>4, <1>7, <1>8, <1>9, <1>11, <2>1 DEF i, k
<1> QED BY <1>3, <1>10, <1>11 DEF Kinds

(* What the maintenance thread holds while it ends keys: the key and the events it
   goes through, or the keys of a sweep. *)
PassHand(op, k, todo) ==
  /\ work' \in [Threads -> WorkRows] /\ work'["bot"] = work["bot"]
  /\ work'["pass"].op = op /\ work'["pass"].id = k /\ work'["pass"].todo = todo
  /\ work'["pass"].intent = work["pass"].intent

(* The hand of a thread that ends a key. *)
LEMMA EndingHand ==
  ASSUME FreeTypes, NEW k \in KeyIds, NEW todo \in SUBSET Reasons, NEW op \in Ops,
         work' = [work EXCEPT !["pass"].op = op, !["pass"].id = k, !["pass"].todo = todo]
  PROVE  PassHand(op, k, todo)
<1> DEFINE r == [work["pass"] EXCEPT !.op = op, !.id = k, !.todo = todo]
<1>1. work' = [work EXCEPT !["pass"] = r]
  OBVIOUS
<1>2. work \in [Threads -> WorkRows] /\ "pass" \in Threads /\ "bot" \in Threads
  BY DEF FreeTypes, Threads
<1>3. r \in WorkRows /\ r.op = op /\ r.id = k /\ r.todo = todo /\ r.intent = work["pass"].intent
  BY <1>2 DEF WorkRows
<1> HIDE DEF r
<1> QED BY <1>1, <1>2, <1>3 DEF PassHand

(* The hand of a thread that sweeps the keys of an upgraded customer. *)
LEMMA SweepingHand ==
  ASSUME FreeTypes, NEW keys \in SUBSET KeyIds, NEW op \in Ops,
         work' = [work EXCEPT !["pass"].op = op, !["pass"].keys = keys]
  PROVE  PassHand(op, work["pass"].id, work["pass"].todo)
<1> DEFINE r == [work["pass"] EXCEPT !.op = op, !.keys = keys]
<1>1. work' = [work EXCEPT !["pass"] = r]
  OBVIOUS
<1>2. work \in [Threads -> WorkRows] /\ "pass" \in Threads /\ "bot" \in Threads
  BY DEF FreeTypes, Threads
<1>3. /\ r \in WorkRows /\ r.op = op /\ r.id = work["pass"].id /\ r.todo = work["pass"].todo
      /\ r.intent = work["pass"].intent
  BY <1>2 DEF WorkRows
<1> HIDE DEF r
<1> QED BY <1>1, <1>2, <1>3 DEF PassHand

(* The maintenance thread puts down what it held. *)
LEMMA PassRests ==
  ASSUME FreeTypes, Rests("pass") PROVE Hand("pass", NoWork)
BY RestsIs DEF Threads

(* The next event: the same key, one event less, or the end of the listing. *)
LEMMA NextReasonIs ==
  ASSUME FreeTypes, NEW r, r \in work["pass"].todo, NextReason(r)
  PROVE  \/ Hand("pass", NoWork)
         \/ /\ work["pass"].todo \ {r} # {}
            /\ PassHand("delete", work["pass"].id, work["pass"].todo \ {r})
<1> DEFINE h == work["pass"]
<1>1. h \in WorkRows /\ "pass" \in Threads
  BY DEF FreeTypes, Threads
<1>2. CASE h.todo = {r}
  BY <1>2, HandIs, RestRows, <1>1 DEF NextReason
<1>3. CASE h.todo # {r}
  <2>1. work' = [work EXCEPT !["pass"].op = "delete", !["pass"].todo = work["pass"].todo \ {r}]
    BY <1>3 DEF NextReason
  <2>2. work' = [work EXCEPT !["pass"].op = "delete", !["pass"].id = h.id, !["pass"].todo = h.todo \ {r}]
    <3> DEFINE q == [h EXCEPT !.op = "delete", !.todo = h.todo \ {r}]
               p == [h EXCEPT !.op = "delete", !.id = h.id, !.todo = h.todo \ {r}]
    <3>1. q = p
      BY <1>1 DEF WorkRows
    <3>2. work' = [work EXCEPT !["pass"] = q]
      BY <2>1
    <3>3. work' = [work EXCEPT !["pass"] = p]
      BY <3>1, <3>2
    <3> QED BY <3>3
  <2>3. h.id \in KeyIds /\ h.todo \in SUBSET Reasons /\ h.todo \ {r} \in SUBSET Reasons
    BY <1>1 DEF WorkRows
  <2>4. PassHand("delete", h.id, h.todo \ {r})
    BY <2>2, <2>3, EndingHand DEF Ops
  <2>5. h.todo \ {r} # {}
    BY <1>3
  <2> QED BY <2>4, <2>5
<1> QED BY <1>2, <1>3

(* The steps, one by one, keep the types. *)
LEMMA HandKeeps ==
  ASSUME HasIntent, NEW t \in Threads, NEW r, Hand(t, r),
         r.op \in Carrying => r.intent \in Intents
  PROVE  work' \in [Threads -> WorkRows] /\ HasIntent'
<1>1. ASSUME NEW s \in Threads, work'[s].op \in Carrying PROVE work'[s].intent \in Intents
  <2>1. CASE s = t
    BY <1>1, <2>1 DEF Hand
  <2>2. CASE s # t
    BY <1>1, <2>2 DEF Hand, HasIntent
  <2> QED BY <2>1, <2>2
<1> QED BY <1>1 DEF HasIntent, Hand

(* A thread at rest holds no intent. *)
LEMMA RestKeeps ==
  ASSUME HasIntent, NEW t \in Threads, Hand(t, NoWork)
  PROVE  work' \in [Threads -> WorkRows] /\ HasIntent'
BY HandKeeps DEF NoWork, Carrying

(* A thread that ends keys holds no intent. *)
LEMMA PassKeeps ==
  ASSUME HasIntent, NEW op, NEW k, NEW todo, PassHand(op, k, todo), op \notin Carrying
  PROVE  work' \in [Threads -> WorkRows] /\ HasIntent'
BY DEF HasIntent, PassHand, Threads

(* Claiming the daily key keeps the types. *)
LEMMA ClaimDailyTypes ==
  ASSUME FreeTypes, HasIntent, NEW u \in Users, ClaimDaily(u)
  PROVE  FreeTypes' /\ HasIntent'
<1>1. UNCHANGED <<claimVars, keyVars, promoVars, worldVars, wobbled>>
  BY DEF ClaimDaily
<1>2. \E i \in Intents : /\ intent' \in [Intents -> IntentRows]
                         /\ Hand("bot", WorkTakes("bot", "claim", i))
                         /\ WorkTakes("bot", "claim", i).intent = i
  <2>1. CASE \E i \in Mine(u, "daily") : Resume(i)
    <3>1. PICK i \in Intents : Resume(i)
      BY <2>1 DEF Mine, OfKind
    <3> QED BY <3>1, ResumeIs DEF FreeTypes, Turns
  <2>2. CASE Reserve(u, "daily", lastClaim[u])
    <3>1. lastClaim[u] \in {Never} \cup Days /\ "daily" \in Kinds
      BY DEF FreeTypes, Kinds
    <3> QED BY <2>2, <3>1, ReserveIs DEF ReservedRow
  <2> QED BY <2>1, <2>2 DEF ClaimDaily
<1>3. work' \in [Threads -> WorkRows] /\ HasIntent'
  BY <1>2, HandKeeps DEF Threads
<1> QED BY <1>1, <1>2, <1>3 DEF FreeTypes, claimVars, keyVars, promoVars, worldVars

(* Claiming the gift keeps the types. *)
LEMMA ClaimGiftTypes ==
  ASSUME FreeTypes, HasIntent, NEW u \in Users, ClaimGift(u)
  PROVE  FreeTypes' /\ HasIntent'
<1>1. UNCHANGED <<claimVars, keyVars, promoVars, worldVars, wobbled>>
  BY DEF ClaimGift
<1>2. \E i \in Intents : /\ intent' \in [Intents -> IntentRows]
                         /\ Hand("bot", WorkTakes("bot", "claim", i))
                         /\ WorkTakes("bot", "claim", i).intent = i
  <2>1. CASE \E i \in Mine(u, "gift") : Resume(i)
    <3>1. PICK i \in Intents : Resume(i)
      BY <2>1 DEF Mine, OfKind
    <3> QED BY <3>1, ResumeIs DEF FreeTypes, Turns
  <2>2. CASE Reserve(u, "gift", Never)
    BY <2>2, ReserveIs DEF ReservedRow, Kinds
  <2> QED BY <2>1, <2>2 DEF ClaimGift
<1>3. work' \in [Threads -> WorkRows] /\ HasIntent'
  BY <1>2, HandKeeps DEF Threads
<1> QED BY <1>1, <1>2, <1>3 DEF FreeTypes, claimVars, keyVars, promoVars, worldVars

(* Taking an intent keeps the types. *)
LEMMA TakeIntentTypes ==
  ASSUME FreeTypes, HasIntent, NEW t \in Threads, NEW i \in Intents, Take(t, i),
         UNCHANGED <<claimVars, keyVars, promoVars, worldVars, wobbled>>
  PROVE  FreeTypes' /\ HasIntent'
<1>1. work' \in [Threads -> WorkRows] /\ HasIntent'
  BY TakeIs, HandKeeps
<1>2. intent' \in [Intents -> IntentRows]
  BY TakeIs DEF Turns
<1> QED BY <1>1, <1>2 DEF FreeTypes, claimVars, keyVars, promoVars, worldVars

(* So does the Telegram thread that finds it taken. *)
LEMMA BotTakesTypes ==
  ASSUME FreeTypes, HasIntent, BotTakes PROVE FreeTypes' /\ HasIntent'
<1>1. UNCHANGED <<claimVars, keyVars, promoVars, worldVars, wobbled>>
      /\ work["bot"].intent \in Intents /\ "bot" \in Threads
  BY DEF BotTakes, HasIntent, Carrying, Threads
<1>2. CASE Take("bot", work["bot"].intent)
  BY <1>1, <1>2, TakeIntentTypes
<1>3. CASE Rests("bot") /\ UNCHANGED intent
  <2>1. work' \in [Threads -> WorkRows] /\ HasIntent'
    BY <1>1, <1>3, RestsIs, RestKeeps
  <2> QED BY <1>1, <1>3, <2>1 DEF FreeTypes, claimVars, keyVars, promoVars, worldVars
<1> QED BY <1>2, <1>3 DEF BotTakes

(* Creating the key, failing to, and writing the claim down keep the types. *)
LEMMA CarryTypes ==
  ASSUME FreeTypes, HasIntent, NEW t \in Threads, Carry(t) PROVE FreeTypes' /\ HasIntent'
<1>1. CASE Create(t)
  <2>1. Then(t, "commit").intent \in Intents
    BY <1>1, CreateIs DEF FreeTypes, WorkRows, Then
  <2>2. work' \in [Threads -> WorkRows] /\ HasIntent'
    BY <1>1, <2>1, CreateIs, HandKeeps
  <2>3. onServer' \subseteq KeyIds
    BY <1>1, CreateIs DEF FreeTypes
  <2> QED BY <1>1, <2>2, <2>3 DEF Create, FreeTypes, claimVars, promoVars, worldVars
<1>2. CASE CreateFails(t)
  <2>1. work' \in [Threads -> WorkRows] /\ HasIntent'
    BY <1>2, CreateFailsIs, RestKeeps
  <2>2. onServer' \subseteq KeyIds /\ wobbled' \subseteq Intents
    BY <1>2, CreateFailsIs DEF FreeTypes
  <2>3. intent' \in [Intents -> IntentRows]
    BY <1>2, CreateFailsIs DEF Turns
  <2> QED BY <1>2, <2>1, <2>2, <2>3 DEF CreateFails, FreeTypes, claimVars, promoVars, worldVars
<1>3. CASE Finalize(t)
  <2>1. work' \in [Threads -> WorkRows] /\ HasIntent'
    BY <1>3, FinalizeIs, RestKeeps
  <2>2. intent' \in [Intents -> IntentRows]
    BY <1>3, FinalizeIs DEF Turns
  <2>3. /\ freeKey' \in [KeyIds -> KeyRows]
        /\ lastClaim' \in [Users -> {Never} \cup Days] /\ won' \in [Users -> {Never} \cup Days]
    BY <1>3, FinalizeIs
  <2> QED BY <1>3, <2>1, <2>2, <2>3 DEF Finalize, FreeTypes, promoVars, worldVars
<1> QED BY <1>1, <1>2, <1>3 DEF Carry

(* A row of the termination events, and of the keys, after a step of the thread
   that ends keys. *)
Events(k, rs) == /\ ending' \in [KeyIds -> SUBSET Reasons] /\ ending'[k] = rs
                 /\ \A q \in KeyIds \ {k} : ending'[q] = ending[q]
Revokes(k) == /\ freeKey' \in [KeyIds -> KeyRows] /\ freeKey'[k].status = "revoked"
              /\ freeKey'[k].ends = freeKey[k].ends
              /\ \A q \in KeyIds \ {k} : freeKey'[q] = freeKey[q]

(* The events of one key change. *)
LEMMA EventsAre ==
  ASSUME FreeTypes, NEW k \in KeyIds, NEW rs \in SUBSET Reasons,
         ending' = [ending EXCEPT ![k] = rs]
  PROVE  Events(k, rs)
BY DEF FreeTypes, Events

(* The row of one key is revoked. *)
LEMMA RevokesIs ==
  ASSUME FreeTypes, NEW k \in KeyIds, freeKey' = [freeKey EXCEPT ![k].status = "revoked"]
  PROVE  Revokes(k)
BY DEF FreeTypes, KeyRows, Revokes

(* Quota, expiry and the unfinished events start the end of a live key. *)
LEMMA StartEndingIs ==
  ASSUME FreeTypes, NEW k \in KeyIds, NEW rs \in SUBSET Reasons, StartEnding(k, rs)
  PROVE  /\ Free("pass") /\ Live(k) /\ PassHand("delete", k, rs)
         /\ Events(k, ending[k] \cup rs) /\ spent' \subseteq KeyIds
         /\ UNCHANGED <<intent, freeKey, used, onServer, swept, claimVars, promoVars,
                        worldVars, wobbled>>
<1>1. ending[k] \cup rs \in SUBSET Reasons
  BY DEF FreeTypes
<1>2. Events(k, ending[k] \cup rs)
  BY <1>1, EventsAre DEF StartEnding
<1>3. PassHand("delete", k, rs)
  BY EndingHand DEF StartEnding, Ops
<1>4. spent' \subseteq KeyIds
  BY DEF StartEnding, FreeTypes
<1> QED BY <1>2, <1>3, <1>4 DEF StartEnding

(* There is always a reason, one of the three or those on record. *)
LEMMA StartEndIs ==
  ASSUME FreeTypes, StartEnd
  PROVE  \E k \in KeyIds, rs \in SUBSET Reasons : rs # {} /\ StartEnding(k, rs)
<1>1. ASSUME NEW k \in KeyIds, EnforceFreeQuota(k) PROVE StartEnding(k, {"quota"})
  BY <1>1 DEF EnforceFreeQuota
<1>2. ASSUME NEW k \in KeyIds, RevokeExpired(k) PROVE StartEnding(k, {"expiry"})
  BY <1>2 DEF RevokeExpired
<1>3. ASSUME NEW k \in KeyIds, ReconcileTerminations(k)
      PROVE  StartEnding(k, ending[k]) /\ ending[k] # {} /\ ending[k] \in SUBSET Reasons
  BY <1>3 DEF ReconcileTerminations, FreeTypes
<1>4. {"quota"} \in SUBSET Reasons /\ {"expiry"} \in SUBSET Reasons
  BY DEF Reasons
<1> QED BY <1>1, <1>2, <1>3, <1>4 DEF StartEnd

(* Starting to end a key keeps the types. *)
LEMMA StartEndTypes ==
  ASSUME FreeTypes, HasIntent, StartEnd PROVE FreeTypes' /\ HasIntent'
<1>1. PICK k \in KeyIds, rs \in SUBSET Reasons : StartEnding(k, rs)
  BY StartEndIs
<1>2. work' \in [Threads -> WorkRows] /\ HasIntent'
  BY <1>1, StartEndingIs, PassKeeps DEF Carrying
<1>3. /\ ending' \in [KeyIds -> SUBSET Reasons] /\ spent' \subseteq KeyIds
      /\ UNCHANGED <<intent, freeKey, used, onServer, swept, claimVars, promoVars,
                     worldVars, wobbled>>
  BY <1>1, StartEndingIs DEF Events
<1> QED BY <1>2, <1>3 DEF FreeTypes, claimVars, promoVars, worldVars

(* The key is deleted from the server, or the call fails, or the row is ended. *)
LEMMA DeleteKeyIs ==
  ASSUME FreeTypes, DeleteKey
  PROVE  /\ PassHand("deleted", work["pass"].id, work["pass"].todo)
         /\ work["pass"].op = "delete" /\ onServer' = onServer \ {work["pass"].id}
<1>1. "pass" \in Threads /\ "bot" \in Threads /\ "deleted" \in Ops
  BY DEF Threads, Ops
<1>2. Hand("pass", Then("pass", "deleted"))
  BY <1>1, DoesIs DEF DeleteKey
<1>3. work["pass"] \in WorkRows
  BY <1>1 DEF FreeTypes
<1> QED BY <1>1, <1>2, <1>3 DEF DeleteKey, Hand, PassHand, Then, WorkRows

(* The key is gone: its row is revoked and the event settled. *)
LEMMA KeyIsGoneIs ==
  ASSUME FreeTypes, NEW r, KeyIsGone(r)
  PROVE  /\ work["pass"].op = "deleted" /\ r \in work["pass"].todo
         /\ work["pass"].id \in KeyIds /\ Revokes(work["pass"].id)
         /\ Events(work["pass"].id, ending[work["pass"].id] \ {r})
         /\ NextReason(r)
<1>1. work["pass"].id \in KeyIds
  BY DEF FreeTypes, Threads, WorkRows
<1>2. Revokes(work["pass"].id)
  BY <1>1, RevokesIs DEF KeyIsGone
<1>3. ending[work["pass"].id] \ {r} \in SUBSET Reasons
  BY <1>1 DEF FreeTypes
<1>4. Events(work["pass"].id, ending[work["pass"].id] \ {r})
  BY <1>1, <1>3, EventsAre DEF KeyIsGone
<1> QED BY <1>1, <1>2, <1>4 DEF KeyIsGone

(* Ending a key keeps the types. *)
LEMMA EndStepTypes ==
  ASSUME FreeTypes, HasIntent, EndStep PROVE FreeTypes' /\ HasIntent'
<1>1. CASE DeleteKey
  <2>1. work' \in [Threads -> WorkRows] /\ HasIntent'
    BY <1>1, DeleteKeyIs, PassKeeps DEF Carrying
  <2>2. onServer' \subseteq KeyIds
    BY <1>1, DeleteKeyIs DEF FreeTypes
  <2> QED BY <1>1, <2>1, <2>2 DEF DeleteKey, FreeTypes, claimVars, promoVars, worldVars
<1>2. ASSUME NEW r \in Reasons, r \in work["pass"].todo, NextReason(r)
      PROVE  work' \in [Threads -> WorkRows] /\ HasIntent'
  <2>1. "pass" \in Threads
    BY DEF Threads
  <2> QED BY <1>2, <2>1, NextReasonIs, PassKeeps, RestKeeps DEF Carrying
<1>3. ASSUME NEW r \in Reasons, DeleteFails(r) PROVE FreeTypes' /\ HasIntent'
  <2>1. work' \in [Threads -> WorkRows] /\ HasIntent'
    BY <1>2, <1>3 DEF DeleteFails
  <2> QED BY <1>3, <2>1 DEF DeleteFails, FreeTypes, keyVars, claimVars, promoVars, worldVars
<1>4. ASSUME NEW r \in Reasons, KeyIsGone(r) PROVE FreeTypes' /\ HasIntent'
  <2>1. work' \in [Threads -> WorkRows] /\ HasIntent'
    BY <1>2, <1>4, KeyIsGoneIs
  <2>2. freeKey' \in [KeyIds -> KeyRows] /\ ending' \in [KeyIds -> SUBSET Reasons]
    BY <1>4, KeyIsGoneIs DEF Revokes, Events
  <2> QED BY <1>4, <2>1, <2>2 DEF KeyIsGone, FreeTypes, claimVars, promoVars, worldVars
<1> QED BY <1>1, <1>3, <1>4 DEF EndStep

(* The sweep of a paid upgrade. *)
LEMMA SweepOnIs ==
  ASSUME FreeTypes, NEW k, SweepOn(k)
  PROVE  PassHand("sweep", work["pass"].id, work["pass"].todo)
<1>1. work["pass"] \in WorkRows
  BY DEF FreeTypes, Threads
<1>2. work["pass"].keys \ {k} \in SUBSET KeyIds
  BY <1>1 DEF WorkRows
<1>3. work' = [work EXCEPT !["pass"].op = "sweep", !["pass"].keys = work["pass"].keys \ {k}]
  BY DEF SweepOn
<1> QED BY <1>2, <1>3, SweepingHand DEF Ops

(* A key found under the name of the customer is deleted. *)
LEMMA SweepDeletesIs ==
  ASSUME FreeTypes, NEW k \in KeyIds, SweepDeletes(k)
  PROVE  /\ PassHand("mark", k, work["pass"].todo) /\ work["pass"].op = "sweep"
         /\ onServer' = onServer \ {k} /\ swept' = swept \cup {k}
<1>1. work["pass"] \in WorkRows
  BY DEF FreeTypes, Threads
<1>2. work["pass"].todo \in SUBSET Reasons /\ "mark" \in Ops
  BY <1>1 DEF WorkRows, Ops
<1>3. work' = [work EXCEPT !["pass"].op = "mark", !["pass"].id = k, !["pass"].todo = work["pass"].todo]
  <2> DEFINE q == [work["pass"] EXCEPT !.op = "mark", !.id = k]
             p == [work["pass"] EXCEPT !.op = "mark", !.id = k, !.todo = work["pass"].todo]
  <2>1. q = p
    BY <1>1 DEF WorkRows
  <2>2. work' = [work EXCEPT !["pass"] = q]
    BY DEF SweepDeletes
  <2>3. work' = [work EXCEPT !["pass"] = p]
    BY <2>1, <2>2
  <2> QED BY <2>3
<1>4. PassHand("mark", k, work["pass"].todo)
  BY <1>2, <1>3, EndingHand
<1> QED BY <1>4 DEF SweepDeletes

(* Its row, when it has one, is revoked. *)
LEMMA SweepMarksIs ==
  ASSUME FreeTypes, SweepMarks
  PROVE  LET k == work["pass"].id
         IN  /\ work["pass"].op = "mark" /\ k \in KeyIds
             /\ PassHand("sweep", work["pass"].id, work["pass"].todo)
             /\ \/ freeKey[k].status = "none" /\ UNCHANGED <<freeKey, ending>>
                \/ /\ freeKey[k].status # "none" /\ Revokes(k)
                   /\ Events(k, ending[k] \ {"upgrade"})
<1> DEFINE k == work["pass"].id
<1>1. k \in KeyIds
  BY DEF FreeTypes, Threads, WorkRows
<1>2. PassHand("sweep", work["pass"].id, work["pass"].todo)
  BY SweepOnIs DEF SweepMarks
<1>3. ending[k] \ {"upgrade"} \in SUBSET Reasons
  BY <1>1 DEF FreeTypes
<1>4. CASE freeKey[k].status # "none"
  <2>1. /\ freeKey' = [freeKey EXCEPT ![k].status = "revoked"]
        /\ ending' = [ending EXCEPT ![k] = ending[k] \ {"upgrade"}]
    BY <1>4 DEF SweepMarks
  <2>2. Revokes(k) /\ Events(k, ending[k] \ {"upgrade"})
    BY <1>1, <1>3, <2>1, RevokesIs, EventsAre
  <2> QED BY <1>1, <1>2, <1>4, <2>2 DEF SweepMarks
<1>5. CASE freeKey[k].status = "none"
  BY <1>1, <1>2, <1>5 DEF SweepMarks
<1> QED BY <1>4, <1>5

(* The delete failed: the end is put on record, when there is a row. *)
LEMMA SweepFailsIs ==
  ASSUME FreeTypes, NEW k \in KeyIds, SweepFails(k)
  PROVE  /\ PassHand("sweep", work["pass"].id, work["pass"].todo)
         /\ UNCHANGED ending \/ Events(k, ending[k] \cup {"upgrade"})
<1>1. ending[k] \cup {"upgrade"} \in SUBSET Reasons
  BY DEF FreeTypes, Reasons
<1>2. UNCHANGED ending \/ Events(k, ending[k] \cup {"upgrade"})
  BY <1>1, EventsAre DEF SweepFails
<1> QED BY <1>2, SweepOnIs DEF SweepFails

(* The sweep keeps the types. *)
LEMMA SweepTypes ==
  ASSUME FreeTypes, HasIntent, SweepStep PROVE FreeTypes' /\ HasIntent'
<1>1. CASE SweepMarks
  <2>1. work' \in [Threads -> WorkRows] /\ HasIntent'
    BY <1>1, SweepMarksIs, PassKeeps DEF Carrying
  <2>2. freeKey' \in [KeyIds -> KeyRows] /\ ending' \in [KeyIds -> SUBSET Reasons]
    BY <1>1, SweepMarksIs DEF Revokes, Events, FreeTypes
  <2> QED BY <1>1, <2>1, <2>2 DEF SweepMarks, FreeTypes, claimVars, promoVars, worldVars
<1>2. CASE SweepEnds
  <2>1. work' \in [Threads -> WorkRows] /\ HasIntent'
    BY <1>2, PassRests, RestKeeps DEF SweepEnds, Threads
  <2> QED BY <1>2, <2>1 DEF SweepEnds, FreeTypes, keyVars, claimVars, promoVars, worldVars
<1>3. ASSUME NEW k \in KeyIds, SweepDeletes(k) PROVE FreeTypes' /\ HasIntent'
  <2>1. work' \in [Threads -> WorkRows] /\ HasIntent'
    BY <1>3, SweepDeletesIs, PassKeeps DEF Carrying
  <2>2. onServer' \subseteq KeyIds /\ swept' \subseteq KeyIds
    BY <1>3, SweepDeletesIs DEF FreeTypes
  <2> QED BY <1>3, <2>1, <2>2 DEF SweepDeletes, FreeTypes, claimVars, promoVars, worldVars
<1>4. ASSUME NEW k \in KeyIds, SweepFails(k) PROVE FreeTypes' /\ HasIntent'
  <2>1. work' \in [Threads -> WorkRows] /\ HasIntent'
    <3>1. PassHand("sweep", work["pass"].id, work["pass"].todo)
      BY <1>4, SweepFailsIs
    <3>2. "sweep" \notin Carrying
      BY DEF Carrying
    <3> QED BY <3>1, <3>2, PassKeeps
  <2>2. ending' \in [KeyIds -> SUBSET Reasons]
    BY <1>4, SweepFailsIs DEF Events, FreeTypes
  <2> QED BY <1>4, <2>1, <2>2 DEF SweepFails, FreeTypes, claimVars, promoVars, worldVars
<1> QED BY <1>1, <1>2, <1>3, <1>4 DEF SweepStep

(* Customers, the owner, time and crashes. *)
LEMMA SweepIs ==
  ASSUME FreeTypes, NEW u \in Users, Sweep(u)
  PROVE  /\ Free("pass") /\ PassHand("sweep", work["pass"].id, work["pass"].todo)
         /\ upgrade' \in [Users -> {"no", "paid", "cleaned"}]
<1> DEFINE ks == {k \in onServer : k.user = u /\ k.kind = "daily"}
<1>1. ks \in SUBSET KeyIds
  BY DEF FreeTypes
<1>2. work' = [work EXCEPT !["pass"].op = "sweep", !["pass"].keys = ks]
  BY DEF Sweep
<1> HIDE DEF ks
<1>3. PassHand("sweep", work["pass"].id, work["pass"].todo)
  BY <1>1, <1>2, SweepingHand DEF Ops
<1>4. upgrade' \in [Users -> {"no", "paid", "cleaned"}]
  BY DEF Sweep, FreeTypes
<1> QED BY <1>3, <1>4 DEF Sweep

(* Buying, traffic, days and crashes keep the types. *)
LEMMA WorldTypes ==
  ASSUME FreeTypes, HasIntent, WorldStep PROVE FreeTypes' /\ HasIntent'
<1>1. ASSUME NEW u \in Users, Buy(u) PROVE FreeTypes' /\ HasIntent'
  <2>1. upgrade' \in [Users -> {"no", "paid", "cleaned"}]
    BY <1>1 DEF Buy, FreeTypes
  <2> QED BY <1>1, <2>1 DEF Buy, FreeTypes, HasIntent, keyVars, claimVars, promoVars
<1>2. ASSUME NEW u \in Users, Sweep(u) PROVE FreeTypes' /\ HasIntent'
  <2>1. work' \in [Threads -> WorkRows] /\ HasIntent'
    BY <1>2, SweepIs, PassKeeps DEF Carrying
  <2> QED BY <1>2, <2>1, SweepIs DEF Sweep, FreeTypes, keyVars, claimVars, promoVars
<1>3. ASSUME NEW k \in KeyIds, UseUp(k) PROVE FreeTypes' /\ HasIntent'
  BY <1>3 DEF UseUp, FreeTypes, HasIntent, claimVars, promoVars, worldVars
<1>4. CASE DayPasses
  <2>1. day' \in Days
    BY <1>4, FreeAssumption DEF DayPasses, FreeTypes, Days
  <2> QED BY <1>4, <2>1 DEF DayPasses, FreeTypes, HasIntent, keyVars, claimVars, promoVars
<1>5. CASE FreeCrash
  <2>1. work' \in [Threads -> WorkRows] /\ HasIntent'
    BY <1>5, RestRows DEF FreeCrash, HasIntent, NoWork, Carrying
  <2>2. freeCrashes' \in 0..FreeCrashes
    BY <1>5, FreeAssumption DEF FreeCrash, FreeTypes
  <2> QED BY <1>5, <2>1, <2>2 DEF FreeCrash, FreeTypes, keyVars, claimVars, promoVars
<1> QED BY <1>1, <1>2, <1>3, <1>4, <1>5 DEF WorldStep

(* A market's customers are customers, and its numbers numbers. *)
LEMMA MarketIs ==
  ASSUME FreeTypes
  PROVE  /\ market.daily \subseteq Users /\ market.gift \subseteq Users
         /\ market.slots \in Nat /\ market.decisions \in Nat
BY FreeAssumption DEF FreeTypes

(* The owner's settings keep the types. *)
LEMMA OwnerTypes ==
  ASSUME FreeTypes, HasIntent,
         (\E n \in Limits : ConfigureGiveaway(n)) \/ \E b \in BOOLEAN : SetGiveawayActive(b)
  PROVE  FreeTypes' /\ HasIntent'
<1>1. ASSUME NEW n \in Limits, ConfigureGiveaway(n) PROVE FreeTypes' /\ HasIntent'
  <2>1. promo.changes + 1 \in 0..market.decisions
    BY <1>1, MarketIs DEF ConfigureGiveaway, FreeTypes
  <2>2. market' = market
    BY <1>1 DEF ConfigureGiveaway, worldVars
  <2>3. promo' \in [open : BOOLEAN, limit : Limits, changes : 0..market'.decisions]
        /\ promised' \in Limits
    BY <1>1, <2>1, <2>2 DEF ConfigureGiveaway, FreeTypes
  <2> QED BY <1>1, <2>3 DEF ConfigureGiveaway, FreeTypes, HasIntent, keyVars, claimVars, worldVars
<1>2. ASSUME NEW b \in BOOLEAN, SetGiveawayActive(b) PROVE FreeTypes' /\ HasIntent'
  <2>1. promo.changes + 1 \in 0..market.decisions
    <3>1. promo.changes < market.decisions
      BY <1>2 DEF SetGiveawayActive
    <3>2. promo.changes \in 0..market.decisions
      BY DEF FreeTypes
    <3> QED BY <3>1, <3>2, MarketIs
  <2>2. market' = market
    BY <1>2 DEF SetGiveawayActive, worldVars
  <2>3. promo' \in [open : BOOLEAN, limit : Limits, changes : 0..market'.decisions]
    BY <1>2, <2>1, <2>2 DEF SetGiveawayActive, FreeTypes
  <2> QED BY <1>2, <2>3 DEF SetGiveawayActive, FreeTypes, HasIntent, keyVars, claimVars, worldVars
<1> QED BY <1>1, <1>2

(* Every step keeps the types. *)
LEMMA FreeTypesStep ==
  ASSUME FreeTypes, HasIntent, [FreeNext]_freeVars PROVE FreeTypes' /\ HasIntent'
<1>1. CASE BotStep
  <2>1. ASSUME NEW u \in market.daily, ClaimDaily(u) PROVE FreeTypes' /\ HasIntent'
    BY <2>1, ClaimDailyTypes, MarketIs
  <2>2. ASSUME NEW u \in market.gift, ClaimGift(u) PROVE FreeTypes' /\ HasIntent'
    BY <2>2, ClaimGiftTypes, MarketIs
  <2> QED BY <1>1, <2>1, <2>2, OwnerTypes DEF BotStep
<1>2. CASE BotTakes
  BY <1>2, BotTakesTypes
<1>3. CASE Carry("bot") \/ Carry("pass")
  BY <1>3, CarryTypes DEF Threads
<1>4. ASSUME NEW i \in Intents, PassTakes(i) PROVE FreeTypes' /\ HasIntent'
  BY <1>4, TakeIntentTypes DEF PassTakes, Threads
<1>5. CASE StartEnd
  BY <1>5, StartEndTypes
<1>6. CASE EndStep
  BY <1>6, EndStepTypes
<1>7. CASE SweepStep
  BY <1>7, SweepTypes
<1>8. CASE WorldStep
  BY <1>8, WorldTypes
<1>9. CASE UNCHANGED freeVars
  BY <1>9 DEF freeVars, FreeTypes, HasIntent
<1> QED BY <1>1, <1>2, <1>3, <1>4, <1>5, <1>6, <1>7, <1>8, <1>9 DEF FreeNext

(* The intents, key rows, claims, promotion, the server's ids and the threads'
   hands keep their types (FreeTypeOK; entitlements.py's tables). *)
THEOREM FreeTypesSafety == FreeSpec => []FreeTypeOK
<1>1. FreeTypes => FreeTypeOK
  BY DEF FreeTypes, FreeTypeOK, IntentRows, KeyRows, WorkRows, Ops
<1>2. FreeSpec => [](FreeTypes /\ HasIntent)
  BY FreeTypesInit, FreeTypesStep, PTL DEF FreeSpec
<1> QED BY <1>1, <1>2, PTL

-----------------------------------------------------------------------------
(* What a step does to the intents: it leaves them and the threads' grip on them
   alone, takes one up again, makes a new one, or carries one on. *)
Acts == {"create", "commit"}
Some(i) == intent[i].status # "none"
IntentDone(i) == intent[i].status = "done"
Who(i) == intent[i].id.user
Calm == \A t \in Threads : work'[t].op \in Acts => work[t].op \in Acts
                                                   /\ work'[t].intent = work[t].intent
Quiet == Calm /\ UNCHANGED <<intent, claimVars, wobbled>>
Resumed(i) == /\ Calm /\ intent[i].status = "failed" /\ Turns(i, "pending")
              /\ UNCHANGED <<claimVars, wobbled>>
NewDaily(u, i) ==
  /\ Calm /\ ReservedRow(i, u, "daily", lastClaim[u]) /\ HasSlot("daily")
  /\ \A j \in Mine(u, "daily") : IntentDone(j)
  /\ lastClaim[u] # Never => day >= lastClaim[u] + 1
  /\ UNCHANGED <<claimVars, keyVars, promoVars, worldVars, wobbled>>
NewGift(u, i) ==
  /\ Calm /\ ReservedRow(i, u, "gift", Never) /\ HasSlot("gift") /\ Mine(u, "gift") = {}
  /\ GiftsLeft
  /\ UNCHANGED <<claimVars, keyVars, promoVars, worldVars, wobbled>>
Taken(t, i) ==
  /\ intent[i].status \in {"pending", "failed"} \/ Stale(i)
  /\ Turns(i, "running") /\ Hand(t, WorkTakes(t, "create", i)) /\ WorkTakes(t, "create", i).intent = i
  /\ UNCHANGED <<claimVars, wobbled>>
Failed(t) == CreateFails(t) /\ UNCHANGED claimVars

IntentMoves == \/ Quiet \/ \E i \in Intents : Resumed(i)
               \/ \E u \in Users, i \in Intents : NewDaily(u, i) \/ NewGift(u, i)
               \/ \E t \in Threads, i \in Intents : Taken(t, i)
               \/ \E t \in Threads : Failed(t)

(* No step but the last of a claim makes a row, and none makes one live again. *)
RowsFall == \A k \in KeyIds : /\ freeKey'[k].ends = freeKey[k].ends
                              /\ freeKey'[k].status = "none" <=> freeKey[k].status = "none"
                              /\ freeKey'[k].status = "active" => freeKey[k].status = "active"

(* Revoking a row makes none and none live. *)
LEMMA RevokesFall ==
  ASSUME FreeTypes, NEW k \in KeyIds, Revokes(k), freeKey[k].status # "none"
  PROVE  RowsFall
BY DEF Revokes, RowsFall

(* A hand that takes no intent up leaves the grip on the intents alone. *)
LEMMA HandCalm ==
  ASSUME NEW t \in Threads, NEW r, Hand(t, r),
         r.op \in Acts => work[t].op \in Acts /\ r.intent = work[t].intent
  PROVE  Calm
BY DEF Hand, Calm

(* So does a hand at rest. *)
LEMMA RestCalm ==
  ASSUME NEW t \in Threads, Hand(t, NoWork) PROVE Calm
BY HandCalm DEF NoWork, Acts

(* So does one that ends keys. *)
LEMMA PassCalm ==
  ASSUME NEW op, NEW k, NEW todo, PassHand(op, k, todo), op \notin Acts PROVE Calm
BY DEF PassHand, Calm, Threads

(* The daily claim renews an intent or makes one. *)
LEMMA ClaimDailyMoves ==
  ASSUME FreeTypes, HasIntent, NEW u \in Users, ClaimDaily(u) PROVE RowsFall /\ IntentMoves
<1>1. UNCHANGED <<claimVars, keyVars, promoVars, worldVars, wobbled>>
  BY DEF ClaimDaily
<1>2. RowsFall
  BY <1>1 DEF keyVars, RowsFall
<1>3. CASE \E i \in Mine(u, "daily") : Resume(i)
  <2>1. PICK i \in Intents : Resume(i)
    BY <1>3 DEF Mine, OfKind
  <2>2. Calm
    BY <2>1, ResumeIs, HandCalm DEF Threads, Acts
  <2>3. Quiet \/ Resumed(i)
    BY <1>1, <2>1, <2>2, ResumeIs DEF Quiet, Resumed
  <2> QED BY <1>2, <2>3 DEF IntentMoves
<1>4. CASE /\ \A i \in Mine(u, "daily") : intent[i].status = "done"
           /\ lastClaim[u] # Never => day >= lastClaim[u] + 1
           /\ Reserve(u, "daily", lastClaim[u])
  <2>1. lastClaim[u] \in {Never} \cup Days /\ "daily" \in Kinds
    BY DEF FreeTypes, Kinds
  <2>2. PICK i \in Intents : /\ ReservedRow(i, u, "daily", lastClaim[u]) /\ HasSlot("daily")
                             /\ Hand("bot", WorkTakes("bot", "claim", i))
                             /\ WorkTakes("bot", "claim", i).op = "claim"
    BY <1>4, <2>1, ReserveIs
  <2>3. Calm
    BY <2>2, HandCalm DEF Threads, Acts
  <2>4. NewDaily(u, i)
    BY <1>1, <1>4, <2>2, <2>3 DEF NewDaily, IntentDone
  <2> QED BY <1>2, <2>4 DEF IntentMoves
<1> QED BY <1>3, <1>4 DEF ClaimDaily

(* The claim of the gift renews an intent or makes one. *)
LEMMA ClaimGiftMoves ==
  ASSUME FreeTypes, HasIntent, NEW u \in Users, ClaimGift(u) PROVE RowsFall /\ IntentMoves
<1>1. UNCHANGED <<claimVars, keyVars, promoVars, worldVars, wobbled>>
  BY DEF ClaimGift
<1>2. RowsFall
  BY <1>1 DEF keyVars, RowsFall
<1>3. CASE \E i \in Mine(u, "gift") : Resume(i)
  <2>1. PICK i \in Intents : Resume(i)
    BY <1>3 DEF Mine, OfKind
  <2>2. Calm
    BY <2>1, ResumeIs, HandCalm DEF Threads, Acts
  <2>3. Quiet \/ Resumed(i)
    BY <1>1, <2>1, <2>2, ResumeIs DEF Quiet, Resumed
  <2> QED BY <1>2, <2>3 DEF IntentMoves
<1>4. CASE Mine(u, "gift") = {} /\ GiftsLeft /\ Reserve(u, "gift", Never)
  <2>1. PICK i \in Intents : /\ ReservedRow(i, u, "gift", Never) /\ HasSlot("gift")
                             /\ Hand("bot", WorkTakes("bot", "claim", i))
                             /\ WorkTakes("bot", "claim", i).op = "claim"
    BY <1>4, ReserveIs DEF Kinds
  <2>2. Calm
    BY <2>1, HandCalm DEF Threads, Acts
  <2>3. NewGift(u, i)
    BY <1>1, <1>4, <2>1, <2>2 DEF NewGift
  <2> QED BY <1>2, <2>3 DEF IntentMoves
<1> QED BY <1>3, <1>4 DEF ClaimGift

(* A thread takes an intent, or finds it taken. *)
LEMMA TakesMove ==
  ASSUME FreeTypes, HasIntent, BotTakes \/ \E i \in Intents : PassTakes(i)
  PROVE  RowsFall /\ IntentMoves
<1>1. UNCHANGED <<claimVars, keyVars, promoVars, worldVars, wobbled>>
  BY DEF BotTakes, PassTakes
<1>2. RowsFall
  BY <1>1 DEF keyVars, RowsFall
<1>3. ASSUME NEW i \in Intents, PassTakes(i) PROVE Taken("pass", i)
  <2>1. intent[i].status \in {"pending", "failed"} \/ Stale(i)
    BY <1>3 DEF PassTakes, IntentDue
  <2> QED BY <1>1, <1>3, <2>1, TakeIs DEF PassTakes, Taken, Threads
<1>4. CASE BotTakes
  <2> DEFINE i == work["bot"].intent
  <2>1. i \in Intents /\ "bot" \in Threads
    BY <1>4 DEF BotTakes, HasIntent, Carrying, Threads
  <2>2. CASE (intent[i].status = "pending" \/ Stale(i)) /\ Take("bot", i)
    <3>1. Taken("bot", i)
      BY <1>1, <2>1, <2>2, TakeIs DEF Taken
    <3> QED BY <1>2, <2>1, <3>1 DEF IntentMoves
  <2>3. CASE Rests("bot") /\ UNCHANGED intent
    <3>1. Calm
      BY <2>1, <2>3, RestsIs, RestCalm
    <3> QED BY <1>1, <1>2, <2>3, <3>1 DEF Quiet, IntentMoves
  <2> QED BY <1>4, <2>2, <2>3 DEF BotTakes
<1> QED BY <1>2, <1>3, <1>4 DEF IntentMoves, Threads

(* The key is created, or the intent fails. *)
LEMMA CarryMoves ==
  ASSUME FreeTypes, HasIntent, NEW t \in Threads, Create(t) \/ CreateFails(t)
  PROVE  RowsFall /\ IntentMoves
<1>1. RowsFall /\ UNCHANGED claimVars
  BY DEF Create, CreateFails, RowsFall
<1>2. CASE Create(t)
  <2>1. work[t].op = "create" /\ Hand(t, Then(t, "commit")) /\ work[t] \in WorkRows
    BY <1>2, CreateIs DEF FreeTypes
  <2>2. Calm
    BY <2>1, HandCalm DEF Then, WorkRows, Acts
  <2> QED BY <1>1, <1>2, <2>2 DEF Create, Quiet, IntentMoves
<1>3. CASE CreateFails(t)
  BY <1>1, <1>3 DEF Failed, IntentMoves
<1> QED BY <1>2, <1>3

(* A key that is being ended has its row, and its events are on record. *)
PassKnown ==
  work["pass"].op \in {"delete", "deleted"} =>
    /\ freeKey[work["pass"].id].status # "none"
    /\ work["pass"].todo # {} /\ work["pass"].todo \subseteq ending[work["pass"].id]

(* The next event leaves the intents alone. *)
LEMMA NextReasonCalm ==
  ASSUME FreeTypes, NEW r, r \in work["pass"].todo, NextReason(r) PROVE Calm
<1>1. CASE Hand("pass", NoWork)
  BY <1>1, RestCalm DEF Threads
<1>2. CASE PassHand("delete", work["pass"].id, work["pass"].todo \ {r})
  BY <1>2, PassCalm DEF Acts
<1> QED BY <1>1, <1>2, NextReasonIs

(* Ending a key leaves the intents alone. *)
LEMMA EndStepMoves ==
  ASSUME FreeTypes, HasIntent, PassKnown, EndStep PROVE RowsFall /\ Quiet
<1>1. CASE DeleteKey
  <2>1. Calm
    BY <1>1, DeleteKeyIs, PassCalm DEF Acts
  <2> QED BY <1>1, <2>1 DEF DeleteKey, Quiet, RowsFall
<1>2. ASSUME NEW r \in Reasons, DeleteFails(r) PROVE RowsFall /\ Quiet
  <2>1. Calm
    BY <1>2, NextReasonCalm DEF DeleteFails
  <2> QED BY <1>2, <2>1 DEF DeleteFails, keyVars, Quiet, RowsFall
<1>3. ASSUME NEW r \in Reasons, KeyIsGone(r) PROVE RowsFall /\ Quiet
  <2>1. Calm
    BY <1>3, NextReasonCalm, KeyIsGoneIs
  <2>2. freeKey[work["pass"].id].status # "none"
    BY <1>3, KeyIsGoneIs DEF PassKnown
  <2>3. RowsFall
    BY <1>3, <2>2, KeyIsGoneIs, RevokesFall
  <2> QED BY <1>3, <2>1, <2>3 DEF KeyIsGone, Quiet
<1> QED BY <1>1, <1>2, <1>3 DEF EndStep

(* The sweep leaves the intents alone. *)
LEMMA SweepMoves ==
  ASSUME FreeTypes, HasIntent, SweepStep PROVE RowsFall /\ Quiet
<1>1. CASE SweepMarks
  <2>1. Calm
    BY <1>1, SweepMarksIs, PassCalm DEF Acts
  <2>2. RowsFall
    <3>1. CASE UNCHANGED freeKey
      BY <3>1 DEF RowsFall
    <3>2. CASE freeKey[work["pass"].id].status # "none" /\ Revokes(work["pass"].id)
      BY <1>1, <3>2, SweepMarksIs, RevokesFall
    <3> QED BY <1>1, <3>1, <3>2, SweepMarksIs
  <2> QED BY <1>1, <2>1, <2>2 DEF SweepMarks, Quiet
<1>2. CASE SweepEnds
  <2>1. Calm
    BY <1>2, PassRests, RestCalm DEF SweepEnds, Threads
  <2> QED BY <1>2, <2>1 DEF SweepEnds, keyVars, Quiet, RowsFall
<1>3. ASSUME NEW k \in KeyIds, SweepDeletes(k) PROVE RowsFall /\ Quiet
  <2>1. Calm
    BY <1>3, SweepDeletesIs, PassCalm DEF Acts
  <2> QED BY <1>3, <2>1 DEF SweepDeletes, Quiet, RowsFall
<1>4. ASSUME NEW k \in KeyIds, SweepFails(k) PROVE RowsFall /\ Quiet
  <2>1. PassHand("sweep", work["pass"].id, work["pass"].todo)
    BY <1>4, SweepFailsIs
  <2>2. Calm
    BY <2>1, PassCalm DEF Acts
  <2> QED BY <1>4, <2>2 DEF SweepFails, Quiet, RowsFall
<1> QED BY <1>1, <1>2, <1>3, <1>4 DEF SweepStep

(* Customers, days and crashes leave the intents alone. *)
LEMMA WorldMoves ==
  ASSUME FreeTypes, HasIntent, WorldStep PROVE RowsFall /\ Quiet
<1>1. RowsFall /\ UNCHANGED <<intent, claimVars, wobbled>>
  BY DEF WorldStep, Buy, Sweep, UseUp, DayPasses, FreeCrash, keyVars, RowsFall
<1>2. Calm
  <2>1. CASE UNCHANGED work
    BY <2>1 DEF Calm
  <2>2. ASSUME NEW u \in Users, Sweep(u) PROVE Calm
    BY <2>2, SweepIs, PassCalm DEF Acts
  <2>3. CASE FreeCrash
    BY <2>3 DEF FreeCrash, Calm, NoWork, Acts
  <2> QED BY <2>1, <2>2, <2>3 DEF WorldStep, Buy, UseUp, DayPasses
<1> QED BY <1>1, <1>2 DEF Quiet

(* Starting to end a key leaves the intents alone. *)
LEMMA StartEndMoves ==
  ASSUME FreeTypes, HasIntent, StartEnd PROVE RowsFall /\ Quiet
<1>1. PICK k \in KeyIds, rs \in SUBSET Reasons : StartEnding(k, rs)
  BY StartEndIs
<1>2. Calm
  BY <1>1, StartEndingIs, PassCalm DEF Acts
<1> QED BY <1>1, <1>2, StartEndingIs DEF Quiet, RowsFall

(* The owner leaves the intents alone. *)
LEMMA OwnerMoves ==
  ASSUME FreeTypes, HasIntent,
         (\E n \in Limits : ConfigureGiveaway(n)) \/ \E b \in BOOLEAN : SetGiveawayActive(b)
  PROVE  RowsFall /\ Quiet
<1>1. UNCHANGED <<intent, claimVars, wobbled, freeKey, work>>
  BY DEF ConfigureGiveaway, SetGiveawayActive, keyVars
<1> QED BY <1>1 DEF Quiet, RowsFall, Calm

(* Every step moves the intents in one of these ways, or writes a claim down. *)
LEMMA StepMoves ==
  ASSUME FreeTypes, HasIntent, PassKnown, [FreeNext]_freeVars
  PROVE  (RowsFall /\ IntentMoves) \/ \E t \in Threads : Finalize(t)
<1>1. CASE BotStep
  <2>1. ASSUME NEW u \in market.daily, ClaimDaily(u) PROVE RowsFall /\ IntentMoves
    BY <2>1, ClaimDailyMoves, MarketIs
  <2>2. ASSUME NEW u \in market.gift, ClaimGift(u) PROVE RowsFall /\ IntentMoves
    BY <2>2, ClaimGiftMoves, MarketIs
  <2> QED BY <1>1, <2>1, <2>2, OwnerMoves DEF BotStep, IntentMoves
<1>2. CASE BotTakes \/ \E i \in Intents : PassTakes(i)
  BY <1>2, TakesMove
<1>3. CASE Carry("bot") \/ Carry("pass")
  BY <1>3, CarryMoves DEF Carry, Threads
<1>4. CASE StartEnd
  BY <1>4, StartEndMoves DEF IntentMoves
<1>5. CASE EndStep
  BY <1>5, EndStepMoves DEF IntentMoves
<1>6. CASE SweepStep
  BY <1>6, SweepMoves DEF IntentMoves
<1>7. CASE WorldStep
  BY <1>7, WorldMoves DEF IntentMoves
<1>8. CASE UNCHANGED freeVars
  BY <1>8 DEF freeVars, IntentMoves, Quiet, Calm, RowsFall, claimVars
<1> QED BY <1>1, <1>2, <1>3, <1>4, <1>5, <1>6, <1>7, <1>8 DEF FreeNext

(* Which market it is never changes, and the clock does not go back. *)
LEMMA StepKeeps ==
  ASSUME FreeTypes, [FreeNext]_freeVars PROVE market' = market /\ day <= day'
<1>1. day \in Int
  BY FreeAssumption DEF FreeTypes, Days
<1>2. CASE UNCHANGED worldVars
  BY <1>1, <1>2 DEF worldVars
<1>3. CASE WorldStep
  BY <1>1, <1>3 DEF WorldStep, Buy, Sweep, UseUp, DayPasses, FreeCrash, worldVars
<1>4. CASE BotStep
  BY <1>2, <1>4 DEF BotStep, ClaimDaily, ClaimGift, ConfigureGiveaway, SetGiveawayActive
<1>5. CASE BotTakes \/ (\E i \in Intents : PassTakes(i)) \/ Carry("bot") \/ Carry("pass")
  BY <1>2, <1>5 DEF BotTakes, PassTakes, Carry, Create, CreateFails, Finalize
<1>6. CASE StartEnd
  BY <1>2, <1>6 DEF StartEnd, EnforceFreeQuota, RevokeExpired, ReconcileTerminations, StartEnding
<1>7. CASE EndStep
  BY <1>2, <1>7 DEF EndStep, DeleteKey, DeleteFails, KeyIsGone
<1>8. CASE SweepStep
  BY <1>2, <1>8 DEF SweepStep, SweepMarks, SweepEnds, SweepDeletes, SweepFails
<1>9. CASE UNCHANGED freeVars
  BY <1>1, <1>9 DEF freeVars
<1> QED BY <1>3, <1>4, <1>5, <1>6, <1>7, <1>8, <1>9 DEF FreeNext

-----------------------------------------------------------------------------
(* An intent is carried out by one thread at a time, and is running then. *)
HeldInv ==
  /\ \A t \in Threads : work[t].op \in Acts => intent[work[t].intent].status = "running"
  /\ \A s, t \in Threads : s # t /\ work[s].op \in Acts /\ work[t].op \in Acts
                             => work[s].intent # work[t].intent

(* Who has claimed what.  A customer's daily claims are a day apart, each fixed
   by the one before; a customer has one gift; a row of the keys is a claim
   written down, its end counted from the claim's own day. *)
ClaimInv ==
  /\ \A i, j \in Intents : Some(i) /\ Some(j) /\ intent[i].id = intent[j].id => i = j
  /\ \A k \in KeyIds : freeKey[k].status # "none" =>
       \E i \in Intents : IntentDone(i) /\ intent[i].id = k /\ freeKey[k].ends = Ends(i)
  /\ \A i \in Intents : Some(i) /\ intent[i].id.kind = "gift" => intent[i].id.after = Never
Daily(i) == Some(i) /\ intent[i].id.kind = "daily"
DailyInv ==
  /\ \A i \in Intents : Daily(i) =>
       /\ intent[i].id.after < intent[i].from /\ intent[i].from <= day
       /\ IntentDone(i) => intent[i].from <= lastClaim[Who(i)]
       /\ ~IntentDone(i) => intent[i].id.after = lastClaim[Who(i)]
  /\ \A i, j \in Intents :
       (Daily(i) /\ Daily(j) /\ Who(i) = Who(j) /\ i # j)
         => (IntentDone(i) \/ IntentDone(j)) /\ intent[i].from # intent[j].from

(* The first state. *)
LEMMA ClaimsInit ==
  ASSUME FreeInit PROVE PassKnown /\ HeldInv /\ ClaimInv /\ DailyInv
<1>1. /\ \A i \in Intents : ~Some(i)
      /\ \A k \in KeyIds : freeKey[k].status = "none"
      /\ \A t \in Threads : work[t].op = "rest"
  BY DEF FreeInit, Some, NoIntent, NoWork
<1>2. PassKnown /\ HeldInv
  BY <1>1 DEF PassKnown, HeldInv, Acts, Threads
<1> QED BY <1>1, <1>2 DEF ClaimInv, DailyInv, Daily

(* The grip on the intents is kept while what runs goes on running. *)
LEMMA HeldKept ==
  ASSUME FreeTypes, HasIntent, HeldInv, Calm,
         \A i \in Intents : intent[i].status = "running" => intent'[i].status = "running"
  PROVE  HeldInv'
<1>1. ASSUME NEW t \in Threads, work'[t].op \in Acts
      PROVE  intent'[work'[t].intent].status = "running"
  <2>1. work[t].op \in Acts /\ work'[t].intent = work[t].intent
    BY <1>1 DEF Calm
  <2>2. work[t].intent \in Intents
    BY <2>1 DEF HasIntent, Acts, Carrying
  <2> QED BY <2>1, <2>2 DEF HeldInv
<1>2. ASSUME NEW s \in Threads, NEW t \in Threads, s # t,
             work'[s].op \in Acts, work'[t].op \in Acts
      PROVE  work'[s].intent # work'[t].intent
  BY <1>2 DEF Calm, HeldInv
<1> QED BY <1>1, <1>2 DEF HeldInv

(* The intent a thread puts down or picks up is the only one that changes. *)
LEMMA HeldChanged ==
  ASSUME FreeTypes, HasIntent, HeldInv, NEW t \in Threads, NEW i \in Intents, NEW s,
         Turns(i, s), \A u \in Threads \ {t} : work'[u] = work[u],
         work'[t].op \in Acts => work'[t].intent = i /\ s = "running",
         \A u \in Threads \ {t} : work[u].op \in Acts => work[u].intent # i
  PROVE  HeldInv'
<1>1. ASSUME NEW u \in Threads, work'[u].op \in Acts
      PROVE  intent'[work'[u].intent].status = "running"
  <2>1. CASE u = t
    BY <1>1, <2>1 DEF Turns
  <2>2. CASE u # t
    <3>1. work'[u] = work[u] /\ work[u].intent \in Intents \ {i}
      BY <1>1, <2>2 DEF HasIntent, Acts, Carrying
    <3> QED BY <1>1, <3>1 DEF Turns, HeldInv
  <2> QED BY <2>1, <2>2
<1>2. ASSUME NEW u \in Threads, NEW v \in Threads, u # v,
             work'[u].op \in Acts, work'[v].op \in Acts
      PROVE  work'[u].intent # work'[v].intent
  <2>1. CASE u = t
    BY <1>2, <2>1
  <2>2. CASE v = t
    BY <1>2, <2>2
  <2>3. CASE u # t /\ v # t
    BY <1>2, <2>3 DEF HeldInv
  <2> QED BY <2>1, <2>2, <2>3
<1> QED BY <1>1, <1>2 DEF HeldInv

(* A thread that holds an intent holds it alone. *)
LEMMA Alone ==
  ASSUME HeldInv, NEW t \in Threads, work[t].op \in Acts
  PROVE  \A u \in Threads \ {t} : work[u].op \in Acts => work[u].intent # work[t].intent
BY DEF HeldInv

(* Every step keeps the grip on the intents. *)
LEMMA HeldStep ==
  ASSUME FreeTypes, HasIntent, PassKnown, HeldInv, [FreeNext]_freeVars PROVE HeldInv'
<1>1. CASE Quiet
  BY <1>1, HeldKept DEF Quiet
<1>2. ASSUME NEW i \in Intents, Resumed(i) PROVE HeldInv'
  <2>1. \A j \in Intents : intent[j].status = "running" => intent'[j].status = "running"
    BY <1>2 DEF Resumed, Turns
  <2> QED BY <1>2, <2>1, HeldKept DEF Resumed
<1>3. ASSUME NEW u \in Users, NEW i \in Intents, NewDaily(u, i) \/ NewGift(u, i) PROVE HeldInv'
  <2>1. \A j \in Intents : intent[j].status = "running" => intent'[j].status = "running"
    BY <1>3 DEF NewDaily, NewGift, ReservedRow
  <2> QED BY <1>3, <2>1, HeldKept DEF NewDaily, NewGift
<1>4. ASSUME NEW t \in Threads, NEW i \in Intents, Taken(t, i) PROVE HeldInv'
  <2>1. \A u \in Threads : work[u].op \in Acts => work[u].intent # i
    BY <1>4 DEF Taken, Stale, IntentHeld, HeldInv, Acts
  <2>2. work'[t].intent = i /\ \A u \in Threads \ {t} : work'[u] = work[u]
    BY <1>4 DEF Taken, Hand
  <2> QED BY <1>4, <2>1, <2>2, HeldChanged DEF Taken
<1>5. ASSUME NEW t \in Threads, CreateFails(t) \/ Finalize(t) PROVE HeldInv'
  <2>1. /\ work[t].op \in Acts /\ work[t].intent \in Intents /\ Hand(t, NoWork)
        /\ \E s : Turns(work[t].intent, s)
    BY <1>5, CreateFailsIs, FinalizeIs DEF Acts
  <2>2. work'[t].op \notin Acts /\ \A u \in Threads \ {t} : work'[u] = work[u]
    BY <2>1 DEF Hand, NoWork, Acts
  <2> QED BY <2>1, <2>2, Alone, HeldChanged
<1> QED BY <1>1, <1>2, <1>3, <1>4, <1>5, StepMoves DEF IntentMoves, Failed

(* Steps that carry an intent on keep what it is of and whether it is done. *)
Same == \A i \in Intents : /\ intent'[i].id = intent[i].id /\ intent'[i].from = intent[i].from
                           /\ intent'[i].status = "none" <=> intent[i].status = "none"
                           /\ intent'[i].status = "done" <=> intent[i].status = "done"

(* An unfinished intent that stays unfinished is the same claim. *)
LEMMA TurnsSame ==
  ASSUME NEW i \in Intents, NEW s \in {"pending", "running", "failed"}, Turns(i, s),
         intent[i].status \in {"pending", "running", "failed"}
  PROVE  Same
BY DEF Turns, Same

(* But for new claims and the last step, all claims stay what they are. *)
LEMMA SameMoves ==
  ASSUME FreeTypes, HasIntent, HeldInv, IntentMoves
  PROVE  UNCHANGED claimVars
         /\ (Same \/ \E u \in Users, i \in Intents : NewDaily(u, i) \/ NewGift(u, i))
<1>1. CASE Quiet
  BY <1>1 DEF Quiet, Same
<1>2. ASSUME NEW i \in Intents, Resumed(i) PROVE Same /\ UNCHANGED claimVars
  BY <1>2, TurnsSame DEF Resumed
<1>3. ASSUME NEW u \in Users, NEW i \in Intents, NewDaily(u, i) \/ NewGift(u, i)
      PROVE  UNCHANGED claimVars
  BY <1>3 DEF NewDaily, NewGift
<1>4. ASSUME NEW t \in Threads, NEW i \in Intents, Taken(t, i) PROVE Same /\ UNCHANGED claimVars
  BY <1>4, TurnsSame DEF Taken, Stale
<1>5. ASSUME NEW t \in Threads, Failed(t) PROVE Same /\ UNCHANGED claimVars
  <2>1. work[t].op = "create" /\ work[t].intent \in Intents /\ Turns(work[t].intent, "failed")
    BY <1>5, CreateFailsIs DEF Failed
  <2>2. intent[work[t].intent].status = "running"
    BY <2>1 DEF HeldInv, Acts
  <2> QED BY <1>5, <2>1, <2>2, TurnsSame DEF Failed
<1> QED BY <1>1, <1>2, <1>3, <1>4, <1>5 DEF IntentMoves

(* Then who claimed what is kept. *)
LEMMA SameKeeps ==
  ASSUME FreeTypes, FreeTypes', ClaimInv, DailyInv, Same, RowsFall, day <= day', UNCHANGED claimVars
  PROVE  ClaimInv' /\ DailyInv'
<1>1. \A i \in Intents : /\ Some(i)' <=> Some(i)
                         /\ IntentDone(i)' <=> IntentDone(i)
                         /\ Daily(i)' <=> Daily(i)
                         /\ Who(i)' = Who(i)
                         /\ Ends(i)' = Ends(i)
  BY DEF Same, Some, IntentDone, Daily, Who, Ends, Lasts
<1>2. ASSUME NEW k \in KeyIds, freeKey'[k].status # "none"
      PROVE  \E i \in Intents : IntentDone(i)' /\ intent'[i].id = k /\ freeKey'[k].ends = Ends(i)'
  <2>1. freeKey[k].status # "none" /\ freeKey'[k].ends = freeKey[k].ends
    BY <1>2 DEF RowsFall
  <2>2. PICK i \in Intents : IntentDone(i) /\ intent[i].id = k /\ freeKey[k].ends = Ends(i)
    BY <2>1 DEF ClaimInv
  <2> QED BY <1>1, <2>1, <2>2 DEF Same
<1>3. \A i, j \in Intents : Some(i)' /\ Some(j)' /\ intent'[i].id = intent'[j].id => i = j
  BY <1>1 DEF ClaimInv, Same
<1>4. \A i \in Intents : Some(i)' /\ intent'[i].id.kind = "gift" => intent'[i].id.after = Never
  BY <1>1 DEF ClaimInv, Same
<1>5. ClaimInv'
  BY <1>2, <1>3, <1>4 DEF ClaimInv
<1>6. ASSUME NEW i \in Intents, Daily(i)'
      PROVE  /\ intent'[i].id.after < intent'[i].from /\ intent'[i].from <= day'
             /\ IntentDone(i)' => intent'[i].from <= lastClaim'[Who(i)']
             /\ ~IntentDone(i)' => intent'[i].id.after = lastClaim'[Who(i)']
  <2>1. Daily(i) /\ intent'[i].id = intent[i].id /\ intent'[i].from = intent[i].from
    BY <1>1, <1>6 DEF Same
  <2>2. /\ intent[i].id.after < intent[i].from /\ intent[i].from <= day
        /\ IntentDone(i) => intent[i].from <= lastClaim[Who(i)]
        /\ ~IntentDone(i) => intent[i].id.after = lastClaim[Who(i)]
    BY <2>1 DEF DailyInv
  <2>3. intent[i].from \in Int /\ day \in Int /\ day' \in Int
    BY FreeAssumption DEF FreeTypes, IntentRows, Days
  <2> QED BY <1>1, <2>1, <2>2, <2>3 DEF claimVars
<1>7. \A i, j \in Intents :
        (Daily(i)' /\ Daily(j)' /\ Who(i)' = Who(j)' /\ i # j)
          => (IntentDone(i)' \/ IntentDone(j)') /\ intent'[i].from # intent'[j].from
  BY <1>1 DEF DailyInv, Same
<1>8. DailyInv'
  BY <1>6, <1>7 DEF DailyInv
<1> QED BY <1>5, <1>8

(* A new row: every other one stays as it is. *)
LEMMA ReservedIs ==
  ASSUME NEW i \in Intents, NEW u, NEW kind, NEW after, ReservedRow(i, u, kind, after)
  PROVE  /\ ~Some(i) /\ Some(i)' /\ ~IntentDone(i)' /\ Who(i)' = u /\ intent'[i].from = day
         /\ intent'[i].id = [user |-> u, kind |-> kind, after |-> after]
         /\ \A j \in Intents \ {i} : /\ intent'[j] = intent[j]
                                     /\ Some(j)' <=> Some(j)
                                     /\ IntentDone(j)' <=> IntentDone(j)
                                     /\ Daily(j)' <=> Daily(j)
                                     /\ Who(j)' = Who(j)
                                     /\ Ends(j)' = Ends(j)
<1>1. /\ intent'[i].status = "pending" /\ intent[i].status = "none"
      /\ intent'[i].id = [user |-> u, kind |-> kind, after |-> after]
      /\ intent'[i].from = day /\ \A j \in Intents \ {i} : intent'[j] = intent[j]
  BY DEF ReservedRow
<1> QED BY <1>1 DEF Some, IntentDone, Daily, Who, Ends, Lasts

(* Rows of the keys survive a new intent: the claim they stand for is done. *)
LEMMA NewRows ==
  ASSUME ClaimInv, NEW i \in Intents, NEW u, NEW kind, NEW after,
         ReservedRow(i, u, kind, after), UNCHANGED freeKey
  PROVE  \A k \in KeyIds : freeKey'[k].status # "none" =>
           \E j \in Intents : IntentDone(j)' /\ intent'[j].id = k /\ freeKey'[k].ends = Ends(j)'
<1>1. ASSUME NEW k \in KeyIds, freeKey'[k].status # "none"
      PROVE  \E j \in Intents : IntentDone(j)' /\ intent'[j].id = k /\ freeKey'[k].ends = Ends(j)'
  <2>1. PICK j \in Intents : IntentDone(j) /\ intent[j].id = k /\ freeKey[k].ends = Ends(j)
    BY <1>1 DEF ClaimInv
  <2>2. j # i
    BY <2>1, ReservedIs DEF IntentDone, Some
  <2> QED BY <2>1, <2>2, ReservedIs
<1> QED BY <1>1

(* A new daily claim is a day after the one before it. *)
LEMMA NewDailyKeeps ==
  ASSUME FreeTypes, ClaimInv, DailyInv, NEW u \in Users, NEW i \in Intents, NewDaily(u, i)
  PROVE  ClaimInv' /\ DailyInv'
<1>1. ReservedRow(i, u, "daily", lastClaim[u]) /\ UNCHANGED <<freeKey, lastClaim, day>>
  BY DEF NewDaily, keyVars, claimVars, worldVars
<1>2. /\ ~Some(i) /\ Some(i)' /\ ~IntentDone(i)' /\ Who(i)' = u /\ intent'[i].from = day
      /\ intent'[i].id = [user |-> u, kind |-> "daily", after |-> lastClaim[u]]
      /\ \A j \in Intents \ {i} : /\ intent'[j] = intent[j]
                                  /\ Some(j)' <=> Some(j)
                                  /\ IntentDone(j)' <=> IntentDone(j)
                                  /\ Daily(j)' <=> Daily(j)
                                  /\ Who(j)' = Who(j)
                                  /\ Ends(j)' = Ends(j)
  BY <1>1, ReservedIs
<1>3. day \in Nat /\ lastClaim[u] \in Int /\ \A j \in Intents : intent[j].from \in Int
  BY FreeAssumption DEF FreeTypes, IntentRows, Days, Never
<1>4. lastClaim[u] < day
  BY <1>3 DEF NewDaily, Never
<1>5. ASSUME NEW j \in Intents \ {i}, Daily(j), Who(j) = u
      PROVE  /\ IntentDone(j) /\ intent[j].from < day /\ intent[j].id.after # lastClaim[u]
  <2>1. j \in Mine(u, "daily")
    BY <1>5 DEF Daily, Some, Who, Mine, OfKind
  <2>2. IntentDone(j)
    BY <2>1 DEF NewDaily
  <2>3. intent[j].id.after < intent[j].from /\ intent[j].from <= lastClaim[u]
    BY <1>5, <2>2 DEF DailyInv
  <2>4. intent[j].id.after \in Int
    BY FreeAssumption DEF FreeTypes, IntentRows, KeyIds, Days, Never
  <2> QED BY <1>3, <1>4, <2>2, <2>3, <2>4
<1>6. ASSUME NEW j \in Intents \ {i}, Some(j) PROVE intent[j].id # intent'[i].id
  <2>1. CASE Daily(j) /\ Who(j) = u
    BY <1>2, <1>5, <2>1
  <2>2. CASE ~(Daily(j) /\ Who(j) = u)
    BY <1>2, <1>6, <2>2 DEF Daily, Who
  <2> QED BY <2>1, <2>2
<1>7. \A j, k \in Intents : Some(j)' /\ Some(k)' /\ intent'[j].id = intent'[k].id => j = k
  BY <1>2, <1>6 DEF ClaimInv
<1>8. \A j \in Intents : Some(j)' /\ intent'[j].id.kind = "gift" => intent'[j].id.after = Never
  BY <1>2 DEF ClaimInv
<1>9. ClaimInv'
  BY <1>1, <1>7, <1>8, NewRows DEF ClaimInv
<1>10. ASSUME NEW j \in Intents, Daily(j)'
       PROVE  /\ intent'[j].id.after < intent'[j].from /\ intent'[j].from <= day'
              /\ IntentDone(j)' => intent'[j].from <= lastClaim'[Who(j)']
              /\ ~IntentDone(j)' => intent'[j].id.after = lastClaim'[Who(j)']
  <2>1. CASE j = i
    BY <1>1, <1>2, <1>3, <1>4, <2>1
  <2>2. CASE j # i
    BY <1>1, <1>2, <1>10, <2>2 DEF DailyInv
  <2> QED BY <2>1, <2>2
<1>11. ASSUME NEW j \in Intents, NEW k \in Intents, Daily(j)', Daily(k)', Who(j)' = Who(k)', j # k
       PROVE  (IntentDone(j)' \/ IntentDone(k)') /\ intent'[j].from # intent'[k].from
  <2>1. CASE j = i
    BY <1>2, <1>3, <1>5, <1>11, <2>1
  <2>2. CASE k = i
    BY <1>2, <1>3, <1>5, <1>11, <2>2
  <2>3. CASE j # i /\ k # i
    BY <1>2, <1>11, <2>3 DEF DailyInv
  <2> QED BY <2>1, <2>2, <2>3
<1>12. DailyInv'
  BY <1>10, <1>11 DEF DailyInv
<1> QED BY <1>9, <1>12

(* A new gift is the first of its customer. *)
LEMMA NewGiftKeeps ==
  ASSUME FreeTypes, ClaimInv, DailyInv, NEW u \in Users, NEW i \in Intents, NewGift(u, i)
  PROVE  ClaimInv' /\ DailyInv'
<1>1. ReservedRow(i, u, "gift", Never) /\ UNCHANGED <<freeKey, lastClaim, day>>
  BY DEF NewGift, keyVars, claimVars, worldVars
<1>2. /\ ~Some(i) /\ Some(i)' /\ ~IntentDone(i)' /\ Who(i)' = u /\ intent'[i].from = day
      /\ intent'[i].id = [user |-> u, kind |-> "gift", after |-> Never]
      /\ \A j \in Intents \ {i} : /\ intent'[j] = intent[j]
                                  /\ Some(j)' <=> Some(j)
                                  /\ IntentDone(j)' <=> IntentDone(j)
                                  /\ Daily(j)' <=> Daily(j)
                                  /\ Who(j)' = Who(j)
                                  /\ Ends(j)' = Ends(j)
  BY <1>1, ReservedIs
<1>3. ASSUME NEW j \in Intents \ {i}, Some(j) PROVE intent[j].id # intent'[i].id
  <2>1. j \notin Mine(u, "gift")
    BY DEF NewGift
  <2> QED BY <1>2, <1>3, <2>1 DEF Mine, OfKind, Some
<1>4. \A j, k \in Intents : Some(j)' /\ Some(k)' /\ intent'[j].id = intent'[k].id => j = k
  BY <1>2, <1>3 DEF ClaimInv
<1>5. \A j \in Intents : Some(j)' /\ intent'[j].id.kind = "gift" => intent'[j].id.after = Never
  BY <1>2 DEF ClaimInv
<1>6. ClaimInv'
  BY <1>1, <1>4, <1>5, NewRows DEF ClaimInv
<1>7. ~Daily(i)' /\ \A j \in Intents : Daily(j)' => j # i
  BY <1>2 DEF Daily
<1>8. DailyInv'
  BY <1>1, <1>2, <1>7 DEF DailyInv
<1> QED BY <1>6, <1>8

(* Writing a claim down: the one intent becomes done and its row is made. *)
LEMMA FinalizeKeeps ==
  ASSUME FreeTypes, HasIntent, HeldInv, ClaimInv, DailyInv, day <= day',
         NEW t \in Threads, Finalize(t), FreeTypes'
  PROVE  ClaimInv' /\ DailyInv'
<1>0. PICK i \in Intents, k \in KeyIds : i = work[t].intent /\ k = IdInHand(t)
  BY FinalizeIs
<1>1. /\ work[t].op = "commit" /\ i \in Intents /\ Turns(i, "done")
      /\ k = intent[i].id /\ k \in KeyIds /\ k.user \in Users /\ k.kind \in Kinds
      /\ \A q \in KeyIds \ {k} : freeKey'[q] = freeKey[q]
      /\ freeKey[k].status # "none" => freeKey'[k] = freeKey[k]
      /\ freeKey[k].status = "none" => freeKey'[k].ends = Ends(i)
  BY <1>0, FinalizeIs
<1>2. /\ k.kind = "daily" => /\ lastClaim'[k.user] = intent[i].from
                             /\ \A u \in Users \ {k.user} : lastClaim'[u] = lastClaim[u]
      /\ k.kind = "gift" => lastClaim' = lastClaim
  BY <1>0, FinalizeIs
<1>3. intent[i].status = "running"
  BY <1>0, <1>1 DEF HeldInv, Acts
<1>4. /\ Some(i) /\ Some(i)' /\ ~IntentDone(i) /\ IntentDone(i)'
      /\ \A j \in Intents : /\ intent'[j].id = intent[j].id
                            /\ intent'[j].from = intent[j].from
                            /\ Some(j)' <=> Some(j)
                            /\ Daily(j)' <=> Daily(j)
                            /\ Who(j)' = Who(j)
                            /\ Ends(j)' = Ends(j)
      /\ \A j \in Intents \ {i} : IntentDone(j)' <=> IntentDone(j)
  <2>1. /\ intent'[i].status = "done" /\ \A j \in Intents \ {i} : intent'[j] = intent[j]
        /\ \A j \in Intents : intent'[j].id = intent[j].id /\ intent'[j].from = intent[j].from
    BY <1>1 DEF Turns
  <2>2. \A j \in Intents : /\ Some(j)' <=> Some(j)
                           /\ Who(j)' = Who(j)
                           /\ Ends(j)' = Ends(j)
    BY <1>1, <1>3, <2>1 DEF Some, Who, Ends, Lasts
  <2>3. \A j \in Intents : Daily(j)' <=> Daily(j)
    BY <2>1, <2>2 DEF Daily
  <2>4. Some(i) /\ ~IntentDone(i) /\ IntentDone(i)' /\ \A j \in Intents \ {i} : IntentDone(j)' <=> IntentDone(j)
    BY <1>3, <2>1 DEF Some, IntentDone
  <2> QED BY <1>1, <2>1, <2>2, <2>3, <2>4
<1>5. freeKey[k].status = "none"
  BY <1>1, <1>4 DEF ClaimInv, IntentDone, Some
<1>6. ASSUME NEW q \in KeyIds, freeKey'[q].status # "none"
      PROVE  \E j \in Intents : IntentDone(j)' /\ intent'[j].id = q /\ freeKey'[q].ends = Ends(j)'
  <2>1. CASE q = k
    <3>1. IntentDone(i)' /\ intent'[i].id = k /\ freeKey'[k].ends = Ends(i)'
      BY <1>1, <1>4, <1>5
    <3> QED BY <1>1, <2>1, <3>1
  <2>2. CASE q # k
    <3>1. PICK j \in Intents : IntentDone(j) /\ intent[j].id = q /\ freeKey[q].ends = Ends(j)
      BY <1>1, <1>6, <2>2 DEF ClaimInv
    <3>2. j # i /\ freeKey'[q] = freeKey[q]
      BY <1>1, <1>4, <2>2, <3>1
    <3> QED BY <1>4, <3>1, <3>2
  <2> QED BY <2>1, <2>2
<1>7. ClaimInv'
  BY <1>4, <1>6 DEF ClaimInv
<1>8. day \in Int /\ day' \in Int /\ \A j \in Intents : intent[j].from \in Int
  BY FreeAssumption DEF FreeTypes, IntentRows, Days
<1>9. ASSUME NEW j \in Intents, Daily(j)'
      PROVE  /\ intent'[j].id.after < intent'[j].from /\ intent'[j].from <= day'
             /\ IntentDone(j)' => intent'[j].from <= lastClaim'[Who(j)']
             /\ ~IntentDone(j)' => intent'[j].id.after = lastClaim'[Who(j)']
  <2>1. /\ intent[j].id.after < intent[j].from /\ intent[j].from <= day
        /\ IntentDone(j) => intent[j].from <= lastClaim[Who(j)]
        /\ ~IntentDone(j) => intent[j].id.after = lastClaim[Who(j)]
    BY <1>4, <1>9 DEF DailyInv
  <2>2. /\ intent'[j].id.after < intent'[j].from /\ intent'[j].from <= day'
    BY <1>4, <1>8, <2>1
  <2>3. Who(j) \in Users /\ Who(j)' = Who(j)
    BY <1>4 DEF FreeTypes, IntentRows, KeyIds, Who
  <2>4. CASE k.kind = "gift" \/ Who(j) # k.user
    <3>1. j # i
      BY <1>1, <1>4, <1>9, <2>4 DEF Daily, Who
    <3>2. lastClaim'[Who(j)] = lastClaim[Who(j)]
      BY <1>1, <1>2, <2>3, <2>4 DEF Kinds
    <3> QED BY <1>4, <2>1, <2>2, <2>3, <3>1, <3>2
  <2>5. CASE k.kind = "daily" /\ Who(j) = k.user /\ j = i
    BY <1>1, <1>2, <1>4, <1>8, <2>2, <2>3, <2>5
  <2>6. CASE k.kind = "daily" /\ Who(j) = k.user /\ j # i
    <3>1. Daily(i) /\ Daily(j) /\ Who(i) = Who(j)
      BY <1>1, <1>4, <1>9, <2>6 DEF Daily, Who
    <3>2. IntentDone(j)
      BY <1>1, <1>4, <2>6, <3>1 DEF DailyInv
    <3>3. intent[i].id.after = lastClaim[Who(i)] /\ intent[i].id.after < intent[i].from
      BY <1>1, <1>4, <3>1 DEF DailyInv
    <3>4. lastClaim[Who(j)] \in Int
      BY <2>3, FreeAssumption DEF FreeTypes, Days, Never
    <3>5. intent[j].from <= intent[i].from
      BY <1>1, <1>8, <2>1, <3>1, <3>2, <3>3, <3>4
    <3>6. lastClaim'[Who(j)'] = intent[i].from /\ IntentDone(j)' /\ intent'[j].from = intent[j].from
      BY <1>2, <1>4, <2>3, <2>6, <3>2
    <3> QED BY <2>2, <3>5, <3>6
  <2> QED BY <1>1, <2>4, <2>5, <2>6 DEF Kinds
<1>10. \A j, m \in Intents :
         (Daily(j)' /\ Daily(m)' /\ Who(j)' = Who(m)' /\ j # m)
           => (IntentDone(j)' \/ IntentDone(m)') /\ intent'[j].from # intent'[m].from
  BY <1>4 DEF DailyInv
<1>11. DailyInv'
  BY <1>9, <1>10 DEF DailyInv
<1> QED BY <1>7, <1>11

(* Every step keeps who has claimed what. *)
LEMMA ClaimsStep ==
  ASSUME FreeTypes, FreeTypes', HasIntent, PassKnown, HeldInv, ClaimInv, DailyInv,
         [FreeNext]_freeVars
  PROVE  ClaimInv' /\ DailyInv'
<1>1. CASE \E t \in Threads : Finalize(t)
  BY <1>1, FinalizeKeeps, StepKeeps
<1>2. CASE RowsFall /\ IntentMoves
  <2>1. CASE Same
    BY <1>2, <2>1, SameMoves, SameKeeps, StepKeeps
  <2>2. ASSUME NEW u \in Users, NEW i \in Intents, NewDaily(u, i) \/ NewGift(u, i)
        PROVE  ClaimInv' /\ DailyInv'
    BY <2>2, NewDailyKeeps, NewGiftKeeps
  <2> QED BY <1>2, <2>1, <2>2, SameMoves
<1> QED BY <1>1, <1>2, StepMoves

(* A row being ended stays one, and its events stay on record, until it is over. *)
LEMMA KnownKept ==
  ASSUME FreeTypes, PassKnown, UNCHANGED <<ending>>, work'["pass"] = work["pass"],
         RowsFall \/ \E t \in Threads : Finalize(t), HasIntent
  PROVE  PassKnown'
<1>1. work["pass"].id \in KeyIds
  BY DEF FreeTypes, Threads, WorkRows
<1>2. freeKey[work["pass"].id].status # "none" => freeKey'[work["pass"].id].status # "none"
  <2>1. CASE RowsFall
    BY <1>1, <2>1 DEF RowsFall
  <2>2. ASSUME NEW t \in Threads, Finalize(t)
        PROVE  freeKey[work["pass"].id].status # "none" => freeKey'[work["pass"].id].status # "none"
    BY <1>1, <2>2, FinalizeIs
  <2> QED BY <2>1, <2>2
<1> QED BY <1>2 DEF PassKnown

(* Its hands elsewhere, the maintenance thread ends no key. *)
LEMMA KnownElsewhere ==
  ASSUME work'["pass"].op \notin {"delete", "deleted"} PROVE PassKnown'
BY DEF PassKnown

(* The claims of a thread leave what is being ended alone. *)
LEMMA KnownByTurns ==
  ASSUME FreeTypes, HasIntent, PassKnown, NEW t \in Threads, NEW r, Hand(t, r),
         r.op \notin {"delete", "deleted"}, UNCHANGED ending,
         RowsFall \/ \E s \in Threads : Finalize(s)
  PROVE  PassKnown'
<1>1. CASE t = "pass"
  BY <1>1, KnownElsewhere DEF Hand
<1>2. CASE t # "pass"
  BY <1>2, KnownKept DEF Hand, Threads
<1> QED BY <1>1, <1>2

(* So do a new claim and the settings of the owner. *)
LEMMA BotKnown ==
  ASSUME FreeTypes, HasIntent, PassKnown,
         (\E u \in Users : ClaimDaily(u) \/ ClaimGift(u))
           \/ (\E n \in Limits : ConfigureGiveaway(n))
           \/ \E b \in BOOLEAN : SetGiveawayActive(b)
  PROVE  PassKnown'
<1>1. UNCHANGED <<freeKey, ending>>
  BY DEF ClaimDaily, ClaimGift, ConfigureGiveaway, SetGiveawayActive, keyVars
<1>2. work'["pass"] = work["pass"]
  <2>1. work \in [Threads -> WorkRows] /\ "pass" \in Threads
    BY DEF FreeTypes, Threads
  <2> QED BY <2>1 DEF ClaimDaily, ClaimGift, ConfigureGiveaway, SetGiveawayActive, Resume, Reserve
<1> QED BY <1>1, <1>2 DEF PassKnown

(* So do taking an intent and carrying it on. *)
LEMMA CarryKnown ==
  ASSUME FreeTypes, HasIntent, PassKnown,
         BotTakes \/ (\E i \in Intents : PassTakes(i)) \/ \E t \in Threads : Carry(t)
  PROVE  PassKnown'
<1>1. CASE BotTakes
  <2>1. "bot" \in Threads /\ work["bot"].intent \in Intents
    BY <1>1 DEF BotTakes, HasIntent, Carrying, Threads
  <2>2. work'["pass"] = work["pass"]
    BY <1>1, <2>1, RestsIs, TakeIs DEF BotTakes, Hand, Threads
  <2> QED BY <1>1, <2>2 DEF BotTakes, keyVars, PassKnown
<1>2. ASSUME NEW i \in Intents, PassTakes(i) PROVE PassKnown'
  BY <1>2, TakeIs, KnownElsewhere DEF PassTakes, Hand, Threads
<1>3. ASSUME NEW t \in Threads, Carry(t) PROVE PassKnown'
  <2>1. RowsFall \/ Finalize(t)
    BY <1>3, CarryMoves DEF Carry
  <2>2. UNCHANGED ending
    BY <1>3 DEF Carry, Create, CreateFails, Finalize
  <2>3. Then(t, "commit").op = "commit"
    BY DEF Then, FreeTypes, WorkRows
  <2>4. \E r : Hand(t, r) /\ r.op \in {"rest", "commit"}
    BY <1>3, <2>3, CreateIs, CreateFailsIs, FinalizeIs DEF Carry, NoWork
  <2> QED BY <2>1, <2>2, <2>4, KnownByTurns
<1> QED BY <1>1, <1>2, <1>3

(* The next event is one that is on record. *)
LEMMA NextKnown ==
  ASSUME FreeTypes, PassKnown, NEW r, r \in work["pass"].todo, NextReason(r),
         work["pass"].op \in {"delete", "deleted"},
         freeKey'[work["pass"].id].status # "none",
         work["pass"].todo \ {r} \subseteq ending'[work["pass"].id]
  PROVE  PassKnown'
<1>1. CASE Hand("pass", NoWork)
  BY <1>1, KnownElsewhere DEF Hand, NoWork
<1>2. CASE /\ work["pass"].todo \ {r} # {}
           /\ PassHand("delete", work["pass"].id, work["pass"].todo \ {r})
  BY <1>2 DEF PassHand, PassKnown
<1> QED BY <1>1, <1>2, NextReasonIs

(* The end of a key starts with its events on record. *)
LEMMA PassStepKnown ==
  ASSUME FreeTypes, HasIntent, PassKnown, StartEnd \/ EndStep \/ SweepStep \/ WorldStep
  PROVE  PassKnown'
<1>1. CASE StartEnd
  <2>1. PICK k \in KeyIds, rs \in SUBSET Reasons : rs # {} /\ StartEnding(k, rs)
    BY <1>1, StartEndIs
  <2>2. PassHand("delete", k, rs) /\ Events(k, ending[k] \cup rs) /\ Live(k) /\ UNCHANGED freeKey
    BY <2>1, StartEndingIs
  <2> QED BY <2>1, <2>2 DEF PassHand, Events, Live, PassKnown
<1>2. CASE DeleteKey
  BY <1>2, DeleteKeyIs DEF DeleteKey, PassHand, PassKnown
<1>3. ASSUME NEW r \in Reasons, DeleteFails(r) PROVE PassKnown'
  BY <1>3, NextKnown DEF DeleteFails, keyVars, PassKnown
<1>4. ASSUME NEW r \in Reasons, KeyIsGone(r) PROVE PassKnown'
  <2>1. /\ work["pass"].op = "deleted" /\ r \in work["pass"].todo /\ NextReason(r)
        /\ freeKey'[work["pass"].id].status = "revoked"
        /\ ending'[work["pass"].id] = ending[work["pass"].id] \ {r}
    BY <1>4, KeyIsGoneIs DEF Revokes, Events
  <2>2. work["pass"].todo \ {r} \subseteq ending'[work["pass"].id]
    BY <2>1 DEF PassKnown
  <2> QED BY <2>1, <2>2, NextKnown
<1>5. CASE SweepStep
  <2>1. ASSUME NEW k \in KeyIds, SweepDeletes(k) PROVE PassKnown'
    BY <2>1, SweepDeletesIs, KnownElsewhere DEF PassHand
  <2>2. ASSUME NEW k \in KeyIds, SweepFails(k) PROVE PassKnown'
    <3>1. PassHand("sweep", work["pass"].id, work["pass"].todo)
      BY <2>2, SweepFailsIs
    <3> QED BY <3>1, KnownElsewhere DEF PassHand
  <2>3. CASE SweepMarks
    BY <2>3, SweepMarksIs, KnownElsewhere DEF PassHand
  <2>4. CASE SweepEnds
    BY <2>4, PassRests, KnownElsewhere DEF SweepEnds, Hand, NoWork
  <2> QED BY <1>5, <2>1, <2>2, <2>3, <2>4 DEF SweepStep
<1>6. CASE WorldStep
  <2>1. ASSUME NEW u \in Users, Sweep(u) PROVE PassKnown'
    BY <2>1, SweepIs, KnownElsewhere DEF PassHand
  <2>2. CASE FreeCrash
    BY <2>2, KnownElsewhere DEF FreeCrash, NoWork, Threads
  <2>3. CASE UNCHANGED <<work, freeKey, ending>>
    BY <2>3 DEF PassKnown
  <2> QED BY <1>6, <2>1, <2>2, <2>3 DEF WorldStep, Buy, UseUp, DayPasses, keyVars
<1> QED BY <1>1, <1>2, <1>3, <1>4, <1>5, <1>6 DEF EndStep

(* Every step keeps the events of a key that is being ended. *)
LEMMA KnownStep ==
  ASSUME FreeTypes, HasIntent, PassKnown, [FreeNext]_freeVars PROVE PassKnown'
<1>1. CASE BotStep
  BY <1>1, BotKnown, MarketIs DEF BotStep
<1>2. CASE UNCHANGED freeVars
  BY <1>2 DEF freeVars, PassKnown
<1> QED BY <1>1, <1>2, CarryKnown, PassStepKnown DEF FreeNext, Threads

FreeInv == FreeTypes /\ HasIntent /\ PassKnown /\ HeldInv /\ ClaimInv /\ DailyInv

(* The parts of the invariant are kept together. *)
LEMMA FreeInvHolds == FreeSpec => []FreeInv
<1>1. FreeInit => FreeInv
  BY FreeTypesInit, ClaimsInit DEF FreeInv
<1>2. FreeInv /\ [FreeNext]_freeVars => FreeInv'
  <2> SUFFICES ASSUME FreeInv, [FreeNext]_freeVars PROVE FreeInv'
    OBVIOUS
  <2>1. FreeTypes' /\ HasIntent'
    BY FreeTypesStep DEF FreeInv
  <2>2. PassKnown' /\ HeldInv'
    BY KnownStep, HeldStep DEF FreeInv
  <2>3. ClaimInv' /\ DailyInv'
    BY <2>1, ClaimsStep DEF FreeInv
  <2> QED BY <2>1, <2>2, <2>3 DEF FreeInv
<1> QED BY <1>1, <1>2, PTL DEF FreeSpec

(* However late a claim is carried out, and whatever ends keys meanwhile, a
   customer never has two daily keys that are both still valid
   (OneLiveDailyKey): each claim's day is after the one before it, and a key's
   end is counted from the day of its claim. *)
THEOREM OneLiveDailyKeySafety == FreeSpec => []OneLiveDailyKey
<1>1. FreeInv => OneLiveDailyKey
  <2> SUFFICES ASSUME FreeInv, NEW j \in KeyIds, NEW k \in KeyIds, j.kind = "daily", k.kind = "daily",
                      Live(j), Live(k), ~Lapsed(j), ~Lapsed(k), j.user = k.user
               PROVE  j = k
    BY DEF OneLiveDailyKey
  <2>1. PICK a \in Intents : IntentDone(a) /\ intent[a].id = j /\ freeKey[j].ends = Ends(a)
    BY DEF FreeInv, ClaimInv, Live
  <2>2. PICK b \in Intents : IntentDone(b) /\ intent[b].id = k /\ freeKey[k].ends = Ends(b)
    BY DEF FreeInv, ClaimInv, Live
  <2>3. Daily(a) /\ Daily(b) /\ Who(a) = Who(b)
    BY <2>1, <2>2 DEF Daily, Some, IntentDone, Who
  <2>4. intent[a].from <= day /\ intent[b].from <= day
    BY <2>3 DEF FreeInv, DailyInv
  <2>5. day < intent[a].from + 1 /\ day < intent[b].from + 1
    <3>1. /\ ~(day >= intent[a].from + 1) /\ ~(day >= intent[b].from + 1)
      BY <2>1, <2>2 DEF Lapsed, Ends, Lasts
    <3>2. day \in Int /\ intent[a].from \in Int /\ intent[b].from \in Int
      BY FreeAssumption DEF FreeInv, FreeTypes, IntentRows, Days
    <3> QED BY <3>1, <3>2
  <2>6. intent[a].from = intent[b].from
    BY <2>4, <2>5, FreeAssumption DEF FreeInv, FreeTypes, IntentRows, Days
  <2>7. a = b
    BY <2>3, <2>6 DEF FreeInv, DailyInv
  <2> QED BY <2>1, <2>2, <2>7
<1> QED BY <1>1, FreeInvHolds, PTL

-----------------------------------------------------------------------------
(* Keys on the server and rows of the keys.  What the upgrade deleted by name may
   still come back through a claim under way; everything else is on record. *)
Open(i) == Some(i) /\ ~IntentDone(i)
RowInv ==
  /\ \A k \in onServer \ swept : Live(k) \/ \E i \in Intents : Open(i) /\ intent[i].id = k
  /\ \A k \in KeyIds : Live(k) => k \in onServer \/ ending[k] # {} \/ k \in swept
  /\ \A t \in Threads : work[t].op = "commit" => IdInHand(t) \in onServer \cup swept
  /\ work["pass"].op = "deleted" => work["pass"].id \notin onServer
  /\ work["pass"].op = "mark" => work["pass"].id \in swept

KeepsOpen == \A i \in Intents : /\ Some(i) => intent'[i].id = intent[i].id
                                /\ Open(i) => Open(i)'
(* A thread goes on holding what it held, or has nothing to conclude. *)
ThreadsIdle == \A t \in Threads : work'[t] = work[t] \/ work'[t].op \notin {"commit", "deleted", "mark"}

(* A hand that concludes nothing. *)
LEMMA HandIdle ==
  ASSUME NEW t \in Threads, NEW r, Hand(t, r), r.op \notin {"commit", "deleted", "mark"}
  PROVE  ThreadsIdle
BY DEF Hand, ThreadsIdle

(* The same, of a thread that ends keys. *)
LEMMA PassIdle ==
  ASSUME NEW op, NEW k, NEW todo, PassHand(op, k, todo), op \notin {"commit", "deleted", "mark"}
  PROVE  ThreadsIdle
BY DEF PassHand, ThreadsIdle, Threads

(* Unfinished intents stay unfinished until they are written down. *)
LEMMA OpenKept ==
  ASSUME FreeTypes, HasIntent, HeldInv, IntentMoves PROVE KeepsOpen
<1>1. CASE Same
  BY <1>1 DEF Same, KeepsOpen, Open, Some, IntentDone
<1>2. ASSUME NEW i \in Intents, NEW u, NEW kind, NEW after, ReservedRow(i, u, kind, after)
      PROVE  KeepsOpen
  BY <1>2, ReservedIs DEF KeepsOpen, Open
<1>3. ASSUME NEW u \in Users, NEW i \in Intents, NewDaily(u, i) \/ NewGift(u, i) PROVE KeepsOpen
  BY <1>2, <1>3 DEF NewDaily, NewGift
<1> QED BY <1>1, <1>3, SameMoves

(* A thread with a key in hand has a running intent. *)
LEMMA KeyInHand ==
  ASSUME FreeTypes, HasIntent, HeldInv, NEW t \in Threads, work[t].op \in Acts
  PROVE  /\ work[t].intent \in Intents /\ Open(work[t].intent) /\ Some(work[t].intent)
         /\ IdInHand(t) = intent[work[t].intent].id /\ IdInHand(t) \in KeyIds
<1>1. work[t].intent \in Intents /\ intent[work[t].intent].status = "running"
  BY DEF HasIntent, HeldInv, Acts, Carrying
<1>2. intent[work[t].intent].id \in KeyIds
  BY <1>1 DEF FreeTypes, IntentRows
<1> QED BY <1>1, <1>2 DEF Open, Some, IntentDone, IdInHand

(* Steps that leave the server and the rows alone keep them matched. *)
LEMMA RowsKept ==
  ASSUME FreeTypes, HasIntent, HeldInv, RowInv, ThreadsIdle, KeepsOpen,
         UNCHANGED <<freeKey, onServer, swept>>,
         \A k \in KeyIds : ending[k] # {} => ending'[k] # {}
  PROVE  RowInv'
<1>1. \A k \in onServer' \ swept' :
        Live(k)' \/ \E i \in Intents : Open(i)' /\ intent'[i].id = k
  BY DEF RowInv, Live, KeepsOpen, Open
<1>2. \A k \in KeyIds : Live(k)' => k \in onServer' \/ ending'[k] # {} \/ k \in swept'
  BY DEF RowInv, Live
<1>3. ASSUME NEW t \in Threads, work'[t].op = "commit"
      PROVE  IdInHand(t)' \in onServer' \cup swept'
  <2>1. work'[t] = work[t] /\ work[t].op = "commit"
    BY <1>3 DEF ThreadsIdle
  <2>2. /\ work[t].intent \in Intents /\ Some(work[t].intent)
        /\ IdInHand(t) = intent[work[t].intent].id
    BY <2>1, KeyInHand DEF Acts
  <2>3. intent'[work[t].intent].id = intent[work[t].intent].id
    BY <2>2 DEF KeepsOpen
  <2>4. IdInHand(t)' = IdInHand(t)
    BY <2>1, <2>2, <2>3 DEF IdInHand
  <2> QED BY <2>1, <2>4 DEF RowInv
<1>4. /\ work'["pass"].op = "deleted" => work'["pass"].id \notin onServer'
      /\ work'["pass"].op = "mark" => work'["pass"].id \in swept'
  BY DEF ThreadsIdle, RowInv, Threads
<1> QED BY <1>1, <1>2, <1>3, <1>4 DEF RowInv

(* The steps that leave the server and the rows alone. *)
LEMMA BotRows ==
  ASSUME FreeInv, RowInv,
         (\E u \in Users : ClaimDaily(u) \/ ClaimGift(u))
           \/ (\E n \in Limits : ConfigureGiveaway(n))
           \/ (\E b \in BOOLEAN : SetGiveawayActive(b))
           \/ BotTakes \/ \E i \in Intents : PassTakes(i)
  PROVE  RowInv'
<1>1. UNCHANGED <<freeKey, ending, onServer, swept>>
  BY DEF ClaimDaily, ClaimGift, ConfigureGiveaway, SetGiveawayActive, BotTakes, PassTakes, keyVars
<1>2. KeepsOpen
  <2>1. IntentMoves
    BY ClaimDailyMoves, ClaimGiftMoves, OwnerMoves, TakesMove DEF FreeInv, IntentMoves
  <2> QED BY <2>1, OpenKept DEF FreeInv
<1>3. ThreadsIdle
  <2>1. ASSUME NEW u \in Users, NEW kind \in Kinds, NEW after \in {Never} \cup Days,
               Reserve(u, kind, after)
        PROVE  ThreadsIdle
    BY <2>1, ReserveIs, HandIdle DEF FreeInv, Threads
  <2>2. ASSUME NEW i \in Intents, Resume(i) PROVE ThreadsIdle
    BY <2>2, ResumeIs, HandIdle DEF FreeInv, Threads
  <2>3. ASSUME NEW u \in Users, ClaimDaily(u) PROVE ThreadsIdle
    <3>1. lastClaim[u] \in {Never} \cup Days /\ "daily" \in Kinds
      BY DEF FreeInv, FreeTypes, Kinds
    <3> QED BY <2>1, <2>2, <2>3, <3>1 DEF ClaimDaily, Mine, OfKind
  <2>4. ASSUME NEW u \in Users, ClaimGift(u) PROVE ThreadsIdle
    BY <2>1, <2>2, <2>4 DEF ClaimGift, Mine, OfKind, Kinds
  <2>5. ASSUME NEW t \in Threads, NEW i \in Intents, Take(t, i) PROVE ThreadsIdle
    BY <2>5, TakeIs, HandIdle DEF FreeInv
  <2>6. CASE BotTakes
    <3>1. "bot" \in Threads /\ work["bot"].intent \in Intents
      BY <2>6 DEF FreeInv, BotTakes, HasIntent, Carrying, Threads
    <3>2. CASE Rests("bot")
      BY <3>1, <3>2, RestsIs, HandIdle DEF FreeInv, NoWork
    <3> QED BY <2>5, <2>6, <3>1, <3>2 DEF BotTakes
  <2>7. ASSUME NEW i \in Intents, PassTakes(i) PROVE ThreadsIdle
    BY <2>5, <2>7 DEF PassTakes, Threads
  <2>8. CASE UNCHANGED work
    BY <2>8 DEF ThreadsIdle
  <2> QED BY <2>3, <2>4, <2>6, <2>7, <2>8 DEF ConfigureGiveaway, SetGiveawayActive
<1> QED BY <1>1, <1>2, <1>3, RowsKept DEF FreeInv

(* Buying, traffic, days and crashes keep them matched. *)
LEMMA WorldRows ==
  ASSUME FreeInv, RowInv, WorldStep PROVE RowInv'
<1>1. UNCHANGED <<freeKey, ending, onServer, swept>>
  BY DEF WorldStep, Buy, Sweep, UseUp, DayPasses, FreeCrash, keyVars
<1>2. KeepsOpen
  BY WorldMoves, OpenKept DEF FreeInv, IntentMoves
<1>3. ThreadsIdle
  <2>1. ASSUME NEW u \in Users, Sweep(u) PROVE ThreadsIdle
    BY <2>1, SweepIs, PassIdle DEF FreeInv
  <2>2. CASE FreeCrash
    BY <2>2 DEF FreeCrash, ThreadsIdle, NoWork
  <2>3. CASE UNCHANGED work
    BY <2>3 DEF ThreadsIdle
  <2> QED BY <2>1, <2>2, <2>3 DEF WorldStep, Buy, UseUp, DayPasses
<1> QED BY <1>1, <1>2, <1>3, RowsKept DEF FreeInv

(* Putting an end on record keeps them matched. *)
LEMMA StartEndRows ==
  ASSUME FreeInv, RowInv, StartEnd PROVE RowInv'
<1>1. PICK k \in KeyIds, rs \in SUBSET Reasons : StartEnding(k, rs)
  BY StartEndIs DEF FreeInv
<1>2. /\ PassHand("delete", k, rs) /\ Events(k, ending[k] \cup rs)
      /\ UNCHANGED <<freeKey, onServer, swept>>
  BY <1>1, StartEndingIs DEF FreeInv
<1>3. \A q \in KeyIds : ending[q] # {} => ending'[q] # {}
  BY <1>2 DEF Events
<1>4. KeepsOpen
  BY StartEndMoves, OpenKept DEF FreeInv, IntentMoves
<1>5. ThreadsIdle
  BY <1>2, PassIdle
<1> QED BY <1>2, <1>3, <1>4, <1>5, RowsKept DEF FreeInv

(* An id in hand has no row yet, and is not the one being ended. *)
LEMMA RowNotInHand ==
  ASSUME FreeInv, NEW t \in Threads, work[t].op \in Acts
  PROVE  /\ freeKey[IdInHand(t)].status = "none"
         /\ work["pass"].op \in {"delete", "deleted"} => IdInHand(t) # work["pass"].id
<1>1. /\ work[t].intent \in Intents /\ Open(work[t].intent) /\ Some(work[t].intent)
      /\ IdInHand(t) = intent[work[t].intent].id /\ IdInHand(t) \in KeyIds
  BY KeyInHand DEF FreeInv
<1>2. freeKey[IdInHand(t)].status = "none"
  <2> SUFFICES ASSUME freeKey[IdInHand(t)].status # "none" PROVE FALSE
    OBVIOUS
  <2>1. PICK j \in Intents : IntentDone(j) /\ intent[j].id = IdInHand(t)
    BY <1>1 DEF FreeInv, ClaimInv
  <2>2. Some(j) /\ j # work[t].intent
    BY <1>1, <2>1 DEF Some, IntentDone, Open
  <2> QED BY <1>1, <2>1, <2>2 DEF FreeInv, ClaimInv
<1>3. work["pass"].op \in {"delete", "deleted"} => freeKey[work["pass"].id].status # "none"
  BY DEF FreeInv, PassKnown
<1> QED BY <1>2, <1>3

(* A key created: known through its intent, whether or not the answer came. *)
LEMMA CreatedRows ==
  ASSUME FreeInv, RowInv, KeepsOpen, NEW t \in Threads, work[t].op = "create",
         NEW r, Hand(t, r), r.op = "commit" => r.intent = work[t].intent,
         r.op \notin {"deleted", "mark"},
         onServer' \in {onServer, onServer \cup {IdInHand(t)}},
         r.op = "commit" => onServer' = onServer \cup {IdInHand(t)},
         UNCHANGED <<freeKey, ending, swept>>
  PROVE  RowInv'
<1>1. PICK i \in Intents, k \in KeyIds :
        /\ i = work[t].intent /\ k = IdInHand(t) /\ k = intent[i].id /\ Open(i) /\ Some(i)
  BY KeyInHand DEF FreeInv, Acts
<1>2. /\ onServer \subseteq onServer' /\ onServer' \subseteq onServer \cup {k}
      /\ intent'[i].id = k /\ Open(i)'
  BY <1>1 DEF KeepsOpen
<1>3. \A q \in onServer' \ swept' :
        Live(q)' \/ \E j \in Intents : Open(j)' /\ intent'[j].id = q
  <2> SUFFICES ASSUME NEW q \in onServer' \ swept', q # k
               PROVE  Live(q)' \/ \E j \in Intents : Open(j)' /\ intent'[j].id = q
    BY <1>2
  <2>1. q \in onServer \ swept
    BY <1>2
  <2> QED BY <2>1 DEF RowInv, Live, KeepsOpen, Open
<1>4. \A q \in KeyIds : Live(q)' => q \in onServer' \/ ending'[q] # {} \/ q \in swept'
  BY <1>2 DEF RowInv, Live
<1>5. ASSUME NEW s \in Threads, work'[s].op = "commit"
      PROVE  IdInHand(s)' \in onServer' \cup swept'
  <2>1. CASE s = t
    <3>1. IdInHand(s)' = k
      BY <1>1, <1>2, <1>5, <2>1 DEF Hand, IdInHand
    <3> QED BY <1>1, <1>5, <2>1, <3>1 DEF Hand
  <2>2. CASE s # t
    <3>1. work'[s] = work[s] /\ work[s].op = "commit"
      BY <1>5, <2>2 DEF Hand
    <3>2. /\ work[s].intent \in Intents /\ Some(work[s].intent)
          /\ IdInHand(s) = intent[work[s].intent].id
      BY <3>1, KeyInHand DEF FreeInv, Acts
    <3>3. intent'[work[s].intent].id = intent[work[s].intent].id
      BY <3>2 DEF KeepsOpen
    <3>4. IdInHand(s)' = IdInHand(s)
      BY <3>1, <3>2, <3>3 DEF IdInHand
    <3>5. IdInHand(s) \in onServer \cup swept
      BY <3>1 DEF RowInv
    <3> QED BY <1>2, <3>4, <3>5
  <2> QED BY <2>1, <2>2
<1>6. /\ work'["pass"].op = "deleted" => work'["pass"].id \notin onServer'
      /\ work'["pass"].op = "mark" => work'["pass"].id \in swept'
  <2>1. CASE t = "pass"
    BY <2>1 DEF Hand
  <2>2. CASE t # "pass"
    <3>1. work'["pass"] = work["pass"]
      BY <2>2 DEF Hand, Threads
    <3>2. work["pass"].op = "deleted" => k # work["pass"].id
      BY <1>1, RowNotInHand DEF Acts
    <3> QED BY <1>2, <3>1, <3>2 DEF RowInv
  <2> QED BY <2>1, <2>2
<1> QED BY <1>3, <1>4, <1>5, <1>6 DEF RowInv

(* A claim written down: its key was created, or swept by the upgrade since. *)
LEMMA FinalizeRows ==
  ASSUME FreeInv, RowInv, NEW t \in Threads, Finalize(t)
  PROVE  RowInv'
<1>0. PICK i \in Intents, k \in KeyIds : i = work[t].intent /\ k = IdInHand(t)
  BY FinalizeIs DEF FreeInv
<1>1. /\ work[t].op = "commit" /\ Hand(t, NoWork) /\ Turns(i, "done") /\ k = intent[i].id
      /\ \A q \in KeyIds \ {k} : freeKey'[q] = freeKey[q]
      /\ freeKey[k].status = "none" => freeKey'[k].status = "active"
  BY <1>0, FinalizeIs DEF FreeInv
<1>2. freeKey'[k].status = "active"
  BY <1>0, <1>1, RowNotInHand DEF Acts
<1>3. k \in onServer \cup swept
  BY <1>0, <1>1 DEF RowInv
<1>4. UNCHANGED <<ending, onServer, swept>>
  BY DEF Finalize
<1>5. onServer \subseteq KeyIds
  BY DEF FreeInv, FreeTypes
<1>6. \A j \in Intents : intent'[j].id = intent[j].id /\ (j # i => intent'[j] = intent[j])
  BY <1>1 DEF Turns
<1>7. \A q \in onServer' \ swept' :
        Live(q)' \/ \E j \in Intents : Open(j)' /\ intent'[j].id = q
  <2> SUFFICES ASSUME NEW q \in onServer \ swept, q # k, ~Live(q)
               PROVE  \E j \in Intents : Open(j)' /\ intent'[j].id = q
    BY <1>1, <1>2, <1>4, <1>5 DEF Live
  <2>1. PICK j \in Intents : Open(j) /\ intent[j].id = q
    BY DEF RowInv
  <2>2. intent'[j] = intent[j]
    BY <1>1, <1>6, <2>1
  <2> QED BY <2>1, <2>2 DEF Open, Some, IntentDone
<1>8. \A q \in KeyIds : Live(q)' => q \in onServer' \/ ending'[q] # {} \/ q \in swept'
  <2> SUFFICES ASSUME NEW q \in KeyIds, q # k, Live(q)'
               PROVE  q \in onServer' \/ ending'[q] # {} \/ q \in swept'
    BY <1>3, <1>4
  <2> QED BY <1>1, <1>4 DEF RowInv, Live
<1>9. ASSUME NEW s \in Threads, work'[s].op = "commit"
      PROVE  IdInHand(s)' \in onServer' \cup swept'
  <2>1. s # t /\ work'[s] = work[s] /\ work[s].op = "commit"
    BY <1>1, <1>9 DEF Hand, NoWork
  <2>2. work[s].intent \in Intents /\ IdInHand(s) = intent[work[s].intent].id
    BY <2>1, KeyInHand DEF FreeInv, Acts
  <2>3. intent'[work[s].intent].id = intent[work[s].intent].id
    BY <1>6, <2>2
  <2>4. IdInHand(s)' = IdInHand(s)
    BY <2>1, <2>2, <2>3 DEF IdInHand
  <2> QED BY <1>4, <2>1, <2>4 DEF RowInv
<1>10. /\ work'["pass"].op = "deleted" => work'["pass"].id \notin onServer'
       /\ work'["pass"].op = "mark" => work'["pass"].id \in swept'
  <2>1. work'["pass"] = work["pass"] \/ work'["pass"] = NoWork
    BY <1>1 DEF Hand, Threads
  <2> QED BY <1>4, <2>1 DEF RowInv, NoWork
<1> QED BY <1>7, <1>8, <1>9, <1>10 DEF RowInv

(* Carrying a claim on keeps them matched. *)
LEMMA CarryRows ==
  ASSUME FreeInv, RowInv, NEW t \in Threads, Carry(t) PROVE RowInv'
<1>1. CASE Create(t)
  <2>1. KeepsOpen
    BY <1>1, CarryMoves, OpenKept DEF FreeInv
  <2>2. /\ work[t].op = "create" /\ Hand(t, Then(t, "commit"))
        /\ onServer' = onServer \cup {IdInHand(t)} /\ UNCHANGED <<freeKey, ending, swept>>
    BY <1>1, CreateIs DEF FreeInv, Create
  <2>3. Then(t, "commit").op = "commit" /\ Then(t, "commit").intent = work[t].intent
    BY DEF Then, FreeInv, FreeTypes, WorkRows
  <2> QED BY <2>1, <2>2, <2>3, CreatedRows
<1>2. CASE CreateFails(t)
  <2>1. KeepsOpen
    BY <1>2, CarryMoves, OpenKept DEF FreeInv
  <2>2. /\ work[t].op = "create" /\ Hand(t, NoWork)
        /\ onServer' \in {onServer, onServer \cup {IdInHand(t)}}
        /\ UNCHANGED <<freeKey, ending, swept>>
    BY <1>2, CreateFailsIs DEF FreeInv, CreateFails
  <2> QED BY <2>1, <2>2, CreatedRows DEF NoWork
<1> QED BY <1>1, <1>2, FinalizeRows DEF Carry

(* The hands that carry claims are elsewhere: what they hold is still there. *)
LEMMA HandsElsewhere ==
  ASSUME FreeInv, RowInv, UNCHANGED intent,
         \A s \in Threads : work'[s].op = "commit" => work'[s] = work[s],
         \A s \in Threads : work[s].op = "commit" => IdInHand(s) \in onServer' \cup swept'
  PROVE  \A s \in Threads : work'[s].op = "commit" => IdInHand(s)' \in onServer' \cup swept'
<1>1. ASSUME NEW s \in Threads, work'[s].op = "commit"
      PROVE  IdInHand(s)' \in onServer' \cup swept'
  <2>1. IdInHand(s)' = IdInHand(s)
    BY <1>1 DEF IdInHand
  <2> QED BY <1>1, <2>1
<1> QED BY <1>1

(* A step of a thread that ends keys starts no transaction of a claim. *)
LEMMA PassCommits ==
  ASSUME NEW op, NEW k, NEW todo, PassHand(op, k, todo), op # "commit"
  PROVE  \A s \in Threads : work'[s].op = "commit" => work'[s] = work[s]
BY DEF PassHand, Threads

(* A key is deleted only with its end on record. *)
LEMMA DeleteKeyRows ==
  ASSUME FreeInv, RowInv, DeleteKey PROVE RowInv'
<1>1. PICK k \in KeyIds : k = work["pass"].id
  BY DEF FreeInv, FreeTypes, Threads, WorkRows
<1>2. /\ PassHand("deleted", k, work["pass"].todo) /\ work["pass"].op = "delete"
      /\ onServer' = onServer \ {k} /\ UNCHANGED <<intent, freeKey, ending, swept>>
  BY <1>1, DeleteKeyIs DEF FreeInv, DeleteKey
<1>3. ending[k] # {}
  BY <1>1, <1>2 DEF FreeInv, PassKnown
<1>4. \A q \in onServer' \ swept' :
        Live(q)' \/ \E i \in Intents : Open(i)' /\ intent'[i].id = q
  BY <1>2 DEF RowInv, Live, Open, Some, IntentDone
<1>5. \A q \in KeyIds : Live(q)' => q \in onServer' \/ ending'[q] # {} \/ q \in swept'
  BY <1>2, <1>3 DEF RowInv, Live
<1>6. \A s \in Threads : work[s].op = "commit" => IdInHand(s) \in onServer' \cup swept'
  BY <1>1, <1>2, RowNotInHand DEF RowInv, Acts
<1>7. \A s \in Threads : work'[s].op = "commit" => IdInHand(s)' \in onServer' \cup swept'
  BY <1>2, <1>6, PassCommits, HandsElsewhere
<1> QED BY <1>2, <1>4, <1>5, <1>7 DEF RowInv, PassHand

(* A row is revoked only when its key is off the server or was swept. *)
LEMMA GoneRows ==
  ASSUME FreeInv, RowInv, NEW k \in KeyIds, Revokes(k), NEW rs, Events(k, rs),
         k \notin onServer \ swept, UNCHANGED <<intent, onServer, swept>>, ThreadsIdle
  PROVE  RowInv'
<1>1. \A q \in onServer' \ swept' :
        Live(q)' \/ \E i \in Intents : Open(i)' /\ intent'[i].id = q
  <2>1. onServer \subseteq KeyIds
    BY DEF FreeInv, FreeTypes
  <2> QED BY <2>1 DEF RowInv, Live, Open, Some, IntentDone, Revokes
<1>2. \A q \in KeyIds : Live(q)' => q \in onServer' \/ ending'[q] # {} \/ q \in swept'
  BY DEF RowInv, Live, Revokes, Events
<1>3. \A s \in Threads : work'[s].op = "commit" => IdInHand(s)' \in onServer' \cup swept'
  BY HandsElsewhere DEF ThreadsIdle, RowInv
<1>4. /\ work'["pass"].op = "deleted" => work'["pass"].id \notin onServer'
      /\ work'["pass"].op = "mark" => work'["pass"].id \in swept'
  BY DEF ThreadsIdle, RowInv, Threads
<1> QED BY <1>1, <1>2, <1>3, <1>4 DEF RowInv

(* The next event concludes no claim. *)
LEMMA NextIdle ==
  ASSUME FreeTypes, NEW r, r \in work["pass"].todo, NextReason(r) PROVE ThreadsIdle
<1>1. CASE Hand("pass", NoWork)
  BY <1>1, HandIdle DEF NoWork, Threads
<1>2. CASE PassHand("delete", work["pass"].id, work["pass"].todo \ {r})
  BY <1>2, PassIdle
<1> QED BY <1>1, <1>2, NextReasonIs

(* Ending a key keeps rows and keys matched. *)
LEMMA EndStepRows ==
  ASSUME FreeInv, RowInv, EndStep PROVE RowInv'
<1>1. CASE DeleteKey
  BY <1>1, DeleteKeyRows
<1>2. ASSUME NEW r \in Reasons, DeleteFails(r) PROVE RowInv'
  <2>1. ThreadsIdle
    BY <1>2, NextIdle DEF DeleteFails, FreeInv
  <2>2. UNCHANGED <<intent, freeKey, ending, onServer, swept>>
    BY <1>2 DEF DeleteFails, keyVars
  <2>3. KeepsOpen
    BY <2>2 DEF KeepsOpen, Open, Some, IntentDone
  <2> QED BY <2>1, <2>2, <2>3, RowsKept DEF FreeInv
<1>3. ASSUME NEW r \in Reasons, KeyIsGone(r) PROVE RowInv'
  <2>1. PICK k \in KeyIds : k = work["pass"].id
    BY DEF FreeInv, FreeTypes, Threads, WorkRows
  <2>2. /\ work["pass"].op = "deleted" /\ Revokes(k) /\ Events(k, ending[k] \ {r})
        /\ r \in work["pass"].todo /\ NextReason(r)
    BY <1>3, <2>1, KeyIsGoneIs DEF FreeInv
  <2>3. ThreadsIdle
    BY <2>2, NextIdle DEF FreeInv
  <2>4. k \notin onServer /\ UNCHANGED <<intent, onServer, swept>>
    BY <1>3, <2>1, <2>2 DEF RowInv, KeyIsGone
  <2> QED BY <2>2, <2>3, <2>4, GoneRows
<1> QED BY <1>1, <1>2, <1>3 DEF EndStep

(* The sweep keeps rows and keys matched, but for what it deleted by name. *)
LEMMA SweepRows ==
  ASSUME FreeInv, RowInv, SweepStep PROVE RowInv'
<1>1. ASSUME NEW k \in KeyIds, SweepDeletes(k) PROVE RowInv'
  <2>1. /\ PassHand("mark", k, work["pass"].todo) /\ onServer' = onServer \ {k}
        /\ swept' = swept \cup {k} /\ UNCHANGED <<intent, freeKey, ending>>
    BY <1>1, SweepDeletesIs DEF FreeInv, SweepDeletes
  <2>2. \A q \in onServer' \ swept' :
          Live(q)' \/ \E i \in Intents : Open(i)' /\ intent'[i].id = q
    BY <2>1 DEF RowInv, Live, Open, Some, IntentDone
  <2>3. \A q \in KeyIds : Live(q)' => q \in onServer' \/ ending'[q] # {} \/ q \in swept'
    BY <2>1 DEF RowInv, Live
  <2>4. \A s \in Threads : work[s].op = "commit" => IdInHand(s) \in onServer' \cup swept'
    BY <2>1 DEF RowInv
  <2>5. \A s \in Threads : work'[s].op = "commit" => IdInHand(s)' \in onServer' \cup swept'
    BY <2>1, <2>4, PassCommits, HandsElsewhere
  <2> QED BY <2>1, <2>2, <2>3, <2>5 DEF RowInv, PassHand
<1>2. ASSUME NEW k \in KeyIds, SweepFails(k) PROVE RowInv'
  <2>1. /\ PassHand("sweep", work["pass"].id, work["pass"].todo)
        /\ UNCHANGED ending \/ Events(k, ending[k] \cup {"upgrade"})
    BY <1>2, SweepFailsIs DEF FreeInv
  <2>2. ThreadsIdle
    BY <2>1, PassIdle
  <2>3. UNCHANGED <<intent, freeKey, onServer, swept>>
    BY <1>2 DEF SweepFails
  <2>4. KeepsOpen
    BY <2>3 DEF KeepsOpen, Open, Some, IntentDone
  <2>5. \A q \in KeyIds : ending[q] # {} => ending'[q] # {}
    BY <2>1 DEF Events
  <2> QED BY <2>2, <2>3, <2>4, <2>5, RowsKept DEF FreeInv
<1>3. CASE SweepMarks
  <2>1. PICK k \in KeyIds : k = work["pass"].id
    BY DEF FreeInv, FreeTypes, Threads, WorkRows
  <2>2. /\ work["pass"].op = "mark" /\ PassHand("sweep", k, work["pass"].todo)
        /\ \/ UNCHANGED <<freeKey, ending>>
           \/ Revokes(k) /\ Events(k, ending[k] \ {"upgrade"})
        /\ UNCHANGED <<intent, onServer, swept>>
    BY <1>3, <2>1, SweepMarksIs DEF FreeInv, SweepMarks
  <2>3. ThreadsIdle /\ k \in swept
    BY <2>1, <2>2, PassIdle DEF RowInv
  <2>4. CASE UNCHANGED <<freeKey, ending>>
    <3>1. KeepsOpen
      BY <2>2 DEF KeepsOpen, Open, Some, IntentDone
    <3> QED BY <2>2, <2>3, <2>4, <3>1, RowsKept DEF FreeInv
  <2>5. CASE Revokes(k) /\ Events(k, ending[k] \ {"upgrade"})
    BY <2>2, <2>3, <2>5, GoneRows
  <2> QED BY <2>2, <2>4, <2>5
<1>4. CASE SweepEnds
  <2>1. ThreadsIdle
    BY <1>4, PassRests, HandIdle DEF FreeInv, SweepEnds, NoWork, Threads
  <2>2. UNCHANGED <<intent, freeKey, ending, onServer, swept>>
    BY <1>4 DEF SweepEnds, keyVars
  <2>3. KeepsOpen
    BY <2>2 DEF KeepsOpen, Open, Some, IntentDone
  <2> QED BY <2>1, <2>2, <2>3, RowsKept DEF FreeInv
<1> QED BY <1>1, <1>2, <1>3, <1>4 DEF SweepStep

(* Every step keeps rows and keys matched. *)
LEMMA RowStep ==
  ASSUME FreeInv, RowInv, [FreeNext]_freeVars PROVE RowInv'
<1>1. CASE BotStep
  <2>1. market.daily \subseteq Users /\ market.gift \subseteq Users
    BY MarketIs DEF FreeInv
  <2> QED BY <1>1, <2>1, BotRows DEF BotStep
<1>2. CASE BotTakes \/ \E i \in Intents : PassTakes(i)
  BY <1>2, BotRows
<1>3. CASE Carry("bot") \/ Carry("pass")
  BY <1>3, CarryRows DEF Threads
<1>4. CASE StartEnd \/ EndStep \/ SweepStep \/ WorldStep
  BY <1>4, StartEndRows, EndStepRows, SweepRows, WorldRows
<1>5. CASE UNCHANGED freeVars
  BY <1>5 DEF freeVars, RowInv, Live, Open, Some, IntentDone, IdInHand
<1> QED BY <1>1, <1>2, <1>3, <1>4, <1>5 DEF FreeNext

(* So they are matched in every state. *)
LEMMA RowInvHolds == FreeSpec => []RowInv
<1>1. FreeInit => RowInv
  BY DEF FreeInit, RowInv, Live, NoWork, Threads
<1>2. FreeInv /\ RowInv /\ [FreeNext]_freeVars => RowInv'
  BY RowStep
<1> QED BY <1>1, <1>2, FreeInvHolds, PTL DEF FreeSpec

(* A free key works on the server only while its row is live or its intent is
   unfinished, and a row is live only while its key exists or its end is on
   record, but for keys the upgrade deleted by name (FreeKeysMatchRows; create,
   finalize, terminate and sweep in any order, failures and crashes included). *)
THEOREM FreeKeysMatchSafety == FreeSpec => []FreeKeysMatchRows
<1>1. FreeInv /\ RowInv => FreeKeysMatchRows
  <2> SUFFICES ASSUME FreeInv, RowInv PROVE FreeKeysMatchRows
    OBVIOUS
  <2>1. \A i \in Intents : Open(i) => intent[i].status \in {"pending", "running", "failed"}
    BY DEF FreeInv, FreeTypes, IntentRows, Open, Some, IntentDone
  <2> QED BY <2>1 DEF RowInv, FreeKeysMatchRows
<1> QED BY <1>1, FreeInvHolds, RowInvHolds, PTL

-----------------------------------------------------------------------------
(* Selling no place twice.  A place is taken by a claim under way or by a claim
   whose key is live; a claim that failed gave its place up, and is set apart. *)
Takers(kind) == {i \in OfKind(kind) : Waiting(i) \/ (IntentDone(i) /\ Live(intent[i].id))}
Winners(w) == {i \in OfKind("gift") : intent[i].from = w /\ (Waiting(i) \/ IntentDone(i))}
WonInv ==
  /\ \A i \in Intents : IntentDone(i) /\ intent[i].id.kind = "gift" => won[Who(i)] = intent[i].from
  /\ \A u \in Users : won[u] # Never =>
       \E i \in Intents : IntentDone(i) /\ intent[i].id.kind = "gift" /\ Who(i) = u
SoldInv ==
  /\ \A i \in Intents : intent[i].status = "failed" => i \in wobbled
  /\ promo.limit <= promised
  /\ \A kind \in Kinds : Cardinality(Takers(kind) \ wobbled) <= market.slots
  /\ \A w \in Days : Cardinality(Winners(w) \ wobbled) <= promised

(* Intents are finite in number: what is counted is a number. *)
LEMMA IntentCounts ==
  ASSUME NEW A, NEW B, A \subseteq Intents, B \subseteq A
  PROVE  /\ IsFiniteSet(A) /\ Cardinality(A) \in Nat /\ Cardinality(B) \in Nat
         /\ Cardinality(B) <= Cardinality(A)
<1>1. IsFiniteSet(A)
  BY FS_Subset, FreeAssumption
<1> QED BY <1>1, FS_Subset, FS_CardinalityType

(* Two sets of intents counted together. *)
LEMMA UnionOfIntents ==
  ASSUME NEW A, NEW B, A \subseteq Intents, B \subseteq Intents
  PROVE  /\ Cardinality(A \cup B) <= Cardinality(A) + Cardinality(B)
         /\ A \cap B = {} => Cardinality(A \cup B) = Cardinality(A) + Cardinality(B)
<1>1. IsFiniteSet(A) /\ IsFiniteSet(B)
  BY IntentCounts
<1>2. /\ Cardinality(A \cup B) = Cardinality(A) + Cardinality(B) - Cardinality(A \cap B)
      /\ Cardinality(A) \in Nat /\ Cardinality(B) \in Nat
  BY <1>1, FS_Union, FS_CardinalityType
<1>3. Cardinality(A \cap B) \in Nat /\ (A \cap B = {} => Cardinality(A \cap B) = 0)
  BY <1>1, IntentCounts, FS_EmptySet
<1> QED BY <1>2, <1>3

(* Keys are counted as the claims they came from. *)
LEMMA CountedByClaims ==
  ASSUME NEW A, A \subseteq Intents, NEW T, NEW f, f \in [A -> T],
         \A i, j \in A : f[i] = f[j] => i = j,
         \A k \in T : \E i \in A : f[i] = k
  PROVE  Cardinality(T) = Cardinality(A)
<1>1. f \in Bijection(A, T)
  BY DEF Bijection, Injection, Surjection, IsInjective
<1>2. ExistsBijection(A, T)
  BY <1>1 DEF ExistsBijection
<1>3. IsFiniteSet(A)
  BY IntentCounts
<1> QED BY <1>2, <1>3, FS_Bijection

(* Live keys of a kind are counted as the claims they came from. *)
LEMMA LiveKeysAreClaims ==
  ASSUME FreeTypes, ClaimInv, NEW kind \in Kinds
  PROVE  Cardinality({k \in KeyIds : k.kind = kind /\ Live(k)})
           = Cardinality({i \in OfKind(kind) : IntentDone(i) /\ Live(intent[i].id)})
<1> DEFINE T == {k \in KeyIds : k.kind = kind /\ Live(k)}
           A == {i \in OfKind(kind) : IntentDone(i) /\ Live(intent[i].id)}
           f == [i \in A |-> intent[i].id]
<1>1. A \subseteq Intents /\ f \in [A -> T]
  BY DEF OfKind, FreeTypes, IntentRows
<1>2. \A i, j \in A : f[i] = f[j] => i = j
  BY DEF OfKind, ClaimInv, Some
<1>3. ASSUME NEW k \in T PROVE \E i \in A : f[i] = k
  <2>1. PICK i \in Intents : IntentDone(i) /\ intent[i].id = k
    BY <1>3 DEF ClaimInv, Live
  <2>2. i \in A
    BY <1>3, <2>1 DEF OfKind, IntentDone
  <2> QED BY <2>1, <2>2
<1> HIDE DEF T, A, f
<1>4. Cardinality(T) = Cardinality(A)
  BY <1>1, <1>2, <1>3, CountedByClaims
<1> QED BY <1>4 DEF T, A

(* Gifts given out are counted as the claims they came from. *)
LEMMA GiftsAreClaims ==
  ASSUME FreeTypes, ClaimInv, WonInv, NEW w \in Days
  PROVE  Claimed(w)
           = Cardinality({i \in OfKind("gift") : intent[i].from = w /\ IntentDone(i)})
<1> DEFINE T == {u \in Users : won[u] = w}
           A == {i \in OfKind("gift") : intent[i].from = w /\ IntentDone(i)}
           f == [i \in A |-> Who(i)]
<1>1. A \subseteq Intents /\ f \in [A -> T]
  BY DEF OfKind, FreeTypes, IntentRows, KeyIds, WonInv, Who
<1>2. ASSUME NEW i \in A, NEW j \in A, f[i] = f[j] PROVE i = j
  <2>1. /\ i \in Intents /\ j \in Intents /\ Some(i) /\ Some(j) /\ Who(i) = Who(j)
        /\ intent[i].id.kind = "gift" /\ intent[j].id.kind = "gift"
    BY <1>2 DEF OfKind, Some
  <2>2. intent[i].id \in KeyIds /\ intent[j].id \in KeyIds
    BY <2>1 DEF FreeTypes, IntentRows
  <2>3. intent[i].id.after = Never /\ intent[j].id.after = Never
    BY <2>1 DEF ClaimInv
  <2>4. intent[i].id = intent[j].id
    BY <2>1, <2>2, <2>3 DEF KeyIds, Who
  <2> QED BY <2>1, <2>4 DEF ClaimInv
<1>3. ASSUME NEW u \in T PROVE \E i \in A : f[i] = u
  <2>1. won[u] # Never
    BY <1>3, FreeAssumption DEF Never, Days
  <2>2. PICK i \in Intents : IntentDone(i) /\ intent[i].id.kind = "gift" /\ Who(i) = u
    BY <1>3, <2>1 DEF WonInv
  <2>3. i \in A
    BY <1>3, <2>2 DEF OfKind, IntentDone, WonInv
  <2> QED BY <2>2, <2>3
<1> HIDE DEF T, A, f
<1>4. Cardinality(T) = Cardinality(A)
  BY <1>1, <1>2, <1>3, CountedByClaims
<1> QED BY <1>4 DEF T, A, Claimed

(* What a new claim counts before it is made, in claims. *)
LEMMA TakersCounted ==
  ASSUME FreeTypes, ClaimInv, NEW kind \in Kinds
  PROVE  /\ Takers(kind) \subseteq Intents
         /\ Cardinality(Takers(kind))
              = Cardinality({k \in KeyIds : k.kind = kind /\ Live(k)})
                + Cardinality({i \in OfKind(kind) : Waiting(i)})
<1> DEFINE A == {i \in OfKind(kind) : IntentDone(i) /\ Live(intent[i].id)}
           B == {i \in OfKind(kind) : Waiting(i)}
<1>1. /\ A \subseteq Intents /\ B \subseteq Intents /\ A \cap B = {}
      /\ Takers(kind) = A \cup B /\ Takers(kind) \subseteq Intents
  BY DEF OfKind, IntentDone, Waiting, Takers
<1>2. Cardinality({k \in KeyIds : k.kind = kind /\ Live(k)}) = Cardinality(A)
  BY LiveKeysAreClaims
<1> HIDE DEF A, B
<1>3. Cardinality(A \cup B) = Cardinality(A) + Cardinality(B)
  BY <1>1, UnionOfIntents
<1> QED BY <1>1, <1>2, <1>3 DEF B

(* What a new gift counts before it is made, in claims. *)
LEMMA WinnersCounted ==
  ASSUME FreeTypes, ClaimInv, WonInv, NEW w \in Days
  PROVE  /\ Winners(w) \subseteq Intents
         /\ Cardinality(Winners(w)) = Claimed(w) + Reserved(w)
<1> DEFINE A == {i \in OfKind("gift") : intent[i].from = w /\ IntentDone(i)}
           B == {i \in OfKind("gift") : Waiting(i) /\ intent[i].from = w}
<1>1. /\ A \subseteq Intents /\ B \subseteq Intents /\ A \cap B = {}
      /\ Winners(w) = A \cup B /\ Winners(w) \subseteq Intents
  BY DEF OfKind, IntentDone, Waiting, Winners
<1>2. Claimed(w) = Cardinality(A)
  BY GiftsAreClaims
<1>3. Reserved(w) = Cardinality(B)
  BY DEF Reserved
<1> HIDE DEF A, B
<1>4. Cardinality(A \cup B) = Cardinality(A) + Cardinality(B)
  BY <1>1, UnionOfIntents
<1> QED BY <1>1, <1>2, <1>3, <1>4

(* The limit in force is never above the highest there was. *)
LEMMA PromoStep ==
  ASSUME FreeTypes, FreeTypes', promo.limit <= promised, [FreeNext]_freeVars
  PROVE  /\ promo'.limit <= promised' /\ promised <= promised'
         /\ promised \in Int /\ promised' \in Int
<1>1. promised \in Int /\ promised' \in Int /\ promo'.limit \in Int
  <2>1. promised \in Limits /\ promised' \in Limits /\ promo'.limit \in Limits
    BY DEF FreeTypes
  <2>2. Limits \subseteq Int
    BY FreeAssumption
  <2> QED BY <2>1, <2>2
<1>2. CASE UNCHANGED promoVars
  BY <1>1, <1>2 DEF promoVars
<1>3. ASSUME NEW n \in Limits, ConfigureGiveaway(n)
      PROVE  promo'.limit <= promised' /\ promised <= promised'
  <2>1. promo'.limit = n /\ promised' = IF n > promised THEN n ELSE promised
    BY <1>3 DEF ConfigureGiveaway
  <2>2. n \in Int
    BY FreeAssumption
  <2> QED BY <1>1, <2>1, <2>2
<1>4. ASSUME NEW b \in BOOLEAN, SetGiveawayActive(b)
      PROVE  promo'.limit <= promised' /\ promised <= promised'
  <2>1. promo' = [promo EXCEPT !.open = b, !.changes = promo.changes + 1] /\ promised' = promised
    BY <1>4 DEF SetGiveawayActive
  <2>2. promo'.limit = promo.limit
    BY <2>1 DEF FreeTypes
  <2> QED BY <1>1, <2>1, <2>2
<1>5. CASE BotStep
  BY <1>1, <1>2, <1>3, <1>4, <1>5 DEF BotStep, ClaimDaily, ClaimGift
<1>6. CASE BotTakes \/ (\E i \in Intents : PassTakes(i)) \/ Carry("bot") \/ Carry("pass")
  BY <1>1, <1>2, <1>6 DEF BotTakes, PassTakes, Carry, Create, CreateFails, Finalize
<1>7. CASE StartEnd
  BY <1>1, <1>2, <1>7
     DEF StartEnd, EnforceFreeQuota, RevokeExpired, ReconcileTerminations, StartEnding
<1>8. CASE EndStep
  BY <1>1, <1>2, <1>8 DEF EndStep, DeleteKey, DeleteFails, KeyIsGone
<1>9. CASE SweepStep
  BY <1>1, <1>2, <1>9 DEF SweepStep, SweepMarks, SweepEnds, SweepDeletes, SweepFails
<1>10. CASE WorldStep
  BY <1>1, <1>2, <1>10 DEF WorldStep, Buy, Sweep, UseUp, DayPasses, FreeCrash
<1>11. CASE UNCHANGED freeVars
  BY <1>1, <1>2, <1>11 DEF freeVars, promoVars
<1> QED BY <1>1, <1>5, <1>6, <1>7, <1>8, <1>9, <1>10, <1>11 DEF FreeNext

(* A gift's window is that of its claim. *)
LEMMA WonStep ==
  ASSUME FreeInv, FreeTypes', WonInv, [FreeNext]_freeVars PROVE WonInv'
<1>1. CASE IntentMoves
  <2>1. UNCHANGED won
    BY <1>1, SameMoves DEF FreeInv, claimVars
  <2>2. CASE Same
    <3>1. \A i \in Intents : /\ IntentDone(i)' <=> IntentDone(i)
                             /\ Who(i)' = Who(i)
                             /\ intent'[i].id = intent[i].id
                             /\ intent'[i].from = intent[i].from
      BY <2>2 DEF Same, IntentDone, Who
    <3> QED BY <2>1, <3>1 DEF WonInv
  <2>3. ASSUME NEW i \in Intents, NEW u, NEW kind, NEW after, ReservedRow(i, u, kind, after)
        PROVE  WonInv'
    <3>1. ~IntentDone(i) /\ ~IntentDone(i)'
      BY <2>3, ReservedIs DEF IntentDone, Some
    <3>2. \A j \in Intents \ {i} : intent'[j] = intent[j]
      BY <2>3, ReservedIs
    <3> QED BY <2>1, <3>1, <3>2 DEF WonInv, IntentDone, Who
  <2> QED BY <1>1, <2>2, <2>3, SameMoves DEF FreeInv, NewDaily, NewGift
<1>2. ASSUME NEW t \in Threads, Finalize(t) PROVE WonInv'
  <2>1. PICK i \in Intents, k \in KeyIds : i = work[t].intent /\ k = IdInHand(t)
    BY <1>2, FinalizeIs DEF FreeInv
  <2>2. /\ work[t].op = "commit" /\ Turns(i, "done") /\ k = intent[i].id
        /\ k.user \in Users /\ k.kind \in Kinds
        /\ k.kind = "daily" => won' = won
        /\ k.kind = "gift" =>
             /\ \A u \in Users \ {k.user} : won'[u] = won[u]
             /\ won'[k.user] = IF won[k.user] = Never THEN intent[i].from ELSE won[k.user]
    BY <1>2, <2>1, FinalizeIs DEF FreeInv
  <2>3. Open(i) /\ Some(i) /\ ~IntentDone(i)
    BY <2>1, <2>2, KeyInHand DEF FreeInv, Acts, Open
  <2>4. /\ IntentDone(i)' /\ Who(i)' = k.user /\ intent'[i].id = k
        /\ intent'[i].from = intent[i].from
        /\ \A j \in Intents \ {i} : intent'[j] = intent[j]
    BY <2>2 DEF Turns, IntentDone, Who
  <2>5. \A j \in Intents \ {i} : /\ IntentDone(j)' <=> IntentDone(j)
                                 /\ Who(j)' = Who(j)
                                 /\ Who(j) \in Users
    BY <2>4 DEF IntentDone, Who, FreeInv, FreeTypes, IntentRows, KeyIds
  <2>6. CASE k.kind = "daily"
    BY <2>2, <2>3, <2>4, <2>5, <2>6 DEF WonInv
  <2>7. CASE k.kind = "gift"
    <3>1. ASSUME NEW j \in Intents \ {i}, Some(j), intent[j].id.kind = "gift", Who(j) = k.user
          PROVE  FALSE
      <4>1. intent[j].id.after = Never /\ k.after = Never
        BY <2>2, <2>3, <2>7, <3>1 DEF FreeInv, ClaimInv
      <4>2. intent[j].id \in KeyIds
        BY DEF FreeInv, FreeTypes, IntentRows
      <4>3. intent[j].id = k
        BY <2>7, <3>1, <4>1, <4>2 DEF KeyIds, Who
      <4> QED BY <2>2, <2>3, <3>1, <4>3 DEF FreeInv, ClaimInv
    <3>2. won[k.user] = Never
      BY <2>2, <2>3, <3>1 DEF WonInv, IntentDone, Some
    <3>3. won'[k.user] = intent[i].from
      BY <2>2, <2>7, <3>2
    <3>4. ASSUME NEW j \in Intents, IntentDone(j)', intent'[j].id.kind = "gift"
          PROVE  won'[Who(j)'] = intent'[j].from
      <4>1. CASE j = i
        BY <2>4, <3>3, <4>1
      <4>2. CASE j # i
        <5>1. IntentDone(j) /\ Some(j) /\ intent[j].id.kind = "gift" /\ intent'[j] = intent[j]
          BY <2>4, <2>5, <3>4, <4>2 DEF IntentDone, Some
        <5>2. Who(j) # k.user
          BY <3>1, <4>2, <5>1
        <5> QED BY <2>2, <2>5, <2>7, <4>2, <5>1, <5>2 DEF WonInv
      <4> QED BY <4>1, <4>2
    <3>5. ASSUME NEW u \in Users, won'[u] # Never
          PROVE  \E j \in Intents : IntentDone(j)' /\ intent'[j].id.kind = "gift" /\ Who(j)' = u
      <4>1. CASE u = k.user
        BY <2>4, <2>7, <4>1
      <4>2. CASE u # k.user
        <5>1. PICK j \in Intents : IntentDone(j) /\ intent[j].id.kind = "gift" /\ Who(j) = u
          BY <2>2, <2>7, <3>5, <4>2 DEF WonInv
        <5>2. j # i
          BY <2>3, <5>1
        <5> QED BY <2>4, <2>5, <5>1, <5>2
      <4> QED BY <4>1, <4>2
    <3> QED BY <3>4, <3>5 DEF WonInv
  <2> QED BY <2>2, <2>6, <2>7 DEF Kinds
<1> QED BY <1>1, <1>2, StepMoves DEF FreeInv

(* An intent that failed is set apart for good. *)
LEMMA FailedStep ==
  ASSUME FreeInv, FreeTypes', [FreeNext]_freeVars,
         \A i \in Intents : intent[i].status = "failed" => i \in wobbled
  PROVE  /\ wobbled \subseteq wobbled'
         /\ \A i \in Intents : intent'[i].status = "failed" => i \in wobbled'
<1>1. CASE Quiet
  BY <1>1 DEF Quiet
<1>2. ASSUME NEW i \in Intents, Resumed(i)
      PROVE  /\ wobbled \subseteq wobbled'
             /\ \A j \in Intents : intent'[j].status = "failed" => j \in wobbled'
  BY <1>2 DEF Resumed, Turns
<1>3. ASSUME NEW u \in Users, NEW i \in Intents, NewDaily(u, i) \/ NewGift(u, i)
      PROVE  /\ wobbled \subseteq wobbled'
             /\ \A j \in Intents : intent'[j].status = "failed" => j \in wobbled'
  BY <1>3 DEF NewDaily, NewGift, ReservedRow
<1>4. ASSUME NEW t \in Threads, NEW i \in Intents, Taken(t, i)
      PROVE  /\ wobbled \subseteq wobbled'
             /\ \A j \in Intents : intent'[j].status = "failed" => j \in wobbled'
  BY <1>4 DEF Taken, Turns
<1>5. ASSUME NEW t \in Threads, CreateFails(t)
      PROVE  /\ wobbled \subseteq wobbled'
             /\ \A j \in Intents : intent'[j].status = "failed" => j \in wobbled'
  <2>1. Turns(work[t].intent, "failed") /\ wobbled' = wobbled \cup {work[t].intent}
    BY <1>5, CreateFailsIs DEF FreeInv
  <2> QED BY <2>1 DEF Turns
<1>6. ASSUME NEW t \in Threads, Finalize(t)
      PROVE  /\ wobbled \subseteq wobbled'
             /\ \A j \in Intents : intent'[j].status = "failed" => j \in wobbled'
  <2>1. Turns(work[t].intent, "done") /\ wobbled' = wobbled
    BY <1>6, FinalizeIs DEF FreeInv, Finalize
  <2> QED BY <2>1 DEF Turns
<1> QED BY <1>1, <1>2, <1>3, <1>4, <1>5, <1>6, StepMoves DEF IntentMoves, Failed, FreeInv

(* No claim takes a place it did not have, but a new one. *)
Falls == /\ \A kind \in Kinds : Takers(kind)' \ wobbled' \subseteq Takers(kind) \ wobbled
         /\ \A w \in Days : Winners(w)' \ wobbled' \subseteq Winners(w) \ wobbled

(* It is so when no intent comes to wait, and no finished one to be live. *)
LEMMA FallsBy ==
  ASSUME wobbled \subseteq wobbled',
         \A i \in Intents \ wobbled' :
           /\ intent'[i].status # "none" =>
                /\ intent[i].status # "none" /\ intent'[i].id = intent[i].id
                /\ intent'[i].from = intent[i].from
           /\ Waiting(i)' => Waiting(i)
           /\ IntentDone(i)' => Waiting(i) \/ IntentDone(i)
           /\ (IntentDone(i)' /\ freeKey'[intent[i].id].status = "active")
                => Waiting(i) \/ (IntentDone(i) /\ Live(intent[i].id))
  PROVE  Falls
<1>1. ASSUME NEW kind \in Kinds, NEW i \in Takers(kind)' \ wobbled'
      PROVE  i \in Takers(kind) \ wobbled
  <2>1. /\ i \in Intents \ wobbled' /\ intent'[i].status # "none" /\ intent'[i].id.kind = kind
        /\ Waiting(i)' \/ (IntentDone(i)' /\ freeKey'[intent'[i].id].status = "active")
    BY <1>1 DEF Takers, OfKind, Live
  <2>2. intent[i].status # "none" /\ intent'[i].id = intent[i].id
    BY <2>1
  <2>3. Waiting(i) \/ (IntentDone(i) /\ Live(intent[i].id))
    BY <2>1, <2>2
  <2> QED BY <2>1, <2>2, <2>3 DEF Takers, OfKind
<1>2. ASSUME NEW w \in Days, NEW i \in Winners(w)' \ wobbled'
      PROVE  i \in Winners(w) \ wobbled
  <2>1. /\ i \in Intents \ wobbled' /\ intent'[i].status # "none" /\ intent'[i].id.kind = "gift"
        /\ intent'[i].from = w /\ (Waiting(i)' \/ IntentDone(i)')
    BY <1>2 DEF Winners, OfKind
  <2> QED BY <2>1 DEF Winners, OfKind
<1> QED BY <1>1, <1>2 DEF Falls

(* Claims that stay what they are take no new place. *)
LEMMA SameFalls ==
  ASSUME FreeInv, SoldInv, FreeTypes', Same, RowsFall, wobbled \subseteq wobbled'
  PROVE  Falls
<1> SUFFICES ASSUME NEW i \in Intents \ wobbled'
             PROVE  /\ intent'[i].status # "none" =>
                         /\ intent[i].status # "none" /\ intent'[i].id = intent[i].id
                         /\ intent'[i].from = intent[i].from
                    /\ Waiting(i)' => Waiting(i)
                    /\ IntentDone(i)' => Waiting(i) \/ IntentDone(i)
                    /\ (IntentDone(i)' /\ freeKey'[intent[i].id].status = "active")
                         => Waiting(i) \/ (IntentDone(i) /\ Live(intent[i].id))
  BY FallsBy
<1>1. /\ intent'[i].id = intent[i].id /\ intent'[i].from = intent[i].from
      /\ intent'[i].status = "none" <=> intent[i].status = "none"
      /\ intent'[i].status = "done" <=> intent[i].status = "done"
  BY DEF Same
<1>2. /\ intent[i].status # "failed" /\ intent[i] \in IntentRows
  BY DEF SoldInv, FreeInv, FreeTypes
<1>3. Waiting(i)' => Waiting(i)
  BY <1>1, <1>2 DEF Waiting, IntentRows
<1>4. freeKey'[intent[i].id].status = "active" => Live(intent[i].id)
  BY <1>2 DEF RowsFall, Live, IntentRows
<1> QED BY <1>1, <1>3, <1>4 DEF IntentDone

(* A claim written down keeps the place it had while it waited. *)
LEMMA FinalizeFalls ==
  ASSUME FreeInv, SoldInv, FreeTypes', NEW t \in Threads, Finalize(t)
  PROVE  Falls
<1>1. PICK m \in Intents, k \in KeyIds : m = work[t].intent /\ k = IdInHand(t)
  BY FinalizeIs DEF FreeInv
<1>2. /\ work[t].op = "commit" /\ Turns(m, "done") /\ k = intent[m].id
      /\ \A q \in KeyIds \ {k} : freeKey'[q] = freeKey[q]
  BY <1>1, FinalizeIs DEF FreeInv
<1>3. intent[m].status = "running" /\ Some(m)
  BY <1>1, <1>2 DEF FreeInv, HeldInv, Acts, Some
<1>4. wobbled' = wobbled
  BY DEF Finalize
<1> SUFFICES ASSUME NEW i \in Intents \ wobbled'
             PROVE  /\ intent'[i].status # "none" =>
                         /\ intent[i].status # "none" /\ intent'[i].id = intent[i].id
                         /\ intent'[i].from = intent[i].from
                    /\ Waiting(i)' => Waiting(i)
                    /\ IntentDone(i)' => Waiting(i) \/ IntentDone(i)
                    /\ (IntentDone(i)' /\ freeKey'[intent[i].id].status = "active")
                         => Waiting(i) \/ (IntentDone(i) /\ Live(intent[i].id))
  BY <1>4, FallsBy
<1>5. CASE i = m
  BY <1>2, <1>3, <1>5 DEF Turns, Waiting, IntentDone
<1>6. CASE i # m
  <2>1. intent'[i] = intent[i]
    BY <1>2, <1>6 DEF Turns
  <2>2. IntentDone(i) => intent[i].id # k /\ intent[i].id \in KeyIds
    BY <1>2, <1>3, <1>6 DEF FreeInv, ClaimInv, FreeTypes, IntentRows, IntentDone, Some
  <2> QED BY <1>2, <2>1, <2>2 DEF Waiting, IntentDone, Live
<1> QED BY <1>5, <1>6

(* A new claim of a kind takes one place more; its place was free. *)
LEMMA OneMoreTaker ==
  ASSUME FreeInv, FreeTypes', SoldInv, NEW i \in Intents, NEW u, NEW kind \in Kinds, NEW after,
         ReservedRow(i, u, kind, after), UNCHANGED <<freeKey, wobbled, market>>, HasSlot(kind)
  PROVE  \A other \in Kinds : Cardinality(Takers(other)' \ wobbled') <= market'.slots
<1>1. /\ ~Some(i) /\ intent'[i].id = [user |-> u, kind |-> kind, after |-> after]
      /\ \A j \in Intents \ {i} : intent'[j] = intent[j]
  BY ReservedIs
<1>2. ASSUME NEW other \in Kinds, NEW j \in Takers(other)', j # i PROVE j \in Takers(other)
  <2>1. intent'[j] = intent[j] /\ j \in Intents
    BY <1>1, <1>2 DEF Takers, OfKind
  <2> QED BY <1>2, <2>1 DEF Takers, OfKind, Waiting, IntentDone, Live
<1>3. \A other \in Kinds : Takers(other) \subseteq Intents /\ Takers(other)' \subseteq Intents
  BY DEF Takers, OfKind
<1>4. ASSUME NEW other \in Kinds, other # kind
      PROVE  Cardinality(Takers(other)' \ wobbled') <= market'.slots
  <2>1. i \notin Takers(other)'
    BY <1>1, <1>4 DEF Takers, OfKind
  <2>2. Takers(other)' \ wobbled' \subseteq Takers(other) \ wobbled
    BY <1>2, <2>1
  <2>3. /\ Cardinality(Takers(other)' \ wobbled') <= Cardinality(Takers(other) \ wobbled)
        /\ Cardinality(Takers(other)' \ wobbled') \in Nat
        /\ Cardinality(Takers(other) \ wobbled) \in Nat
    BY <1>3, <2>2, IntentCounts
  <2>4. Cardinality(Takers(other) \ wobbled) <= market.slots /\ market.slots \in Nat
    BY MarketIs DEF SoldInv, FreeInv
  <2> QED BY <2>3, <2>4
<1>5. Cardinality(Takers(kind)' \ wobbled') <= market'.slots
  <2>1. Cardinality(Takers(kind)) < market.slots
    BY TakersCounted DEF HasSlot, FreeInv
  <2>2. Takers(kind)' \ wobbled' \subseteq Takers(kind) \cup {i}
    BY <1>2
  <2>3. Cardinality(Takers(kind)' \ wobbled') <= Cardinality(Takers(kind) \cup {i})
    BY <1>3, <2>2, IntentCounts
  <2>4. Cardinality(Takers(kind) \cup {i}) <= Cardinality(Takers(kind)) + 1
    BY <1>3, IntentCounts, FS_AddElement
  <2>5. /\ Cardinality(Takers(kind)' \ wobbled') \in Nat /\ Cardinality(Takers(kind)) \in Nat
        /\ Cardinality(Takers(kind) \cup {i}) \in Nat /\ market.slots \in Nat
    BY <1>3, IntentCounts, MarketIs DEF FreeInv
  <2> QED BY <2>1, <2>3, <2>4, <2>5
<1> QED BY <1>4, <1>5

(* A new gift takes one of its day more; it was left. *)
LEMMA OneMoreWinner ==
  ASSUME FreeInv, FreeTypes', SoldInv, WonInv, NEW i \in Intents, NEW u \in Users,
         NewGift(u, i)
  PROVE  \A w \in Days : Cardinality(Winners(w)' \ wobbled') <= promised'
<1>1. /\ ReservedRow(i, u, "gift", Never) /\ GiftsLeft
      /\ UNCHANGED <<wobbled, promised, promo>>
  BY DEF NewGift, promoVars
<1>2. /\ ~Some(i) /\ intent'[i].from = day
      /\ \A j \in Intents \ {i} : intent'[j] = intent[j]
  BY <1>1, ReservedIs
<1>3. ASSUME NEW w \in Days, NEW j \in Winners(w)', j # i PROVE j \in Winners(w)
  <2>1. intent'[j] = intent[j] /\ j \in Intents
    BY <1>2, <1>3 DEF Winners, OfKind
  <2> QED BY <1>3, <2>1 DEF Winners, OfKind, Waiting, IntentDone
<1>4. \A w \in Days : Winners(w) \subseteq Intents /\ Winners(w)' \subseteq Intents
  BY DEF Winners, OfKind
<1>5. promised \in Nat /\ promo.limit \in Nat /\ promo.limit <= promised
  BY FreeAssumption DEF FreeInv, FreeTypes, SoldInv
<1>6. ASSUME NEW w \in Days, w # day PROVE Cardinality(Winners(w)' \ wobbled') <= promised'
  <2>1. i \notin Winners(w)'
    BY <1>2, <1>6 DEF Winners, OfKind
  <2>2. Winners(w)' \ wobbled' \subseteq Winners(w) \ wobbled
    BY <1>1, <1>3, <2>1
  <2>3. /\ Cardinality(Winners(w)' \ wobbled') <= Cardinality(Winners(w) \ wobbled)
        /\ Cardinality(Winners(w)' \ wobbled') \in Nat
        /\ Cardinality(Winners(w) \ wobbled) \in Nat
    BY <1>4, <2>2, IntentCounts
  <2>4. Cardinality(Winners(w) \ wobbled) <= promised
    BY DEF SoldInv
  <2> QED BY <1>1, <1>5, <2>3, <2>4
<1>7. ASSUME NEW w \in Days, w = day PROVE Cardinality(Winners(w)' \ wobbled') <= promised'
  <2>1. Cardinality(Winners(w)) < promo.limit
    BY <1>1, <1>7, WinnersCounted DEF GiftsLeft, FreeInv
  <2>2. Winners(w)' \ wobbled' \subseteq Winners(w) \cup {i}
    BY <1>3
  <2>3. Cardinality(Winners(w)' \ wobbled') <= Cardinality(Winners(w) \cup {i})
    BY <1>4, <2>2, IntentCounts
  <2>4. Cardinality(Winners(w) \cup {i}) <= Cardinality(Winners(w)) + 1
    BY <1>4, IntentCounts, FS_AddElement
  <2>5. /\ Cardinality(Winners(w)' \ wobbled') \in Nat /\ Cardinality(Winners(w)) \in Nat
        /\ Cardinality(Winners(w) \cup {i}) \in Nat
    BY <1>4, IntentCounts
  <2> QED BY <1>1, <1>5, <2>1, <2>3, <2>4, <2>5
<1> QED BY <1>6, <1>7

(* Where no place is taken, nothing is sold twice. *)
LEMMA FallsKeep ==
  ASSUME FreeInv, SoldInv, FreeTypes', Falls, [FreeNext]_freeVars
  PROVE  SoldInv'
<1>1. /\ \A i \in Intents : intent'[i].status = "failed" => i \in wobbled'
  BY FailedStep DEF SoldInv
<1>2. promo'.limit <= promised' /\ promised <= promised' /\ promised \in Int /\ promised' \in Int
  BY PromoStep DEF SoldInv, FreeInv
<1>3. market' = market /\ market.slots \in Nat
  BY StepKeeps, MarketIs DEF FreeInv
<1>4. ASSUME NEW kind \in Kinds PROVE Cardinality(Takers(kind)' \ wobbled') <= market'.slots
  <2>1. Takers(kind) \subseteq Intents /\ Takers(kind)' \ wobbled' \subseteq Takers(kind) \ wobbled
    BY DEF Takers, OfKind, Falls
  <2>2. /\ Cardinality(Takers(kind)' \ wobbled') <= Cardinality(Takers(kind) \ wobbled)
        /\ Cardinality(Takers(kind)' \ wobbled') \in Nat
        /\ Cardinality(Takers(kind) \ wobbled) \in Nat
    BY <2>1, IntentCounts
  <2>3. Cardinality(Takers(kind) \ wobbled) <= market.slots
    BY DEF SoldInv
  <2> QED BY <1>3, <2>2, <2>3
<1>5. ASSUME NEW w \in Days PROVE Cardinality(Winners(w)' \ wobbled') <= promised'
  <2>1. Winners(w) \subseteq Intents /\ Winners(w)' \ wobbled' \subseteq Winners(w) \ wobbled
    BY DEF Winners, OfKind, Falls
  <2>2. /\ Cardinality(Winners(w)' \ wobbled') <= Cardinality(Winners(w) \ wobbled)
        /\ Cardinality(Winners(w)' \ wobbled') \in Nat
        /\ Cardinality(Winners(w) \ wobbled) \in Nat
    BY <2>1, IntentCounts
  <2>3. Cardinality(Winners(w) \ wobbled) <= promised
    BY DEF SoldInv
  <2> QED BY <1>2, <2>2, <2>3
<1> QED BY <1>1, <1>2, <1>4, <1>5 DEF SoldInv

(* Every step sells within the slots and the gifts promised. *)
LEMMA SoldStep ==
  ASSUME FreeInv, FreeTypes', SoldInv, WonInv, [FreeNext]_freeVars
  PROVE  SoldInv'
<1>1. wobbled \subseteq wobbled'
      /\ \A i \in Intents : intent'[i].status = "failed" => i \in wobbled'
  BY FailedStep DEF SoldInv
<1>2. CASE \E t \in Threads : Finalize(t)
  BY <1>2, FinalizeFalls, FallsKeep
<1>3. CASE RowsFall /\ Same
  BY <1>1, <1>3, SameFalls, FallsKeep
<1>4. ASSUME NEW u \in Users, NEW i \in Intents, NewDaily(u, i) PROVE SoldInv'
  <2>1. /\ ReservedRow(i, u, "daily", lastClaim[u]) /\ HasSlot("daily") /\ "daily" \in Kinds
        /\ UNCHANGED <<freeKey, wobbled, market, promo, promised>>
    BY <1>4 DEF NewDaily, keyVars, promoVars, worldVars, Kinds
  <2>2. \A kind \in Kinds : Cardinality(Takers(kind)' \ wobbled') <= market'.slots
    BY <2>1, OneMoreTaker
  <2>3. /\ intent'[i].id.kind = "daily" /\ \A j \in Intents \ {i} : intent'[j] = intent[j]
    BY <2>1 DEF ReservedRow
  <2>4. ASSUME NEW w \in Days PROVE Cardinality(Winners(w)' \ wobbled') <= promised'
    <3>1. Winners(w)' \subseteq Winners(w)
      BY <2>3 DEF Winners, OfKind, Waiting, IntentDone
    <3>2. Winners(w) \subseteq Winners(w)'
      BY <2>1, <2>3 DEF Winners, OfKind, Waiting, IntentDone, ReservedRow
    <3>3. Winners(w)' \ wobbled' = Winners(w) \ wobbled
      BY <2>1, <3>1, <3>2
    <3> QED BY <2>1, <3>3 DEF SoldInv
  <2> QED BY <1>1, <2>1, <2>2, <2>4 DEF SoldInv
<1>5. ASSUME NEW u \in Users, NEW i \in Intents, NewGift(u, i) PROVE SoldInv'
  <2>1. /\ ReservedRow(i, u, "gift", Never) /\ HasSlot("gift") /\ "gift" \in Kinds
        /\ UNCHANGED <<freeKey, wobbled, market, promo, promised>>
    BY <1>5 DEF NewGift, keyVars, promoVars, worldVars, Kinds
  <2>2. \A kind \in Kinds : Cardinality(Takers(kind)' \ wobbled') <= market'.slots
    BY <2>1, OneMoreTaker
  <2>3. \A w \in Days : Cardinality(Winners(w)' \ wobbled') <= promised'
    BY <1>5, OneMoreWinner
  <2> QED BY <1>1, <2>1, <2>2, <2>3 DEF SoldInv
<1> QED BY <1>2, <1>3, <1>4, <1>5, StepMoves, SameMoves DEF FreeInv

(* So it is in every state. *)
LEMMA SoldInvHolds == FreeSpec => [](FreeTypes /\ WonInv /\ SoldInv)
<1>1. FreeInit => WonInv /\ SoldInv
  <2> SUFFICES ASSUME FreeInit PROVE WonInv /\ SoldInv
    OBVIOUS
  <2>1. /\ \A i \in Intents : intent[i].status = "none"
        /\ \A u \in Users : won[u] = Never
    BY DEF FreeInit, NoIntent
  <2>2. WonInv
    BY <2>1 DEF WonInv, IntentDone
  <2>3. /\ \A kind \in Kinds : Takers(kind) \ wobbled = {}
        /\ \A w \in Days : Winners(w) \ wobbled = {}
    BY <2>1 DEF Takers, Winners, OfKind
  <2>4. FreeTypes /\ market.slots \in Nat /\ promised \in Nat /\ promo.limit = promised
    <3>1. FreeTypes
      BY FreeTypesInit
    <3>2. promo.limit = promised
      BY DEF FreeInit
    <3> QED BY <3>1, <3>2, MarketIs, FreeAssumption DEF FreeTypes
  <2>5. Cardinality({}) = 0
    BY FS_EmptySet
  <2>6. /\ \A kind \in Kinds : Cardinality(Takers(kind) \ wobbled) <= market.slots
        /\ \A w \in Days : Cardinality(Winners(w) \ wobbled) <= promised
    BY <2>3, <2>4, <2>5
  <2>7. promo.limit <= promised /\ \A i \in Intents : intent[i].status = "failed" => i \in wobbled
    BY <2>1, <2>4
  <2> QED BY <2>2, <2>6, <2>7 DEF SoldInv
<1>2. FreeInv /\ FreeInv' /\ WonInv /\ SoldInv /\ [FreeNext]_freeVars => WonInv' /\ SoldInv'
  BY WonStep, SoldStep DEF FreeInv
<1>3. FreeInv => FreeTypes
  BY DEF FreeInv
<1> QED BY <1>1, <1>2, <1>3, FreeInvHolds, PTL DEF FreeSpec

(* Two claims under way never take one slot of a tier, nor one gift of a window
   (NoOversell): reserve counts live keys and reservations in one transaction,
   and only a claim that failed, and gave its place up, comes back uncounted. *)
THEOREM NoOversellSafety == FreeSpec => []NoOversell
<1>1. FreeInv /\ WonInv /\ SoldInv => NoOversell
  <2> SUFFICES ASSUME FreeInv, WonInv, SoldInv PROVE NoOversell
    OBVIOUS
  <2>1. \A kind \in Kinds : OfKind(kind) \subseteq Intents
    BY DEF OfKind
  <2>2. ASSUME NEW kind \in Kinds
        PROVE  Cardinality({k \in KeyIds : k.kind = kind /\ Live(k)})
                 + Cardinality({i \in OfKind(kind) : Waiting(i)})
               <= market.slots + Cardinality(wobbled \cap OfKind(kind))
    <3> DEFINE A == Takers(kind) \ wobbled
               B == wobbled \cap OfKind(kind)
    <3>1. Takers(kind) \subseteq A \cup B /\ A \subseteq Intents /\ B \subseteq Intents
      BY <2>1 DEF Takers
    <3> HIDE DEF A, B
    <3>2. /\ Cardinality(Takers(kind)) <= Cardinality(A \cup B)
          /\ Cardinality(A \cup B) <= Cardinality(A) + Cardinality(B)
          /\ Cardinality(Takers(kind)) \in Nat /\ Cardinality(A \cup B) \in Nat
          /\ Cardinality(A) \in Nat /\ Cardinality(B) \in Nat
      BY <3>1, IntentCounts, UnionOfIntents
    <3>3. Cardinality(A) <= market.slots /\ market.slots \in Nat
      BY MarketIs DEF A, SoldInv, FreeInv
    <3>4. Cardinality(Takers(kind)) <= market.slots + Cardinality(B)
      BY <3>2, <3>3
    <3> QED BY <3>4, TakersCounted DEF B, FreeInv
  <2>3. ASSUME NEW w \in Days
        PROVE  Claimed(w) + Reserved(w) <= promised + Cardinality(wobbled \cap OfKind("gift"))
    <3> DEFINE A == Winners(w) \ wobbled
               B == wobbled \cap OfKind("gift")
    <3>1. Winners(w) \subseteq A \cup B /\ A \subseteq Intents /\ B \subseteq Intents
      BY <2>1 DEF Winners, Kinds
    <3> HIDE DEF A, B
    <3>2. /\ Cardinality(Winners(w)) <= Cardinality(A \cup B)
          /\ Cardinality(A \cup B) <= Cardinality(A) + Cardinality(B)
          /\ Cardinality(Winners(w)) \in Nat /\ Cardinality(A \cup B) \in Nat
          /\ Cardinality(A) \in Nat /\ Cardinality(B) \in Nat
      BY <3>1, IntentCounts, UnionOfIntents
    <3>3. Cardinality(A) <= promised /\ promised \in Nat
      BY FreeAssumption DEF A, SoldInv, FreeInv, FreeTypes
    <3>4. Cardinality(Winners(w)) <= promised + Cardinality(B)
      BY <3>2, <3>3
    <3> QED BY <3>4, WinnersCounted DEF B, FreeInv
  <2> QED BY <2>2, <2>3 DEF NoOversell
<1> QED BY <1>1, FreeInvHolds, SoldInvHolds, PTL

-----------------------------------------------------------------------------
(* Selling within the limits: the rows of the tables. *)
SaleStatuses == {"none", "awaiting", "submitted", "pending", "active", "ending", "over"}
SaleRows == [status : SaleStatuses, host : Hosts \cup {0}, plan : Plans \cup {"none"},
             lapsed : BOOLEAN, touched : BOOLEAN, blind : BOOLEAN]
GiftRows == [status : {"none", "reserved", "held", "over"}, host : Hosts \cup {0},
             blind : BOOLEAN]
HealthRows == [state : {"healthy", "degraded", "unreachable"}, ok : Nat, bad : Nat]

CapacityTypes ==
  /\ shop \in Shops /\ policy \in {shop.policy} \cup shop.later /\ fresh \subseteq Hosts
  /\ widest \in [usable : [Hosts -> Nat \cup {Unset}], slots : [Hosts -> [Plans -> Nat \cup {Unset}]]]
  /\ health \in [Hosts -> HealthRows] /\ counted \in [Hosts -> Nat]
  /\ probe \in [host : Hosts \cup {0}, keys : Nat]
  /\ sale \in [Sales -> SaleRows] /\ gift \in [Gifts -> GiftRows]

(* The policy in force is one the owner may set. *)
LEMMA PolicyTypes == CapacityTypes => Policy(policy)
BY CapacityAssumption DEF CapacityTypes

(* Orders and claims are finite in number: what is counted is a number. *)
LEMMA Counts ==
  ASSUME NEW A, NEW B, A \in SUBSET Sales \/ A \in SUBSET Gifts, B \subseteq A
  PROVE  /\ IsFiniteSet(A) /\ Cardinality(A) \in Nat /\ Cardinality(B) \in Nat
         /\ Cardinality(B) <= Cardinality(A)
BY FS_Subset, FS_CardinalityType, CapacityAssumption

(* How many keys a host holds is a number. *)
LEMMA KeysAtNat == ASSUME NEW h PROVE KeysAt(h) \in Nat
<1>1. SalesAt(h, {"active", "ending"}) \subseteq Sales /\ GiftsAt(h, {"held"}) \subseteq Gifts
  BY DEF SalesAt, GiftsAt
<1> QED BY <1>1, Counts DEF KeysAt

(* The types of the first state. *)
LEMMA CapacityTypesInit == CapacityInit => CapacityTypes
<1> SUFFICES ASSUME CapacityInit PROVE CapacityTypes
  OBVIOUS
<1>1. Policy(policy) /\ shop \in Shops /\ policy = shop.policy
  BY CapacityAssumption DEF CapacityInit
<1>2. widest \in [usable : [Hosts -> Nat \cup {Unset}], slots : [Hosts -> [Plans -> Nat \cup {Unset}]]]
  BY <1>1 DEF CapacityInit, Policy
<1>3. sale \in [Sales -> SaleRows] /\ gift \in [Gifts -> GiftRows]
  BY DEF CapacityInit, NoSale, NoGift, SaleRows, SaleStatuses, GiftRows
<1> QED BY <1>1, <1>2, <1>3 DEF CapacityInit, CapacityTypes, NoProbe, HealthRows

(* One order changes: to what, and that the others do not. *)
Sells(o, s, b) ==
  /\ sale' \in [Sales -> SaleRows] /\ \A q \in Sales \ {o} : sale'[q] = sale[q]
  /\ sale'[o].status = s /\ sale'[o].host = sale[o].host /\ sale'[o].plan = sale[o].plan
  /\ sale[o].lapsed => sale'[o].lapsed
  /\ sale'[o].blind = b

(* A payment is submitted for an order that waits for one. *)
LEMMA SubmitIs ==
  ASSUME CapacityTypes, NEW o \in Sales, SubmitPayment(o)
  PROVE  sale[o].status = "awaiting" /\ Sells(o, "submitted", sale[o].blind \/ sale[o].lapsed)
<1> DEFINE b == sale[o].blind \/ sale[o].lapsed
           r == [sale[o] EXCEPT !.status = "submitted", !.touched = TRUE, !.blind = b]
<1>1. sale \in [Sales -> SaleRows] /\ sale[o] \in SaleRows
  BY DEF CapacityTypes
<1>2. sale' = [sale EXCEPT ![o].status = "submitted", ![o].touched = TRUE, ![o].blind = b]
  BY DEF SubmitPayment
<1>3. sale' = [sale EXCEPT ![o] = r]
  BY <1>2
<1>4. b \in BOOLEAN
  OBVIOUS
<1> HIDE DEF b
<1>5. r \in SaleRows /\ r.status = "submitted" /\ r.host = sale[o].host
      /\ r.plan = sale[o].plan /\ r.lapsed = sale[o].lapsed /\ r.blind = b
  BY <1>1, <1>4 DEF SaleRows, SaleStatuses
<1> HIDE DEF r
<1>6. Sells(o, "submitted", b)
  BY <1>1, <1>3, <1>5 DEF Sells
<1> QED BY <1>6 DEF b, SubmitPayment

(* An order's status changes, and nothing else of it. *)
LEMMA SaleStatusIs ==
  ASSUME CapacityTypes, NEW o \in Sales, NEW s \in SaleStatuses,
         sale' = [sale EXCEPT ![o].status = s]
  PROVE  Sells(o, s, sale[o].blind)
BY DEF CapacityTypes, Sells, SaleRows

(* A hold that lapses, or an order looked at, keeps its status and its place. *)
LEMMA LapseIs ==
  ASSUME CapacityTypes, NEW o \in Sales,
         \/ sale' = [sale EXCEPT ![o].lapsed = TRUE]
         \/ sale' = [sale EXCEPT ![o].touched = TRUE]
  PROVE  Sells(o, sale[o].status, sale[o].blind)
<1>1. sale \in [Sales -> SaleRows] /\ sale[o] \in SaleRows
  BY DEF CapacityTypes
<1>2. CASE sale' = [sale EXCEPT ![o].lapsed = TRUE]
  BY <1>1, <1>2 DEF Sells, SaleRows
<1>3. CASE sale' = [sale EXCEPT ![o].touched = TRUE]
  BY <1>1, <1>3 DEF Sells, SaleRows
<1> QED BY <1>2, <1>3

(* An order is over and holds no place. *)
LEMMA OverIs ==
  ASSUME CapacityTypes, NEW o \in Sales, Over(o)
  PROVE  /\ sale' \in [Sales -> SaleRows] /\ \A q \in Sales \ {o} : sale'[q] = sale[q]
         /\ sale'[o].status = "over"
<1> DEFINE r == [NoSale EXCEPT !.status = "over"]
<1>1. r \in SaleRows /\ r.status = "over"
  BY DEF NoSale, SaleRows, SaleStatuses
<1> HIDE DEF r
<1>2. sale' = [sale EXCEPT ![o] = r]
  BY DEF Over, r
<1> QED BY <1>1, <1>2 DEF CapacityTypes

(* An order is opened on a host. *)
LEMMA OpenedIs ==
  ASSUME CapacityTypes, NEW o \in Sales, NEW h \in Hosts, NEW p \in Plans,
         sale' = [sale EXCEPT ![o] = Opened(h, p)]
  PROVE  /\ sale' \in [Sales -> SaleRows] /\ \A q \in Sales \ {o} : sale'[q] = sale[q]
         /\ sale'[o].status = "awaiting" /\ sale'[o].host = h /\ sale'[o].plan = p
         /\ sale'[o].blind = ~SeesAll(h)
<1> DEFINE b == ~SeesAll(h)
           r == Opened(h, p)
<1>1. b \in BOOLEAN
  OBVIOUS
<1>2. r = [NoSale EXCEPT !.status = "awaiting", !.host = h, !.plan = p, !.blind = b]
  BY DEF Opened
<1> HIDE DEF b, r
<1>3. r \in SaleRows /\ r.status = "awaiting" /\ r.host = h /\ r.plan = p /\ r.blind = b
  BY <1>1, <1>2 DEF NoSale, SaleRows, SaleStatuses
<1>4. sale' = [sale EXCEPT ![o] = r]
  BY DEF r
<1>5. sale' \in [Sales -> SaleRows] /\ sale'[o] = r /\ \A q \in Sales \ {o} : sale'[q] = sale[q]
  BY <1>3, <1>4 DEF CapacityTypes
<1> QED BY <1>3, <1>5 DEF b

(* One claim changes. *)
LEMMA ClaimIs ==
  ASSUME CapacityTypes, NEW g \in Gifts, NEW h \in Hosts, NEW b \in BOOLEAN,
         gift' = [gift EXCEPT ![g] = [status |-> "reserved", host |-> h, blind |-> b]]
  PROVE  /\ gift' \in [Gifts -> GiftRows] /\ \A q \in Gifts \ {g} : gift'[q] = gift[q]
         /\ gift'[g].status = "reserved" /\ gift'[g].host = h /\ gift'[g].blind = b
<1>1. [status |-> "reserved", host |-> h, blind |-> b] \in GiftRows
  BY DEF GiftRows
<1> QED BY <1>1 DEF CapacityTypes

(* The inventory's number goes up or down with it. *)
LEMMA CountedIs ==
  ASSUME CapacityTypes, NEW h,
         \/ counted' = [counted EXCEPT ![h] = counted[h] + 1]
         \/ counted' = [counted EXCEPT ![h] = IF counted[h] > 0 THEN counted[h] - 1 ELSE 0]
  PROVE  counted' \in [Hosts -> Nat]
<1>1. counted \in [Hosts -> Nat]
  BY DEF CapacityTypes
<1>2. CASE h \notin Hosts
  BY <1>1, <1>2
<1>3. CASE h \in Hosts
  <2>1. counted[h] \in Nat
    BY <1>1, <1>3
  <2>2. counted[h] + 1 \in Nat /\ (IF counted[h] > 0 THEN counted[h] - 1 ELSE 0) \in Nat
    BY <2>1
  <2>3. ASSUME NEW n \in Nat, counted' = [counted EXCEPT ![h] = n] PROVE counted' \in [Hosts -> Nat]
    BY <1>1, <2>3
  <2> QED BY <2>2, <2>3
<1> QED BY <1>2, <1>3

(* A free key is made where its place was reserved. *)
LEMMA FreeKeyMadeIs ==
  ASSUME CapacityTypes, NEW g \in Gifts, FreeKeyMade(g)
  PROVE  /\ gift' \in [Gifts -> GiftRows] /\ \A q \in Gifts \ {g} : gift'[q] = gift[q]
         /\ gift[g].status = "reserved" /\ gift'[g].status = "held"
         /\ gift'[g].host = gift[g].host /\ gift'[g].blind = gift[g].blind
         /\ counted' \in [Hosts -> Nat]
<1>1. counted' \in [Hosts -> Nat]
  BY CountedIs DEF FreeKeyMade
<1> QED BY <1>1 DEF FreeKeyMade, CapacityTypes, GiftRows

(* A free key that ends gives its place up. *)
LEMMA FreeKeyEndsIs ==
  ASSUME CapacityTypes, NEW g \in Gifts, FreeKeyEnds(g)
  PROVE  /\ gift' \in [Gifts -> GiftRows] /\ \A q \in Gifts \ {g} : gift'[q] = gift[q]
         /\ gift'[g].status = "over" /\ counted' \in [Hosts -> Nat]
<1> DEFINE r == [NoGift EXCEPT !.status = "over"]
<1>1. r \in GiftRows /\ r.status = "over"
  BY DEF NoGift, GiftRows
<1>2. gift' = [gift EXCEPT ![g] = r]
  BY DEF FreeKeyEnds
<1>3. counted' \in [Hosts -> Nat]
  BY CountedIs DEF FreeKeyEnds
<1> HIDE DEF r
<1> QED BY <1>1, <1>2, <1>3 DEF CapacityTypes

(* A host's health after one more listing. *)
LEMMA HealthRowsKept ==
  ASSUME NEW s \in HealthRows PROVE Healthier(s) \in HealthRows /\ Sicker(s) \in HealthRows
BY CapacityAssumption DEF HealthRows, Healthier, Sicker, AtMost

(* Every step keeps the types. *)
LEMMA CapacityTypesStep == CapacityTypes /\ [CapacityNext]_capacityVars => CapacityTypes'
<1> SUFFICES ASSUME CapacityTypes, [CapacityNext]_capacityVars PROVE CapacityTypes'
  OBVIOUS
<1> USE DEF policyVars, probeVars
<1>S. {"none", "awaiting", "submitted", "pending", "active", "ending", "over"} \subseteq SaleStatuses
  BY DEF SaleStatuses
<1>Q. ASSUME sale' \in [Sales -> SaleRows], UNCHANGED <<policyVars, probeVars, gift>>
      PROVE  CapacityTypes'
  BY <1>Q DEF CapacityTypes
<1>1. ASSUME NEW o \in Sales, NEW p \in Plans, CreateOrder(o, p) \/ ReplaceOpenOrder(o, p)
      PROVE  CapacityTypes'
  BY <1>1, <1>Q, OpenedIs DEF CreateOrder, ReplaceOpenOrder
<1>2. ASSUME NEW o \in Sales, SubmitPayment(o) PROVE CapacityTypes'
  BY <1>2, <1>Q, SubmitIs DEF SubmitPayment, Sells
<1>3. ASSUME NEW o \in Sales, UploadFails(o) \/ ReservationLapses(o) PROVE CapacityTypes'
  BY <1>3, <1>Q, LapseIs DEF UploadFails, ReservationLapses, Sells
<1>4. ASSUME NEW o \in Sales, CloseOrder(o) \/ RevokeKey(o) PROVE CapacityTypes'
  BY <1>4, <1>Q, OverIs DEF CloseOrder, RevokeKey
<1>5. ASSUME NEW o \in Sales, ApproveOrder(o) \/ Provision(o) PROVE CapacityTypes'
  BY <1>5, <1>Q, <1>S, SaleStatusIs DEF ApproveOrder, Provision, Sells
<1>6. ASSUME NEW o \in Sales, EndSubscription(o) PROVE CapacityTypes'
  BY <1>6, <1>Q, <1>S, SaleStatusIs, OverIs DEF EndSubscription, Sells
<1>7. CASE ExpireOpenOrders
  <2> DEFINE r == [NoSale EXCEPT !.status = "over"]
             due == {o \in Sales : sale[o].status = "awaiting" /\ sale[o].lapsed
                                   /\ ~sale[o].touched}
  <2>1. r \in SaleRows
    BY DEF NoSale, SaleRows, SaleStatuses
  <2>2. sale' = [o \in Sales |-> IF o \in due THEN r ELSE sale[o]]
    BY <1>7 DEF ExpireOpenOrders
  <2> HIDE DEF r, due
  <2>3. sale' \in [Sales -> SaleRows]
    BY <2>1, <2>2 DEF CapacityTypes
  <2> QED BY <1>7, <1>Q, <2>3 DEF ExpireOpenOrders
<1>8. ASSUME NEW g \in Gifts, ClaimPlace(g) PROVE CapacityTypes'
  <2>1. PICK h \in Hosts : gift' = [gift EXCEPT ![g] =
            [status |-> "reserved", host |-> h,
             blind |-> \/ counted[h] < KeysAt(h)
                       \/ ReservedAt(h) \cup SalesAt(h, {"pending"}) # {}]]
    BY <1>8 DEF ClaimPlace
  <2>2. gift' \in [Gifts -> GiftRows]
    BY <2>1, ClaimIs
  <2> QED BY <1>8, <2>2 DEF ClaimPlace, CapacityTypes
<1>9. ASSUME NEW g \in Gifts, FreeKeyMade(g) PROVE CapacityTypes'
  BY <1>9, FreeKeyMadeIs DEF FreeKeyMade, CapacityTypes
<1>10. ASSUME NEW g \in Gifts, FreeKeyEnds(g) PROVE CapacityTypes'
  BY <1>10, FreeKeyEndsIs DEF FreeKeyEnds, CapacityTypes
<1>11. ASSUME NEW h \in Hosts, RefreshInventory(h) PROVE CapacityTypes'
  BY <1>11, KeysAtNat DEF RefreshInventory, CapacityTypes
<1>12. ASSUME NEW h \in Hosts, InventoryDone(h) \/ InventoryFails(h) PROVE CapacityTypes'
  <2>1. health' \in [Hosts -> HealthRows]
    <3>1. \/ health' = [health EXCEPT ![h] = Healthier(@)]
          \/ health' = [health EXCEPT ![h] = Sicker(@)]
      BY <1>12 DEF InventoryDone, InventoryFails
    <3>2. health[h] \in HealthRows /\ health \in [Hosts -> HealthRows]
      BY DEF CapacityTypes
    <3> QED BY <3>1, <3>2, HealthRowsKept
  <2>2. counted' \in [Hosts -> Nat] /\ probe' \in [host : Hosts \cup {0}, keys : Nat]
    BY <1>12 DEF InventoryDone, InventoryFails, NoProbe, CapacityTypes
  <2> QED BY <1>12, <2>1, <2>2 DEF InventoryDone, InventoryFails, CapacityTypes
<1>13. ASSUME NEW h \in Hosts, InventoryAges(h) PROVE CapacityTypes'
  BY <1>13 DEF InventoryAges, CapacityTypes
<1>14. ASSUME NEW new \in shop.later, ApplyPolicy(new) PROVE CapacityTypes'
  <2>1. Policy(new)
    BY CapacityAssumption DEF CapacityTypes
  <2>2. /\ \A h \in Hosts :
             (IF Unset \in {widest.usable[h], new.usable[h]} THEN Unset
              ELSE Larger(widest.usable[h], new.usable[h])) \in Nat \cup {Unset}
        /\ \A h \in Hosts, p \in Plans :
             (IF widest.slots[h][p] = Unset THEN Unset
              ELSE Larger(widest.slots[h][p], new.slots[h][p])) \in Nat \cup {Unset}
    BY <2>1 DEF CapacityTypes, Policy, Larger
  <2>3. widest' \in [usable : [Hosts -> Nat \cup {Unset}], slots : [Hosts -> [Plans -> Nat \cup {Unset}]]]
    BY <1>14, <2>2 DEF ApplyPolicy
  <2> QED BY <1>14, <2>3 DEF ApplyPolicy, CapacityTypes
<1>15. CASE UNCHANGED capacityVars
  BY <1>15 DEF capacityVars, CapacityTypes
<1>16. shop.gifts \subseteq Gifts
  BY CapacityAssumption DEF CapacityTypes
<1> QED
  BY <1>1, <1>2, <1>3, <1>4, <1>5, <1>6, <1>7, <1>8, <1>9, <1>10, <1>11, <1>12, <1>13, <1>14,
     <1>15, <1>16
  DEF CapacityNext

(* The tables of sales and servers keep their types. *)
THEOREM CapacityTypesSafety == CapacitySpec => []CapacityTypeOK
<1>1. CapacityTypes => CapacityTypeOK
  BY DEF CapacityTypes, CapacityTypeOK, SaleRows, SaleStatuses, GiftRows, HealthRows
<1> QED BY <1>1, CapacityTypesInit, CapacityTypesStep, PTL DEF CapacitySpec

(* What the limits count: the places and keys admitted with open eyes, and the
   places of a plan. *)
Sold(h) == {o \in ReservedAt(h) \cup SalesAt(h, {"pending", "active", "ending"}) : ~sale[o].blind}
Given(h) == {g \in GiftsAt(h, {"reserved", "held"}) : ~gift[g].blind}
OnPlan(h, p) == {o \in TakenAt(h) : sale[o].plan = p /\ ~sale[o].lapsed}

Within == \A h \in Hosts :
  /\ widest.usable[h] # Unset =>
       Cardinality(Sold(h)) + Cardinality(Given(h)) <= widest.usable[h]
  /\ \A p \in Plans : widest.slots[h][p] # Unset => Cardinality(OnPlan(h, p)) <= widest.slots[h][p]

(* The widest limits are no less than those in force. *)
WidestInv == \A h \in Hosts :
  /\ widest.usable[h] # Unset =>
       policy.usable[h] # Unset /\ policy.usable[h] <= widest.usable[h]
  /\ \A p \in Plans : widest.slots[h][p] # Unset =>
       Slot(h, p) # Unset /\ Slot(h, p) <= widest.slots[h][p]

(* The sets that are counted are finite. *)
LEMMA CountedSets ==
  ASSUME NEW h, NEW p
  PROVE  Sold(h) \subseteq Sales /\ OnPlan(h, p) \subseteq Sales /\ Given(h) \subseteq Gifts
BY DEF Sold, Given, OnPlan, TakenAt, ReservedAt, SalesAt, GiftsAt

(* Where nothing is added and no limit shrinks, the limits are kept. *)
Eases(h) == /\ Sold(h)' \subseteq Sold(h) /\ Given(h)' \subseteq Given(h)
            /\ \A p \in Plans : OnPlan(h, p)' \subseteq OnPlan(h, p)

(* A step that takes no place and narrows no limit keeps the count within it. *)
LEMMA EasesKeeps ==
  ASSUME CapacityTypes, Within, NEW h \in Hosts, Eases(h), UNCHANGED widest
  PROVE  /\ widest'.usable[h] # Unset =>
              Cardinality(Sold(h))' + Cardinality(Given(h))' <= widest'.usable[h]
         /\ \A p \in Plans : widest'.slots[h][p] # Unset =>
              Cardinality(OnPlan(h, p))' <= widest'.slots[h][p]
<1>2. /\ Cardinality(Sold(h))' <= Cardinality(Sold(h))
      /\ Cardinality(Given(h))' <= Cardinality(Given(h))
      /\ {Cardinality(Sold(h)), Cardinality(Given(h))} \subseteq Nat
      /\ {Cardinality(Sold(h))', Cardinality(Given(h))'} \subseteq Nat
  BY Counts, CountedSets DEF Eases
<1>3. ASSUME widest'.usable[h] # Unset
      PROVE  Cardinality(Sold(h))' + Cardinality(Given(h))' <= widest'.usable[h]
  <2>1. widest.usable[h] \in Nat
    BY <1>3 DEF CapacityTypes
  <2> QED BY <1>2, <1>3, <2>1 DEF Within
<1>4. ASSUME NEW p \in Plans, widest'.slots[h][p] # Unset
      PROVE  Cardinality(OnPlan(h, p))' <= widest'.slots[h][p]
  <2>1. widest.slots[h][p] \in Nat
    BY <1>4 DEF CapacityTypes
  <2>2. /\ Cardinality(OnPlan(h, p))' <= Cardinality(OnPlan(h, p))
        /\ {Cardinality(OnPlan(h, p)), Cardinality(OnPlan(h, p))'} \subseteq Nat
    BY Counts, CountedSets DEF Eases
  <2> QED BY <1>4, <2>1, <2>2 DEF Within
<1> QED BY <1>3, <1>4

(* One order going on, or over, adds nothing: it has its place already, or has
   lost it and is admitted blindly. *)
LEMMA SellsEases ==
  ASSUME CapacityTypes, NEW o \in Sales, NEW h \in Hosts, UNCHANGED gift,
         \A q \in Sales \ {o} : sale'[q] = sale[q],
         \/ sale'[o].status \in {"over"}
         \/ /\ sale'[o].host = sale[o].host /\ sale'[o].plan = sale[o].plan
            /\ sale[o].lapsed => sale'[o].lapsed
            /\ sale[o].blind => sale'[o].blind
            /\ \/ sale'[o].status = sale[o].status
               \/ /\ sale[o].status = "awaiting" /\ sale'[o].status = "submitted"
                  /\ sale[o].lapsed => sale'[o].blind
               \/ sale[o].status = "submitted" /\ sale'[o].status = "pending"
               \/ sale[o].status = "pending" /\ sale'[o].status = "active"
               \/ sale[o].status = "active" /\ sale'[o].status = "ending"
  PROVE  Eases(h)
<1>1. Given(h)' \subseteq Given(h)
  BY DEF Given, GiftsAt
<1>2. Sold(h)' \subseteq Sold(h)
  BY DEF Sold, ReservedAt, SalesAt
<1>3. ASSUME NEW p \in Plans PROVE OnPlan(h, p)' \subseteq OnPlan(h, p)
  BY DEF OnPlan, TakenAt, ReservedAt, SalesAt
<1> QED BY <1>1, <1>2, <1>3 DEF Eases

(* Two finite sets together count no more than each for itself. *)
LEMMA UnionCounts ==
  ASSUME NEW A, NEW B, IsFiniteSet(A), IsFiniteSet(B)
  PROVE  /\ IsFiniteSet(A \cup B) /\ Cardinality(A \cup B) \in Nat
         /\ Cardinality(A) \in Nat /\ Cardinality(B) \in Nat
         /\ Cardinality(A \cup B) <= Cardinality(A) + Cardinality(B)
<1>1. /\ IsFiniteSet(A \cup B)
      /\ Cardinality(A \cup B) = Cardinality(A) + Cardinality(B) - Cardinality(A \cap B)
  BY FS_Union
<1>2. IsFiniteSet(A \cap B)
  BY FS_Subset, A \cap B \subseteq A
<1>3. {Cardinality(A), Cardinality(B), Cardinality(A \cap B), Cardinality(A \cup B)} \subseteq Nat
  BY <1>1, <1>2, FS_CardinalityType
<1> QED BY <1>1, <1>3

(* One order or claim more is one place more at most. *)
LEMMA OneMoreCounts ==
  ASSUME NEW A, NEW x, IsFiniteSet(A)
  PROVE  /\ IsFiniteSet(A \cup {x}) /\ Cardinality(A \cup {x}) \in Nat
         /\ Cardinality(A) \in Nat /\ Cardinality(A \cup {x}) <= Cardinality(A) + 1
<1>1. IsFiniteSet({x}) /\ Cardinality({x}) = 1
  BY FS_Singleton
<1> QED BY <1>1, UnionCounts

(* An order opened on host h while o, if it was one, gives its place up. *)
LEMMA OpenedKeeps ==
  ASSUME CapacityTypes, WidestInv, Within, NEW o \in Sales, NEW h \in Hosts, NEW p \in Plans,
         NEW but \in {{}, {o}}, sale[o].status \in {"none", "awaiting"},
         but = {} => sale[o].status = "none",
         SelectServer(h, p, but), sale' = [sale EXCEPT ![o] = Opened(h, p)],
         UNCHANGED <<policyVars, probeVars, gift>>
  PROVE  Within'
<1>R. /\ sale' \in [Sales -> SaleRows] /\ \A q \in Sales \ {o} : sale'[q] = sale[q]
      /\ sale'[o].status = "awaiting" /\ sale'[o].host = h /\ sale'[o].plan = p
      /\ sale'[o].blind = ~SeesAll(h)
  BY OpenedIs
<1>U. gift' = gift /\ widest' = widest
  BY DEF policyVars
<1>G. ASSUME NEW k \in Hosts PROVE Given(k)' = Given(k)
  BY <1>U DEF Given, GiftsAt
<1>1. ASSUME NEW k \in Hosts, k # h PROVE Eases(k)
  <2>1. Sold(k)' \subseteq Sold(k)
    BY <1>R, <1>1 DEF Sold, ReservedAt, SalesAt
  <2>2. ASSUME NEW q \in Plans PROVE OnPlan(k, q)' \subseteq OnPlan(k, q)
    BY <1>R, <1>1 DEF OnPlan, TakenAt, ReservedAt, SalesAt
  <2> QED BY <1>G, <1>1, <2>1, <2>2 DEF Eases
<1>2. ASSUME widest'.usable[h] # Unset
      PROVE  Cardinality(Sold(h))' + Cardinality(Given(h))' <= widest'.usable[h]
  <2>0. /\ widest.usable[h] \in Nat /\ widest.usable[h] # Unset
        /\ policy.usable[h] # Unset /\ policy.usable[h] <= widest.usable[h]
    BY <1>2, <1>U DEF CapacityTypes, WidestInv
  <2>1. CASE ~SeesAll(h)
    <3>1. Sold(h)' \subseteq Sold(h)
      BY <1>R, <2>1 DEF Sold, ReservedAt, SalesAt
    <3>2. /\ Cardinality(Sold(h)') <= Cardinality(Sold(h))
          /\ {Cardinality(Sold(h)), Cardinality(Sold(h)'), Cardinality(Given(h))} \subseteq Nat
      BY <3>1, Counts, CountedSets
    <3>3. Cardinality(Sold(h)) + Cardinality(Given(h)) <= widest.usable[h]
      BY <2>0 DEF Within
    <3>4. widest.usable[h] \in Nat
      BY <2>0
    <3>5. Cardinality(Given(h)') = Cardinality(Given(h))
      BY <1>G
    <3> QED BY <1>U, <3>2, <3>3, <3>4, <3>5
  <2>2. CASE SeesAll(h)
    <3> DEFINE X == (ReservedAt(h) \cup SalesAt(h, {"pending"})) \ but
               Y == SalesAt(h, {"active", "ending"})
               G == GiftsAt(h, {"held"})
    <3>1. X \subseteq Sales /\ Y \subseteq Sales /\ G \subseteq Gifts
      BY DEF ReservedAt, SalesAt, GiftsAt
    <3>2. Sold(h)' \subseteq (X \cup Y) \cup {o}
      BY <1>R DEF Sold, ReservedAt, SalesAt
    <3>3. Given(h)' \subseteq G
      <4>1. GiftsAt(h, {"reserved"}) = {}
        BY <2>2 DEF SeesAll
      <4>2. Given(h) \subseteq G
        BY <4>1 DEF Given, GiftsAt
      <4> QED BY <1>G, <4>2
    <3>4. /\ counted[h] >= Cardinality(Y) + Cardinality(G)
          /\ counted[h] + Cardinality(X) < policy.usable[h]
      BY <2>0, <2>2 DEF SeesAll, KeysAt, SelectServer, Candidates, Demand, HasRoom
    <3>5. /\ counted[h] \in Nat /\ policy.usable[h] \in Nat /\ widest.usable[h] \in Nat
          /\ policy.usable[h] <= widest.usable[h]
      BY <2>0, PolicyTypes DEF CapacityTypes, Policy
    <3> HIDE DEF X, Y, G
    <3>6. IsFiniteSet(X) /\ IsFiniteSet(Y) /\ IsFiniteSet(G)
      BY <3>1, Counts
    <3>7. /\ IsFiniteSet((X \cup Y) \cup {o})
          /\ Cardinality((X \cup Y) \cup {o}) <= Cardinality(X) + Cardinality(Y) + 1
          /\ {Cardinality(X), Cardinality(Y), Cardinality((X \cup Y) \cup {o})} \subseteq Nat
      <4>1. /\ IsFiniteSet(X \cup Y) /\ Cardinality(X \cup Y) \in Nat
            /\ Cardinality(X) \in Nat /\ Cardinality(Y) \in Nat
            /\ Cardinality(X \cup Y) <= Cardinality(X) + Cardinality(Y)
        BY <3>6, UnionCounts
      <4>2. /\ IsFiniteSet((X \cup Y) \cup {o}) /\ Cardinality((X \cup Y) \cup {o}) \in Nat
            /\ Cardinality((X \cup Y) \cup {o}) <= Cardinality(X \cup Y) + 1
        BY <4>1, OneMoreCounts
      <4> QED BY <4>1, <4>2
    <3>8. /\ Cardinality(Sold(h)') <= Cardinality((X \cup Y) \cup {o})
          /\ Cardinality(Sold(h)') \in Nat
      BY <3>2, <3>7, FS_Subset, FS_CardinalityType
    <3>9. /\ Cardinality(Given(h)') <= Cardinality(G)
          /\ Cardinality(Given(h)') \in Nat /\ Cardinality(G) \in Nat
      BY <3>3, <3>6, FS_Subset, FS_CardinalityType
    <3> QED BY <1>U, <3>4, <3>5, <3>7, <3>8, <3>9
  <2> QED BY <2>1, <2>2
<1>3. ASSUME NEW q \in Plans, widest'.slots[h][q] # Unset
      PROVE  Cardinality(OnPlan(h, q))' <= widest'.slots[h][q]
  <2>0. /\ widest.slots[h][q] \in Nat /\ widest.slots[h][q] # Unset
        /\ Slot(h, q) # Unset /\ Slot(h, q) <= widest.slots[h][q] /\ Slot(h, q) \in Nat
    <3>1. widest.slots[h][q] \in Nat /\ widest.slots[h][q] # Unset
      BY <1>U, <1>3 DEF CapacityTypes
    <3>2. Slot(h, q) \in Nat \cup {Unset}
      BY PolicyTypes DEF Policy, Slot
    <3> QED BY <3>1, <3>2 DEF WidestInv
  <2>1. CASE q # p
    <3>1. OnPlan(h, q)' \subseteq OnPlan(h, q)
      BY <1>R, <2>1 DEF OnPlan, TakenAt, ReservedAt, SalesAt
    <3>2. /\ Cardinality(OnPlan(h, q)') <= Cardinality(OnPlan(h, q))
          /\ {Cardinality(OnPlan(h, q)'), Cardinality(OnPlan(h, q))} \subseteq Nat
      BY <3>1, Counts, CountedSets
    <3>3. Cardinality(OnPlan(h, q)) <= widest.slots[h][q]
      BY <2>0 DEF Within
    <3> QED BY <1>U, <2>0, <3>2, <3>3
  <2>2. CASE q = p
    <3> DEFINE Z == {s \in TakenAt(h) \ but : sale[s].plan = p}
    <3>1. Z \subseteq Sales
      BY DEF TakenAt, ReservedAt, SalesAt
    <3>2. OnPlan(h, p)' \subseteq Z \cup {o}
      BY <1>R DEF OnPlan, TakenAt, ReservedAt, SalesAt
    <3>3. Cardinality(Z) < Slot(h, p)
      BY <2>0, <2>2 DEF SelectServer, Candidates, FitsPlan, Allocated
    <3> HIDE DEF Z
    <3>4. /\ IsFiniteSet(Z \cup {o}) /\ Cardinality(Z \cup {o}) \in Nat
          /\ Cardinality(Z) \in Nat /\ Cardinality(Z \cup {o}) <= Cardinality(Z) + 1
      BY <3>1, Counts, OneMoreCounts
    <3>5. Cardinality(OnPlan(h, p)') <= Cardinality(Z \cup {o}) /\ Cardinality(OnPlan(h, p)') \in Nat
      BY <3>2, <3>4, FS_Subset, FS_CardinalityType
    <3> QED BY <1>U, <2>0, <2>2, <3>3, <3>4, <3>5
  <2> QED BY <2>1, <2>2
<1>4. ASSUME NEW k \in Hosts
      PROVE  /\ widest'.usable[k] # Unset =>
                  Cardinality(Sold(k))' + Cardinality(Given(k))' <= widest'.usable[k]
             /\ \A q \in Plans : widest'.slots[k][q] # Unset =>
                  Cardinality(OnPlan(k, q))' <= widest'.slots[k][q]
  <2>1. CASE k = h
    BY <1>2, <1>3, <2>1
  <2>2. CASE k # h
    BY <1>1, <1>U, <2>2, EasesKeeps
  <2> QED BY <2>1, <2>2
<1> QED BY <1>4 DEF Within

(* A claim takes a place that its selection sees, or is blind. *)
LEMMA ClaimKeeps ==
  ASSUME CapacityTypes, WidestInv, Within, NEW g \in Gifts, ClaimPlace(g)
  PROVE  Within'
<1> DEFINE Blind(h) == \/ counted[h] < KeysAt(h)
                       \/ ReservedAt(h) \cup SalesAt(h, {"pending"}) # {}
<1>1. PICK h \in Hosts :
        /\ HasRoom(h, counted[h] + Cardinality(GiftsAt(h, {"reserved"})))
        /\ gift' = [gift EXCEPT ![g] = [status |-> "reserved", host |-> h, blind |-> Blind(h)]]
  BY DEF ClaimPlace
<1> DEFINE b == Blind(h)
<1>2. b \in BOOLEAN /\ gift[g].status = "none"
  BY DEF ClaimPlace, NoGift
<1>3. gift' = [gift EXCEPT ![g] = [status |-> "reserved", host |-> h, blind |-> b]]
  BY <1>1
<1> HIDE DEF b
<1>R. /\ gift' \in [Gifts -> GiftRows] /\ \A q \in Gifts \ {g} : gift'[q] = gift[q]
      /\ gift'[g].status = "reserved" /\ gift'[g].host = h /\ gift'[g].blind = b
  BY <1>2, <1>3, ClaimIs
<1>U. sale' = sale /\ widest' = widest
  BY DEF ClaimPlace, policyVars
<1>G. ASSUME NEW k \in Hosts PROVE Sold(k)' = Sold(k) /\ \A p \in Plans : OnPlan(k, p)' = OnPlan(k, p)
  BY <1>U DEF Sold, OnPlan, TakenAt, ReservedAt, SalesAt
<1>4. ASSUME NEW k \in Hosts, k # h \/ b PROVE Eases(k)
  <2>1. Given(k)' \subseteq Given(k)
    BY <1>R, <1>4 DEF Given, GiftsAt
  <2> QED BY <1>G, <2>1 DEF Eases
<1>5. ASSUME ~b, widest'.usable[h] # Unset
      PROVE  Cardinality(Sold(h))' + Cardinality(Given(h))' <= widest'.usable[h]
  <2>0. /\ widest.usable[h] \in Nat /\ policy.usable[h] # Unset
        /\ policy.usable[h] <= widest.usable[h]
    BY <1>5, <1>U DEF CapacityTypes, WidestInv
  <2> DEFINE Y == SalesAt(h, {"active", "ending"})
             X == GiftsAt(h, {"reserved"})
             G == GiftsAt(h, {"held"})
  <2>1. X \subseteq Gifts /\ G \subseteq Gifts /\ Y \subseteq Sales
    BY DEF SalesAt, GiftsAt
  <2>2. Given(h)' \subseteq (X \cup G) \cup {g}
    BY <1>R DEF Given, GiftsAt
  <2>3. Sold(h)' \subseteq Y
    <3>1. ReservedAt(h) \cup SalesAt(h, {"pending"}) = {}
      BY <1>5 DEF b
    <3>2. Sold(h) \subseteq Y
      BY <3>1 DEF Sold, SalesAt
    <3> QED BY <1>G, <3>2
  <2>4. counted[h] >= Cardinality(Y) + Cardinality(G) \/ ~(counted[h] >= KeysAt(h))
    BY DEF KeysAt
  <2>5. /\ counted[h] \in Nat /\ policy.usable[h] \in Nat /\ widest.usable[h] \in Nat
        /\ policy.usable[h] <= widest.usable[h] /\ KeysAt(h) \in Nat
    BY <2>0, PolicyTypes, KeysAtNat DEF CapacityTypes, Policy
  <2>6. counted[h] >= KeysAt(h)
    BY <1>5, <2>5 DEF b
  <2>7. counted[h] + Cardinality(X) < policy.usable[h]
    BY <1>1, <2>0 DEF HasRoom
  <2> HIDE DEF X, Y, G
  <2>8. IsFiniteSet(X) /\ IsFiniteSet(Y) /\ IsFiniteSet(G)
    BY <2>1, Counts
  <2>9. /\ IsFiniteSet((X \cup G) \cup {g})
        /\ Cardinality((X \cup G) \cup {g}) <= Cardinality(X) + Cardinality(G) + 1
        /\ {Cardinality(X), Cardinality(G), Cardinality((X \cup G) \cup {g})} \subseteq Nat
    <3>1. /\ IsFiniteSet(X \cup G) /\ Cardinality(X \cup G) \in Nat
          /\ Cardinality(X) \in Nat /\ Cardinality(G) \in Nat
          /\ Cardinality(X \cup G) <= Cardinality(X) + Cardinality(G)
      BY <2>8, UnionCounts
    <3>2. /\ IsFiniteSet((X \cup G) \cup {g}) /\ Cardinality((X \cup G) \cup {g}) \in Nat
          /\ Cardinality((X \cup G) \cup {g}) <= Cardinality(X \cup G) + 1
      BY <3>1, OneMoreCounts
    <3> QED BY <3>1, <3>2
  <2>10. /\ Cardinality(Given(h)') <= Cardinality((X \cup G) \cup {g})
         /\ Cardinality(Given(h)') \in Nat
    BY <2>2, <2>9, FS_Subset, FS_CardinalityType
  <2>11. /\ Cardinality(Sold(h)') <= Cardinality(Y)
         /\ Cardinality(Sold(h)') \in Nat /\ Cardinality(Y) \in Nat
    BY <2>3, <2>8, FS_Subset, FS_CardinalityType
  <2> QED BY <1>U, <2>4, <2>5, <2>6, <2>7, <2>9, <2>10, <2>11
<1>6. ASSUME NEW k \in Hosts
      PROVE  /\ widest'.usable[k] # Unset =>
                  Cardinality(Sold(k))' + Cardinality(Given(k))' <= widest'.usable[k]
             /\ \A q \in Plans : widest'.slots[k][q] # Unset =>
                  Cardinality(OnPlan(k, q))' <= widest'.slots[k][q]
  <2>1. CASE k # h \/ b
    BY <1>4, <1>U, <2>1, EasesKeeps
  <2>2. CASE k = h /\ ~b
    <3>1. widest'.usable[h] # Unset =>
            Cardinality(Sold(h))' + Cardinality(Given(h))' <= widest'.usable[h]
      BY <1>5, <2>2
    <3>2. \A q \in Plans : widest'.slots[h][q] # Unset =>
            Cardinality(OnPlan(h, q))' <= widest'.slots[h][q]
      BY <1>G, <1>U DEF Within
    <3> QED BY <2>2, <3>1, <3>2
  <2> QED BY <2>1, <2>2
<1> QED BY <1>6 DEF Within

(* The owner's new limits leave the widest no smaller. *)
LEMMA PolicyKeeps ==
  ASSUME CapacityTypes, WidestInv, Within, NEW new \in shop.later, ApplyPolicy(new)
  PROVE  Within' /\ WidestInv'
<1>1. Policy(new) /\ Policy(policy)
  BY CapacityAssumption DEF CapacityTypes
<1>2. ASSUME NEW h \in Hosts, widest'.usable[h] # Unset
      PROVE  /\ widest.usable[h] # Unset /\ new.usable[h] # Unset
             /\ widest'.usable[h] >= widest.usable[h] /\ widest'.usable[h] >= new.usable[h]
             /\ {widest'.usable[h], widest.usable[h]} \subseteq Nat
  BY <1>1, <1>2 DEF ApplyPolicy, CapacityTypes, Policy, Larger
<1>3. ASSUME NEW h \in Hosts, NEW p \in Plans, widest'.slots[h][p] # Unset
      PROVE  /\ widest.slots[h][p] # Unset /\ {widest.slots[h][p], widest'.slots[h][p]} \subseteq Nat
             /\ widest'.slots[h][p] >= widest.slots[h][p]
             /\ new.slots[h][p] # Unset /\ new.slots[h][p] <= widest'.slots[h][p]
  <2> DEFINE w == widest.slots[h][p]
             n == new.slots[h][p]
  <2>1. widest'.slots[h][p] = IF w = Unset THEN Unset ELSE Larger(w, n)
    BY DEF ApplyPolicy
  <2>2. w \in Nat \cup {Unset} /\ n \in Nat \cup {Unset}
    BY <1>1 DEF CapacityTypes, Policy
  <2>3. w # Unset
    BY <1>3, <2>1
  <2>4. n # Unset
    <3>1. Slot(h, p) # Unset
      BY <2>3 DEF WidestInv
    <3> QED BY <3>1 DEF ApplyPolicy
  <2> HIDE DEF w, n
  <2>5. w \in Nat /\ n \in Nat /\ widest'.slots[h][p] = Larger(w, n)
    BY <2>1, <2>2, <2>3, <2>4
  <2> QED BY <2>3, <2>4, <2>5 DEF Larger, w, n
<1>4. UNCHANGED <<sale, gift>> /\ policy' = new
  BY DEF ApplyPolicy
<1>5. ASSUME NEW h \in Hosts
      PROVE  /\ Sold(h)' = Sold(h) /\ Given(h)' = Given(h)
             /\ \A p \in Plans : OnPlan(h, p)' = OnPlan(h, p)
             /\ Cardinality(Sold(h)) \in Nat /\ Cardinality(Given(h)) \in Nat
             /\ \A p \in Plans : Cardinality(OnPlan(h, p)) \in Nat
  BY <1>4, Counts, CountedSets
  DEF Sold, Given, OnPlan, TakenAt, ReservedAt, SalesAt, GiftsAt
<1>6. WidestInv'
  BY <1>2, <1>3, <1>4 DEF WidestInv, Slot
<1>7. Within'
  <2>1. ASSUME NEW h \in Hosts, widest'.usable[h] # Unset
        PROVE  Cardinality(Sold(h))' + Cardinality(Given(h))' <= widest'.usable[h]
    <3>1. Cardinality(Sold(h)) + Cardinality(Given(h)) <= widest.usable[h]
      BY <1>2, <2>1 DEF Within
    <3>2. Cardinality(Sold(h))' = Cardinality(Sold(h)) /\ Cardinality(Given(h))' = Cardinality(Given(h))
      BY <1>5
    <3>3. Cardinality(Sold(h)) \in Nat /\ Cardinality(Given(h)) \in Nat
      BY <1>5
    <3> QED BY <1>2, <2>1, <3>1, <3>2, <3>3
  <2>2. ASSUME NEW h \in Hosts, NEW p \in Plans, widest'.slots[h][p] # Unset
        PROVE  Cardinality(OnPlan(h, p))' <= widest'.slots[h][p]
    <3>1. Cardinality(OnPlan(h, p)) <= widest.slots[h][p]
      BY <1>3, <2>2 DEF Within
    <3>2. Cardinality(OnPlan(h, p))' = Cardinality(OnPlan(h, p)) /\ Cardinality(OnPlan(h, p)) \in Nat
      BY <1>5
    <3> QED BY <1>3, <2>2, <3>1, <3>2
  <2> QED BY <2>1, <2>2 DEF Within
<1> QED BY <1>6, <1>7

(* Every step keeps the limits. *)
LEMMA WithinStep ==
  CapacityTypes /\ WidestInv /\ Within /\ [CapacityNext]_capacityVars => WidestInv' /\ Within'
<1> SUFFICES ASSUME CapacityTypes, WidestInv, Within, [CapacityNext]_capacityVars
             PROVE  WidestInv' /\ Within'
  OBVIOUS
<1> USE DEF policyVars, probeVars
<1>W. ASSUME UNCHANGED policyVars PROVE WidestInv'
  BY <1>W DEF WidestInv, Slot
<1>E. ASSUME UNCHANGED policyVars, \A h \in Hosts : Eases(h) PROVE WidestInv' /\ Within'
  BY <1>W, <1>E, EasesKeeps DEF Within
<1>C. ASSUME UNCHANGED <<policyVars, sale, gift>> PROVE WidestInv' /\ Within'
  <2>1. \A h \in Hosts : Eases(h)
    BY <1>C DEF Eases, Sold, Given, OnPlan, TakenAt, ReservedAt, SalesAt, GiftsAt
  <2> QED BY <1>C, <1>E, <2>1
<1>1. ASSUME NEW o \in Sales, NEW p \in Plans, CreateOrder(o, p) PROVE WidestInv' /\ Within'
  <2>1. sale[o].status = "none"
    BY <1>1 DEF CreateOrder, NoSale
  <2>2. PICK h \in Hosts : SelectServer(h, p, {}) /\ sale' = [sale EXCEPT ![o] = Opened(h, p)]
    BY <1>1 DEF CreateOrder
  <2>3. UNCHANGED <<policyVars, probeVars, gift>>
    BY <1>1 DEF CreateOrder
  <2>4. Within'
    BY <2>1, <2>2, <2>3, OpenedKeeps
  <2> QED BY <1>W, <2>3, <2>4
<1>2. ASSUME NEW o \in Sales, NEW p \in Plans, ReplaceOpenOrder(o, p) PROVE WidestInv' /\ Within'
  BY <1>2, <1>W, OpenedKeeps DEF ReplaceOpenOrder
<1>3. ASSUME NEW o \in Sales, SubmitPayment(o) PROVE WidestInv' /\ Within'
  <2>1. /\ UNCHANGED <<policyVars, gift>> /\ sale[o].status = "awaiting"
        /\ Sells(o, "submitted", sale[o].blind \/ sale[o].lapsed)
    BY <1>3, SubmitIs DEF SubmitPayment
  <2>2. /\ \A q \in Sales \ {o} : sale'[q] = sale[q]
        /\ sale'[o].host = sale[o].host /\ sale'[o].plan = sale[o].plan
        /\ sale[o].lapsed => sale'[o].lapsed
        /\ sale[o].blind => sale'[o].blind
        /\ sale'[o].status = "submitted" /\ (sale[o].lapsed => sale'[o].blind)
    BY <2>1 DEF Sells
  <2>3. \A h \in Hosts : Eases(h)
    BY <2>1, <2>2, SellsEases
  <2> QED BY <1>E, <2>1, <2>3
<1>4. ASSUME NEW o \in Sales, UploadFails(o) \/ ReservationLapses(o) PROVE WidestInv' /\ Within'
  BY <1>4, <1>E, LapseIs, SellsEases DEF UploadFails, ReservationLapses, Sells
<1>5. ASSUME NEW o \in Sales, CloseOrder(o) \/ RevokeKey(o) PROVE WidestInv' /\ Within'
  BY <1>5, <1>E, OverIs, SellsEases DEF CloseOrder, RevokeKey
<1>6. ASSUME NEW o \in Sales, ApproveOrder(o) \/ Provision(o) PROVE WidestInv' /\ Within'
  <2>1. {"pending", "active"} \subseteq SaleStatuses
    BY DEF SaleStatuses
  <2> QED BY <1>6, <1>E, <2>1, SaleStatusIs, SellsEases DEF ApproveOrder, Provision, Sells
<1>7. ASSUME NEW o \in Sales, EndSubscription(o) PROVE WidestInv' /\ Within'
  <2>1. "ending" \in SaleStatuses
    BY DEF SaleStatuses
  <2> QED BY <1>7, <1>E, <2>1, SaleStatusIs, OverIs, SellsEases DEF EndSubscription, Sells
<1>8. CASE ExpireOpenOrders
  <2>1. \A q \in Sales : sale'[q] = sale[q] \/ sale'[q].status = "over"
    BY <1>8 DEF ExpireOpenOrders, NoSale
  <2>2. UNCHANGED <<policyVars, gift>>
    BY <1>8 DEF ExpireOpenOrders
  <2>3. ASSUME NEW h \in Hosts PROVE Eases(h)
    BY <2>1, <2>2
    DEF Eases, Sold, Given, OnPlan, TakenAt, ReservedAt, SalesAt, GiftsAt
  <2> QED BY <1>E, <2>2, <2>3
<1>9. ASSUME NEW g \in Gifts, ClaimPlace(g) PROVE WidestInv' /\ Within'
  BY <1>9, <1>W, ClaimKeeps DEF ClaimPlace
<1>10. ASSUME NEW g \in Gifts, FreeKeyMade(g) \/ FreeKeyEnds(g) PROVE WidestInv' /\ Within'
  <2>1. UNCHANGED <<policyVars, sale>>
    BY <1>10 DEF FreeKeyMade, FreeKeyEnds
  <2>2. \A q \in Gifts : \/ gift'[q] = gift[q] \/ gift'[q].status = "over"
                         \/ /\ gift[q].status = "reserved" /\ gift'[q].status = "held"
                            /\ gift'[q].host = gift[q].host /\ gift'[q].blind = gift[q].blind
    BY <1>10, FreeKeyMadeIs, FreeKeyEndsIs
  <2>3. ASSUME NEW h \in Hosts PROVE Eases(h)
    BY <2>1, <2>2
    DEF Eases, Sold, Given, OnPlan, TakenAt, ReservedAt, SalesAt, GiftsAt
  <2> QED BY <1>E, <2>1, <2>3
<1>11. ASSUME NEW h \in Hosts, \/ RefreshInventory(h) \/ InventoryDone(h) \/ InventoryFails(h)
                               \/ InventoryAges(h)
       PROVE  WidestInv' /\ Within'
  BY <1>11, <1>C DEF RefreshInventory, InventoryDone, InventoryFails, InventoryAges
<1>12. ASSUME NEW new \in shop.later, ApplyPolicy(new) PROVE WidestInv' /\ Within'
  BY <1>12, PolicyKeeps
<1>13. CASE UNCHANGED capacityVars
  BY <1>13, <1>C DEF capacityVars
<1>14. shop.gifts \subseteq Gifts
  BY CapacityAssumption DEF CapacityTypes
<1> QED
  BY <1>1, <1>2, <1>3, <1>4, <1>5, <1>6, <1>7, <1>8, <1>9, <1>10, <1>11, <1>12, <1>13, <1>14
  DEF CapacityNext

(* The servers hold what was sold on them: with any orders, claims, inventories
   and changes of policy, only those admitted blindly exceed the owner's limits. *)
THEOREM SoldWithinLimitsSafety == CapacitySpec => []SoldWithinLimits
<1>1. CapacityInit => WidestInv /\ Within
  <2> SUFFICES ASSUME CapacityInit PROVE WidestInv /\ Within
    OBVIOUS
  <2>1. CapacityTypes /\ Policy(policy) /\ widest.usable = policy.usable /\ widest.slots = policy.slots
    BY CapacityTypesInit, PolicyTypes DEF CapacityInit
  <2>2. \A h \in Hosts : /\ Sold(h) = {} /\ Given(h) = {}
                         /\ \A p \in Plans : OnPlan(h, p) = {}
    BY DEF CapacityInit, NoSale, NoGift, Sold, Given, OnPlan, TakenAt, ReservedAt, SalesAt,
           GiftsAt
  <2>3. Cardinality({}) = 0
    BY FS_EmptySet
  <2>4. WidestInv
    BY <2>1 DEF WidestInv, Policy, Slot
  <2>5. /\ \A h \in Hosts : widest.usable[h] # Unset => widest.usable[h] >= 0
        /\ \A h \in Hosts, p \in Plans : widest.slots[h][p] # Unset => widest.slots[h][p] >= 0
    BY <2>1 DEF CapacityTypes
  <2> QED BY <2>2, <2>3, <2>4, <2>5 DEF Within
<1>2. Within => SoldWithinLimits
  BY DEF Within, SoldWithinLimits, Sold, Given, OnPlan
<1> QED
  BY <1>1, <1>2, CapacityTypesInit, CapacityTypesStep, WithinStep, PTL DEF CapacitySpec
=============================================================================
