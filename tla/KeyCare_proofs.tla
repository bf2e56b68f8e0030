---------------------------- MODULE KeyCare_proofs ----------------------------
(***************************************************************************)
(* Proofs about KeyCare, for any servers, move ids, quota and number of    *)
(* crashes.                                                                *)
(*                                                                         *)
(* The order of ids carries the argument: a move is numbered after the key *)
(* it starts from, so the row only ever goes to a higher id and never      *)
(* comes back to a key it left.                                            *)
(***************************************************************************)
EXTENDS KeyCare, TLAPS

-----------------------------------------------------------------------------
(* Types *)

CareTypes == TypeOK /\ (hand.op = "move" => hand.move \in Moves)

(* Usage is unknown or within the quota. *)
LEMMA ReadingTypes ==
  ASSUME TypeOK, NEW i \in Ids
  PROVE  Reading(i) \subseteq Readings
BY DEF TypeOK, Reading, Readings

(* What is left to sell after a reading is part of the quota. *)
LEMMA BelievedTypes ==
  ASSUME TypeOK, NEW r \in Readings
  PROVE  /\ Believed(r) \in Readings
         /\ Believed(r) # Unknown /\ ~Exhausted(Believed(r)) =>
              key.quota - Believed(r) \in 0..Quota /\ key.quota - Believed(r) <= key.quota
<1>1. hand.used \in Readings /\ key.quota \in 0..Quota
  BY DEF TypeOK
<1>2. Believed(r) \in Readings
  BY <1>1, CareAssumption DEF Believed, Readings
<1> QED BY <1>1, <1>2, CareAssumption DEF Readings, Exhausted, Unknown

(* The initial state has the types. *)
LEMMA TypesInit == Init => CareTypes
<1> SUFFICES ASSUME Init PROVE CareTypes
  OBVIOUS
<1> USE CareAssumption DEF Init
<1>0. /\ sub \in {"active", "closed"} /\ due \in BOOLEAN /\ spent \in BOOLEAN
      /\ revoke \in {"none", "pending", "running", "done", "failed"}
      /\ active \subseteq Ids /\ empty \subseteq Servers /\ remote \subseteq Ids
      /\ issued \subseteq Ids /\ recorded \in 0..Quota /\ lost \subseteq Ids
      /\ crashes \in 0..MaxCrashes
  <2>1. /\ sub = "active" /\ due = FALSE /\ spent = FALSE /\ revoke = "none" /\ active = {0}
        /\ empty = {} /\ remote = {0} /\ issued = {0} /\ recorded = 0 /\ lost = {} /\ crashes = 0
    OBVIOUS
  <2>2. Quota \in Nat /\ MaxCrashes \in Nat
    OBVIOUS
  <2> HIDE DEF Init
  <2>3. sub \in {"active", "closed"} /\ due \in BOOLEAN /\ spent \in BOOLEAN
        /\ revoke \in {"none", "pending", "running", "done", "failed"}
    BY <2>1
  <2>4. active \subseteq Ids /\ empty \subseteq Servers /\ remote \subseteq Ids
        /\ issued \subseteq Ids /\ lost \subseteq Ids
    BY <2>1 DEF Ids
  <2>5. recorded \in 0..Quota /\ crashes \in 0..MaxCrashes
    BY <2>1, <2>2
  <2> QED BY <2>3, <2>4, <2>5
<1>1. 0 \in Ids /\ Home \in Servers /\ 0 \in 0..Quota /\ Quota \in 0..Quota /\ Unknown \in Readings
  BY DEF Ids, Readings
<1>2. key \in [status : {"active", "revoked"}, at : Servers, id : Ids, quota : 0..Quota]
  BY <1>1
<1>3. repair \in [Servers -> [status : RepairStatus, source : Ids, why : Reasons]]
  BY <1>1 DEF NoRepair, RepairStatus, Reasons
<1>4. move \in [Moves -> [status : MoveStatus, source : Ids, from : Servers,
                         to : Servers, quota : 0..Quota]]
  BY <1>1 DEF NoMove, MoveStatus
<1>5. missed \in [Ids -> 0..2] /\ limit \in [Ids -> 0..Quota] /\ traffic \in [Ids -> 0..Quota]
  BY <1>1
<1>6. /\ hand \in [op : {"idle", "revoke", "repair", "move"},
                 step : {"none", "delete", "deleted", "create", "commit"},
                 at : Servers, move : {0} \cup Moves, used : Readings, left : 0..Quota]
      /\ hand.op # "move"
  BY <1>1 DEF Idle
<1>7. listing \in [open : BOOLEAN, at : Servers, found : SUBSET Ids]
  BY <1>1 DEF NoListing
<1>8. sample \in [used : 0..Quota, age : {"recent", "old"}] /\ life \in [Servers -> {"active", "draining", "retired"}]
  BY <1>1
<1> HIDE DEF Init
<1> QED BY <1>0, <1>1, <1>2, <1>3, <1>4, <1>5, <1>6, <1>7, <1>8 DEF CareTypes, TypeOK

(* Recording a listing keeps the types. *)
LEMMA RecordTypes ==
  ASSUME TypeOK, NEW s \in Servers, NEW found \in SUBSET Ids, RecordListing(s, found)
  PROVE  /\ empty' \subseteq Servers /\ missed' \in [Ids -> 0..2]
         /\ repair' \in [Servers -> [status : RepairStatus, source : Ids, why : Reasons]]
         /\ sample' \in [used : 0..Quota, age : {"recent", "old"}]
         /\ recorded' \in 0..Quota
         /\ UNCHANGED <<sub, due, key, spent, revoke, move, active, life, remoteVars,
                        issued, lost, hand, crashes>>
<1> DEFINE i == key.id
           gone == Managed(s) /\ i \notin found
<1>1. i \in Ids /\ missed \in [Ids -> 0..2]
  BY DEF TypeOK
<1>2. PICK reading \in Reading(i), elapsed \in BOOLEAN :
        LET n == IF missed[i] = 0 THEN 1
                 ELSE IF elapsed THEN UpTo(missed[i], Required) ELSE missed[i]
        IN
        /\ empty' = IF found = {} THEN empty \cup {s} ELSE empty \ {s}
        /\ missed' = [k \in Ids |-> IF k \in found THEN 0
                                    ELSE IF gone /\ k = i THEN n ELSE missed[k]]
        /\ repair' = IF gone /\ elapsed /\ n >= Required
                     THEN Enqueued(s, reading) ELSE repair
        /\ IF Managed(s) /\ reading # Unknown
           THEN /\ sample' = [used |-> reading, age |-> "recent"]
                /\ recorded' = Noted(reading)
           ELSE UNCHANGED <<sample, recorded>>
        /\ UNCHANGED <<sub, due, key, spent, revoke, move, active, life, remoteVars,
                       issued, lost, hand, crashes>>
  BY DEF RecordListing
<1>3. reading \in Readings
  BY <1>1, <1>2, ReadingTypes
<1>4. empty' \subseteq Servers
  BY <1>2 DEF TypeOK
<1>5. missed' \in [Ids -> 0..2]
  <2> DEFINE n == IF missed[i] = 0 THEN 1
                  ELSE IF elapsed THEN UpTo(missed[i], Required) ELSE missed[i]
  <2>1. n \in 0..2
    BY <1>1 DEF UpTo, Required
  <2>2. missed' = [k \in Ids |-> IF k \in found THEN 0
                                 ELSE IF gone /\ k = i THEN n ELSE missed[k]]
    BY <1>2
  <2> HIDE DEF n
  <2> QED BY <1>1, <2>1, <2>2
<1>6. repair' \in [Servers -> [status : RepairStatus, source : Ids, why : Reasons]]
  <2>1. Enqueued(s, reading) \in
          [Servers -> [status : RepairStatus, source : Ids, why : Reasons]]
    <3>1. /\ Verdict(reading).status \in RepairStatus /\ Verdict(reading).why \in Reasons
      BY DEF Verdict, RepairStatus, Reasons
    <3> QED BY <1>1, <3>1 DEF Enqueued, TypeOK
  <2> QED BY <1>2, <2>1 DEF TypeOK
<1>7. sample' \in [used : 0..Quota, age : {"recent", "old"}] /\ recorded' \in 0..Quota
  <2>1. Noted(reading) \in Readings /\ (reading # Unknown => Noted(reading) \in 0..Quota)
    BY <1>3, CareAssumption DEF Noted, HigherOf, Readings, Unknown, TypeOK
  <2> QED BY <1>2, <1>3, <2>1 DEF TypeOK, Readings
<1> QED BY <1>2, <1>4, <1>5, <1>6, <1>7

(* The hand of the maintenance thread, idle, at the start of a job and further on. *)
Hands == [op : {"idle", "revoke", "repair", "move"},
          step : {"none", "delete", "deleted", "create", "commit"},
          at : Servers, move : {0} \cup Moves, used : Readings, left : 0..Quota]

(* The idle thread, and the thread as it takes up a revocation. *)
LEMMA IdleTypes ==
  /\ Idle \in Hands /\ Idle.op = "idle"
  /\ [Idle EXCEPT !.op = "revoke", !.step = "delete"] \in Hands
<1>1. Unknown \in Readings /\ 0 \in 0..Quota /\ Home \in Servers
  BY CareAssumption DEF Readings
<1> QED BY <1>1 DEF Idle, Hands

(* Going on to the next step keeps what the thread works on. *)
LEMMA HandStepTypes ==
  ASSUME NEW h \in Hands, NEW step \in {"delete", "deleted", "create", "commit"}, NEW left \in 0..Quota
  PROVE  /\ [h EXCEPT !.step = step] \in Hands
         /\ [h EXCEPT !.step = step].op = h.op /\ [h EXCEPT !.step = step].move = h.move
         /\ [h EXCEPT !.step = step, !.left = left] \in Hands
         /\ [h EXCEPT !.step = step, !.left = left].op = h.op
         /\ [h EXCEPT !.step = step, !.left = left].move = h.move
BY DEF Hands

(* A job row that only changes its status, or its status and reason. *)
MoveRows == [Moves -> [status : MoveStatus, source : Ids, from : Servers,
                       to : Servers, quota : 0..Quota]]
RepairRows == [Servers -> [status : RepairStatus, source : Ids, why : Reasons]]

LEMMA MoveRow ==
  ASSUME NEW rows \in MoveRows, NEW j, NEW status \in MoveStatus
  PROVE  [rows EXCEPT ![j].status = status] \in MoveRows
<1> DEFINE R == [status : MoveStatus, source : Ids, from : Servers, to : Servers, quota : 0..Quota]
<1>1. \A k \in Moves : rows[k] \in R /\ [rows[k] EXCEPT !.status = status] \in R
  BY DEF MoveRows
<1> HIDE DEF R
<1>2. rows \in [Moves -> R]
  BY DEF MoveRows, R
<1>3. [rows EXCEPT ![j].status = status] \in [Moves -> R]
  BY <1>1, <1>2
<1> QED BY <1>3 DEF MoveRows, R

(* A repair row keeps its types when its status and reason are written. *)
LEMMA RepairRow ==
  ASSUME NEW rows \in RepairRows, NEW s, NEW status \in RepairStatus, NEW why \in Reasons
  PROVE  [rows EXCEPT ![s].status = status, ![s].why = why] \in RepairRows
<1> DEFINE R == [status : RepairStatus, source : Ids, why : Reasons]
           half == [rows EXCEPT ![s].status = status]
<1>1. \A r \in R : [r EXCEPT !.status = status] \in R /\ [r EXCEPT !.why = why] \in R
  OBVIOUS
<1> HIDE DEF R
<1>2. rows \in [Servers -> R]
  BY DEF RepairRows, R
<1>3. half \in [Servers -> R]
  BY <1>1, <1>2
<1>4. [half EXCEPT ![s].why = why] \in [Servers -> R]
  <2> HIDE DEF half
  <2> QED BY <1>1, <1>3
<1> QED BY <1>4 DEF RepairRows, R

(* The same for the status alone. *)
LEMMA RepairRowStatus ==
  ASSUME NEW rows \in RepairRows, NEW s, NEW status \in RepairStatus
  PROVE  [rows EXCEPT ![s].status = status] \in RepairRows
<1> DEFINE R == [status : RepairStatus, source : Ids, why : Reasons]
<1>1. \A r \in R : [r EXCEPT !.status = status] \in R
  OBVIOUS
<1> HIDE DEF R
<1> QED BY <1>1 DEF RepairRows, R

(* A step keeps the types. *)
LEMMA TypesStep == CareTypes /\ [Next]_vars => CareTypes'
<1> SUFFICES ASSUME CareTypes, [Next]_vars
             PROVE  CareTypes'
  OBVIOUS
<1>T. TypeOK /\ key.id \in Ids /\ Moves \subseteq Ids /\ 0 \in 0..Quota
  BY CareAssumption DEF CareTypes, TypeOK, Hands, MoveRows, RepairRows, Ids
<1>H. hand \in Hands /\ move \in MoveRows /\ repair \in RepairRows
  BY <1>T DEF TypeOK, Hands, MoveRows, RepairRows
<1> USE DEF entitlementVars, jobVars, ledgerVars, remoteVars, seenVars, runVars
<1>1. CASE UNCHANGED vars
  BY <1>T, <1>1 DEF vars, CareTypes, TypeOK, Hands, MoveRows, RepairRows
<1>2. CASE EnvNext
  <2>1. ASSUME NEW i \in Ids, Traffic(i) PROVE CareTypes'
    <3>0. /\ traffic \in [Ids -> 0..Quota] /\ limit[i] \in 0..Quota /\ traffic[i] \in 0..Quota
          /\ traffic[i] < limit[i] /\ traffic' = [traffic EXCEPT ![i] = @ + 1]
      BY <1>T, <2>1 DEF Traffic, TypeOK
    <3>9. traffic[i] + 1 \in 0..Quota
      BY <3>0, CareAssumption
    <3>1. traffic' \in [Ids -> 0..Quota]
      BY <3>0, <3>9
    <3> QED BY <3>1, <2>1 DEF Traffic, CareTypes, TypeOK, Hands, MoveRows, RepairRows
  <2>2. CASE Vanish
    <3>1. limit' \in [Ids -> 0..Quota] /\ remote' \subseteq Ids /\ lost' \subseteq Ids
      BY <1>T, <2>2 DEF Vanish, RemoteForgets, TypeOK
    <3> QED BY <3>1, <2>2 DEF Vanish, RemoteForgets, CareTypes, TypeOK, Hands, MoveRows, RepairRows
  <2>3. CASE BecomesDue
    BY <2>3 DEF BecomesDue, CareTypes, TypeOK, Hands, MoveRows, RepairRows
  <2>4. CASE SampleAges
    <3>1. sample' \in [used : 0..Quota, age : {"recent", "old"}]
      BY <2>4 DEF SampleAges, CareTypes, TypeOK, Hands, MoveRows, RepairRows
    <3> QED BY <3>1, <2>4 DEF SampleAges, CareTypes, TypeOK, Hands, MoveRows, RepairRows
  <2>5. CASE Crash
    <3>1. crashes' \in 0..MaxCrashes
      BY <2>5, CareAssumption DEF Crash, CareTypes, TypeOK, Hands, MoveRows, RepairRows
    <3>2. hand' = Idle /\ listing' = NoListing
      BY <2>5 DEF Crash
    <3>3. hand' \in Hands
          /\ listing' \in [open : BOOLEAN, at : Servers, found : SUBSET Ids] /\ hand'.op # "move"
      BY <1>T, <3>2, IdleTypes, CareAssumption DEF NoListing
    <3> QED BY <3>1, <3>3, <2>5 DEF Crash, CareTypes, TypeOK, Hands, MoveRows, RepairRows
  <2> QED BY <1>2, <2>1, <2>2, <2>3, <2>4, <2>5 DEF EnvNext
<1>3. CASE BotNext
  <2>1. ASSUME NEW s \in Servers, BotLists(s) PROVE CareTypes'
    <3>1. listing' \in [open : BOOLEAN, at : Servers, found : SUBSET Ids]
      BY <1>T, <2>1 DEF BotLists, OnServer, TypeOK
    <3> QED BY <3>1, <2>1 DEF BotLists, CareTypes, TypeOK, Hands, MoveRows, RepairRows
  <2>2. CASE BotRecords
    <3>1. listing.at \in Servers /\ listing.found \in SUBSET Ids /\ RecordListing(listing.at, listing.found)
      BY <1>T, <2>2 DEF BotRecords, TypeOK
    <3>2. listing' \in [open : BOOLEAN, at : Servers, found : SUBSET Ids]
      BY <2>2, CareAssumption DEF BotRecords, NoListing
    <3>3. TypeOK'
      BY <1>T, <3>1, <3>2, RecordTypes DEF TypeOK
    <3> QED BY <1>T, <3>1, <3>3, RecordTypes DEF CareTypes
  <2>3. CASE Refund
    BY <2>3 DEF Refund, CareTypes, TypeOK, Hands, MoveRows, RepairRows
  <2>4. CASE RetryRevoke
    BY <2>4 DEF RetryRevoke, CareTypes, TypeOK, Hands, MoveRows, RepairRows
  <2>5. ASSUME NEW j \in Moves, NEW s \in Servers, QueueMove(j, s) PROVE CareTypes'
    <3>1. move' \in MoveRows
      <4>1. [status |-> "pending", source |-> key.id, from |-> key.at, to |-> s, quota |-> key.quota]
              \in [status : MoveStatus, source : Ids, from : Servers, to : Servers, quota : 0..Quota]
        BY <1>T DEF TypeOK, MoveStatus
      <4>2. move' = [move EXCEPT ![j] = [status |-> "pending", source |-> key.id, from |-> key.at,
                                         to |-> s, quota |-> key.quota]]
        BY <2>5 DEF QueueMove
      <4> DEFINE R == [status : MoveStatus, source : Ids, from : Servers, to : Servers, quota : 0..Quota]
      <4>3. move \in [Moves -> R]
        BY <1>H DEF MoveRows
      <4> HIDE DEF R
      <4>4. move' \in [Moves -> R]
        BY <4>1, <4>2, <4>3 DEF R
      <4> QED BY <4>4 DEF MoveRows, R
    <3> QED BY <3>1, <2>5 DEF QueueMove, CareTypes, TypeOK, Hands, MoveRows, RepairRows
  <2>6. ASSUME NEW s \in Servers, NEW state \in Lifecycles, SetLifecycle(s, state) PROVE CareTypes'
    <3>1. life' \in [Servers -> {"active", "draining", "retired"}]
      BY <1>T, <2>6, CareAssumption DEF SetLifecycle, TypeOK
    <3> QED BY <3>1, <2>6 DEF SetLifecycle, CareTypes, TypeOK, Hands, MoveRows, RepairRows
  <2>7. ASSUME NEW s \in Servers, ApproveRepair(s) PROVE CareTypes'
    <3>1. repair' \in RepairRows
      BY <1>H, <2>7, RepairRow, RepairRowStatus DEF ApproveRepair, RepairStatus, Reasons
    <3> QED BY <3>1, <2>7 DEF ApproveRepair, CareTypes, TypeOK, Hands, MoveRows, RepairRows
  <2> QED BY <1>3, <2>1, <2>2, <2>3, <2>4, <2>5, <2>6, <2>7 DEF BotNext
<1>4. CASE PassNext
  <2>1. ASSUME NEW s \in Servers, PassInventory(s) PROVE CareTypes'
    <3>1. OnServer(s) \in SUBSET Ids /\ RecordListing(s, OnServer(s))
      BY <1>T, <2>1 DEF PassInventory, OnServer, TypeOK
    <3>2. TypeOK'
      BY <1>T, <2>1, <3>1, RecordTypes DEF PassInventory, TypeOK
    <3> QED BY <1>T, <3>1, <3>2, RecordTypes DEF CareTypes
  <2>2. CASE Expire
    BY <2>2 DEF Expire, CareTypes, TypeOK, Hands, MoveRows, RepairRows
  <2>3. CASE EnforceQuota
    <3>1. PICK r \in Reading(key.id) :
            /\ sample' = [used |-> Counted(r), age |-> "recent"] /\ recorded' = Noted(Counted(r))
            /\ \/ spent' = TRUE /\ sub' = "closed" /\ revoke' = (IF revoke = "none" THEN "pending" ELSE revoke)
               \/ UNCHANGED <<spent, sub, revoke>>
      BY <2>3 DEF EnforceQuota
    <3>2. Counted(r) \in 0..Quota
      BY <1>T, <3>1, ReadingTypes DEF Counted, Readings
    <3>3. Noted(Counted(r)) \in 0..Quota
      BY <1>T, <3>2 DEF Noted, HigherOf, TypeOK
    <3>4. sample' \in [used : 0..Quota, age : {"recent", "old"}] /\ recorded' \in 0..Quota
      BY <3>1, <3>2, <3>3
    <3>5. sub' \in {"active", "closed"} /\ spent' \in BOOLEAN /\ revoke' \in {"none", "pending", "running", "done", "failed"}
      BY <1>T, <3>1 DEF TypeOK
    <3> QED BY <3>4, <3>5, <2>3 DEF EnforceQuota, CareTypes, TypeOK, Hands, MoveRows, RepairRows
  <2>4. CASE RevokeNext
    <3>1. CASE RevokeClaim
      <4>1. hand' = hand \/ (hand' = [Idle EXCEPT !.op = "revoke", !.step = "delete"] /\ hand'.op = "revoke")
        BY <3>1 DEF RevokeClaim, Idle
      <4>2. revoke' \in {"done", "running"}
        BY <3>1 DEF RevokeClaim
      <4> QED BY <1>T, <4>1, <4>2, <3>1, IdleTypes DEF RevokeClaim, CareTypes, TypeOK, Hands, MoveRows, RepairRows
    <3>2. CASE RevokeDeletes
      <4>1. limit' \in [Ids -> 0..Quota] /\ remote' \subseteq Ids
        BY <1>T, <3>2 DEF RevokeDeletes, RemoteForgets, TypeOK
      <4> QED BY <1>T, <4>1, <3>2, <1>H, HandStepTypes DEF RevokeDeletes, RemoteForgets, CareTypes, TypeOK, Hands, MoveRows, RepairRows
    <3>3. CASE RevokeFails
      BY <1>T, <3>3, IdleTypes DEF RevokeFails, CareTypes, TypeOK, Hands, MoveRows, RepairRows
    <3>4. CASE RevokeCommits
      <4>1. key' \in [status : {"active", "revoked"}, at : Servers, id : Ids, quota : 0..Quota]
        BY <1>T, <3>4 DEF RevokeCommits, TypeOK
      <4> QED BY <1>T, <4>1, <3>4, IdleTypes DEF RevokeCommits, CareTypes, TypeOK, Hands, MoveRows, RepairRows
    <3> QED BY <2>4, <3>1, <3>2, <3>3, <3>4 DEF RevokeNext
  <2>5. CASE RepairNext
    <3>1. ASSUME NEW s \in Servers, RepairClaim(s) PROVE CareTypes'
      <4>1. repair' \in RepairRows
        <5>1. \/ repair' = [repair EXCEPT ![s].status = "running"]
              \/ repair' = [repair EXCEPT ![s].status = "manual", ![s].why = "none"]
          BY <3>1 DEF RepairClaim, Parked
        <5>2. "running" \in RepairStatus /\ "manual" \in RepairStatus /\ "none" \in Reasons
          BY DEF RepairStatus, Reasons
        <5> QED BY <1>H, <5>1, <5>2, RepairRow, RepairRowStatus
      <4>2. \/ hand' = hand
            \/ \E used \in Readings :
                 hand' = [Idle EXCEPT !.op = "repair", !.step = "create", !.at = s, !.used = used]
        BY <1>T, <3>1 DEF RepairClaim, TypeOK, Readings
      <4>3. /\ hand' \in Hands
            /\ hand'.op = "move" => hand' = hand
        <5>1. \A used \in Readings :
                [Idle EXCEPT !.op = "repair", !.step = "create", !.at = s, !.used = used] \in Hands
                /\ [Idle EXCEPT !.op = "repair", !.step = "create", !.at = s, !.used = used].op = "repair"
          BY <1>T DEF Idle, Hands
        <5> QED BY <1>H, <4>2, <5>1
      <4> QED BY <1>T, <4>1, <4>3, <3>1 DEF RepairClaim, CareTypes, TypeOK, Hands, MoveRows, RepairRows
    <3>2. CASE RepairConverges
      <4>1. hand.at \in Servers
        BY <1>T DEF TypeOK
      <4>2. repair' \in RepairRows
        BY <1>H, <3>2, RepairRow, RepairRowStatus DEF RepairConverges, RepairStatus, Reasons
      <4>3. missed' \in [Ids -> 0..2]
        BY <1>T, <4>1, <3>2 DEF RepairConverges, TypeOK
      <4> QED BY <1>T, <4>2, <4>3, <3>2, IdleTypes DEF RepairConverges, CareTypes, TypeOK, Hands, MoveRows, RepairRows
    <3>3. CASE RepairParks
      <4>0. PICK why \in {"usage", "spent"} :
              repair' = [repair EXCEPT ![hand.at].status = "manual", ![hand.at].why = why]
        BY <3>3 DEF RepairParks, Parked
      <4>1. repair' \in RepairRows
        BY <1>H, <4>0, RepairRow DEF RepairStatus, Reasons
      <4> QED BY <1>T, <4>1, <3>3, IdleTypes DEF RepairParks, CareTypes, TypeOK, Hands, MoveRows, RepairRows
    <3>4. CASE RepairCreates
      <4>1. PICK r \in Reading(key.id) :
              /\ Believed(r) # Unknown /\ ~Exhausted(Believed(r))
              /\ hand' = [hand EXCEPT !.step = "commit", !.left = key.quota - Believed(r)]
              /\ limit' = [limit EXCEPT ![key.id] = key.quota - Believed(r)]
              /\ remote' = remote \cup {key.id} /\ traffic' = [traffic EXCEPT ![key.id] = 0]
        BY <3>4 DEF RepairCreates
      <4>2. key.quota - Believed(r) \in 0..Quota
        BY <1>T, <4>1, ReadingTypes, BelievedTypes
      <4>3. limit' \in [Ids -> 0..Quota] /\ traffic' \in [Ids -> 0..Quota] /\ remote' \subseteq Ids
        BY <1>T, <4>1, <4>2 DEF TypeOK
      <4>4. hand' \in Hands /\ hand'.op = hand.op /\ hand'.move = hand.move
        BY <1>H, <4>1, <4>2, HandStepTypes
      <4> QED BY <1>T, <4>3, <4>4, <3>4 DEF RepairCreates, Repairing, CareTypes, TypeOK, Hands, MoveRows, RepairRows
    <3>5. CASE RepairFails
      <4>0. PICK status \in {"failed", "manual"} :
              repair' = [repair EXCEPT ![hand.at].status = status, ![hand.at].why = "none"]
        BY <3>5 DEF RepairFails
      <4>1. repair' \in RepairRows
        BY <1>H, <4>0, RepairRow DEF RepairStatus, Reasons
      <4> QED BY <1>T, <4>1, <3>5, IdleTypes DEF RepairFails, CareTypes, TypeOK, Hands, MoveRows, RepairRows
    <3>6. CASE RepairCommits
      <4>1. repair' \in RepairRows
        BY <1>H, <3>6, RepairRow, RepairRowStatus DEF RepairCommits, RepairStatus, Reasons
      <4>2. key' \in [status : {"active", "revoked"}, at : Servers, id : Ids, quota : 0..Quota]
        BY <1>T, <3>6 DEF RepairCommits, TypeOK
      <4>3. missed' \in [Ids -> 0..2] /\ sample' \in [used : 0..Quota, age : {"recent", "old"}]
        BY <1>T, <3>6 DEF RepairCommits, TypeOK
      <4> QED BY <1>T, <4>1, <4>2, <4>3, <3>6, IdleTypes DEF RepairCommits, CareTypes, TypeOK, Hands, MoveRows, RepairRows
    <3> QED BY <2>5, <3>1, <3>2, <3>3, <3>4, <3>5, <3>6 DEF RepairNext
  <2>6. CASE MoveNext
    <3>M. hand.op = "move" => hand.move \in Moves
      BY DEF CareTypes
    <3>1. ASSUME NEW j \in Moves, MoveClaim(j) PROVE CareTypes'
      <4>1. move' \in MoveRows
        BY <1>H, <3>1, MoveRow DEF MoveClaim, MoveStatus
      <4>2. \E step \in {"delete", "create"} :
              hand' = [Idle EXCEPT !.op = "move", !.move = j, !.step = step]
        BY <3>1 DEF MoveClaim
      <4>3. /\ hand' \in Hands
            /\ hand'.move = j
        BY <1>T, <4>2, CareAssumption DEF Idle, Readings, Hands
      <4> QED BY <1>T, <4>1, <4>3, <3>1 DEF MoveClaim, CareTypes, TypeOK, Hands, MoveRows, RepairRows
    <3>2. CASE MoveCreates
      <4>1. PICK r \in Reading(Job.source) :
              /\ r # Unknown /\ r < Job.quota
              /\ hand' = [hand EXCEPT !.step = "commit", !.left = Job.quota - r]
              /\ limit' = [limit EXCEPT ![hand.move] = Job.quota - r]
        BY <3>2 DEF MoveCreates
      <4>2. hand.move \in Moves
        BY <3>2, <3>M DEF MoveCreates, Moving
      <4>3. Job.source \in Ids /\ Job.quota \in 0..Quota
        BY <1>T, <4>2 DEF Job, TypeOK
      <4>4. Job.quota - r \in 0..Quota
        BY <1>T, <4>1, <4>3, ReadingTypes, CareAssumption DEF Readings, Unknown
      <4>5. limit' \in [Ids -> 0..Quota]
        BY <1>T, <4>1, <4>4 DEF TypeOK
      <4>6. remote' \subseteq Ids
        BY <1>T, <4>2, <3>2 DEF TypeOK, MoveCreates
      <4>7. hand' \in Hands /\ hand'.op = hand.op /\ hand'.move = hand.move
        BY <1>H, <4>1, <4>4, HandStepTypes
      <4> QED BY <1>T, <4>5, <4>6, <4>7, <3>2 DEF MoveCreates, CareTypes, TypeOK, Hands, MoveRows, RepairRows
    <3>3. CASE MoveFails
      <4>0. PICK status \in {"pending", "failed"} : move' = [move EXCEPT ![hand.move].status = status]
        BY <3>3 DEF MoveFails
      <4>1. move' \in MoveRows
        BY <1>H, <4>0, MoveRow DEF MoveStatus
      <4> QED BY <1>T, <4>1, <3>3, IdleTypes DEF MoveFails, CareTypes, TypeOK, Hands, MoveRows, RepairRows
    <3>4. CASE Cutover
      <4>1. hand.move \in Moves
        BY <3>4, <3>M DEF Cutover, Moving
      <4>2. move' \in MoveRows
        BY <1>H, <3>4, MoveRow DEF Cutover, MoveStatus
      <4>3. Job.to \in Servers
        BY <1>T, <4>1 DEF Job, TypeOK
      <4>4. key' \in [status : {"active", "revoked"}, at : Servers, id : Ids, quota : 0..Quota]
        BY <1>T, <4>1, <4>3, <3>4 DEF Cutover, TypeOK
      <4>5. active' \subseteq Ids /\ issued' \subseteq Ids /\ recorded' \in 0..Quota
        BY <1>T, <4>1, <3>4 DEF Cutover, TypeOK
      <4>7. hand' \in Hands /\ hand'.op = hand.op /\ hand'.move = hand.move
        BY <1>H, <1>T, <3>4, HandStepTypes DEF Cutover
      <4> QED BY <1>T, <4>2, <4>4, <4>5, <4>7, <3>4 DEF Cutover, CareTypes, TypeOK, Hands, MoveRows, RepairRows
    <3>5. CASE MoveDeletes
      <4>1. limit' \in [Ids -> 0..Quota] /\ remote' \subseteq Ids
        BY <1>T, <3>5 DEF MoveDeletes, RemoteForgets, TypeOK
      <4> QED BY <1>T, <4>1, <3>5, <1>H, HandStepTypes DEF MoveDeletes, RemoteForgets, CareTypes, TypeOK, Hands, MoveRows, RepairRows
    <3>6. CASE MoveDeleteFails
      <4>0. PICK status \in {"source_delete_pending", "pending", "failed"} :
              move' = [move EXCEPT ![hand.move].status = status]
        BY <3>6 DEF MoveDeleteFails
      <4>1. move' \in MoveRows
        BY <1>H, <4>0, MoveRow DEF MoveStatus
      <4> QED BY <1>T, <4>1, <3>6, IdleTypes DEF MoveDeleteFails, CareTypes, TypeOK, Hands, MoveRows, RepairRows
    <3>7. CASE MoveCompletes
      <4>1. move' \in MoveRows
        BY <1>H, <3>7, MoveRow DEF MoveCompletes, MoveStatus
      <4> QED BY <1>T, <4>1, <3>7, IdleTypes DEF MoveCompletes, CareTypes, TypeOK, Hands, MoveRows, RepairRows
    <3> QED BY <2>6, <3>1, <3>2, <3>3, <3>4, <3>5, <3>6, <3>7 DEF MoveNext
  <2> QED BY <1>4, <2>1, <2>2, <2>3, <2>4, <2>5, <2>6 DEF PassNext
<1> QED BY <1>1, <1>2, <1>3, <1>4 DEF Next

(* Key care keeps its types, whatever the servers, the moves, the quota and the
   crashes. *)
THEOREM CareTypesSafety == Spec => []TypeOK
BY TypesInit, TypesStep, PTL DEF Spec, CareTypes

-----------------------------------------------------------------------------
(* Ending a key *)

(* A closed subscription has its revoke job, which is only done once the row
   is revoked; the registry follows the row. *)
RevokeInv ==
  /\ revoke = "done" => key.status = "revoked"
  /\ revoke = "none" <=> sub = "active"
  /\ key.status = "revoked" => sub = "closed"
  /\ hand.op = "revoke" => revoke = "running" /\ hand.step \in {"delete", "deleted"}
  /\ active = IF key.status = "active" THEN {key.id} ELSE {}

(* Nothing is revoked at first. *)
LEMMA RevokeInit == Init => RevokeInv
BY DEF Init, RevokeInv, Idle

(* Every step keeps the revoke job of an ended key. *)
LEMMA RevokeStep == CareTypes /\ RevokeInv /\ [Next]_vars => RevokeInv'
<1> SUFFICES ASSUME CareTypes, RevokeInv, [Next]_vars
             PROVE  RevokeInv'
  OBVIOUS
<1>T. /\ key \in [status : {"active", "revoked"}, at : Servers, id : Ids, quota : 0..Quota]
      /\ sub \in {"active", "closed"} /\ revoke \in {"none", "pending", "running", "done", "failed"}
      /\ hand \in Hands
  BY DEF CareTypes, TypeOK, Hands
<1> USE DEF RevokeInv, entitlementVars, jobVars, ledgerVars, remoteVars, seenVars, runVars
<1>1. CASE UNCHANGED <<sub, key, revoke, active, hand>>
  BY <1>1
<1>2. CASE Crash
  BY <1>2 DEF Crash, Idle
<1>3. CASE Refund \/ Expire
  BY <1>3, <1>T DEF Refund, Expire
<1>4. CASE RetryRevoke
  BY <1>4 DEF RetryRevoke
<1>5. CASE EnforceQuota
  BY <1>5, <1>T DEF EnforceQuota
<1>6. CASE RevokeClaim
  BY <1>6, <1>T DEF RevokeClaim, Idle, PassFree
<1>7. CASE RevokeDeletes
  BY <1>7, <1>T DEF RevokeDeletes, Hands
<1>8. CASE RevokeFails
  BY <1>8, <1>T DEF RevokeFails, Idle
<1>9. CASE RevokeCommits
  BY <1>9, <1>T DEF RevokeCommits, Idle
<1>10. ASSUME NEW s \in Servers, RepairClaim(s) PROVE RevokeInv'
  BY <1>10, <1>T DEF RepairClaim, Idle, PassFree
<1>11. CASE RepairConverges \/ RepairParks \/ RepairFails
  BY <1>11, <1>T DEF RepairConverges, RepairParks, RepairFails, Idle
<1>12. CASE RepairCreates
  BY <1>12, <1>T DEF RepairCreates, Repairing, Hands
<1>13. CASE RepairCommits
  BY <1>13, <1>T DEF RepairCommits, Idle
<1>14. ASSUME NEW j \in Moves, MoveClaim(j) PROVE RevokeInv'
  BY <1>14, <1>T DEF MoveClaim, Idle
<1>15. CASE MoveCreates
  BY <1>15, <1>T DEF MoveCreates, Moving, Hands
<1>16. CASE Cutover
  BY <1>16, <1>T DEF Cutover, Moving, Hands
<1>17. CASE MoveFails \/ MoveDeleteFails \/ MoveCompletes
  BY <1>17, <1>T DEF MoveFails, MoveDeleteFails, MoveCompletes, Idle
<1>18. CASE MoveDeletes
  BY <1>18, <1>T DEF MoveDeletes, Moving, Hands
<1>19. CASE EnvNext
  <2>1. Crash \/ UNCHANGED <<sub, key, revoke, active, hand>>
    BY <1>19 DEF EnvNext, Traffic, Vanish, BecomesDue, SampleAges
  <2> QED BY <1>1, <1>2, <2>1
<1>20. CASE BotNext
  <2>1. Refund \/ RetryRevoke \/ UNCHANGED <<sub, key, revoke, active, hand>>
    BY <1>20 DEF BotNext, BotLists, BotRecords, RecordListing, QueueMove, SetLifecycle, ApproveRepair
  <2> QED BY <1>1, <1>3, <1>4, <2>1
<1>21. ASSUME NEW s \in Servers, PassInventory(s) PROVE RevokeInv'
  BY <1>21, <1>1 DEF PassInventory, RecordListing
<1>22. CASE RevokeNext
  BY <1>22, <1>6, <1>7, <1>8, <1>9 DEF RevokeNext
<1>23. CASE RepairNext
  BY <1>23, <1>10, <1>11, <1>12, <1>13 DEF RepairNext
<1>24. CASE MoveNext
  BY <1>24, <1>14, <1>15, <1>16, <1>17, <1>18 DEF MoveNext
<1>25. CASE UNCHANGED vars
  BY <1>25, <1>1 DEF vars
<1> HIDE DEF RevokeInv
<1> QED
  BY <1>3, <1>5, <1>19, <1>20, <1>21, <1>22, <1>23, <1>24, <1>25 DEF Next, PassNext

(* Closed or exhausted, a key that is still live has its revoke job: only the
   row's own revocation settles it, whatever repair and move do to the key. *)
THEOREM EndedKeySafety == Spec => []EndedKeyIsBeingRevoked
<1>1. CareTypes /\ RevokeInv => EndedKeyIsBeingRevoked
  BY DEF CareTypes, TypeOK, RevokeInv, EndedKeyIsBeingRevoked
<1> QED BY <1>1, TypesInit, TypesStep, RevokeInit, RevokeStep, PTL DEF Spec

(* The registry names the row's key and nothing else, also between the steps of
   a repair, a move or a revocation and after a crash. *)
THEOREM RegistrySafety == Spec => []RegistryAgrees
<1>1. RevokeInv => RegistryAgrees
  BY DEF RevokeInv, RegistryAgrees
<1> QED BY <1>1, TypesInit, TypesStep, RevokeInit, RevokeStep, PTL DEF Spec

-----------------------------------------------------------------------------
(* Moves and repairs *)

(* The maintenance thread is at one of these steps of moving to id j. *)
InMove(j, steps) == hand.op = "move" /\ hand.move = j /\ hand.step \in steps

(* What a job row says of the others: moves are queued in the order of their
   ids, from a key that was given out and has a lower id. *)
Numbered ==
  \A j \in Moves : move[j].status # "none" =>
    /\ \A k \in Moves : k < j => move[k].status # "none"
    /\ move[j].source \in issued /\ move[j].source < j

(* The row's key was given out and lives where the row says; later ids were not
   given out. *)
RowIsNewest ==
  /\ key.id \in issued /\ key.at = ServerOf(key.id)
  /\ \A j \in Moves \cap issued : move[j].status # "none" /\ j <= key.id
  /\ \A j \in Moves : move[j].status \in {"source_delete_pending", "completed"} => j \in issued

(* What the maintenance thread holds agrees with the rows. *)
MoveInHand ==
  hand.op = "move" =>
    /\ hand.move \in Moves /\ hand.step \in {"create", "commit", "delete", "deleted"}
    /\ hand.step \in {"create", "commit"} => move[hand.move].status = "creating"
    /\ hand.step \in {"delete", "deleted"} =>
         hand.move \in issued /\ move[hand.move].status \in {"creating", "source_delete_pending"}
    /\ hand.step = "deleted" => move[hand.move].source \notin remote

RepairInHand ==
  hand.op = "repair" =>
    /\ key.status = "active" /\ key.at = hand.at /\ hand.step \in {"create", "commit"}
    /\ repair[hand.at].status = "running" /\ repair[hand.at].source = key.id

MoveInv == Numbered /\ RowIsNewest /\ MoveInHand

(* A job row that changes its status keeps the rest. *)
LEMMA MovedRow ==
  ASSUME CareTypes, NEW j \in Moves, NEW status, move' = [move EXCEPT ![j].status = status]
  PROVE  \A k \in Moves :
           /\ move'[k].status = IF k = j THEN status ELSE move[k].status
           /\ move'[k].source = move[k].source /\ move'[k].from = move[k].from
           /\ move'[k].to = move[k].to /\ move'[k].quota = move[k].quota
<1> DEFINE R == [status : MoveStatus, source : Ids, from : Servers, to : Servers, quota : 0..Quota]
<1>1. \A r \in R : LET q == [r EXCEPT !.status = status]
                   IN  /\ q.status = status /\ q.source = r.source /\ q.from = r.from
                       /\ q.to = r.to /\ q.quota = r.quota
  OBVIOUS
<1>2. move \in [Moves -> R]
  BY DEF CareTypes, TypeOK
<1> HIDE DEF R
<1>3. \A k \in Moves : move'[k] = IF k = j THEN [move[k] EXCEPT !.status = status] ELSE move[k]
  BY <1>2
<1> QED BY <1>1, <1>2, <1>3

(* A queued row, and the others, which it leaves alone. *)
LEMMA QueuedRow ==
  ASSUME CareTypes, NEW j \in Moves, NEW s \in Servers, QueueMove(j, s)
  PROVE  /\ \A k \in Moves \ {j} : move'[k] = move[k]
         /\ move'[j].status = "pending" /\ move'[j].source = key.id
         /\ move'[j].from = key.at /\ move'[j].to = s /\ move'[j].quota = key.quota
<1>1. move' = [move EXCEPT ![j] = [status |-> "pending", source |-> key.id, from |-> key.at,
                                   to |-> s, quota |-> key.quota]]
  BY DEF QueueMove
<1>2. DOMAIN move = Moves /\ move = [k \in Moves |-> move[k]]
  BY DEF CareTypes, TypeOK
<1> QED BY <1>1, <1>2

(* The new key of a move, and of a row that changes its status or quota. *)
LEMMA CutoverRow ==
  ASSUME CareTypes, Cutover
  PROVE  /\ hand.move \in Moves /\ hand.op = "move" /\ hand.step = "commit"
         /\ key.status = "active" /\ key.id = move[hand.move].source
         /\ key'.id = hand.move /\ key'.at = move[hand.move].to /\ key'.quota = hand.left
         /\ key'.status = "active"
<1>1. key \in [status : {"active", "revoked"}, at : Servers, id : Ids, quota : 0..Quota]
  BY DEF CareTypes, TypeOK
<1> QED BY <1>1 DEF CareTypes, Cutover, Moving, Job

(* A revocation or a repair leaves the row its id and server. *)
LEMMA KeyRow ==
  ASSUME CareTypes, RevokeCommits \/ RepairCommits
  PROVE  /\ key'.id = key.id /\ key'.at = key.at
         /\ RevokeCommits => key'.status = "revoked" /\ key'.quota = key.quota
         /\ RepairCommits => key'.status = "active" /\ key'.quota = hand.left
<1>1. key \in [status : {"active", "revoked"}, at : Servers, id : Ids, quota : 0..Quota]
  BY DEF CareTypes, TypeOK
<1> QED BY <1>1 DEF RevokeCommits, RepairCommits

(* A listing opens a repair for the row's key only, when its id has been missed
   before, and leaves a job in progress alone. *)
LEMMA RecordRepairs ==
  ASSUME CareTypes, NEW s \in Servers, NEW found \in SUBSET Ids, RecordListing(s, found),
         NEW t \in Servers
  PROVE  \/ repair'[t] = repair[t]
         \/ /\ t = s /\ key.at = s /\ Entitled /\ key.id \notin found
            /\ repair[t].status \in {"none", "done"} \/ repair[t].source # key.id
            /\ missed[key.id] # 0
            /\ repair'[t].source = key.id
<1>1. PICK reading \in Reading(key.id), elapsed \in BOOLEAN :
        repair' = IF /\ Managed(s) /\ key.id \notin found /\ elapsed
                     /\ (IF missed[key.id] = 0 THEN 1
                         ELSE IF elapsed THEN UpTo(missed[key.id], Required)
                              ELSE missed[key.id]) >= Required
                  THEN Enqueued(s, reading) ELSE repair
  BY DEF RecordListing
<1>2. CASE repair' = repair
  BY <1>2
<1>3. CASE repair' # repair
  <2>1. /\ repair' = Enqueued(s, reading) /\ Managed(s) /\ key.id \notin found
        /\ missed[key.id] # 0
    BY <1>1, <1>3 DEF Required
  <2>2. /\ Reopens(s)
        /\ repair' = [repair EXCEPT ![s] = [status |-> Verdict(reading).status,
                                            source |-> key.id, why |-> Verdict(reading).why]]
    BY <1>3, <2>1 DEF Enqueued
  <2>3. DOMAIN repair = Servers /\ repair = [q \in Servers |-> repair[q]]
    BY DEF CareTypes, TypeOK
  <2>4. repair'[s].source = key.id /\ \A q \in Servers \ {s} : repair'[q] = repair[q]
    BY <2>2, <2>3
  <2> QED BY <2>1, <2>2, <2>4 DEF Reopens, Managed
<1> QED BY <1>2, <1>3

(* A server's repair row that changes its status or reason keeps its source. *)
RepairRowGoes(s, status, rows) ==
  \A t \in Servers : /\ rows[t].source = repair[t].source
                     /\ rows[t].status = IF t = s THEN status ELSE repair[t].status
                     /\ t # s => rows[t] = repair[t]

(* A repair row with another status, and the others, which it leaves alone. *)
LEMMA RepairedRow ==
  ASSUME CareTypes, NEW s \in Servers, NEW status, NEW why
  PROVE  /\ RepairRowGoes(s, status, [repair EXCEPT ![s].status = status])
         /\ RepairRowGoes(s, status, [repair EXCEPT ![s].status = status, ![s].why = why])
<1> DEFINE Q == [status : {status} \cup RepairStatus, source : Ids, why : {why} \cup Reasons]
           Done(r) == [r EXCEPT !.status = status]
           Because(r) == [r EXCEPT !.why = why]
           half == [repair EXCEPT ![s].status = status]
           full == [half EXCEPT ![s].why = why]
<1>1. \A r \in Q : /\ Done(r).status = status /\ Done(r).source = r.source /\ Done(r) \in Q
                   /\ Because(r).status = r.status /\ Because(r).source = r.source
  OBVIOUS
<1>2. repair \in [Servers -> Q]
  BY DEF CareTypes, TypeOK
<1> HIDE DEF Q
<1>3. half \in [Servers -> Q]
  BY <1>1, <1>2
<1>4. \A t \in Servers : half[t] = IF t = s THEN Done(repair[t]) ELSE repair[t]
  BY <1>2
<1>5. \A t \in Servers : full[t] = IF t = s THEN Because(half[t]) ELSE half[t]
  <2> HIDE DEF half
  <2> QED BY <1>3
<1>6. RepairRowGoes(s, status, half) /\ RepairRowGoes(s, status, full)
  <2> HIDE DEF half, full, Done, Because
  <2> SUFFICES ASSUME NEW t \in Servers
               PROVE  /\ half[t].source = repair[t].source /\ full[t].source = repair[t].source
                      /\ half[t].status = IF t = s THEN status ELSE repair[t].status
                      /\ full[t].status = IF t = s THEN status ELSE repair[t].status
                      /\ t # s => half[t] = repair[t] /\ full[t] = repair[t]
    BY DEF RepairRowGoes
  <2>1. repair[t] \in Q /\ half[t] \in Q
    BY <1>2, <1>3
  <2>2. CASE t = s
    <3>1. half[t] = Done(repair[t]) /\ full[t] = Because(half[t])
      BY <1>4, <1>5, <2>2
    <3>2. half[t].source = repair[t].source /\ half[t].status = status
      BY <1>1, <2>1, <3>1
    <3>3. full[t].source = half[t].source /\ full[t].status = half[t].status
      BY <1>1, <2>1, <3>1
    <3> QED BY <2>2, <3>2, <3>3
  <2>3. CASE t # s
    <3>1. half[t] = repair[t] /\ full[t] = half[t]
      BY <1>4, <1>5, <2>3
    <3> QED BY <2>3, <3>1
  <2> QED BY <2>2, <2>3
<1> QED BY <1>6

(* Ids are numbers. *)
LEMMA IdNumbers == Ids \subseteq Nat /\ Moves \subseteq Ids
BY MovesAssumption DEF Ids

HandsInv == MoveInv /\ RepairInHand

(* At first there is one key and no job. *)
LEMMA HandsInit == Init => HandsInv
<1> SUFFICES ASSUME Init PROVE HandsInv
  OBVIOUS
<1>1. /\ key = [status |-> "active", at |-> Home, id |-> 0, quota |-> Quota]
      /\ issued = {0} /\ hand.op = "idle"
  BY DEF Init, Idle
<1>2. \A j \in Moves : move[j].status = "none" /\ j \notin issued
  BY <1>1, MovesAssumption DEF Init, NoMove
<1> QED
  BY <1>1, <1>2 DEF HandsInv, MoveInv, Numbered, RowIsNewest, MoveInHand, RepairInHand, ServerOf

(* Nothing that only concerns the thread's other jobs disturbs the rows. *)
LEMMA RowsKept ==
  ASSUME HandsInv, CareTypes, key'.id = key.id, key'.at = key.at, issued' = issued,
         \A k \in Moves : /\ move'[k].source = move[k].source /\ move'[k].to = move[k].to
                          /\ (move'[k].status = "none") <=> (move[k].status = "none")
                          /\ move'[k].status \in {"source_delete_pending", "completed"} => k \in issued
  PROVE  Numbered' /\ RowIsNewest'
<1>1. Numbered'
  BY DEF HandsInv, MoveInv, Numbered
<1>2. ServerOf(key.id)' = ServerOf(key.id)
  BY DEF CareTypes, TypeOK, ServerOf, Ids
<1> QED BY <1>1, <1>2 DEF HandsInv, MoveInv, RowIsNewest

(* What the thread holds agrees with the rows after every step. *)
LEMMA HandsStep == CareTypes /\ HandsInv /\ [Next]_vars => HandsInv'
<1> SUFFICES ASSUME CareTypes, HandsInv, [Next]_vars
             PROVE  HandsInv'
  OBVIOUS
<1>T. /\ key.id \in Ids /\ key \in [status : {"active", "revoked"}, at : Servers, id : Ids, quota : 0..Quota]
      /\ hand \in Hands /\ (hand.op = "move" => hand.move \in Moves)
      /\ \A j \in Moves : move[j].status \in MoveStatus
  BY DEF CareTypes, TypeOK, Hands
<1>0. /\ Numbered /\ RowIsNewest /\ MoveInHand /\ RepairInHand
  BY DEF HandsInv, MoveInv
<1>P. ASSUME Numbered', RowIsNewest', MoveInHand', RepairInHand' PROVE HandsInv'
  BY <1>P DEF HandsInv, MoveInv
<1> USE DEF entitlementVars, jobVars, ledgerVars, remoteVars, seenVars, runVars
(* The rows of moves and the key do not change. *)
<1>1. ASSUME UNCHANGED <<key, move, issued>> PROVE Numbered' /\ RowIsNewest'
  BY <1>0, <1>1, RowsKept DEF RowIsNewest
<1>2. ASSUME UNCHANGED <<key, move, issued, hand>>, remote' \subseteq remote PROVE MoveInHand'
  BY <1>0, <1>2 DEF MoveInHand
<1>3. ASSUME UNCHANGED <<key, hand>>, hand.op = "repair" => repair'[hand.at] = repair[hand.at]
      PROVE  RepairInHand'
  BY <1>0, <1>3 DEF RepairInHand
<1>4. ASSUME UNCHANGED <<key, move, issued, hand, repair>>, remote' \subseteq remote
      PROVE  HandsInv'
  BY <1>1, <1>2, <1>3, <1>4, <1>P
<1>5. ASSUME UNCHANGED <<key, move, issued>>, hand' = Idle PROVE HandsInv'
  BY <1>1, <1>5, <1>P DEF MoveInHand, RepairInHand, Idle
<1>6. CASE EnvNext
  <2>1. CASE Crash
    BY <1>5, <2>1 DEF Crash
  <2>2. CASE ~Crash
    BY <1>4, <1>6, <2>2 DEF EnvNext, Traffic, Vanish, RemoteForgets, BecomesDue, SampleAges
  <2> QED BY <2>1, <2>2
<1>7. ASSUME NEW s \in Servers, NEW found \in SUBSET Ids, RecordListing(s, found)
      PROVE  HandsInv'
  <2>1. UNCHANGED <<key, move, issued, hand, remote>>
    BY <1>7 DEF RecordListing
  <2>2. ASSUME hand.op = "repair" PROVE repair'[hand.at] = repair[hand.at]
    <3>1. hand.at \in Servers /\ repair[hand.at].status = "running" /\ repair[hand.at].source = key.id
      BY <1>0, <1>T, <2>2 DEF Hands, RepairInHand
    <3> QED BY <1>7, <3>1, RecordRepairs
  <2> QED BY <1>1, <1>2, <1>3, <2>1, <2>2, <1>P
<1>8. CASE BotNext
  <2>1. ASSUME NEW s \in Servers, BotLists(s) PROVE HandsInv'
    BY <1>4, <2>1 DEF BotLists
  <2>2. CASE BotRecords
    <3>1. listing.at \in Servers /\ listing.found \in SUBSET Ids /\ RecordListing(listing.at, listing.found)
      BY <2>2 DEF BotRecords, CareTypes, TypeOK
    <3> QED BY <1>7, <3>1
  <2>3. CASE Refund \/ RetryRevoke
    BY <1>4, <2>3 DEF Refund, RetryRevoke
  <2>4. ASSUME NEW s \in Servers, NEW state \in Lifecycles, SetLifecycle(s, state) PROVE HandsInv'
    BY <1>4, <2>4 DEF SetLifecycle
  <2>5. ASSUME NEW s \in Servers, ApproveRepair(s) PROVE HandsInv'
    <3>1. UNCHANGED <<key, move, issued, hand, remote>> /\ repair[s].status \in {"manual", "failed"}
      BY <2>5 DEF ApproveRepair
    <3>2. PICK why : repair' = [repair EXCEPT ![s].status = "pending", ![s].why = why]
      BY <2>5 DEF ApproveRepair
    <3>3. \A t \in Servers : t # s => repair'[t] = repair[t]
      <4>1. RepairRowGoes(s, "pending", [repair EXCEPT ![s].status = "pending", ![s].why = why])
        BY RepairedRow
      <4>2. RepairRowGoes(s, "pending", repair')
        BY <3>2, <4>1
      <4> QED BY <4>2 DEF RepairRowGoes
    <3>4. hand.op = "repair" => repair'[hand.at] = repair[hand.at]
      BY <1>0, <1>T, <3>1, <3>3 DEF RepairInHand, Hands
    <3> QED BY <1>1, <1>2, <1>3, <3>1, <3>4, <1>P
  <2>6. ASSUME NEW j \in Moves, NEW s \in Servers, QueueMove(j, s) PROVE HandsInv'
    <3>1. /\ UNCHANGED <<key, issued, hand, remote, repair>> /\ Fresh(j)
      BY <2>6 DEF QueueMove
    <3>2. /\ \A k \in Moves \ {j} : move'[k] = move[k]
          /\ move'[j].status = "pending" /\ move'[j].source = key.id
      BY <2>6, QueuedRow
    <3>3. move[j].status = "none" /\ j \notin issued /\ j # key.id
      BY <1>0, <3>1 DEF Fresh, RowIsNewest
    <3>4. key.id < j
      <4>1. CASE key.id = 0
        BY <4>1, MovesAssumption
      <4>2. CASE key.id \in Moves
        <5>1. move[key.id].status # "none"
          BY <1>0, <4>2 DEF RowIsNewest
        <5>2. ~(j < key.id)
          BY <1>0, <3>3, <4>2, <5>1 DEF Numbered
        <5>3. key.id \in Nat /\ j \in Nat
          BY <4>2, MovesAssumption
        <5>4. \A m \in Nat, n \in Nat : ~(m < n) /\ m # n => n < m
          OBVIOUS
        <5> QED BY <3>3, <5>2, <5>3, <5>4, Zenon
      <4> QED BY <1>T, <4>1, <4>2 DEF Ids
    <3>5. Numbered'
      BY <1>0, <3>1, <3>2, <3>3, <3>4 DEF Numbered, RowIsNewest, Fresh
    <3>6. ServerOf(key.id)' = ServerOf(key.id)
      BY <1>T, <3>1, <3>2, <3>3 DEF ServerOf, Ids
    <3>7. RowIsNewest'
      BY <1>0, <3>1, <3>2, <3>3, <3>6 DEF RowIsNewest
    <3>8. MoveInHand'
      BY <1>0, <1>T, <3>1, <3>2, <3>3 DEF MoveInHand
    <3> QED BY <1>3, <3>1, <3>5, <3>7, <3>8, <1>P
  <2> QED BY <1>8, <2>1, <2>2, <2>3, <2>4, <2>5, <2>6 DEF BotNext
<1>9. CASE RevokeNext
  <2>1. CASE RevokeClaim
    <3>1. /\ UNCHANGED <<key, move, issued, remote, repair>>
          /\ hand' = hand \/ hand'.op = "revoke"
      BY <2>1 DEF RevokeClaim, Idle
    <3>2. CASE hand' = hand
      BY <1>4, <3>1, <3>2
    <3>3. CASE hand'.op = "revoke"
      BY <1>1, <3>1, <3>3, <1>P DEF MoveInHand, RepairInHand
    <3> QED BY <3>1, <3>2, <3>3
  <2>2. CASE RevokeDeletes
    <3>1. hand'.op = "revoke" /\ UNCHANGED <<key, move, issued, repair>>
      BY <1>T, <2>2 DEF RevokeDeletes, Hands
    <3> QED BY <1>1, <3>1, <1>P DEF MoveInHand, RepairInHand
  <2>3. CASE RevokeFails
    BY <1>5, <2>3 DEF RevokeFails
  <2>4. CASE RevokeCommits
    <3>1. hand' = Idle /\ UNCHANGED <<move, issued>>
      BY <2>4 DEF RevokeCommits
    <3>2. key'.id = key.id /\ key'.at = key.at
      BY <2>4, KeyRow
    <3>3. Numbered' /\ RowIsNewest'
      BY <1>0, <3>1, <3>2, RowsKept DEF RowIsNewest
    <3> QED BY <3>1, <3>3, <1>P DEF MoveInHand, RepairInHand, Idle
  <2> QED BY <1>9, <2>1, <2>2, <2>3, <2>4 DEF RevokeNext
<1>10. CASE RepairNext
  <2>1. ASSUME NEW s \in Servers, RepairClaim(s) PROVE HandsInv'
    <3>1. UNCHANGED <<key, move, issued, remote>> /\ hand.op = "idle"
      BY <2>1 DEF RepairClaim, PassFree
    <3>2. CASE Repairable(s)
      <4>1. repair' = [repair EXCEPT ![s].status = "running"]
        BY <2>1, <3>2 DEF RepairClaim
      <4>2. repair'[s].status = "running" /\ repair'[s].source = repair[s].source
        <5>1. RepairRowGoes(s, "running", [repair EXCEPT ![s].status = "running"])
          BY RepairedRow
        <5>2. RepairRowGoes(s, "running", repair')
          BY <4>1, <5>1
        <5> QED BY <5>2 DEF RepairRowGoes
      <4>3. hand'.op = "repair" /\ hand'.step = "create" /\ hand'.at = s
        BY <2>1, <3>2 DEF RepairClaim, Idle
      <4>4. RepairInHand' /\ MoveInHand'
        BY <3>1, <3>2, <4>2, <4>3 DEF RepairInHand, MoveInHand, Repairable, Entitled
      <4> QED BY <1>1, <3>1, <4>4, <1>P
    <3>3. CASE ~Repairable(s)
      <4>1. hand' = hand
        BY <2>1, <3>3 DEF RepairClaim
      <4> QED BY <1>1, <3>1, <4>1, <1>P DEF MoveInHand, RepairInHand
    <3> QED BY <3>2, <3>3
  <2>2. CASE RepairConverges \/ RepairParks \/ RepairFails
    BY <1>5, <2>2 DEF RepairConverges, RepairParks, RepairFails
  <2>3. CASE RepairCreates
    <3>1. UNCHANGED <<key, move, issued, repair>> /\ hand.op = "repair"
      BY <2>3 DEF RepairCreates, Repairing
    <3>2. hand'.op = "repair" /\ hand'.step = "commit" /\ hand'.at = hand.at
      BY <1>T, <3>1, <2>3 DEF RepairCreates, Hands
    <3> QED BY <1>0, <1>1, <3>1, <3>2, <1>P DEF MoveInHand, RepairInHand
  <2>4. CASE RepairCommits
    <3>1. hand' = Idle /\ UNCHANGED <<move, issued>>
      BY <2>4 DEF RepairCommits
    <3>2. key'.id = key.id /\ key'.at = key.at
      BY <2>4, KeyRow
    <3>3. Numbered' /\ RowIsNewest'
      BY <1>0, <3>1, <3>2, RowsKept DEF RowIsNewest
    <3> QED BY <3>1, <3>3, <1>P DEF MoveInHand, RepairInHand, Idle
  <2> QED BY <1>10, <2>1, <2>2, <2>3, <2>4 DEF RepairNext
<1>11. CASE MoveNext
  <2>1. ASSUME NEW j \in Moves, MoveClaim(j) PROVE HandsInv'
    <3>1. /\ UNCHANGED <<key, issued, remote, repair>>
          /\ move[j].status \in {"pending", "creating", "source_delete_pending"}
          /\ move' = [move EXCEPT ![j].status = "creating"]
      BY <2>1 DEF MoveClaim
    <3>2. /\ hand'.op = "move" /\ hand'.move = j
          /\ hand'.step = IF move[j].status = "source_delete_pending" THEN "delete" ELSE "create"
      BY <2>1 DEF MoveClaim, Idle
    <3>3. \A k \in Moves :
            /\ move'[k].status = IF k = j THEN "creating" ELSE move[k].status
            /\ move'[k].source = move[k].source /\ move'[k].to = move[k].to
      BY <3>1, MovedRow
    <3>4. Numbered' /\ RowIsNewest'
      BY <1>0, <3>1, <3>3, RowsKept DEF RowIsNewest
    <3>5. MoveInHand' /\ RepairInHand'
      BY <1>0, <3>1, <3>2, <3>3 DEF RowIsNewest, MoveInHand, RepairInHand
    <3> QED BY <3>4, <3>5, <1>P
  <2>2. CASE MoveCreates
    <3>1. UNCHANGED <<key, move, issued, repair>> /\ hand.op = "move" /\ hand.step = "create"
      BY <2>2 DEF MoveCreates, Moving
    <3>2. hand'.op = "move" /\ hand'.step = "commit" /\ hand'.move = hand.move
      BY <1>T, <3>1, <2>2 DEF MoveCreates, Hands
    <3> QED BY <1>0, <1>1, <3>1, <3>2, <1>P DEF MoveInHand, RepairInHand
  <2>3. ASSUME NEW status \in {"pending", "failed", "source_delete_pending", "completed"},
               move' = [move EXCEPT ![hand.move].status = status],
               hand.op = "move",
               status \in {"source_delete_pending", "completed"} => hand.move \in issued,
               hand' = Idle, UNCHANGED <<key, issued>>
        PROVE  HandsInv'
    <3>0. hand.move \in Moves
      BY <1>T, <2>3
    <3>1. \A k \in Moves :
            /\ move'[k].status = IF k = hand.move THEN status ELSE move[k].status
            /\ move'[k].source = move[k].source /\ move'[k].to = move[k].to
      BY <2>3, <3>0, MovedRow, Zenon
    <3>2. move[hand.move].status # "none"
      BY <1>0, <2>3 DEF MoveInHand
    <3>3. Numbered' /\ RowIsNewest'
      BY <1>0, <2>3, <3>1, <3>2, RowsKept DEF RowIsNewest
    <3> QED BY <2>3, <3>3, <1>P DEF MoveInHand, RepairInHand, Idle
  <2>4. CASE MoveFails
    BY <2>3, <2>4 DEF MoveFails, Moving
  <2>5. CASE MoveDeleteFails \/ MoveCompletes
    BY <1>0, <2>3, <2>5 DEF MoveDeleteFails, MoveCompletes, Moving, MoveInHand
  <2>6. CASE Cutover
    <3>1. /\ hand.move \in Moves /\ hand.op = "move" /\ hand.step = "commit"
          /\ key.id = move[hand.move].source
          /\ key'.id = hand.move /\ key'.at = move[hand.move].to
      BY <2>6, CutoverRow
    <3>2. /\ issued' = issued \cup {hand.move}
          /\ move' = [move EXCEPT ![hand.move].status = "source_delete_pending"]
          /\ hand' = [hand EXCEPT !.step = "delete"]
      BY <2>6 DEF Cutover
    <3>3. \A k \in Moves :
            /\ move'[k].status = IF k = hand.move THEN "source_delete_pending" ELSE move[k].status
            /\ move'[k].source = move[k].source /\ move'[k].to = move[k].to
      BY <3>1, <3>2, MovedRow
    <3>4. move[hand.move].status = "creating" /\ key.id < hand.move
      BY <1>0, <3>1 DEF MoveInHand, Numbered
    <3>5. Numbered'
      BY <1>0, <3>1, <3>2, <3>3, <3>4 DEF Numbered
    <3>6. ServerOf(key.id)' = move[hand.move].to
      BY <3>1, <3>3, MovesAssumption DEF ServerOf
    <3>7. key.id \in Ids /\ Ids \subseteq Nat /\ Moves \subseteq Ids
      BY <1>T, IdNumbers
    <3>8. RowIsNewest'
      BY <1>0, <3>1, <3>2, <3>3, <3>4, <3>6, <3>7 DEF RowIsNewest
    <3>9. hand'.op = "move" /\ hand'.step = "delete" /\ hand'.move = hand.move
      BY <1>T, <3>1, <3>2 DEF Hands
    <3>10. MoveInHand' /\ RepairInHand'
      BY <3>1, <3>2, <3>3, <3>9 DEF MoveInHand, RepairInHand
    <3> QED BY <3>5, <3>8, <3>10, <1>P
  <2>7. CASE MoveDeletes
    <3>1. /\ UNCHANGED <<key, move, issued, repair>> /\ hand.op = "move" /\ hand.step = "delete"
          /\ remote' = remote \ {move[hand.move].source}
      BY <2>7 DEF MoveDeletes, Moving, RemoteForgets, Job
    <3>2. hand'.op = "move" /\ hand'.step = "deleted" /\ hand'.move = hand.move
      BY <1>T, <2>7, <3>1 DEF MoveDeletes, Hands
    <3> QED BY <1>0, <1>1, <3>1, <3>2, <1>P DEF MoveInHand, RepairInHand
  <2> QED BY <1>11, <2>1, <2>2, <2>4, <2>5, <2>6, <2>7 DEF MoveNext
<1>12. CASE PassNext
  <2>1. ASSUME NEW s \in Servers, PassInventory(s) PROVE HandsInv'
    <3>1. OnServer(s) \in SUBSET Ids /\ RecordListing(s, OnServer(s))
      BY <2>1 DEF PassInventory, OnServer, CareTypes, TypeOK
    <3> QED BY <1>7, <3>1
  <2>2. CASE Expire \/ EnforceQuota
    BY <1>4, <2>2 DEF Expire, EnforceQuota
  <2> QED BY <1>9, <1>10, <1>11, <1>12, <2>1, <2>2 DEF PassNext
<1>13. CASE UNCHANGED vars
  BY <1>4, <1>13 DEF vars
<1> QED BY <1>6, <1>8, <1>12, <1>13 DEF Next

-----------------------------------------------------------------------------
(* Keys on record *)

(* A key on a server is the row's, or the source of a move that is not over, or
   the target of one that has not cut over, or has to start again after a crash. *)
OnRecord(i) ==
  \/ key.id = i
  \/ \E j \in Moves : move[j].status \notin {"none", "completed"} /\ move[j].source = i
  \/ /\ i \in Moves /\ move[i].status \in {"pending", "creating", "failed"}
     /\ ~InMove(i, {"delete", "deleted"})

RecordInv == \A i \in remote : OnRecord(i)

(* The first key is on record. *)
LEMMA RecordInit == Init => RecordInv
BY DEF Init, RecordInv, OnRecord

(* A step that creates a key has recorded it, one that forgets it deletes it. *)
LEMMA RecordStep == CareTypes /\ HandsInv /\ RecordInv /\ [Next]_vars => RecordInv'
<1> SUFFICES ASSUME CareTypes, HandsInv, RecordInv, [Next]_vars
             PROVE  RecordInv'
  OBVIOUS
<1>T. hand \in Hands /\ (hand.op = "move" => hand.move \in Moves)
  BY DEF CareTypes, TypeOK, Hands
<1>0. Numbered /\ RowIsNewest /\ MoveInHand /\ RepairInHand
  BY DEF HandsInv, MoveInv
<1> USE DEF entitlementVars, jobVars, ledgerVars, remoteVars, seenVars, runVars
<1>1. ASSUME key'.id = key.id, move' = move, remote' \subseteq remote \cup {key.id},
             \/ hand' = hand
             \/ hand'.op # "move"
             \/ hand'.op = "move" /\ hand'.move = hand.move /\ hand.op = "move"
                /\ hand.step \in {"delete", "deleted"}
      PROVE  RecordInv'
  BY <1>1 DEF RecordInv, OnRecord, InMove
<1>2. CASE EnvNext
  <2>1. key' = key /\ move' = move /\ remote' \subseteq remote /\ (hand' = hand \/ hand' = Idle)
    BY <1>2 DEF EnvNext, Traffic, Vanish, RemoteForgets, BecomesDue, SampleAges, Crash
  <2> QED BY <1>1, <2>1 DEF Idle
<1>3. CASE BotNext
  <2>1. ASSUME NEW j \in Moves, NEW s \in Servers, QueueMove(j, s) PROVE RecordInv'
    <3>1. UNCHANGED <<key, hand, remote>> /\ move[j].status = "none"
      BY <2>1 DEF QueueMove, Fresh
    <3>2. (\A k \in Moves \ {j} : move'[k] = move[k]) /\ move'[j].status = "pending"
      BY <2>1, QueuedRow
    <3> QED BY <3>1, <3>2 DEF RecordInv, OnRecord, InMove
  <2>2. CASE ~\E j \in Moves, s \in Servers : QueueMove(j, s)
    <3>1. UNCHANGED <<key, hand, remote, move>>
      BY <1>3, <2>2 DEF BotNext, BotLists, BotRecords, RecordListing, Refund, RetryRevoke,
                        SetLifecycle, ApproveRepair
    <3> QED BY <1>1, <3>1
  <2> QED BY <2>1, <2>2
<1>4. CASE RevokeNext
  <2>1. CASE RevokeCommits
    BY <1>1, <2>1, KeyRow DEF RevokeCommits, Idle
  <2>2. CASE RevokeClaim \/ RevokeFails
    <3>1. (hand' = hand \/ hand'.op = "revoke" \/ hand'.op = "idle") /\ UNCHANGED <<key, move, remote>>
      <4>1. CASE RevokeClaim
        BY <4>1 DEF RevokeClaim, Idle
      <4>2. CASE RevokeFails
        BY <4>2 DEF RevokeFails, Idle
      <4> QED BY <2>2, <4>1, <4>2
    <3> QED BY <1>1, <3>1
  <2>3. CASE RevokeDeletes
    <3>1. hand'.op = "revoke" /\ UNCHANGED <<key, move>> /\ remote' \subseteq remote
      BY <1>T, <2>3 DEF RevokeDeletes, RemoteForgets, Hands
    <3> QED BY <1>1, <3>1
  <2> QED BY <1>4, <2>1, <2>2, <2>3 DEF RevokeNext
<1>5. CASE RepairNext
  <2>1. ASSUME NEW s \in Servers, RepairClaim(s) PROVE RecordInv'
    <3>1. (hand' = hand \/ hand'.op = "repair") /\ UNCHANGED <<key, move, remote>>
      BY <2>1 DEF RepairClaim, Idle
    <3> QED BY <1>1, <3>1
  <2>2. CASE RepairConverges \/ RepairParks \/ RepairFails
    BY <1>1, <2>2 DEF RepairConverges, RepairParks, RepairFails, Idle
  <2>3. CASE RepairCreates
    <3>1. /\ hand'.op = "repair" /\ UNCHANGED <<key, move>>
          /\ remote' = remote \cup {key.id}
      BY <1>T, <2>3 DEF RepairCreates, Repairing, Hands
    <3> QED BY <1>1, <3>1
  <2>4. CASE RepairCommits
    BY <1>1, <2>4, KeyRow DEF RepairCommits, Idle
  <2> QED BY <1>5, <2>1, <2>2, <2>3, <2>4 DEF RepairNext
<1>6. CASE MoveNext
  <2>1. ASSUME NEW j \in Moves, MoveClaim(j) PROVE RecordInv'
    <3>1. /\ UNCHANGED <<key, remote>>
          /\ move[j].status \in {"pending", "creating", "source_delete_pending"}
          /\ move' = [move EXCEPT ![j].status = "creating"]
      BY <2>1 DEF MoveClaim
    <3>2. /\ hand'.op = "move" /\ hand'.move = j
          /\ hand'.step = IF move[j].status = "source_delete_pending" THEN "delete" ELSE "create"
      BY <2>1 DEF MoveClaim, Idle
    <3>3. \A k \in Moves :
            /\ move'[k].status = IF k = j THEN "creating" ELSE move[k].status
            /\ move'[k].source = move[k].source
      BY <3>1, MovedRow
    <3> QED BY <3>1, <3>2, <3>3 DEF RecordInv, OnRecord, InMove
  <2>2. CASE MoveCreates
    <3>1. /\ UNCHANGED <<key, move>> /\ hand.op = "move" /\ hand.step = "create"
          /\ remote' = remote \cup {hand.move}
      BY <2>2 DEF MoveCreates, Moving
    <3>2. hand'.op = "move" /\ hand'.step = "commit" /\ hand'.move = hand.move
      BY <1>T, <3>1, <2>2 DEF MoveCreates, Hands
    <3>3. hand.move \in Moves /\ move[hand.move].status = "creating"
      BY <1>0, <3>1 DEF MoveInHand
    <3> QED BY <3>1, <3>2, <3>3 DEF RecordInv, OnRecord, InMove
  <2>3. CASE MoveFails
    <3>1. /\ hand.op = "move" /\ hand.step \in {"create", "commit"} /\ UNCHANGED <<key, remote>>
          /\ hand'.op = "idle" /\ hand.move \in Moves
      BY <1>T, <2>3 DEF MoveFails, Moving, Idle
    <3>2. PICK status \in {"pending", "failed"} : move' = [move EXCEPT ![hand.move].status = status]
      BY <2>3 DEF MoveFails
    <3>0. hand.move \in Moves
      BY <3>1
    <3>3. \A k \in Moves :
            /\ move'[k].status = IF k = hand.move THEN status ELSE move[k].status
            /\ move'[k].source = move[k].source
      BY <3>0, <3>2, MovedRow, Zenon
    <3> QED BY <3>1, <3>2, <3>3 DEF RecordInv, OnRecord, InMove
  <2>4. CASE Cutover
    <3>1. /\ hand.move \in Moves /\ hand.op = "move" /\ hand.step = "commit"
          /\ key.id = move[hand.move].source /\ key'.id = hand.move
      BY <2>4, CutoverRow
    <3>2. /\ UNCHANGED remote /\ move' = [move EXCEPT ![hand.move].status = "source_delete_pending"]
          /\ hand' = [hand EXCEPT !.step = "delete"]
      BY <2>4 DEF Cutover
    <3>0. hand.move \in Moves
      BY <3>1
    <3>3. \A k \in Moves :
            /\ move'[k].status = IF k = hand.move THEN "source_delete_pending" ELSE move[k].status
            /\ move'[k].source = move[k].source
      BY <3>0, <3>2, MovedRow, Zenon
    <3>4. hand'.op = "move" /\ hand'.step = "delete" /\ hand'.move = hand.move
      BY <1>T, <3>1, <3>2 DEF Hands
    <3>5. ASSUME NEW i \in remote PROVE OnRecord(i)'
      <4>1. CASE i = hand.move
        BY <3>1, <4>1 DEF OnRecord
      <4>2. CASE i = key.id
        BY <3>1, <3>3, <4>2 DEF OnRecord
      <4>3. CASE i # hand.move /\ i # key.id
        BY <3>1, <3>3, <3>4, <4>3 DEF RecordInv, OnRecord, InMove
      <4> QED BY <4>1, <4>2, <4>3
    <3> QED BY <3>2, <3>5 DEF RecordInv
  <2>5. CASE MoveDeletes
    <3>1. /\ UNCHANGED <<key, move>> /\ hand.op = "move" /\ hand.step = "delete"
          /\ remote' \subseteq remote
      BY <2>5 DEF MoveDeletes, Moving, RemoteForgets
    <3>2. hand'.op = "move" /\ hand'.move = hand.move
      BY <1>T, <2>5, <3>1 DEF MoveDeletes, Hands
    <3> QED BY <1>1, <3>1, <3>2
  <2>6. CASE MoveDeleteFails
    <3>1. /\ hand.op = "move" /\ hand.step \in {"delete", "deleted"} /\ UNCHANGED <<key, remote>>
          /\ hand.move \in Moves
      BY <1>T, <2>6 DEF MoveDeleteFails, Moving
    <3>2. hand'.op = "idle"
      BY <2>6 DEF MoveDeleteFails, Idle
    <3>4. PICK status \in {"source_delete_pending", "pending", "failed"} :
            move' = [move EXCEPT ![hand.move].status = status]
      BY <2>6 DEF MoveDeleteFails
    <3>0. hand.move \in Moves
      BY <3>1
    <3>3. \A k \in Moves :
            /\ move'[k].status = IF k = hand.move THEN status ELSE move[k].status
            /\ move'[k].source = move[k].source
      BY <3>0, <3>4, MovedRow, Zenon
    <3> QED BY <3>1, <3>2, <3>3 DEF RecordInv, OnRecord, InMove
  <2>7. CASE MoveCompletes
    <3>1. /\ hand.op = "move" /\ hand.step = "deleted" /\ UNCHANGED <<key, remote>>
          /\ move' = [move EXCEPT ![hand.move].status = "completed"]
          /\ hand.move \in Moves
      BY <1>T, <2>7 DEF MoveCompletes, Moving
    <3>2. hand'.op = "idle"
      BY <2>7 DEF MoveCompletes, Idle
    <3>3. \A k \in Moves :
            /\ move'[k].status = IF k = hand.move THEN "completed" ELSE move[k].status
            /\ move'[k].source = move[k].source
      BY <3>1, MovedRow
    <3>4. move[hand.move].source \notin remote
      BY <1>0, <3>1 DEF MoveInHand
    <3> QED BY <3>1, <3>2, <3>3, <3>4 DEF RecordInv, OnRecord, InMove
  <2> QED BY <1>6, <2>1, <2>2, <2>3, <2>4, <2>5, <2>6, <2>7 DEF MoveNext
<1>7. CASE \/ \E s \in Servers : PassInventory(s)
           \/ Expire \/ EnforceQuota \/ UNCHANGED vars
  BY <1>1, <1>7 DEF PassInventory, RecordListing, Expire, EnforceQuota, vars
<1> QED BY <1>2, <1>3, <1>4, <1>5, <1>6, <1>7 DEF Next, PassNext

(* No key works on a server without the database naming it, whatever step of a
   repair, a move or a revocation was lost in a crash. *)
THEOREM OnRecordSafety == Spec => []EveryKeyIsOnRecord
<1>1. CareTypes /\ RecordInv => EveryKeyIsOnRecord
  BY DEF RecordInv, OnRecord, EveryKeyIsOnRecord
<1> QED
  BY <1>1, TypesInit, TypesStep, HandsInit, HandsStep, RecordInit, RecordStep, PTL DEF Spec

-----------------------------------------------------------------------------
(* Repairs *)

(* A target is only missed once it was given out, and is there from its
   creation to the cutover. *)
TargetsThere ==
  /\ \A i \in Ids \ issued : missed[i] = 0
  /\ hand.op = "move" /\ hand.step = "commit" /\ hand.move \notin issued => hand.move \in remote

(* While the row is served, its key is on its server unless it was lost, and a
   listing that overlooks it is older than its arrival, which nothing has
   missed. *)
KeyThere ==
  Entitled /\ key.id \notin lost =>
    /\ key.id \in remote
    /\ listing.open /\ listing.at = key.at /\ key.id \notin listing.found => missed[key.id] = 0

LostInv == TargetsThere /\ KeyThere /\ RepairMeansMissing

(* At first the key is there. *)
LEMMA LostInit == Init => LostInv
BY DEF Init, LostInv, TargetsThere, KeyThere, RepairMeansMissing, Idle, NoListing, NoRepair

(* A listing counts at most the row's own key as missed, and one it found not
   at all. *)
LEMMA RecordMisses ==
  ASSUME CareTypes, NEW s \in Servers, NEW found \in SUBSET Ids, RecordListing(s, found),
         NEW i \in Ids
  PROVE  /\ i \in found => missed'[i] = 0
         /\ missed'[i] # 0 /\ missed[i] = 0 => i = key.id /\ key.at = s
<1>1. PICK n : missed' = [k \in Ids |-> IF k \in found THEN 0
                                 ELSE IF (Managed(s) /\ key.id \notin found) /\ k = key.id
                                        THEN n ELSE missed[k]]
  BY DEF RecordListing
<1> QED BY <1>1 DEF Managed

(* A key the database relies on leaves its server only by an operation that ends it. *)
LEMMA LostStep == CareTypes /\ RevokeInv /\ HandsInv /\ LostInv /\ [Next]_vars => LostInv'
<1> SUFFICES ASSUME CareTypes, RevokeInv, HandsInv, LostInv, [Next]_vars
             PROVE  LostInv'
  OBVIOUS
<1>T. /\ hand \in Hands /\ (hand.op = "move" => hand.move \in Moves)
      /\ key.id \in Ids /\ remote \subseteq Ids /\ Ids \subseteq Nat /\ Moves \subseteq Ids
      /\ missed \in [Ids -> 0..2]
  BY IdNumbers DEF CareTypes, TypeOK, Hands
<1>0. /\ Numbered /\ RowIsNewest /\ MoveInHand /\ RepairInHand
      /\ TargetsThere /\ KeyThere /\ RepairMeansMissing
  BY DEF HandsInv, MoveInv, LostInv
<1>P. ASSUME TargetsThere', KeyThere', RepairMeansMissing' PROVE LostInv'
  BY <1>P DEF LostInv
<1> USE DEF entitlementVars, jobVars, ledgerVars, remoteVars, seenVars, runVars
<1>A. ASSUME UNCHANGED <<missed, issued>>, remote \subseteq remote',
             hand' = hand \/ hand'.op # "move" \/ hand'.step # "commit"
      PROVE  TargetsThere'
  BY <1>0, <1>A DEF TargetsThere
<1>B. ASSUME key'.id = key.id, key'.at = key.at, key'.status = key.status \/ key'.status # "active",
             sub' = sub \/ sub' # "active", lost' = lost, remote \subseteq remote',
             missed' = missed, listing' = listing \/ listing' = NoListing
      PROVE  KeyThere'
  BY <1>0, <1>B DEF KeyThere, Entitled, NoListing
<1>C. ASSUME \A t \in Servers : repair'[t].source = repair[t].source
                                /\ (repair[t].status = "none" => repair'[t].status = "none"),
             lost' = lost
      PROVE  RepairMeansMissing'
  BY <1>0, <1>C DEF RepairMeansMissing
<1>D. ASSUME UNCHANGED <<missed, issued, key, lost, repair, listing>>, remote \subseteq remote',
             hand' = hand \/ hand'.op # "move" \/ hand'.step # "commit",
             sub' = sub \/ sub' # "active"
      PROVE  LostInv'
  BY <1>A, <1>B, <1>C, <1>D, <1>P
<1>E. ASSUME NEW s \in Servers, NEW found \in SUBSET Ids, RecordListing(s, found),
             listing' = NoListing \/ listing' = listing,
             key.at = s /\ key.id \notin found /\ missed[key.id] # 0 /\ Entitled => key.id \in lost,
             listing' = NoListing \/ (Entitled /\ key.at = s /\ key.id \notin lost => key.id \in found)
      PROVE  LostInv'
  <2>1. UNCHANGED <<sub, key, issued, lost, hand, remote>>
    BY <1>E DEF RecordListing
  <2>2. TargetsThere'
    <3>1. \A i \in Ids \ issued : missed'[i] = 0
      BY <1>0, <1>E, RecordMisses DEF TargetsThere, RowIsNewest
    <3> QED BY <1>0, <2>1, <3>1 DEF TargetsThere
  <2>3. KeyThere'
    <3>1. CASE listing' = NoListing
      BY <1>0, <2>1, <3>1 DEF KeyThere, Entitled, NoListing
    <3>2. CASE listing' = listing /\ (Entitled /\ key.at = s /\ key.id \notin lost => key.id \in found)
      <4>1. Entitled /\ key.id \notin lost /\ missed[key.id] = 0 => missed'[key.id] = 0
        BY <1>E, <1>T, <3>2, RecordMisses
      <4> QED BY <1>0, <2>1, <3>2, <4>1 DEF KeyThere, Entitled
    <3> QED BY <1>E, <3>1, <3>2
  <2>4. RepairMeansMissing'
    <3> SUFFICES ASSUME NEW t \in Servers, repair'[t].status # "none"
                 PROVE  repair'[t].source \in lost
      BY <2>1 DEF RepairMeansMissing
    <3>1. CASE repair'[t] = repair[t]
      BY <1>0, <3>1 DEF RepairMeansMissing
    <3>2. CASE repair'[t] # repair[t]
      BY <1>E, <3>2, RecordRepairs
    <3> QED BY <3>1, <3>2
  <2> QED BY <2>2, <2>3, <2>4, <1>P
<1>2. CASE EnvNext
  <2>1. CASE Vanish
    <3>1. /\ UNCHANGED <<missed, issued, key, repair, listing, hand, sub>> /\ lost = {}
          /\ lost' = {key.id} /\ remote' = remote \ {key.id}
      BY <2>1 DEF Vanish, RemoteForgets
    <3>2. TargetsThere'
      BY <1>0, <3>1 DEF TargetsThere, RowIsNewest
    <3>3. KeyThere'
      BY <3>1 DEF KeyThere
    <3>4. RepairMeansMissing'
      BY <1>0, <3>1 DEF RepairMeansMissing
    <3> QED BY <3>2, <3>3, <3>4, <1>P
  <2>2. CASE Crash
    <3>1. UNCHANGED <<missed, issued, key, repair, remote, sub, lost>> /\ listing' = NoListing
          /\ hand'.op = "idle"
      BY <2>2 DEF Crash, Idle
    <3> QED BY <1>A, <1>B, <1>C, <3>1, <1>P
  <2>3. CASE ~Vanish /\ ~Crash
    BY <1>2, <1>D, <2>3 DEF EnvNext, Traffic, BecomesDue, SampleAges
  <2> QED BY <2>1, <2>2, <2>3
<1>3. CASE BotNext
  <2>1. ASSUME NEW s \in Servers, BotLists(s) PROVE LostInv'
    <3>1. /\ UNCHANGED <<missed, issued, key, repair, remote, sub, lost, hand>>
          /\ listing' = [open |-> TRUE, at |-> s, found |-> OnServer(s)]
      BY <2>1 DEF BotLists
    <3>2. key.id \in remote /\ key.at = s => key.id \in OnServer(s)
      BY <1>0 DEF RowIsNewest, OnServer
    <3>3. KeyThere'
      BY <1>0, <3>1, <3>2 DEF KeyThere, Entitled
    <3> QED BY <1>A, <1>C, <3>1, <3>3, <1>P
  <2>2. CASE BotRecords
    <3>1. /\ listing.at \in Servers /\ listing.found \in SUBSET Ids
          /\ RecordListing(listing.at, listing.found) /\ listing.open /\ listing' = NoListing
      BY <2>2 DEF BotRecords, CareTypes, TypeOK
    <3>2. key.at = listing.at /\ key.id \notin listing.found /\ missed[key.id] # 0 /\ Entitled
            => key.id \in lost
      BY <1>0, <3>1 DEF KeyThere
    <3> QED BY <1>E, <3>1, <3>2
  <2>3. CASE Refund \/ RetryRevoke
    BY <1>D, <2>3 DEF Refund, RetryRevoke
  <2>4. ASSUME NEW s \in Servers, NEW state \in Lifecycles, SetLifecycle(s, state) PROVE LostInv'
    BY <1>D, <2>4 DEF SetLifecycle
  <2>5. ASSUME NEW s \in Servers, ApproveRepair(s) PROVE LostInv'
    <3>1. /\ UNCHANGED <<missed, issued, key, remote, sub, lost, hand, listing>>
          /\ repair[s].status \in {"manual", "failed"}
      BY <2>5 DEF ApproveRepair
    <3>2. PICK why : repair' = [repair EXCEPT ![s].status = "pending", ![s].why = why]
      BY <2>5 DEF ApproveRepair
    <3>3. RepairRowGoes(s, "pending", repair')
      <4>1. RepairRowGoes(s, "pending", [repair EXCEPT ![s].status = "pending", ![s].why = why])
        BY RepairedRow
      <4> QED BY <3>2, <4>1
    <3>4. RepairMeansMissing'
      BY <1>C, <3>1, <3>3 DEF RepairRowGoes
    <3> QED BY <1>A, <1>B, <3>1, <3>4, <1>P
  <2>6. ASSUME NEW j \in Moves, NEW s \in Servers, QueueMove(j, s) PROVE LostInv'
    BY <1>D, <2>6 DEF QueueMove
  <2> QED BY <1>3, <2>1, <2>2, <2>3, <2>4, <2>5, <2>6 DEF BotNext
<1>4. CASE RevokeNext
  <2>1. CASE RevokeDeletes
    <3>1. /\ UNCHANGED <<missed, issued, key, repair, sub, lost, listing>> /\ sub # "active"
          /\ hand'.op = "revoke"
      BY <1>T, <2>1 DEF RevokeDeletes, RevokeInv, Hands
    <3>2. TargetsThere' /\ KeyThere' /\ RepairMeansMissing'
      BY <1>0, <3>1 DEF TargetsThere, KeyThere, RepairMeansMissing, Entitled
    <3> QED BY <3>2, <1>P
  <2>2. CASE RevokeCommits
    <3>1. /\ UNCHANGED <<missed, issued, remote, repair, sub, lost, listing>> /\ hand'.op = "idle"
      BY <2>2 DEF RevokeCommits, Idle
    <3>2. key'.id = key.id /\ key'.at = key.at /\ key'.status = "revoked"
      BY <2>2, KeyRow
    <3> QED BY <1>A, <1>B, <1>C, <3>1, <3>2, <1>P
  <2>3. CASE RevokeClaim \/ RevokeFails
    <3>1. (hand' = hand \/ hand'.op = "revoke" \/ hand'.op = "idle")
          /\ UNCHANGED <<missed, issued, key, repair, sub, lost, listing, remote>>
      <4>1. CASE RevokeClaim
        BY <4>1 DEF RevokeClaim, Idle
      <4>2. CASE RevokeFails
        BY <4>2 DEF RevokeFails, Idle
      <4> QED BY <2>3, <4>1, <4>2
    <3> QED BY <1>D, <3>1
  <2> QED BY <1>4, <2>1, <2>2, <2>3 DEF RevokeNext
<1>5. CASE RepairNext
  <2>1. ASSUME NEW s \in Servers, RepairClaim(s) PROVE LostInv'
    <3>1. /\ hand' = hand \/ hand'.op = "repair"
          /\ UNCHANGED <<missed, issued, key, sub, lost, listing, remote>>
          /\ repair[s].status # "none"
          /\ \/ repair' = [repair EXCEPT ![s].status = "running"]
             \/ repair' = [repair EXCEPT ![s].status = "manual", ![s].why = "none"]
      BY <2>1 DEF RepairClaim, Idle, Parked
    <3>2. \A t \in Servers : repair'[t].source = repair[t].source
                             /\ (repair[t].status = "none" => repair'[t].status = "none")
      <4>1. /\ RepairRowGoes(s, "running", [repair EXCEPT ![s].status = "running"])
            /\ RepairRowGoes(s, "manual", [repair EXCEPT ![s].status = "manual", ![s].why = "none"])
        BY RepairedRow
      <4>2. RepairRowGoes(s, "running", repair') \/ RepairRowGoes(s, "manual", repair')
        BY <3>1, <4>1
      <4> QED BY <3>1, <4>2 DEF RepairRowGoes
    <3> QED BY <1>A, <1>B, <1>C, <3>1, <3>2, <1>P
  <2>2. ASSUME NEW status, NEW why,
               repair' = [repair EXCEPT ![hand.at].status = status, ![hand.at].why = why],
               hand.op = "repair", hand' = Idle, UNCHANGED <<issued, lost, remote, sub, listing>>,
               key'.id = key.id, key'.at = key.at, key'.status = key.status,
               missed' = missed \/ missed' = [missed EXCEPT ![key.id] = 0]
        PROVE  LostInv'
    <3>1. hand.at \in Servers /\ repair[hand.at].status = "running"
      BY <1>0, <1>T, <2>2 DEF Hands, RepairInHand
    <3>2. RepairRowGoes(hand.at, status, repair')
      <4>1. RepairRowGoes(hand.at, status, [repair EXCEPT ![hand.at].status = status, ![hand.at].why = why])
        BY <3>1, RepairedRow
      <4> QED BY <2>2, <4>1
    <3>3. RepairMeansMissing'
      BY <1>C, <2>2, <3>1, <3>2 DEF RepairRowGoes
    <3>4. \A i \in Ids : missed[i] = 0 => missed'[i] = 0
      BY <1>T, <2>2
    <3>5. TargetsThere'
      BY <1>0, <2>2, <3>4 DEF TargetsThere, Idle
    <3>6. KeyThere'
      BY <1>0, <1>T, <2>2, <3>4 DEF KeyThere, Entitled
    <3> QED BY <3>3, <3>5, <3>6, <1>P
  <2>3. CASE RepairConverges
    <3>1. hand.op = "repair" /\ repair[hand.at].source = key.id
      BY <1>0, <2>3 DEF RepairConverges, Repairing, RepairInHand
    <3> QED BY <2>2, <2>3, <3>1 DEF RepairConverges
  <2>4. CASE RepairParks
    <3>1. hand.op = "repair" /\ hand' = Idle /\ UNCHANGED <<issued, lost, remote, sub, listing, key, missed>>
      BY <2>4 DEF RepairParks, Repairing
    <3>2. PICK why : repair' = [repair EXCEPT ![hand.at].status = "manual", ![hand.at].why = why]
      BY <2>4 DEF RepairParks, Parked
    <3> QED BY <2>2, <3>1, <3>2
  <2>5. CASE RepairFails
    <3>1. hand.op = "repair" /\ hand' = Idle /\ UNCHANGED <<issued, lost, remote, sub, listing, key, missed>>
      BY <2>5 DEF RepairFails
    <3>2. PICK status : repair' = [repair EXCEPT ![hand.at].status = status, ![hand.at].why = "none"]
      BY <2>5 DEF RepairFails
    <3> QED BY <2>2, <3>1, <3>2
  <2>6. CASE RepairCreates
    <3>1. /\ hand'.op = "repair"
          /\ UNCHANGED <<missed, issued, key, repair, lost, listing, sub>>
          /\ remote' = remote \cup {key.id}
      BY <1>T, <2>6 DEF RepairCreates, Repairing, Hands
    <3> QED BY <1>D, <3>1
  <2>7. CASE RepairCommits
    <3>1. /\ hand.op = "repair" /\ hand' = Idle /\ key.status = "active"
          /\ UNCHANGED <<issued, lost, remote, sub, listing>>
          /\ missed' = [missed EXCEPT ![key.id] = 0]
          /\ repair' = [repair EXCEPT ![hand.at].status = "done", ![hand.at].why = "none"]
      BY <2>7 DEF RepairCommits, Repairing
    <3>2. key'.id = key.id /\ key'.at = key.at /\ key'.status = "active"
      BY <2>7, KeyRow
    <3> QED BY <2>2, <3>1, <3>2
  <2> QED BY <1>5, <2>1, <2>3, <2>4, <2>5, <2>6, <2>7 DEF RepairNext
<1>6. CASE MoveNext
  <2>1. ASSUME NEW j \in Moves, MoveClaim(j) PROVE LostInv'
    <3>1. /\ UNCHANGED <<missed, issued, key, repair, lost, listing, sub, remote>>
          /\ hand'.step \in {"create", "delete"}
      BY <2>1 DEF MoveClaim, Idle
    <3> QED BY <1>D, <3>1
  <2>2. CASE MoveCreates
    <3>1. /\ UNCHANGED <<missed, issued, key, repair, lost, listing, sub>>
          /\ remote' = remote \cup {hand.move}
      BY <2>2 DEF MoveCreates
    <3>2. hand'.move = hand.move
      BY <1>T, <2>2 DEF MoveCreates, Hands
    <3>3. TargetsThere'
      BY <1>0, <3>1, <3>2 DEF TargetsThere
    <3> QED BY <1>B, <1>C, <3>1, <3>3, <1>P
  <2>3. CASE MoveFails \/ MoveDeleteFails \/ MoveCompletes
    <3>1. /\ UNCHANGED <<missed, issued, key, repair, lost, listing, sub, remote>>
          /\ hand'.op = "idle"
      BY <2>3 DEF MoveFails, MoveDeleteFails, MoveCompletes, Idle
    <3> QED BY <1>D, <3>1
  <2>4. CASE Cutover
    <3>1. /\ hand.move \in Moves /\ hand.op = "move" /\ hand.step = "commit"
          /\ key.status = "active" /\ key'.status = "active"
          /\ key.id = move[hand.move].source /\ key'.id = hand.move
      BY <2>4, CutoverRow
    <3>2. /\ UNCHANGED <<missed, repair, lost, listing, sub, remote>>
          /\ issued' = issued \cup {hand.move}
      BY <2>4 DEF Cutover
    <3>3. hand'.step = "delete"
      BY <1>T, <2>4 DEF Cutover, Hands
    <3>4. hand.move \notin issued
      <4>1. move[hand.move].status = "creating" /\ key.id < hand.move
        BY <1>0, <3>1 DEF MoveInHand, Numbered
      <4>5. hand.move \in Ids /\ key.id \in Ids /\ Ids \subseteq Nat /\ key.id < hand.move
        BY <1>T, <3>1, <4>1
      <4>6. \A m \in Nat, n \in Nat : n < m => ~(m <= n)
        OBVIOUS
      <4>2. ~(hand.move <= key.id)
        BY <4>5, <4>6, Zenon
      <4> QED BY <1>0, <3>1, <4>2 DEF RowIsNewest
    <3>5. hand.move \in remote /\ missed[hand.move] = 0
      BY <1>0, <1>T, <3>1, <3>4 DEF TargetsThere
    <3>6. TargetsThere' /\ KeyThere'
      BY <1>0, <3>1, <3>2, <3>3, <3>5 DEF TargetsThere, KeyThere
    <3> QED BY <1>C, <3>2, <3>6, <1>P
  <2>5. CASE MoveDeletes
    <3>1. /\ UNCHANGED <<missed, issued, key, repair, lost, listing, sub>>
          /\ remote' = remote \ {move[hand.move].source}
          /\ hand.op = "move" /\ hand.step = "delete"
      BY <2>5 DEF MoveDeletes, Moving, RemoteForgets, Job
    <3>2. hand'.step = "deleted"
      BY <1>T, <2>5 DEF MoveDeletes, Hands
    <3>3. key.id # move[hand.move].source
      <4>1. hand.move \in Moves /\ hand.move \in issued
        BY <1>0, <3>1 DEF MoveInHand
      <4>2. move[hand.move].source < hand.move /\ hand.move <= key.id
        BY <1>0, <4>1 DEF Numbered, RowIsNewest
      <4>3. hand.move \in Nat /\ key.id \in Nat /\ move[hand.move].source \in Nat
        BY <1>T, <4>1, IdNumbers DEF CareTypes, TypeOK
      <4> QED BY <4>2, <4>3
    <3>4. TargetsThere' /\ KeyThere'
      BY <1>0, <3>1, <3>2, <3>3 DEF TargetsThere, KeyThere, Entitled
    <3> QED BY <1>C, <3>1, <3>4, <1>P
  <2> QED BY <1>6, <2>1, <2>2, <2>3, <2>4, <2>5 DEF MoveNext
<1>7. CASE PassNext
  <2>1. ASSUME NEW s \in Servers, PassInventory(s) PROVE LostInv'
    <3>1. OnServer(s) \in SUBSET Ids /\ RecordListing(s, OnServer(s)) /\ listing' = listing
      BY <2>1 DEF PassInventory, OnServer, CareTypes, TypeOK
    <3>2. key.at = s /\ key.id \in remote => key.id \in OnServer(s)
      BY <1>0 DEF RowIsNewest, OnServer
    <3>3. Entitled /\ key.at = s /\ key.id \notin lost => key.id \in OnServer(s)
      BY <1>0, <3>2 DEF KeyThere
    <3> QED BY <1>E, <3>1, <3>3
  <2>2. CASE Expire
    BY <1>D, <2>2 DEF Expire
  <2>3. CASE EnforceQuota
    <3>1. UNCHANGED <<missed, issued, key, repair, lost, listing, remote, hand>>
          /\ (sub' = sub \/ sub' = "closed")
      BY <2>3 DEF EnforceQuota
    <3> QED BY <1>D, <3>1
  <2> QED BY <1>4, <1>5, <1>6, <1>7, <2>1, <2>2, <2>3 DEF PassNext
<1>8. CASE UNCHANGED vars
  BY <1>D, <1>8 DEF vars
<1> QED BY <1>2, <1>3, <1>7, <1>8 DEF Next

(* A repair is only opened for a key that was lost: a listing read before a move
   or a repair changed the row is never enough. *)
THEOREM RepairMissingSafety == Spec => []RepairMeansMissing
<1>1. LostInv => RepairMeansMissing
  BY DEF LostInv
<1> QED
  BY <1>1, TypesInit, TypesStep, RevokeInit, RevokeStep, HandsInit, HandsStep, LostInit, LostStep,
     PTL DEF Spec

-----------------------------------------------------------------------------
(* Retired servers *)

(* The owner retires no server a move that is not over still needs. *)
RetireInv ==
  /\ \A j \in Moves : OpenMove(j) => life[move[j].to] # "retired"
  /\ RetiredServerHasNoKey

(* At first no server is retired. *)
LEMMA RetireInit == Init => RetireInv
BY CareAssumption DEF Init, RetireInv, RetiredServerHasNoKey, OpenMove, NoMove

(* With careful staff no step puts a key on a retired server. *)
LEMMA RetireStep ==
  ASSUME CarefulStaff
  PROVE  CareTypes /\ HandsInv /\ RetireInv /\ [Next]_vars => RetireInv'
<1> SUFFICES ASSUME CareTypes, HandsInv, RetireInv, [Next]_vars
             PROVE  RetireInv'
  OBVIOUS
<1>T. /\ hand \in Hands /\ (hand.op = "move" => hand.move \in Moves)
      /\ life \in [Servers -> {"active", "draining", "retired"}]
      /\ key.at \in Servers /\ \A j \in Moves : move[j].to \in Servers
  BY DEF CareTypes, TypeOK, Hands
<1>0. MoveInHand
  BY DEF HandsInv, MoveInv
<1> USE DEF entitlementVars, jobVars, ledgerVars, remoteVars, seenVars, runVars
<1>1. ASSUME UNCHANGED <<key, move, life>> PROVE RetireInv'
  BY <1>1 DEF RetireInv, RetiredServerHasNoKey, OpenMove
(* A move that was open may end or stay open. *)
<1>2. ASSUME NEW j \in Moves, NEW status, OpenMove(j), UNCHANGED <<key, life>>,
             move' = [move EXCEPT ![j].status = status]
      PROVE  RetireInv'
  <2>1. \A k \in Moves :
          /\ move'[k].status = IF k = j THEN status ELSE move[k].status
          /\ move'[k].to = move[k].to
    BY <1>2, MovedRow, Zenon
  <2> QED BY <1>2, <2>1 DEF RetireInv, RetiredServerHasNoKey, OpenMove
<1>3. CASE EnvNext
  BY <1>1, <1>3 DEF EnvNext, Traffic, Vanish, BecomesDue, SampleAges, Crash
<1>4. CASE BotNext
  <2>1. ASSUME NEW s \in Servers, NEW state \in Lifecycles, SetLifecycle(s, state) PROVE RetireInv'
    <3>1. /\ UNCHANGED <<key, move>> /\ life' = [life EXCEPT ![s] = state]
          /\ state = "retired" => /\ \A j \in Moves : OpenMove(j) => move[j].to # s
                                  /\ ~(key.status = "active" /\ key.at = s)
      BY <2>1 DEF SetLifecycle, CanRetire
    <3>2. \A t \in Servers : life'[t] = IF t = s THEN state ELSE life[t]
      BY <1>T, <3>1
    <3>3. ASSUME NEW j \in Moves, OpenMove(j) PROVE life'[move[j].to] # "retired"
      BY <1>T, <3>1, <3>2, <3>3 DEF RetireInv
    <3>4. key.status = "active" => life'[key.at] # "retired"
      BY <1>T, <3>1, <3>2 DEF RetireInv, RetiredServerHasNoKey
    <3> QED BY <3>1, <3>3, <3>4 DEF RetireInv, RetiredServerHasNoKey, OpenMove
  <2>2. ASSUME NEW j \in Moves, NEW s \in Servers, QueueMove(j, s) PROVE RetireInv'
    <3>1. UNCHANGED <<key, life>> /\ life[s] = "active"
      BY <2>2 DEF QueueMove
    <3>2. (\A k \in Moves \ {j} : move'[k] = move[k]) /\ move'[j].to = s
      BY <2>2, QueuedRow
    <3> QED BY <3>1, <3>2 DEF RetireInv, RetiredServerHasNoKey, OpenMove
  <2>3. CASE \/ \E s \in Servers : BotLists(s) \/ ApproveRepair(s)
             \/ BotRecords \/ Refund \/ RetryRevoke
    BY <1>1, <2>3 DEF BotLists, ApproveRepair, BotRecords, RecordListing, Refund, RetryRevoke
  <2> QED BY <1>4, <2>1, <2>2, <2>3 DEF BotNext
<1>5. CASE RevokeNext
  <2>1. CASE RevokeCommits
    BY <2>1, KeyRow DEF RevokeCommits, RetireInv, RetiredServerHasNoKey, OpenMove
  <2>2. CASE RevokeClaim \/ RevokeDeletes \/ RevokeFails
    BY <1>1, <2>2 DEF RevokeClaim, RevokeDeletes, RevokeFails
  <2> QED BY <1>5, <2>1, <2>2 DEF RevokeNext
<1>6. CASE RepairNext
  <2>1. CASE RepairCommits
    <3>1. UNCHANGED <<life, move>> /\ key.status = "active"
      BY <2>1 DEF RepairCommits
    <3>2. key'.at = key.at
      BY <2>1, KeyRow
    <3> QED BY <3>1, <3>2 DEF RetireInv, RetiredServerHasNoKey, OpenMove
  <2>2. CASE \/ \E s \in Servers : RepairClaim(s)
             \/ RepairConverges \/ RepairParks \/ RepairCreates \/ RepairFails
    BY <1>1, <2>2 DEF RepairClaim, RepairConverges, RepairParks, RepairCreates, RepairFails
  <2> QED BY <1>6, <2>1, <2>2 DEF RepairNext
<1>7. CASE MoveNext
  <2>1. ASSUME NEW j \in Moves, MoveClaim(j) PROVE RetireInv'
    BY <1>2, <2>1 DEF MoveClaim, OpenMove
  <2>2. CASE MoveCreates \/ MoveDeletes
    BY <1>1, <2>2 DEF MoveCreates, MoveDeletes
  <2>3. hand.op = "move" => hand.move \in Moves /\ OpenMove(hand.move)
    BY <1>0 DEF MoveInHand, OpenMove
  <2>4. CASE MoveFails
    <3>1. hand.op = "move" /\ UNCHANGED <<key, life>>
      BY <2>4 DEF MoveFails, Moving
    <3>2. PICK status : move' = [move EXCEPT ![hand.move].status = status]
      BY <2>4 DEF MoveFails
    <3> QED BY <1>2, <2>3, <3>1, <3>2
  <2>5. CASE MoveDeleteFails \/ MoveCompletes
    BY <1>2, <2>3, <2>5 DEF MoveDeleteFails, MoveCompletes, Moving
  <2>6. CASE Cutover
    <3>1. /\ hand.move \in Moves /\ hand.op = "move" /\ key'.at = move[hand.move].to
      BY <2>6, CutoverRow
    <3>2. UNCHANGED life /\ move' = [move EXCEPT ![hand.move].status = "source_delete_pending"]
      BY <2>6 DEF Cutover
    <3>0. hand.move \in Moves
      BY <3>1
    <3>3. \A k \in Moves :
            /\ move'[k].status = IF k = hand.move THEN "source_delete_pending" ELSE move[k].status
            /\ move'[k].to = move[k].to
      BY <3>0, <3>2, MovedRow, Zenon
    <3> QED BY <2>3, <3>1, <3>2, <3>3 DEF RetireInv, RetiredServerHasNoKey, OpenMove
  <2> QED BY <1>7, <2>1, <2>2, <2>4, <2>5, <2>6 DEF MoveNext
<1>8. CASE \/ \E s \in Servers : PassInventory(s)
           \/ Expire \/ EnforceQuota \/ UNCHANGED vars
  BY <1>1, <1>8 DEF PassInventory, RecordListing, Expire, EnforceQuota, vars
<1> QED BY <1>3, <1>4, <1>5, <1>6, <1>7, <1>8 DEF Next, PassNext

(* A retired server serves nobody, as long as the owner retires no server that
   an unfinished move is aimed at. *)
THEOREM RetiredServerSafety ==
  ASSUME CarefulStaff
  PROVE  Spec => []RetiredServerHasNoKey
<1>1. RetireInv => RetiredServerHasNoKey
  BY DEF RetireInv
<1> QED
  BY <1>1, TypesInit, TypesStep, HandsInit, HandsStep, RetireInit, RetireStep, PTL DEF Spec

-----------------------------------------------------------------------------
(* Quota and finished jobs *)

(* Without a crash in the middle of a deletion, a job whose target was given
   out owes nothing but that deletion. *)
NoRestart ==
  \A j \in Moves \cap issued :
    \/ move[j].status \in {"source_delete_pending", "completed"}
    \/ InMove(j, {"delete", "deleted"})

(* The limit a job has set is what it is about to record. *)
LimitInHand ==
  /\ hand.op = "move" /\ hand.step = "commit" => limit[hand.move] <= hand.left
  /\ hand.op = "repair" /\ hand.step = "commit" => limit[key.id] <= hand.left

DeletedInHand == hand.op = "revoke" /\ hand.step = "deleted" => key.id \notin remote

LimitKept == key.status = "active" /\ key.id \in remote => limit[key.id] <= key.quota

QuotaInv == NoRestart /\ LimitInHand /\ DeletedInHand /\ LimitKept /\ FinishedMeansGone

(* At first the server enforces the quota of the row. *)
LEMMA QuotaInit == Init => QuotaInv
<1> SUFFICES ASSUME Init PROVE QuotaInv
  OBVIOUS
<1>1. /\ key = [status |-> "active", at |-> Home, id |-> 0, quota |-> Quota]
      /\ issued = {0} /\ hand.op = "idle" /\ limit[0] = Quota
  BY DEF Init, Idle, Ids
<1>2. \A j \in Moves : move[j].status = "none" /\ j \notin issued
  BY <1>1, MovesAssumption DEF Init, NoMove
<1> QED
  BY <1>1, <1>2, CareAssumption
     DEF QuotaInv, NoRestart, LimitInHand, DeletedInHand, LimitKept, FinishedMeansGone

(* Every step keeps the limits, as long as no crash hits a deletion. *)
LEMMA QuotaStep ==
  ASSUME ~DeleteCutShort
  PROVE  CareTypes /\ HandsInv /\ QuotaInv /\ [Next]_vars => QuotaInv'
<1> SUFFICES ASSUME CareTypes, HandsInv, QuotaInv, [Next]_vars
             PROVE  QuotaInv'
  OBVIOUS
<1>T. /\ hand \in Hands /\ (hand.op = "move" => hand.move \in Moves)
      /\ key.id \in Ids /\ Moves \subseteq Ids /\ Ids \subseteq Nat
      /\ limit \in [Ids -> 0..Quota] /\ hand.left \in 0..Quota /\ key.quota \in 0..Quota
      /\ \A j \in Moves : move[j].source \in Ids
  BY IdNumbers DEF CareTypes, TypeOK, Hands
<1>0. /\ Numbered /\ RowIsNewest /\ MoveInHand /\ RepairInHand
      /\ NoRestart /\ LimitInHand /\ DeletedInHand /\ LimitKept /\ FinishedMeansGone
  BY DEF HandsInv, MoveInv, QuotaInv
<1>P. ASSUME NoRestart', LimitInHand', DeletedInHand', LimitKept', FinishedMeansGone'
      PROVE  QuotaInv'
  BY <1>P DEF QuotaInv
(* A key the row has left is not the row's key. *)
<1>L. ASSUME NEW j \in Moves, j \in issued PROVE move[j].source # key.id
  <2>1. move[j].source < j /\ j <= key.id
    BY <1>0, <1>L DEF RowIsNewest, Numbered
  <2>2. move[j].source \in Nat /\ j \in Nat /\ key.id \in Nat
    BY <1>T
  <2> QED BY <2>1, <2>2
<1> USE DEF entitlementVars, jobVars, ledgerVars, remoteVars, seenVars, runVars
<1>1. ASSUME UNCHANGED <<key, move, issued, remote, limit, hand>> PROVE QuotaInv'
  BY <1>0, <1>1, <1>P
     DEF NoRestart, InMove, LimitInHand, DeletedInHand, LimitKept, FinishedMeansGone
(* Forgetting a key only lowers its limit. *)
<1>2. ASSUME NEW i \in Ids, RemoteForgets(i), UNCHANGED <<key, move>>
      PROVE  /\ LimitKept' /\ FinishedMeansGone'
             /\ \A k \in Ids : limit'[k] \in 0..Quota /\ limit'[k] <= limit[k]
  <2>1. \A k \in Ids : limit'[k] = IF k = i THEN 0 ELSE limit[k]
    BY <1>T, <1>2 DEF RemoteForgets
  <2>2. \A k \in Ids : limit'[k] \in 0..Quota /\ limit'[k] <= limit[k]
    <3> TAKE k \in Ids
    <3>1. limit[k] \in 0..Quota /\ Quota \in Nat
      BY <1>T, CareAssumption
    <3>2. limit'[k] = 0 \/ limit'[k] = limit[k]
      BY <2>1
    <3> QED BY <3>1, <3>2
  <2>3. limit'[key.id] <= limit[key.id] /\ limit[key.id] \in 0..Quota /\ limit'[key.id] \in 0..Quota
    BY <1>T, <2>2
  <2>4. remote' \subseteq remote
    BY <1>2 DEF RemoteForgets
  <2> QED BY <1>0, <1>2, <1>T, <2>2, <2>3, <2>4 DEF LimitKept, FinishedMeansGone
(* A thread that drops a job owes what the rows say. *)
<1>3. ASSUME UNCHANGED <<key, move, issued, remote, limit>>, hand'.op \in {"idle", "repair", "revoke"},
             hand'.step \in {"none", "create", "delete"},
             \A j \in Moves \cap issued : move[j].status \in {"source_delete_pending", "completed"}
      PROVE  QuotaInv'
  BY <1>0, <1>3, <1>P
     DEF NoRestart, LimitInHand, DeletedInHand, LimitKept, FinishedMeansGone
<1>4. ASSUME hand.op # "move" \/ hand.step \in {"create", "commit"}, NEW j \in Moves \cap issued
      PROVE  move[j].status \in {"source_delete_pending", "completed"}
  BY <1>0, <1>4 DEF NoRestart, InMove
<1>5. CASE EnvNext
  <2>1. CASE Vanish
    <3>1. /\ UNCHANGED <<key, move, issued, hand>> /\ RemoteForgets(key.id) /\ remote' \subseteq remote
      BY <2>1 DEF Vanish, RemoteForgets
    <3>2. /\ LimitKept' /\ FinishedMeansGone'
          /\ \A k \in Ids : limit'[k] \in 0..Quota /\ limit'[k] <= limit[k]
      BY <1>2, <1>T, <3>1
    <3>4. ASSUME NEW k \in Ids, limit[k] <= hand.left PROVE limit'[k] <= hand.left
      <4>1. limit[k] \in 0..Quota /\ limit'[k] \in 0..Quota /\ limit'[k] <= limit[k] /\ hand.left \in 0..Quota
        BY <1>T, <3>2
      <4> QED BY <3>4, <4>1
    <3>5. LimitInHand'
      BY <1>0, <1>T, <3>1, <3>4 DEF LimitInHand
    <3> QED BY <1>0, <3>1, <3>2, <3>5, <1>P DEF NoRestart, InMove, DeletedInHand
  <2>2. CASE Crash
    <3>1. /\ UNCHANGED <<key, move, issued, remote, limit>> /\ hand'.op = "idle" /\ hand'.step = "none"
          /\ ~(hand.op = "move" /\ hand.step \in {"delete", "deleted"}
               /\ move[hand.move].status = "creating")
      BY <2>2 DEF Crash, Idle
    <3>2. \A j \in Moves \cap issued : move[j].status \in {"source_delete_pending", "completed"}
      BY <1>0, <3>1 DEF NoRestart, InMove, MoveInHand
    <3> QED BY <1>3, <3>1, <3>2
  <2>3. CASE ~Vanish /\ ~Crash
    BY <1>1, <1>5, <2>3 DEF EnvNext, Traffic, BecomesDue, SampleAges
  <2> QED BY <2>1, <2>2, <2>3
<1>6. CASE BotNext
  <2>1. ASSUME NEW j \in Moves, NEW s \in Servers, QueueMove(j, s) PROVE QuotaInv'
    <3>1. UNCHANGED <<key, issued, remote, limit, hand>> /\ move[j].status = "none"
      BY <2>1 DEF QueueMove, Fresh
    <3>2. (\A k \in Moves \ {j} : move'[k] = move[k]) /\ move'[j].status = "pending"
      BY <2>1, QueuedRow
    <3>3. j \notin issued
      BY <1>0, <3>1 DEF RowIsNewest
    <3> QED BY <1>0, <3>1, <3>2, <3>3, <1>P
            DEF NoRestart, InMove, LimitInHand, DeletedInHand, LimitKept, FinishedMeansGone
  <2>2. CASE ~\E j \in Moves, s \in Servers : QueueMove(j, s)
    BY <1>1, <1>6, <2>2 DEF BotNext, BotLists, BotRecords, RecordListing, Refund, RetryRevoke,
                            SetLifecycle, ApproveRepair
  <2> QED BY <2>1, <2>2
<1>7. CASE RevokeNext
  <2>1. CASE RevokeClaim
    <3>1. /\ UNCHANGED <<key, move, issued, remote, limit>> /\ hand.op = "idle"
          /\ hand' = hand \/ (hand'.op = "revoke" /\ hand'.step = "delete")
      BY <2>1 DEF RevokeClaim, PassFree, Idle
    <3> QED BY <1>1, <1>3, <1>4, <3>1
  <2>2. CASE RevokeDeletes
    <3>1. /\ UNCHANGED <<key, move, issued>> /\ RemoteForgets(key.id)
          /\ hand'.op = "revoke" /\ hand.op = "revoke"
      BY <1>T, <2>2 DEF RevokeDeletes, Hands
    <3>2. LimitKept' /\ FinishedMeansGone'
      BY <1>2, <1>T, <3>1
    <3>3. NoRestart' /\ LimitInHand' /\ DeletedInHand'
      BY <1>4, <3>1 DEF NoRestart, LimitInHand, DeletedInHand, RemoteForgets
    <3> QED BY <3>2, <3>3, <1>P
  <2>3. CASE RevokeFails
    <3>1. /\ UNCHANGED <<key, move, issued, remote, limit>> /\ hand.op = "revoke"
          /\ hand'.op = "idle" /\ hand'.step = "none"
      BY <2>3 DEF RevokeFails, Idle
    <3> QED BY <1>3, <1>4, <3>1
  <2>4. CASE RevokeCommits
    <3>1. /\ UNCHANGED <<move, issued, remote, limit>> /\ hand.op = "revoke" /\ hand.step = "deleted"
          /\ hand'.op = "idle"
      BY <2>4 DEF RevokeCommits, Idle
    <3>2. key'.id = key.id /\ key'.status = "revoked"
      BY <2>4, KeyRow
    <3>3. key.id \notin remote
      BY <1>0, <3>1 DEF DeletedInHand
    <3> QED BY <1>0, <1>4, <3>1, <3>2, <3>3, <1>P
            DEF NoRestart, LimitInHand, DeletedInHand, LimitKept, FinishedMeansGone
  <2> QED BY <1>7, <2>1, <2>2, <2>3, <2>4 DEF RevokeNext
<1>8. CASE RepairNext
  <2>1. ASSUME NEW s \in Servers, RepairClaim(s) PROVE QuotaInv'
    <3>1. /\ UNCHANGED <<key, move, issued, remote, limit>> /\ hand.op = "idle"
          /\ hand' = hand \/ (hand'.op = "repair" /\ hand'.step = "create")
      BY <2>1 DEF RepairClaim, PassFree, Idle
    <3> QED BY <1>1, <1>3, <1>4, <3>1
  <2>2. CASE RepairConverges \/ RepairParks \/ RepairFails
    <3>1. /\ UNCHANGED <<key, move, issued, remote, limit>> /\ hand.op = "repair"
          /\ hand'.op = "idle" /\ hand'.step = "none"
      BY <2>2 DEF RepairConverges, RepairParks, RepairFails, Repairing, Idle
    <3> QED BY <1>3, <1>4, <3>1
  <2>3. CASE RepairCreates
    <3>1. /\ UNCHANGED <<key, move, issued>> /\ hand.op = "repair"
          /\ remote' = remote \cup {key.id}
      BY <2>3 DEF RepairCreates, Repairing
    <3>2. PICK r \in Reading(key.id) :
            /\ Believed(r) # Unknown /\ ~Exhausted(Believed(r))
            /\ hand' = [hand EXCEPT !.step = "commit", !.left = key.quota - Believed(r)]
            /\ limit' = [limit EXCEPT ![key.id] = key.quota - Believed(r)]
      BY <2>3 DEF RepairCreates
    <3>3. key.quota - Believed(r) \in 0..Quota /\ key.quota - Believed(r) <= key.quota
      BY <1>T, <3>2, ReadingTypes, BelievedTypes DEF CareTypes
    <3>4. /\ limit'[key.id] = key.quota - Believed(r)
          /\ hand'.op = "repair" /\ hand'.left = key.quota - Believed(r)
      BY <1>T, <3>1, <3>2 DEF Hands
    <3>5. key.status = "active"
      BY <1>0, <3>1 DEF RepairInHand
    <3>6. \A j \in Moves : move[j].status = "completed" => move[j].source # key.id
      BY <1>0, <1>L DEF RowIsNewest
    <3>7. NoRestart' /\ DeletedInHand' /\ FinishedMeansGone'
      BY <1>0, <1>4, <3>1, <3>4, <3>5, <3>6 DEF NoRestart, DeletedInHand, FinishedMeansGone
    <3>8. LimitInHand' /\ LimitKept'
      BY <3>1, <3>3, <3>4, <1>T DEF LimitInHand, LimitKept
    <3> QED BY <3>7, <3>8, <1>P
  <2>4. CASE RepairCommits
    <3>1. /\ UNCHANGED <<move, issued, remote, limit>> /\ hand.op = "repair" /\ hand.step = "commit"
          /\ hand'.op = "idle"
      BY <2>4 DEF RepairCommits, Repairing, Idle
    <3>2. key'.id = key.id /\ key'.status = "active" /\ key'.quota = hand.left
      BY <2>4, KeyRow
    <3>3. NoRestart' /\ LimitInHand' /\ DeletedInHand' /\ LimitKept'
      BY <1>0, <1>4, <3>1, <3>2 DEF NoRestart, LimitInHand, DeletedInHand, LimitKept
    <3>4. FinishedMeansGone'
      BY <1>0, <3>1, <3>2 DEF FinishedMeansGone
    <3> QED BY <3>3, <3>4, <1>P
  <2> QED BY <1>8, <2>1, <2>2, <2>3, <2>4 DEF RepairNext
<1>9. CASE MoveNext
  <2>1. ASSUME NEW j \in Moves, MoveClaim(j) PROVE QuotaInv'
    <3>1. /\ UNCHANGED <<key, issued, remote, limit>> /\ hand.op = "idle"
          /\ move[j].status \in {"pending", "creating", "source_delete_pending"}
          /\ move' = [move EXCEPT ![j].status = "creating"]
      BY <2>1 DEF MoveClaim, PassFree
    <3>2. /\ hand'.op = "move" /\ hand'.move = j
          /\ hand'.step = IF move[j].status = "source_delete_pending" THEN "delete" ELSE "create"
      BY <2>1 DEF MoveClaim, Idle
    <3>3. \A k \in Moves :
            /\ move'[k].status = IF k = j THEN "creating" ELSE move[k].status
            /\ move'[k].source = move[k].source
      BY <3>1, MovedRow
    <3>4. NoRestart'
      BY <1>4, <3>1, <3>2, <3>3 DEF NoRestart, InMove
    <3> QED BY <1>0, <3>1, <3>2, <3>3, <3>4, <1>P
            DEF LimitInHand, DeletedInHand, LimitKept, FinishedMeansGone
  <2>2. CASE MoveCreates
    <3>1. /\ UNCHANGED <<key, move, issued>> /\ hand.op = "move" /\ hand.step = "create"
          /\ remote' = remote \cup {hand.move} /\ hand.move \in Moves
      BY <1>T, <2>2 DEF MoveCreates, Moving
    <3>2. PICK r \in Reading(Job.source) :
            /\ hand' = [hand EXCEPT !.step = "commit", !.left = Job.quota - r]
            /\ limit' = [limit EXCEPT ![hand.move] = Job.quota - r]
            /\ r # Unknown /\ r < Job.quota
      BY <2>2 DEF MoveCreates
    <3>3. hand.move \notin issued
      BY <1>0, <1>4, <3>1 DEF MoveInHand
    <3>4. key.id # hand.move /\ \A j \in Moves : move[j].status = "completed" => move[j].source # hand.move
      BY <1>0, <3>3 DEF RowIsNewest, Numbered
    <3>5. /\ hand'.op = "move" /\ hand'.step = "commit" /\ hand'.move = hand.move
          /\ hand'.left = Job.quota - r
      BY <1>T, <3>1, <3>2 DEF Hands
    <3>6. \A k \in Ids : limit'[k] = IF k = hand.move THEN Job.quota - r ELSE limit[k]
      BY <1>T, <3>2
    <3>7. Job.quota - r \in Int
      <4>1. Job.quota \in 0..Quota /\ Job.source \in Ids
        BY <3>1 DEF Job, CareTypes, TypeOK
      <4> QED BY <3>2, <4>1, ReadingTypes DEF CareTypes, Readings, Unknown
    <3>8. LimitInHand'
      <4>1. limit'[hand'.move] = hand'.left /\ hand'.left \in Int /\ hand'.op # "repair"
        BY <1>T, <3>1, <3>5, <3>6, <3>7
      <4> QED BY <4>1 DEF LimitInHand
    <3>9. LimitKept' /\ FinishedMeansGone'
      BY <1>0, <1>T, <3>1, <3>4, <3>6 DEF LimitKept, FinishedMeansGone
    <3>10. NoRestart' /\ DeletedInHand'
      BY <1>4, <3>1, <3>5 DEF NoRestart, DeletedInHand
    <3> QED BY <3>8, <3>9, <3>10, <1>P
  <2>3. CASE MoveFails
    <3>1. /\ hand.op = "move" /\ hand.step \in {"create", "commit"}
          /\ UNCHANGED <<key, issued, remote, limit>> /\ hand'.op = "idle" /\ hand.move \in Moves
      BY <1>T, <2>3 DEF MoveFails, Moving, Idle
    <3>2. PICK status \in {"pending", "failed"} : move' = [move EXCEPT ![hand.move].status = status]
      BY <2>3 DEF MoveFails
    <3>0. hand.move \in Moves
      BY <3>1
    <3>3. \A k \in Moves :
            /\ move'[k].status = IF k = hand.move THEN status ELSE move[k].status
            /\ move'[k].source = move[k].source
      BY <3>0, <3>2, MovedRow, Zenon
    <3>4. hand.move \notin issued
      BY <1>0, <1>4, <3>1 DEF MoveInHand
    <3>5. NoRestart' /\ LimitInHand' /\ DeletedInHand'
      BY <1>4, <3>1, <3>3, <3>4 DEF NoRestart, LimitInHand, DeletedInHand
    <3>6. LimitKept' /\ FinishedMeansGone'
      BY <1>0, <3>1, <3>2, <3>3 DEF LimitKept, FinishedMeansGone
    <3> QED BY <3>5, <3>6, <1>P
  <2>4. CASE Cutover
    <3>1. /\ hand.move \in Moves /\ hand.op = "move" /\ hand.step = "commit"
          /\ key'.id = hand.move /\ key'.quota = hand.left /\ key'.status = "active"
      BY <2>4, CutoverRow
    <3>2. /\ UNCHANGED <<remote, limit>> /\ issued' = issued \cup {hand.move}
          /\ move' = [move EXCEPT ![hand.move].status = "source_delete_pending"]
          /\ hand' = [hand EXCEPT !.step = "delete"]
      BY <2>4 DEF Cutover
    <3>0. hand.move \in Moves
      BY <3>1
    <3>3. \A k \in Moves :
            /\ move'[k].status = IF k = hand.move THEN "source_delete_pending" ELSE move[k].status
            /\ move'[k].source = move[k].source
      BY <3>0, <3>2, MovedRow, Zenon
    <3>4. hand'.op = "move" /\ hand'.step = "delete"
      BY <1>T, <3>1, <3>2 DEF Hands
    <3>5. NoRestart' /\ LimitInHand' /\ DeletedInHand'
      BY <1>4, <3>1, <3>2, <3>3, <3>4 DEF NoRestart, LimitInHand, DeletedInHand
    <3>6. LimitKept'
      BY <1>0, <3>1, <3>2 DEF LimitInHand, LimitKept
    <3>7. FinishedMeansGone'
      BY <1>0, <3>1, <3>2, <3>3 DEF FinishedMeansGone
    <3> QED BY <3>5, <3>6, <3>7, <1>P
  <2>5. CASE MoveDeletes
    <3>1. /\ UNCHANGED <<key, move, issued>> /\ hand.op = "move" /\ hand.step = "delete"
          /\ RemoteForgets(move[hand.move].source) /\ hand.move \in Moves
      BY <1>T, <2>5 DEF MoveDeletes, Moving, Job
    <3>2. hand'.op = "move" /\ hand'.step = "deleted" /\ hand'.move = hand.move
      BY <1>T, <2>5, <3>1 DEF MoveDeletes, Hands
    <3>3. LimitKept' /\ FinishedMeansGone'
      BY <1>2, <1>T, <3>1
    <3>4. NoRestart' /\ LimitInHand' /\ DeletedInHand'
      BY <1>0, <3>1, <3>2 DEF NoRestart, InMove, LimitInHand, DeletedInHand
    <3> QED BY <3>3, <3>4, <1>P
  <2>6. CASE MoveDeleteFails \/ MoveCompletes
    <3>1. PICK status \in {"source_delete_pending", "completed"} :
            /\ move' = [move EXCEPT ![hand.move].status = status]
            /\ status = "completed" => hand.step = "deleted"
      BY <2>6 DEF MoveDeleteFails, MoveCompletes, Moving
    <3>2. hand.op = "move" /\ UNCHANGED <<key, issued, remote, limit>> /\ hand'.op = "idle"
      BY <2>6 DEF MoveDeleteFails, MoveCompletes, Moving, Idle
    <3>0. hand.move \in Moves
      BY <1>T, <3>2
    <3>3. \A k \in Moves :
            /\ move'[k].status = IF k = hand.move THEN status ELSE move[k].status
            /\ move'[k].source = move[k].source
      BY <3>0, <3>1, MovedRow, Zenon
    <3>4. status = "completed" => move[hand.move].source \notin remote
      BY <1>0, <3>1, <3>2 DEF MoveInHand
    <3>5. NoRestart' /\ LimitInHand' /\ DeletedInHand'
      BY <1>0, <3>2, <3>3 DEF NoRestart, InMove, LimitInHand, DeletedInHand
    <3>6. LimitKept' /\ FinishedMeansGone'
      BY <1>0, <3>2, <3>3, <3>4 DEF LimitKept, FinishedMeansGone
    <3> QED BY <3>5, <3>6, <1>P
  <2> QED BY <1>9, <2>1, <2>2, <2>3, <2>4, <2>5, <2>6 DEF MoveNext
<1>10. CASE \/ \E s \in Servers : PassInventory(s)
            \/ Expire \/ EnforceQuota \/ UNCHANGED vars
  BY <1>1, <1>10 DEF PassInventory, RecordListing, Expire, EnforceQuota, vars
<1> QED BY <1>5, <1>6, <1>7, <1>8, <1>9, <1>10 DEF Next, PassNext

(* The server never lets a key transfer more than the row has left, as long as
   no crash hits the deletion of a moved key. *)
THEOREM EnforcedQuotaSafety ==
  ASSUME ~DeleteCutShort
  PROVE  Spec => []ServerEnforcesQuota
<1>1. QuotaInv => ServerEnforcesQuota
  BY DEF QuotaInv, LimitKept, ServerEnforcesQuota
<1> QED
  BY <1>1, TypesInit, TypesStep, HandsInit, HandsStep, QuotaInit, QuotaStep, PTL DEF Spec

(* The source of a completed move and the key of a revoked row are off their
   servers for good, under the same assumption. *)
THEOREM FinishedGoneSafety ==
  ASSUME ~DeleteCutShort
  PROVE  Spec => []FinishedMeansGone
<1>1. QuotaInv => FinishedMeansGone
  BY DEF QuotaInv
<1> QED
  BY <1>1, TypesInit, TypesStep, HandsInit, HandsStep, QuotaInit, QuotaStep, PTL DEF Spec

=============================================================================
