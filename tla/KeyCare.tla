------------------------------- MODULE KeyCare -------------------------------
(***************************************************************************)
(* What happens to a managed key after it was issued: inventory finds it   *)
(* missing and a repair job recreates it, the owner moves it to another    *)
(* server, quota, expiry or refund end it, and the owner retires servers   *)
(* (commerce_worker.py, commerce_service.py, connectivity_registry.py).    *)
(*                                                                         *)
(* One paid key is enough: a repair job belongs to one key and server, a   *)
(* migration job to one credential, and keys share nothing but the thread. *)
(* Two threads act.  The maintenance thread ("pass") holds one job at a    *)
(* time, in hand; the Telegram thread ("bot") runs one handler at a time.  *)
(* A transaction is a step, a remote call is a step, and the other thread  *)
(* may act in between.  PaidAccess has the provisioning before this, the   *)
(* revoke job in full and the counting of attempts: here a job that fails  *)
(* is tried again or parked.                                               *)
(***************************************************************************)
EXTENDS Integers, FiniteSets

CONSTANTS
  Servers,        \* Outline servers
  Home,           \* the server the key was provisioned on
  Moves,          \* migration job ids, an interval from 1
  Quota,          \* bytes sold, in units of traffic
  MaxCrashes,     \* bound: crashes explored
  DeleteCutShort, \* whether the deletion of a moved key may be cut short: by a crash, or
                  \* by a client or a database that raises outside its try block
  CarefulStaff,   \* whether the owner retires no target of an open migration
  Lifecycles,     \* lifecycle states the owner sets
  TrackUsage      \* whether the history of readings is kept

ASSUME CareAssumption ==
  /\ Home \in Servers
  /\ Quota \in Nat \ {0}
  /\ MaxCrashes \in Nat
  /\ DeleteCutShort \in BOOLEAN
  /\ Lifecycles \subseteq {"active", "draining", "retired"}
  /\ CarefulStaff \in BOOLEAN /\ TrackUsage \in BOOLEAN
ASSUME MovesAssumption == Moves \subseteq Nat \ {0}

(* Outline key ids.  0 is the provisioned key; migration j names its target
   j.  A repair recreates a key under its own id. *)
Ids == {0} \cup Moves
Unknown == -1                        \* no usage reading
Readings == {Unknown} \cup 0..Quota

VARIABLES
  sub,       \* subscriptions.status: "active" or "closed"
  due,       \* whether expires_at has passed
  key,       \* paid_vpn_keys: [status, at, id, quota]
  sample,    \* its last_usage_bytes and how old: [used, age]
  spent,     \* its quota_reason is set
  revoke,    \* status of the revoke job
  repair,    \* managed_key_repair_jobs, one row per server for this key
  move,      \* connectivity_migration_jobs
  active,    \* ids whose registry credential is active
  missed,    \* missing_observation_count per id
  empty,     \* servers whose last recorded listing had no key
  life,      \* outline_servers.lifecycle_state
  remote,    \* ids that exist on their server
  limit,     \* data limit of each id on its server
  traffic,   \* bytes each id has transferred there
  issued,    \* ids whose access URL the customer was given
  recorded,  \* history: highest usage read for the key since it got its quota
  lost,      \* history: ids that vanished behind the program's back
  hand,      \* the job of the maintenance thread
  listing,   \* a listing the Telegram thread has read and not yet written
  crashes    \* crashes so far

entitlementVars == <<sub, due, key, sample, spent>>
jobVars    == <<revoke, repair, move>>
ledgerVars == <<active, missed, empty, life>>
remoteVars == <<remote, limit, traffic>>
seenVars   == <<issued, recorded, lost>>
runVars    == <<hand, listing, crashes>>
vars == <<entitlementVars, jobVars, ledgerVars, remoteVars, seenVars, runVars>>

Idle == [op |-> "idle", step |-> "none", at |-> Home, move |-> 0,
         used |-> Unknown, left |-> 0]
NoListing == [open |-> FALSE, at |-> Home, found |-> {}]
NoRepair == [status |-> "none", source |-> 0, why |-> "none"]
NoMove == [status |-> "none", source |-> 0, from |-> Home, to |-> Home,
           quota |-> 0]

RepairStatus == {"none", "pending", "running", "failed", "manual", "done"}
MoveStatus == {"none", "pending", "creating", "source_delete_pending",
               "failed", "completed"}
Reasons == {"none", "usage", "spent", "approved"}

TypeOK ==
  /\ sub \in {"active", "closed"} /\ due \in BOOLEAN /\ spent \in BOOLEAN
  /\ key \in [status : {"active", "revoked"}, at : Servers, id : Ids,
              quota : 0..Quota]
  /\ sample \in [used : 0..Quota, age : {"recent", "old"}]
  /\ revoke \in {"none", "pending", "running", "done", "failed"}
  /\ repair \in [Servers -> [status : RepairStatus, source : Ids, why : Reasons]]
  /\ move \in [Moves -> [status : MoveStatus, source : Ids, from : Servers,
                         to : Servers, quota : 0..Quota]]
  /\ active \subseteq Ids /\ missed \in [Ids -> 0..2]
  /\ empty \subseteq Servers
  /\ life \in [Servers -> {"active", "draining", "retired"}]
  /\ remote \subseteq Ids /\ issued \subseteq Ids
  /\ limit \in [Ids -> 0..Quota] /\ traffic \in [Ids -> 0..Quota]
  /\ recorded \in 0..Quota /\ lost \subseteq Ids
  /\ hand \in [op : {"idle", "revoke", "repair", "move"},
               step : {"none", "delete", "deleted", "create", "commit"},
               at : Servers, move : {0} \cup Moves, used : Readings,
               left : 0..Quota]
  /\ listing \in [open : BOOLEAN, at : Servers, found : SUBSET Ids]
  /\ crashes \in 0..MaxCrashes

Init ==
  /\ sub = "active" /\ due = FALSE /\ spent = FALSE
  /\ key = [status |-> "active", at |-> Home, id |-> 0, quota |-> Quota]
  /\ sample = [used |-> 0, age |-> "old"]
  /\ revoke = "none"
  /\ repair = [s \in Servers |-> NoRepair]
  /\ move = [j \in Moves |-> NoMove]
  /\ active = {0} /\ missed = [i \in Ids |-> 0]
  /\ empty = {}
  /\ life = [s \in Servers |-> "active"]
  /\ remote = {0}
  /\ limit = [i \in Ids |-> IF i = 0 THEN Quota ELSE 0]
  /\ traffic = [i \in Ids |-> 0]
  /\ issued = {0} /\ recorded = 0 /\ lost = {}
  /\ hand = Idle /\ listing = NoListing /\ crashes = 0

-----------------------------------------------------------------------------
(* Where an id lives, and what the metrics endpoint of its server says. *)

ServerOf(i) == IF i = 0 THEN Home ELSE move[i].to
OnServer(s) == {i \in remote : ServerOf(i) = s}

(* A key without traffic may be left out of the map and a deleted one may
   still be in it; a server that cannot be reached reports nothing. *)
Reading(i) == {Unknown} \cup
              (IF i \in remote \/ traffic[i] > 0 THEN {traffic[i]} ELSE {})

PassFree == hand.op = "idle"
BotFree  == ~listing.open
Entitled == key.status = "active" /\ sub = "active"

HigherOf(a, b) == IF a > b THEN a ELSE b
Noted(used)    == IF TrackUsage THEN HigherOf(recorded, used) ELSE recorded
UpTo(n, max)   == IF n < max THEN n + 1 ELSE max

-----------------------------------------------------------------------------
(* The world outside: customers use keys, keys vanish, time passes. *)

RemoteForgets(i) == /\ remote' = remote \ {i} /\ limit' = [limit EXCEPT ![i] = 0]
                    /\ UNCHANGED traffic

Traffic(i) ==
  /\ i \in issued \cap remote /\ traffic[i] < limit[i]
  /\ traffic' = [traffic EXCEPT ![i] = @ + 1]
  /\ UNCHANGED <<entitlementVars, jobVars, ledgerVars, remote, limit, seenVars,
                 runVars>>

(* Somebody deletes the key in the Outline manager, or the server is rebuilt. *)
Vanish ==
  /\ Entitled /\ key.id \in remote /\ lost = {}
  /\ RemoteForgets(key.id) /\ lost' = {key.id}
  /\ UNCHANGED <<entitlementVars, jobVars, ledgerVars, issued, recorded, runVars>>

BecomesDue ==
  /\ Entitled /\ ~due /\ due' = TRUE
  /\ UNCHANGED <<sub, key, sample, spent, jobVars, ledgerVars, remoteVars,
                 seenVars, runVars>>

SampleAges ==
  /\ Entitled /\ sample.age = "recent" /\ sample' = [sample EXCEPT !.age = "old"]
  /\ UNCHANGED <<sub, due, key, spent, jobVars, ledgerVars, remoteVars,
                 seenVars, runVars>>

(* The process stops; the jobs it held stay running until they are stale. *)
Crash ==
  /\ crashes < MaxCrashes /\ (hand # Idle \/ listing.open)
  /\ hand.op = "move" /\ hand.step \in {"delete", "deleted"}
       /\ move[hand.move].status = "creating" => DeleteCutShort
  /\ crashes' = crashes + 1 /\ hand' = Idle /\ listing' = NoListing
  /\ UNCHANGED <<entitlementVars, jobVars, ledgerVars, remoteVars, seenVars>>

EnvNext == \/ \E i \in Ids : Traffic(i)
           \/ Vanish \/ BecomesDue \/ SampleAges \/ Crash

-----------------------------------------------------------------------------
(* Inventory: compare one server with the rows that live there. *)

(* Every entitlement the inventory still looks after. *)
Managed(s) == Entitled /\ key.at = s /\ ~spent

Exhausted(used) == used >= key.quota

(* What a job opened now says: a reading, or a sample young enough. *)
Verdict(reading) ==
  LET used == IF reading # Unknown THEN reading
              ELSE IF sample.age = "recent" THEN sample.used ELSE Unknown
  IN  CASE used = Unknown  -> [status |-> "manual", why |-> "usage"]
        [] used # Unknown /\ Exhausted(used) -> [status |-> "manual", why |-> "spent"]
        [] OTHER           -> [status |-> "pending", why |-> "none"]

(* A job in progress or in review is left alone; a finished one is an earlier
   disappearance, and another source another key. *)
Reopens(s) == repair[s].status \in {"none", "done"} \/ repair[s].source # key.id

Enqueued(s, reading) ==
  IF ~Reopens(s) THEN repair
  ELSE [repair EXCEPT ![s] = [status |-> Verdict(reading).status,
                              source |-> key.id,
                              why |-> Verdict(reading).why]]

Required_One == 1                          \* mutant: one listing is enough

Required == 2                              \* consecutive observations

(* The metrics are read last, just before the transaction that records them
   with the ids found by the earlier listing. *)
RecordListing(s, found) ==
  LET i == key.id
      gone == Managed(s) /\ i \notin found
  IN
  \E reading \in Reading(i), elapsed \in BOOLEAN :  \* since it was last counted
    LET n == IF missed[i] = 0 THEN 1
             ELSE IF elapsed THEN UpTo(missed[i], Required) ELSE missed[i]
    IN
    /\ empty' = IF found = {} THEN empty \cup {s} ELSE empty \ {s}
    /\ missed' = [k \in Ids |-> IF k \in found THEN 0
                                ELSE IF gone /\ k = i THEN n ELSE missed[k]]
    /\ repair' = IF gone /\ elapsed /\ n >= Required
                 THEN Enqueued(s, reading) ELSE repair
    /\ IF Managed(s) /\ reading # Unknown
       THEN /\ sample' = [used |-> reading, age |-> "recent"]
            /\ recorded' = Noted(reading)
       ELSE UNCHANGED <<sample, recorded>>
    /\ UNCHANGED <<sub, due, key, spent, revoke, move, active, life, remoteVars,
                   issued, lost, hand, crashes>>

(* A staff command refreshes the inventory on the Telegram thread: the
   maintenance thread may act between the listing and the transaction.  Only a
   job in hand that changes a row of the listed server makes a difference; any
   other listing is PassInventory. *)
InHand == CASE hand.op = "repair" -> {hand.at}
            [] hand.op = "move"   -> {move[hand.move].to}
            [] OTHER              -> {}

BotLists(s) ==
  /\ BotFree /\ Entitled /\ s \in InHand /\ life[s] # "retired"
  /\ listing' = [open |-> TRUE, at |-> s, found |-> OnServer(s)]
  /\ UNCHANGED <<entitlementVars, jobVars, ledgerVars, remoteVars, seenVars,
                 hand, crashes>>

BotRecords ==
  /\ listing.open /\ listing' = NoListing
  /\ RecordListing(listing.at, listing.found)

(* On the maintenance thread nothing it compares can change in between: only
   that thread moves keys. *)
PassInventory(s) ==
  /\ PassFree /\ life[s] # "retired"
  /\ RecordListing(s, OnServer(s))
  /\ UNCHANGED listing

-----------------------------------------------------------------------------
(* The Telegram thread: refunds and the owner's decisions. *)

Refund ==
  /\ BotFree /\ sub = "active"
  /\ sub' = "closed"
  /\ revoke' = IF revoke = "none" THEN "pending" ELSE revoke
  /\ UNCHANGED <<due, key, sample, spent, repair, move, ledgerVars, remoteVars,
                 seenVars, runVars>>

OpenMove(j) == move[j].status \in {"pending", "creating", "source_delete_pending"}

(* The latest job of this credential to this target, when it is open. *)
AlreadyQueued(to) ==
  \E j \in Moves : /\ OpenMove(j) /\ move[j].source = key.id /\ move[j].to = to
                   /\ \A k \in Moves : k > j =>
                        ~(move[k].source = key.id /\ move[k].to = to
                          /\ move[k].status # "none")

Fresh(j) == move[j].status = "none" /\ \A k \in Moves : k < j => move[k].status # "none"

QueueMove(j, to) ==
  /\ BotFree /\ Fresh(j)
  /\ key.id \in active /\ life[to] = "active" /\ to # key.at
  /\ Entitled /\ ~due /\ key.quota > 0
  /\ ~AlreadyQueued(to)
  /\ move' = [move EXCEPT ![j] = [status |-> "pending", source |-> key.id,
                                  from |-> key.at, to |-> to,
                                  quota |-> key.quota]]
  /\ UNCHANGED <<entitlementVars, revoke, repair, ledgerVars, remoteVars,
                 seenVars, runVars>>

(* The subscription keeps naming the server it was sold on. *)
CanRetire_Inventory(s) ==                  \* mutant: trusts the last listing
  ~(sub = "active" /\ s = Home) /\ s \in empty

CanRetire(s) ==
  /\ ~(key.status = "active" /\ key.at = s)
  /\ ~(sub = "active" /\ s = Home)
  /\ s \in empty

SetLifecycle(s, state) ==
  /\ BotFree /\ state # life[s]
  /\ state = "retired" => CanRetire(s)
  /\ CarefulStaff /\ state = "retired" => \A j \in Moves : OpenMove(j) => move[j].to # s
  /\ life' = [life EXCEPT ![s] = state]
  /\ UNCHANGED <<entitlementVars, jobVars, active, missed, empty, remoteVars,
                 seenVars, runVars>>

(* The owner accepts an unknown usage, or sends a parked job round again. *)
ApproveRepair(s) ==
  /\ BotFree /\ repair[s].status \in {"manual", "failed"}
  /\ repair[s].why # "spent"
  /\ repair' = [repair EXCEPT ![s].status = "pending",
       ![s].why = IF repair[s].why = "usage" THEN "approved" ELSE "none"]
  /\ UNCHANGED <<entitlementVars, revoke, move, ledgerVars, remoteVars,
                 seenVars, runVars>>

RetryRevoke ==
  /\ BotFree /\ revoke = "failed" /\ revoke' = "pending"
  /\ UNCHANGED <<entitlementVars, repair, move, ledgerVars, remoteVars,
                 seenVars, runVars>>

BotNext == \/ \E s \in Servers : BotLists(s) \/ ApproveRepair(s)
           \/ BotRecords \/ Refund \/ RetryRevoke
           \/ \E j \in Moves, s \in Servers : QueueMove(j, s)
           \/ \E s \in Servers, state \in Lifecycles : SetLifecycle(s, state)

-----------------------------------------------------------------------------
(* The maintenance thread: expiry, quota and revocation. *)

Expire ==
  /\ PassFree /\ due /\ sub = "active"
  /\ sub' = "closed"
  /\ revoke' = IF revoke = "none" THEN "pending" ELSE revoke
  /\ UNCHANGED <<due, key, sample, spent, repair, move, ledgerVars, remoteVars,
                 seenVars, runVars>>

(* An id the metrics do not name counts as zero, and the zero is recorded. *)
Counted(reading) == IF reading = Unknown THEN 0 ELSE reading

EnforceQuota ==
  /\ PassFree /\ Entitled
  /\ \E r \in Reading(key.id) :
       LET used == Counted(r) IN
       /\ sample' = [used |-> used, age |-> "recent"]
       /\ recorded' = Noted(used)
       /\ IF Exhausted(used)
          THEN /\ spent' = TRUE /\ sub' = "closed"
               /\ revoke' = IF revoke = "none" THEN "pending" ELSE revoke
          ELSE UNCHANGED <<spent, sub, revoke>>
  /\ UNCHANGED <<due, key, repair, move, ledgerVars, remoteVars, issued, lost,
                 runVars>>

(* A running job is claimed again when its lock is stale. *)
RevokeClaim_NothingThere ==                \* mutant: a missing key is done with
  /\ PassFree /\ revoke \in {"pending", "running"}
  /\ IF key.status = "revoked" \/ key.id \notin remote
     THEN revoke' = "done" /\ UNCHANGED hand
     ELSE /\ revoke' = "running"
          /\ hand' = [Idle EXCEPT !.op = "revoke", !.step = "delete"]
  /\ UNCHANGED <<entitlementVars, repair, move, ledgerVars, remoteVars,
                 seenVars, listing, crashes>>

RevokeClaim ==
  /\ PassFree /\ revoke \in {"pending", "running"}
  /\ IF key.status = "revoked"
     THEN revoke' = "done" /\ UNCHANGED hand
     ELSE /\ revoke' = "running"
          /\ hand' = [Idle EXCEPT !.op = "revoke", !.step = "delete"]
  /\ UNCHANGED <<entitlementVars, repair, move, ledgerVars, remoteVars,
                 seenVars, listing, crashes>>

RevokeDeletes ==
  /\ hand.op = "revoke" /\ hand.step = "delete"
  /\ RemoteForgets(key.id) /\ hand' = [hand EXCEPT !.step = "deleted"]
  /\ UNCHANGED <<entitlementVars, jobVars, ledgerVars, seenVars, listing, crashes>>

RevokeFails_OwnStatus ==                   \* mutant: the key's old status name
  /\ hand.op = "revoke" /\ hand.step = "delete"
  /\ revoke' = "revoke_failed" /\ hand' = Idle
  /\ UNCHANGED <<entitlementVars, repair, move, ledgerVars, remoteVars,
                 seenVars, listing, crashes>>

RevokeFails ==
  /\ hand.op = "revoke" /\ hand.step = "delete"
  /\ revoke' \in {"pending", "failed"} /\ hand' = Idle
  /\ UNCHANGED <<entitlementVars, repair, move, ledgerVars, remoteVars,
                 seenVars, listing, crashes>>

RevokeCommits ==
  /\ hand.op = "revoke" /\ hand.step = "deleted"
  /\ key' = [key EXCEPT !.status = "revoked"] /\ active' = active \ {key.id}
  /\ revoke' = "done" /\ hand' = Idle
  /\ UNCHANGED <<sub, due, sample, spent, repair, move, missed, empty, life,
                 remoteVars, seenVars, listing, crashes>>

-----------------------------------------------------------------------------
(* The maintenance thread: recreating a missing key. *)

(* The row must still be the one the job was opened for. *)
Repairable_AnyStatus(s) ==                 \* mutant: status not read again
  key.at = s /\ key.id = repair[s].source /\ ~due

Repairable(s) == /\ key.at = s /\ key.id = repair[s].source
                 /\ Entitled /\ ~due

Parked(s, why) == [repair EXCEPT ![s].status = "manual", ![s].why = why]

RepairClaim(s) ==
  /\ PassFree /\ repair[s].status \in {"pending", "failed", "running"}
  /\ IF Repairable(s)
     THEN /\ repair' = [repair EXCEPT ![s].status = "running"]
          /\ hand' = [Idle EXCEPT !.op = "repair", !.step = "create", !.at = s,
               !.used = IF sample.age = "recent" THEN sample.used ELSE Unknown]
     ELSE repair' = Parked(s, "none") /\ UNCHANGED hand
  /\ UNCHANGED <<entitlementVars, revoke, move, ledgerVars, remoteVars,
                 seenVars, listing, crashes>>

Repairing(step) == hand.op = "repair" /\ hand.step = step

(* The exact key is there after all. *)
RepairConverges ==
  /\ Repairing("create") /\ repair[hand.at].source \in remote
  /\ repair' = [repair EXCEPT ![hand.at].status = "done", ![hand.at].why = "none"]
  /\ missed' = [missed EXCEPT ![repair[hand.at].source] = 0]
  /\ hand' = Idle
  /\ UNCHANGED <<entitlementVars, revoke, move, active, empty, life, remoteVars,
                 seenVars, listing, crashes>>

(* What the job believes was used: the metrics, the sample it read with the
   row when recent, or nothing when the owner said so. *)
Believed(reading) ==
  IF reading # Unknown THEN reading
  ELSE IF hand.used # Unknown THEN hand.used
  ELSE IF repair[hand.at].why = "approved" THEN 0 ELSE Unknown

RepairParks ==
  /\ Repairing("create") /\ repair[hand.at].source \notin remote
  /\ \E r \in Reading(key.id) :
       \/ Believed(r) = Unknown /\ repair' = Parked(hand.at, "usage")
       \/ /\ Believed(r) # Unknown /\ Exhausted(Believed(r))
          /\ repair' = Parked(hand.at, "spent")
  /\ hand' = Idle
  /\ UNCHANGED <<entitlementVars, revoke, move, ledgerVars, remoteVars,
                 seenVars, listing, crashes>>

(* The server starts counting a recreated key from zero. *)
RepairCreates_FullLimit ==                 \* mutant: limit not reduced
  /\ Repairing("create") /\ repair[hand.at].source \notin remote
  /\ \E r \in Reading(key.id) :
       /\ Believed(r) # Unknown /\ ~Exhausted(Believed(r))
       /\ hand' = [hand EXCEPT !.step = "commit", !.left = key.quota - Believed(r)]
       /\ limit' = [limit EXCEPT ![key.id] = key.quota]
       /\ remote' = remote \cup {key.id} /\ traffic' = [traffic EXCEPT ![key.id] = 0]
  /\ UNCHANGED <<entitlementVars, jobVars, ledgerVars, seenVars, listing, crashes>>

RepairCreates ==
  /\ Repairing("create") /\ repair[hand.at].source \notin remote
  /\ \E r \in Reading(key.id) :
       /\ Believed(r) # Unknown /\ ~Exhausted(Believed(r))
       /\ hand' = [hand EXCEPT !.step = "commit", !.left = key.quota - Believed(r)]
       /\ limit' = [limit EXCEPT ![key.id] = key.quota - Believed(r)]
       /\ remote' = remote \cup {key.id} /\ traffic' = [traffic EXCEPT ![key.id] = 0]
  /\ UNCHANGED <<entitlementVars, jobVars, ledgerVars, seenVars, listing, crashes>>

(* Any remote call of the repair may fail, the create with or without effect. *)
RepairFails ==
  /\ hand.op = "repair"
  /\ \E status \in {"failed", "manual"} :       \* tried again, or tried enough
       repair' = [repair EXCEPT ![hand.at].status = status, ![hand.at].why = "none"]
  /\ hand' = Idle
  /\ UNCHANGED <<entitlementVars, revoke, move, ledgerVars, remoteVars,
                 seenVars, listing, crashes>>

RepairCommits ==
  /\ Repairing("commit") /\ key.status = "active"
  /\ key' = [key EXCEPT !.quota = hand.left]
  /\ sample' = [used |-> 0, age |-> "recent"] /\ spent' = FALSE
  /\ recorded' = 0 /\ missed' = [missed EXCEPT ![key.id] = 0]
  /\ repair' = [repair EXCEPT ![hand.at].status = "done", ![hand.at].why = "none"]
  /\ hand' = Idle
  /\ UNCHANGED <<sub, due, revoke, move, active, empty, life, remoteVars, issued,
                 lost, listing, crashes>>

-----------------------------------------------------------------------------
(* The maintenance thread: moving a key to another server. *)

(* A claim forgets the phase a stale job was in: "creating" stands for both. *)
MoveClaim(j) ==
  /\ PassFree /\ move[j].status \in {"pending", "creating", "source_delete_pending"}
  /\ move' = [move EXCEPT ![j].status = "creating"]
  /\ hand' = [Idle EXCEPT !.op = "move", !.move = j, !.step =
                IF move[j].status = "source_delete_pending" THEN "delete" ELSE "create"]
  /\ UNCHANGED <<entitlementVars, revoke, repair, ledgerVars, remoteVars,
                 seenVars, listing, crashes>>

Moving(step) == hand.op = "move" /\ hand.step = step
Job == move[hand.move]

(* Reads the source's usage, then finds or creates the target and limits it. *)
MoveCreates ==
  /\ Moving("create") /\ ~due
  /\ \E r \in Reading(Job.source) :
       /\ r # Unknown /\ r < Job.quota
       /\ hand' = [hand EXCEPT !.step = "commit", !.left = Job.quota - r]
       /\ limit' = [limit EXCEPT ![hand.move] = Job.quota - r]
  /\ remote' = remote \cup {hand.move}
  /\ UNCHANGED <<entitlementVars, jobVars, ledgerVars, traffic, seenVars,
                 listing, crashes>>

(* Expired, no reading, nothing left, or a call that fails: before or after
   the target was created. *)
MoveFails ==
  /\ Moving("create") \/ Moving("commit")
  /\ \E status \in {"pending", "failed"} :      \* tried again, or tried enough
       move' = [move EXCEPT ![hand.move].status = status]
  /\ hand' = Idle
  /\ UNCHANGED <<entitlementVars, revoke, repair, ledgerVars, remoteVars,
                 seenVars, listing, crashes>>

(* The transaction that switches the row; MoveFails when the row changed. *)
Cutover_KeepsCredential ==                 \* mutant: old credential not ended
  /\ Moving("commit")
  /\ key.status = "active" /\ key.id = Job.source /\ key.at = Job.from
  /\ key' = [key EXCEPT !.at = Job.to, !.id = hand.move, !.quota = hand.left]
  /\ active' = active \cup {hand.move}
  /\ issued' = issued \cup {hand.move} /\ recorded' = 0
  /\ move' = [move EXCEPT ![hand.move].status = "source_delete_pending"]
  /\ hand' = [hand EXCEPT !.step = "delete"]
  /\ UNCHANGED <<sub, due, sample, spent, revoke, repair, missed, empty, life,
                 remoteVars, lost, listing, crashes>>

Cutover ==
  /\ Moving("commit")
  /\ key.status = "active" /\ key.id = Job.source /\ key.at = Job.from
  /\ key' = [key EXCEPT !.at = Job.to, !.id = hand.move, !.quota = hand.left]
  /\ active' = (active \ {Job.source}) \cup {hand.move}
  /\ issued' = issued \cup {hand.move} /\ recorded' = 0
  /\ move' = [move EXCEPT ![hand.move].status = "source_delete_pending"]
  /\ hand' = [hand EXCEPT !.step = "delete"]
  /\ UNCHANGED <<sub, due, sample, spent, revoke, repair, missed, empty, life,
                 remoteVars, lost, listing, crashes>>

MoveDeletes ==
  /\ Moving("delete")
  /\ RemoteForgets(Job.source) /\ hand' = [hand EXCEPT !.step = "deleted"]
  /\ UNCHANGED <<entitlementVars, jobVars, ledgerVars, seenVars, listing, crashes>>

MoveDeleteFails_Completed ==               \* mutant: deletion not owed
  /\ Moving("delete") \/ Moving("deleted")
  /\ move' = [move EXCEPT ![hand.move].status = "completed"]
  /\ hand' = Idle
  /\ UNCHANGED <<entitlementVars, revoke, repair, ledgerVars, remoteVars,
                 seenVars, listing, crashes>>

(* A call that fails, before or after the key is gone, keeps the deletion owed;
   anything else that raises is the job's own failure, which forgets it. *)
MoveDeleteFails ==
  /\ Moving("delete") \/ Moving("deleted")
  /\ \E status \in {"source_delete_pending"} \cup
                   (IF DeleteCutShort THEN {"pending", "failed"} ELSE {}) :
       move' = [move EXCEPT ![hand.move].status = status]
  /\ hand' = Idle
  /\ UNCHANGED <<entitlementVars, revoke, repair, ledgerVars, remoteVars,
                 seenVars, listing, crashes>>

MoveCompletes ==
  /\ Moving("deleted")
  /\ move' = [move EXCEPT ![hand.move].status = "completed"]
  /\ hand' = Idle
  /\ UNCHANGED <<entitlementVars, revoke, repair, ledgerVars, remoteVars,
                 seenVars, listing, crashes>>

RevokeNext == RevokeClaim \/ RevokeDeletes \/ RevokeFails \/ RevokeCommits
RepairNext ==
  \/ \E s \in Servers : RepairClaim(s)
  \/ RepairConverges \/ RepairParks \/ RepairCreates
  \/ RepairFails \/ RepairCommits
MoveNext ==
  \/ \E j \in Moves : MoveClaim(j)
  \/ MoveCreates \/ MoveFails \/ Cutover
  \/ MoveDeletes \/ MoveDeleteFails \/ MoveCompletes
PassNext == \/ \E s \in Servers : PassInventory(s)
            \/ Expire \/ EnforceQuota \/ RevokeNext \/ RepairNext \/ MoveNext

Next == EnvNext \/ BotNext \/ PassNext
Spec == Init /\ [][Next]_vars

-----------------------------------------------------------------------------
(* Closed or exhausted, a key that is still live has its revoke job: queued,
   running, or parked where staff see it.  Only the one row of the job, never
   the repair or the move of the same key, may settle it. *)
EndedKeyIsBeingRevoked ==
  sub = "closed" /\ key.status = "active" =>
    revoke \in {"pending", "running", "failed"}

(* No key works on a server without the database naming it: as the row's own,
   or as the source or target of a move that is not over. *)
EveryKeyIsOnRecord ==
  \A i \in remote :
    \/ key.id = i
    \/ \E j \in Moves : /\ move[j].status \notin {"none", "completed"}
                        /\ i \in {j, move[j].source}

(* What is reported as done is done: the source of a completed move and the
   key of a revoked row are off their servers, and no repair brings them back. *)
FinishedMeansGone ==
  /\ \A j \in Moves : move[j].status = "completed" => move[j].source \notin remote
  /\ key.status = "revoked" => key.id \notin remote

(* The registry, written beside the row in each transaction, names the row's
   key and nothing else. *)
RegistryAgrees ==
  active = IF key.status = "active" THEN {key.id} ELSE {}

(* The server never lets a key transfer more than the row has left to sell,
   whatever repairs and moves did to both. *)
ServerEnforcesQuota ==
  key.status = "active" /\ key.id \in remote => limit[key.id] <= key.quota

(* A repair is only opened for a key that was lost: one stale listing, written
   after a move or a repair changed the row, is not enough. *)
RepairMeansMissing ==
  \A s \in Servers : repair[s].status # "none" => repair[s].source \in lost

(* A retired server serves nobody. *)
RetiredServerHasNoKey ==
  key.status = "active" => life[key.at] # "retired"

(* A repair without the owner's override hands out no more than the quota
   less the usage already observed (commerce_service.py:1511, runbook). *)
RepairKeepsUsage ==
  [][\A s \in Servers :
       hand.op = "repair" /\ hand.step = "commit" /\ hand.at = s
         /\ repair[s].why # "approved" /\ repair'[s].status = "done" =>
           key'.quota <= key.quota - recorded]_vars

(* After the cutover the old key is deleted, or its deletion is still owed. *)
MovedKeyIsDeleted ==
  \A j \in Moves : j \in issued /\ move[j].status = "failed" =>
    move[j].source \notin remote
=============================================================================
