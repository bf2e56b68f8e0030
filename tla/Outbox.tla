-------------------------------- MODULE Outbox --------------------------------
(***************************************************************************)
(* The notifications table.  Events fan out to the staff that wants them   *)
(* and quota levels to the customer, each row once by its dedupe_key.      *)
(* Workers claim what is due by pushing next_attempt_at forward as a       *)
(* lease, send it to Telegram, and mark it sent or failed; the eighth      *)
(* failure ends it.                                                        *)
(*                                                                         *)
(* A restart overlaps two workers.  Either may crash, outlive its lease,   *)
(* or get an error for a message that Telegram did deliver.                *)
(***************************************************************************)
EXTENDS Integers, FiniteSets

CONSTANTS
  Readers,      \* staff accounts
  Repairs,      \* managed key repairs, the events that alert the staff
  AlertLevels,  \* a customer's quota alert levels: 1..n, the lowest remainder last
  Senders,      \* worker processes
  MaxSends,     \* attempts before a notification is dead-lettered
  Lease,        \* lease_seconds, in ticks
  Delay,        \* NOTIFICATION_RETRY_DELAY, in ticks
  LastMinute,   \* bound: ticks explored
  MaxRows,      \* bound: rows queued
  Changes,      \* bound: changes of preferences explored
  SendCrashes   \* bound: crashes explored

ASSUME OutboxAssumption ==
  /\ AlertLevels \subseteq Nat \ {0}
  /\ {MaxSends, Lease, Delay} \subseteq Nat \ {0}
  /\ {LastMinute, MaxRows, Changes, SendCrashes} \subseteq Nat
ASSUME SendersAssumption == IsFiniteSet(Senders)

(* Dedupe keys; a change of the quota alert preferences starts a version. *)
StaffKeys == [about : Repairs, to : Readers]
QuotaKeys == [level : AlertLevels, version : 1..Changes + 1]
Keys == StaffKeys \cup QuotaKeys
Absent == [status |-> "absent", attempts |-> 0, due |-> 0]
DeadLetter == LastMinute + Lease + Delay + 1   \* next_attempt_at of a dead letter
NoSend == [left |-> {}, hand |-> {}, got |-> "none"]

VARIABLES
  rows,        \* notifications by dedupe key
  open,        \* repairs not settled
  wants,       \* staff_notification_preferences: who wants the alerts
  version,     \* user_quota_alert_preferences.version
  level,       \* the lowest alert level the customer's remainder has reached
  sending,     \* each worker: rows left, the row in hand, its outcome
  delivered,   \* messages that reached Telegram, by dedupe key
  doubts,      \* times nobody could know whether a row had been delivered
  minute,      \* the clock
  sendCrashes  \* crashes so far

sources == <<open, wants, version, level>>
outboxVars == <<rows, sources, sending, delivered, doubts, minute, sendCrashes>>

OutboxInit ==
  /\ rows = [k \in Keys |-> Absent] /\ open = {} /\ wants \in SUBSET Readers
  /\ version = 1 /\ level = 0
  /\ sending = [w \in Senders |-> NoSend]
  /\ delivered = [k \in Keys |-> 0] /\ doubts = [k \in Keys |-> 0]
  /\ minute = 0 /\ sendCrashes = 0

-----------------------------------------------------------------------------
(* What puts rows into the table. *)

(* INSERT ... ON CONFLICT (dedupe_key) DO NOTHING *)
Queue(keys) ==
  /\ rows' = [k \in Keys |->
       IF k \in keys /\ rows[k] = Absent
       THEN [status |-> "pending", attempts |-> 0, due |-> minute] ELSE rows[k]]
  /\ Cardinality({k \in Keys : rows'[k] # Absent}) <= MaxRows

(* _queue_staff_notification, in the transaction that records the event. *)
AlertsFor(r) == {k \in StaffKeys : k.about = r /\ k.to \in wants}

RepairOpens(r) ==
  /\ r \notin open
  /\ open' = open \cup {r} /\ Queue(AlertsFor(r))
  /\ UNCHANGED <<wants, version, level, sending, delivered, doubts, minute, sendCrashes>>

(* The backfill alerts where no one has been alerted at all. *)
EnsureAlerts(r) ==
  /\ r \in open /\ \A k \in StaffKeys : k.about = r => rows[k] = Absent
  /\ AlertsFor(r) # {}
  /\ Queue(AlertsFor(r))
  /\ UNCHANGED <<sources, sending, delivered, doubts, minute, sendCrashes>>

(* reached_alert picks the most urgent level crossed. *)
UsageGrows ==
  /\ level + 1 \in AlertLevels /\ level' = level + 1
  /\ UNCHANGED <<rows, open, wants, version, sending, delivered, doubts, minute, sendCrashes>>

QueueQuotaWarning ==
  /\ level > 0 /\ rows[[level |-> level, version |-> version]] = Absent
  /\ Queue({[level |-> level, version |-> version]})
  /\ UNCHANGED <<sources, sending, delivered, doubts, minute, sendCrashes>>

SetPreference(p) ==
  /\ wants' = IF p \in wants THEN wants \ {p} ELSE wants \cup {p}
  /\ UNCHANGED <<rows, open, version, level, sending, delivered, doubts, minute, sendCrashes>>

SetQuotaAlerts ==
  /\ version <= Changes /\ version' = version + 1
  /\ UNCHANGED <<rows, open, wants, level, sending, delivered, doubts, minute, sendCrashes>>

-----------------------------------------------------------------------------
(* The workers. *)

SendDue_Leased(k) ==                       \* mutant: leases not waited for
  rows[k].status \in {"pending", "failed"} /\ rows[k].due < DeadLetter

SendDue(k) == rows[k].status \in {"pending", "failed"} /\ rows[k].due <= minute

(* Claiming a row another worker still holds: that one outlived its lease. *)
InHand(k) == \E w \in Senders : k \in sending[w].left \cup sending[w].hand

ClaimPending(w) ==
  /\ sending[w] = NoSend
  /\ LET due == {k \in Keys : SendDue(k)} IN
     /\ due # {}
     /\ rows' = [k \in Keys |->
          IF k \in due THEN [rows[k] EXCEPT !.due = minute + Lease] ELSE rows[k]]
     /\ doubts' = [k \in Keys |->
          IF k \in due /\ InHand(k) /\ rows[k].due <= minute THEN doubts[k] + 1
          ELSE doubts[k]]
     /\ sending' = [sending EXCEPT ![w].left = due]
  /\ UNCHANGED <<sources, delivered, minute, sendCrashes>>

(* Telegram may take the message and the answer be lost. *)
Deliver(w) ==
  /\ sending[w].hand = {}
  /\ \E k \in sending[w].left, got \in {"ok", "error"}, arrives \in BOOLEAN :
       /\ got = "ok" => arrives
       /\ sending' = [sending EXCEPT ![w] = [left |-> @.left \ {k}, hand |-> {k}, got |-> got]]
       /\ delivered' = [delivered EXCEPT ![k] = IF arrives THEN @ + 1 ELSE @]
       /\ doubts' = [doubts EXCEPT ![k] = IF arrives /\ got = "error" THEN @ + 1 ELSE @]
  /\ UNCHANGED <<rows, sources, minute, sendCrashes>>

(* Marking asks for nothing but the id. *)
Marked(w, k) == /\ sending[w].hand = {k}
                /\ sending' = [sending EXCEPT ![w].hand = {}, ![w].got = "none"]
                /\ UNCHANGED <<sources, delivered, doubts, minute, sendCrashes>>

MarkSent(w) ==
  \E k \in sending[w].hand :
    /\ sending[w].got = "ok" /\ Marked(w, k)
    /\ rows' = [rows EXCEPT ![k].status = "sent"]

MarkFailed(w) ==
  \E k \in sending[w].hand :
    /\ sending[w].got = "error" /\ Marked(w, k)
    /\ LET tries == rows[k].attempts + 1 IN
       rows' = [rows EXCEPT ![k] = [status |-> "failed", attempts |-> tries,
                  due |-> IF tries >= MaxSends THEN DeadLetter ELSE minute + Delay]]

SenderCrash(w) ==
  /\ sendCrashes < SendCrashes /\ sendCrashes' = sendCrashes + 1
  /\ sending[w] # NoSend /\ sending' = [sending EXCEPT ![w] = NoSend]
  /\ doubts' = [k \in Keys |->
       IF k \in sending[w].hand /\ sending[w].got = "ok" THEN doubts[k] + 1 ELSE doubts[k]]
  /\ UNCHANGED <<rows, sources, delivered, minute>>

MinutePasses ==
  /\ minute < LastMinute /\ minute' = minute + 1
  /\ UNCHANGED <<rows, sources, sending, delivered, doubts, sendCrashes>>

OutboxNext ==
  \/ \E r \in Repairs : RepairOpens(r) \/ EnsureAlerts(r)
  \/ UsageGrows \/ QueueQuotaWarning \/ SetQuotaAlerts
  \/ \E p \in Readers : SetPreference(p)
  \/ \E w \in Senders :
       ClaimPending(w) \/ Deliver(w) \/ MarkSent(w) \/ MarkFailed(w) \/ SenderCrash(w)
  \/ MinutePasses

OutboxSpec == OutboxInit /\ [][OutboxNext]_outboxVars

-----------------------------------------------------------------------------
OutboxTypeOK ==
  /\ \A k \in Keys : rows[k].status \in {"absent", "pending", "failed", "sent"}
                     /\ rows[k].attempts \in Nat /\ rows[k].due \in 0..DeadLetter
  /\ open \subseteq Repairs /\ wants \subseteq Readers
  /\ \A w \in Senders : sending[w].left \subseteq Keys /\ Cardinality(sending[w].hand) <= 1

(* A row marked sent has reached Telegram, and no message arrives more often
   than its delivery was in doubt: an error for a message that arrived, a
   crash before it was marked, or a worker that outlived its lease
   (claim_pending_notifications: "normal concurrent workers no longer
   duplicate the same notification"). *)
SentOnceUnlessUnsure ==
  \A k \in Keys :
    /\ rows[k].status = "sent" => delivered[k] >= 1
    /\ delivered[k] <= 1 + doubts[k]
=============================================================================
