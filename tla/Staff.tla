--------------------------------- MODULE Staff ---------------------------------
(***************************************************************************)
(* How a staff member's command reaches the store.  Telegram queues        *)
(* updates until a poll with a higher offset confirms them; the Telegram   *)
(* thread records an update as seen, handles it, and goes on.  A command   *)
(* that changes something is not carried out: the bot shows the state of   *)
(* its subject with a confirm and a cancel button, and stores a challenge  *)
(* with that state's fingerprint.  A tap reads the state again, consumes   *)
(* the challenge, and only then carries the command out.                   *)
(*                                                                         *)
(* Customers and the maintenance thread change the subjects meanwhile,     *)
(* several staff members hold challenges on one subject, and a crash       *)
(* forgets the offset and whatever the thread was doing.                   *)
(*                                                                         *)
(* /addadmin and /removeadmin cannot be confirmed (their snapshot looks    *)
(* the target up as an order, finds none, and the challenge is refused),   *)
(* so the staff changes only when the program starts.                      *)
(***************************************************************************)
EXTENDS Naturals, Sequences

CONSTANTS
  People,        \* Telegram accounts that write to the bot
  Owner,         \* the active owner
  Desks,         \* bound: the order's first state, the commands used, the updates
                 \* sent and the crashes, one choice a behaviour
  Backlog,       \* bound: updates Telegram holds
  ChallengeTTL,  \* ADMIN_CONFIRMATION_TTL, in ticks
  LastTick       \* bound: ticks explored

Orders == {"open", "submitted", "verified", "approved", "served", "rejected", "refunded",
           "cancelled"}
Commands == {"verify", "approve", "reject", "refund", "drain", "admit"}

ASSUME StaffAssumption ==
  /\ \A d \in Desks : /\ d.order \in {"open", "submitted", "verified"} /\ d.offers \subseteq Commands
                      /\ {d.updates, d.restarts} \subseteq Nat
  /\ Owner \in People
  /\ Backlog \in Nat /\ LastTick \in Nat
  /\ ChallengeTTL \in Nat \ {0}

VARIABLES
  desk,       \* what this behaviour explores
  telegram,   \* updates Telegram holds, oldest first
  sent,       \* updates sent so far: the last update id
  offset,     \* TelegramBot.offset, in memory
  updates,    \* updates of the last poll still to be taken
  seen,       \* telegram_updates
  handling,   \* the update being handled and what is known of its subject
  tokens,     \* admin_action_challenges, oldest first
  facts,      \* each subject's state, as its snapshot reads it
  admins,     \* active rows of staff_accounts with role admin
  now,        \* the clock
  restarts    \* crashes so far

queueVars == <<desk, telegram, sent, offset, updates, seen>>
storeVars == <<tokens, facts, admins>>
staffVars == <<queueVars, storeVars, handling, now, restarts>>

OwnerOnly == {"drain", "admit"}

Subject(c) == CASE c \in {"verify", "approve", "reject", "refund"} -> "order"
                [] c \in {"drain", "admit"} -> "server"

(* When the operation behind a command refuses, and what it makes of its
   subject. *)
Accepts(c, fact) == CASE c = "verify" -> fact = "submitted"
                      [] c = "approve" -> fact = "verified"
                      [] c = "reject" -> fact \in {"open", "submitted"}
                      [] c = "refund" -> fact \in {"verified", "approved", "served"}
                      [] OTHER -> TRUE
Becomes(c) == CASE c = "verify" -> "verified"
                      [] c = "approve" -> "approved"
                      [] c = "reject" -> "rejected"
                      [] c = "refund" -> "refunded"
                      [] c = "drain" -> "draining"
                      [] c = "admit" -> "active"

Unread == "unread"   \* a snapshot that is missing or unavailable
Nobody == [stage |-> "idle"]

(* _admin_state_snapshot: a receipt exists once the customer has sent one. *)
Snapshot(c) == IF c = "verify" /\ facts.order = "open" THEN Unread ELSE facts[Subject(c)]

IsAdmin(p) == p = Owner \/ p \in admins
MayUse(p, c) == IF c \in OwnerOnly THEN p = Owner ELSE IsAdmin(p)

(* The first start imports the staff: those the environment or the control
   group names. *)
StaffInit ==
  /\ desk \in Desks /\ telegram = <<>> /\ updates = <<>> /\ sent = 0 /\ offset = 0
  /\ seen = {} /\ handling = Nobody /\ tokens = <<>>
  /\ facts = [order |-> desk.order, server |-> "active"]
  /\ admins \in SUBSET (People \ {Owner})
  /\ now = 0 /\ restarts = 0

-----------------------------------------------------------------------------
(* Customers, staff and the maintenance thread. *)

Send(p, kind, about) ==
  /\ sent < desk.updates /\ Len(telegram) < Backlog
  /\ sent' = sent + 1
  /\ telegram' = Append(telegram, [id |-> sent + 1, by |-> p, kind |-> kind, about |-> about])
  /\ UNCHANGED <<desk, offset, updates, seen, storeVars, handling, now, restarts>>

Types(p, c) == Send(p, "command", c)
Taps(p, button, t) == t \in DOMAIN tokens /\ Send(p, button, t)

(* A customer sends a receipt: an update of its own to the same thread. *)
CustomerSubmits ==
  /\ handling = Nobody /\ facts.order = "open"
  /\ facts' = [facts EXCEPT !.order = "submitted"]
  /\ UNCHANGED <<queueVars, tokens, admins, handling, now, restarts>>

(* The maintenance thread acts on an order whenever it likes: an approved one is
   provisioned, an open one expires, and one whose hold ran out is cancelled. *)
MaintenanceActs ==
  /\ facts.order \in {"open", "submitted", "approved"}
  /\ facts' = [facts EXCEPT !.order = IF @ = "approved" THEN "served" ELSE "cancelled"]
  /\ handling' = IF handling.stage \in {"read", "confirmed"}
                 THEN [handling EXCEPT !.raced = TRUE] ELSE handling
  /\ UNCHANGED <<queueVars, tokens, admins, now, restarts>>

(* Challenges that ran out are deleted. *)
PruneChallenges ==
  /\ \E t \in DOMAIN tokens : tokens[t].status = "pending" /\ tokens[t].until <= now
  /\ tokens' = [t \in DOMAIN tokens |->
                  IF tokens[t].status = "pending" /\ tokens[t].until <= now
                  THEN [tokens[t] EXCEPT !.status = "pruned"] ELSE tokens[t]]
  /\ UNCHANGED <<queueVars, facts, admins, handling, now, restarts>>

TickPasses ==
  /\ now < LastTick /\ now' = now + 1
  /\ UNCHANGED <<queueVars, storeVars, handling, restarts>>

(* The offset is lost, so Telegram delivers again what no poll confirmed.
   The start imports administrators only where there is none. *)
Restart ==
  /\ restarts < desk.restarts /\ restarts' = restarts + 1
  /\ offset' = 0 /\ updates' = <<>> /\ handling' = Nobody
  /\ admins' \in IF admins = {} THEN SUBSET (People \ {Owner}) ELSE {admins}
  /\ UNCHANGED <<desk, telegram, sent, seen, tokens, facts, now>>

-----------------------------------------------------------------------------
(* The Telegram thread. *)

(* A poll confirms what lies below the offset and takes the rest. *)
Poll ==
  /\ handling = Nobody /\ updates = <<>> /\ telegram # <<>>
  /\ \E n \in 0..Len(telegram) :
       /\ \A i \in DOMAIN telegram : telegram[i].id < offset <=> i <= n
       /\ telegram' = SubSeq(telegram, n + 1, Len(telegram)) /\ updates' = telegram'
  /\ UNCHANGED <<desk, sent, offset, seen, storeVars, handling, now, restarts>>

TakeUpdate ==
  /\ handling = Nobody /\ updates # <<>>
  /\ LET u == Head(updates) IN
     /\ updates' = Tail(updates) /\ offset' = u.id + 1
     /\ seen' = seen \cup {u.id}
     /\ handling' = IF u.id \in seen THEN Nobody
                    ELSE [stage |-> "taken", update |-> u, read |-> Unread, raced |-> FALSE]
  /\ UNCHANGED <<desk, telegram, sent, storeVars, now, restarts>>

Update == handling.update
Asks(kind) == handling.stage = "taken" /\ Update.kind = kind

(* A command the sender may not use, or a tap by someone who is not staff.
   Where the snapshot is missing or unavailable the challenge is stored all
   the same, but no tap can match it: it is left out. *)
TurnsAway ==
  /\ handling.stage = "taken"
  /\ \/ Update.kind = "command"
     \/ ~IsAdmin(Update.by)
  /\ handling' = Nobody
  /\ UNCHANGED <<queueVars, storeVars, now, restarts>>

ShowsChallenge ==
  /\ Asks("command") /\ MayUse(Update.by, Update.about)
  /\ Snapshot(Update.about) # Unread
  /\ tokens' = Append(tokens, [holder |-> Update.by, command |-> Update.about,
                                asked |-> Update.id, shown |-> Snapshot(Update.about),
                                until |-> now + ChallengeTTL, status |-> "pending", ran |-> <<>>])
  /\ handling' = Nobody
  /\ UNCHANGED <<queueVars, facts, admins, now, restarts>>

Token == tokens[Update.about]

(* The confirm button: the row may be gone, and a state that cannot be read
   refuses the tap. *)
ReadsAgain ==
  /\ Asks("confirm") /\ IsAdmin(Update.by)
  /\ LET read == Snapshot(Token.command) IN
     \/ /\ Token.status # "pruned" /\ read # Unread
        /\ handling' = [handling EXCEPT !.stage = "read", !.read = read]
     \/ handling' = Nobody
  /\ UNCHANGED <<queueVars, storeVars, now, restarts>>

(* consume_admin_challenge: one transaction. *)
Consumable_AnyState ==
  Token.holder = Update.by /\ Token.status = "pending" /\ Token.until > now

Consumable == /\ Token.holder = Update.by /\ Token.shown = handling.read
              /\ Token.status = "pending" /\ Token.until > now

Consume ==
  /\ handling.stage = "read"
  /\ IF Consumable
     THEN /\ tokens' = [tokens EXCEPT ![Update.about].status = "consumed"]
          /\ handling' = [handling EXCEPT !.stage = "confirmed"]
     ELSE handling' = Nobody /\ UNCHANGED tokens
  /\ UNCHANGED <<queueVars, facts, admins, now, restarts>>

(* The command itself, with the sender's role and the operation's own guard. *)
Execute ==
  /\ handling.stage = "confirmed"
  /\ LET c == Token.command
         s == Subject(c)
     IN IF MayUse(Update.by, c) /\ Accepts(c, facts[s])
        THEN /\ facts' = [facts EXCEPT ![s] = Becomes(c)]
             /\ tokens' = [tokens EXCEPT ![Update.about].ran =
                  Append(@, [by |-> Update.by, on |-> facts[s], raced |-> handling.raced])]
        ELSE UNCHANGED <<facts, tokens>>
  /\ handling' = Nobody
  /\ UNCHANGED <<queueVars, admins, now, restarts>>

(* The cancel button. *)
Cancel ==
  /\ Asks("cancel") /\ IsAdmin(Update.by)
  /\ tokens' = IF Token.holder = Update.by /\ Token.status = "pending"
               THEN [tokens EXCEPT ![Update.about].status = "cancelled"] ELSE tokens
  /\ handling' = Nobody
  /\ UNCHANGED <<queueVars, facts, admins, now, restarts>>

StaffNext ==
  \/ \E p \in People : \E c \in desk.offers : Types(p, c)
  \/ \E p \in People, button \in {"confirm", "cancel"} :
       \E t \in DOMAIN tokens : Taps(p, button, t)
  \/ CustomerSubmits \/ MaintenanceActs \/ PruneChallenges \/ TickPasses \/ Restart
  \/ Poll \/ TakeUpdate \/ TurnsAway \/ ShowsChallenge
  \/ ReadsAgain \/ Consume \/ Execute \/ Cancel

StaffSpec == StaffInit /\ [][StaffNext]_staffVars

-----------------------------------------------------------------------------
StaffTypeOK ==
  /\ sent \in 0..desk.updates /\ seen \subseteq 1..sent /\ offset \in 0..sent + 1
  /\ handling.stage \in {"idle", "taken", "read", "confirmed"}
  /\ facts.order \in Orders /\ facts.server \in {"active", "draining"}
  /\ \A t \in DOMAIN tokens :
       /\ tokens[t].holder \in People /\ tokens[t].command \in Commands
       /\ tokens[t].status \in {"pending", "consumed", "cancelled", "pruned"}
  /\ admins \subseteq People \ {Owner} /\ now \in 0..LastTick

(* README.md:536: a confirmation is bound to who asked for it, expires, and
   is refused once the reviewed state has changed, also after a restart and
   however often Telegram delivers the command or the tap.  A subject that
   the other thread or a customer moves between the second look and the
   operation is left to the operation's own guard. *)
ConfirmedActionIsCurrent ==
  /\ \A t \in DOMAIN tokens :
       /\ Len(tokens[t].ran) <= 1
       /\ \A i \in DOMAIN tokens[t].ran :
            /\ tokens[t].status = "consumed"
            /\ tokens[t].ran[i].by = tokens[t].holder
            /\ tokens[t].ran[i].on = tokens[t].shown \/ tokens[t].ran[i].raced
  /\ \A s, t \in DOMAIN tokens : tokens[s].asked = tokens[t].asked => s = t
=============================================================================
