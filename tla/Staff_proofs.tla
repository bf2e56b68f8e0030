------------------------------- MODULE Staff_proofs -------------------------------
(***************************************************************************)
(* What the staff decides on and is told: a confirmed command runs once    *)
(* and on the state it showed (Staff), a receipt's reading is the one that *)
(* was judged (Readings), and a notification arrives once unless its       *)
(* delivery was in doubt (Outbox).                                         *)
(***************************************************************************)
EXTENDS Staff, Readings, Outbox, SequenceTheorems, FiniteSetTheorems, TLAPS

-----------------------------------------------------------------------------
(* Staff commands: what the queues and the store hold. *)

Facts == Orders \cup {"active", "draining"}
Fits(m) == /\ m.id \in 1..sent
           /\ m.kind = "command" => m.about \in Commands
           /\ m.kind # "command" => m.about \in 1..Len(tokens)
Messages == {m \in [id : Nat, by : People, kind : {"command", "confirm", "cancel"},
                    about : Commands \cup Nat] : Fits(m)}
Handlings == {h \in [stage : {"taken", "read", "confirmed"}, update : Messages,
                     read : Facts \cup {Unread}, raced : BOOLEAN] :
                h.stage # "taken" => h.update.kind = "confirm"}
TokenStatus == {"pending", "consumed", "cancelled", "pruned"}
Executions == [by : People, on : Facts, raced : BOOLEAN]
Tokens == [holder : People, command : Commands, asked : Nat, shown : Facts, until : Nat,
           status : TokenStatus, ran : Seq(Executions)]

QueueTypes ==
  /\ desk \in Desks /\ sent \in 0..desk.updates
  /\ telegram \in Seq(Messages) /\ updates \in Seq(Messages)
  /\ offset \in 0..sent + 1 /\ seen \subseteq 1..sent
  /\ handling = Nobody \/ handling \in Handlings
StoreTypes ==
  /\ tokens \in Seq(Tokens)
  /\ facts \in [order : Orders, server : {"active", "draining"}]
  /\ admins \subseteq People \ {Owner} /\ now \in 0..LastTick
StaffTypes == QueueTypes /\ StoreTypes

(* The first state has the types. *)
LEMMA StaffTypesInit == StaffInit => StaffTypes
<1> SUFFICES ASSUME StaffInit PROVE StaffTypes
  OBVIOUS
<1>1. desk \in Desks /\ desk.order \in Orders /\ desk.updates \in Nat
  BY StaffAssumption DEF StaffInit, Orders
<1>2. telegram \in Seq(Messages) /\ updates \in Seq(Messages) /\ tokens \in Seq(Tokens)
  BY DEF StaffInit
<1> QED BY <1>1, <1>2, StaffAssumption DEF StaffInit, StaffTypes, QueueTypes, StoreTypes

(* What was sent stays sent, and challenges are never forgotten: an update keeps
   its meaning. *)
LEMMA QueuesKept ==
  ASSUME sent' >= sent, sent \in Nat, sent' \in Nat, Len(tokens) \in Nat, Len(tokens') \in Nat,
         Len(tokens') >= Len(tokens)
  PROVE  /\ Messages \subseteq Messages' /\ Handlings \subseteq Handlings'
         /\ Seq(Messages) \subseteq Seq(Messages')
<1>1. ASSUME NEW m \in Messages PROVE m \in Messages'
  BY DEF Messages, Fits
<1> QED BY <1>1 DEF Handlings

(* A step that leaves the queues alone, and goes on handling or stops. *)
LEMMA QueueTypesKept ==
  ASSUME StaffTypes, UNCHANGED queueVars, Len(tokens') \in Nat, Len(tokens') >= Len(tokens),
         handling' \in {handling, Nobody}
  PROVE  QueueTypes'
<1>1. Messages \subseteq Messages' /\ Handlings \subseteq Handlings' /\ Seq(Messages) \subseteq Seq(Messages')
  BY QueuesKept, StaffAssumption DEF StaffTypes, QueueTypes, StoreTypes, queueVars
<1> QED BY <1>1 DEF StaffTypes, QueueTypes, queueVars

(* A challenge that changes its status. *)
LEMMA TokenStatusRow ==
  ASSUME NEW s \in Seq(Tokens), NEW t \in 1..Len(s), NEW status \in TokenStatus
  PROVE  /\ [s EXCEPT ![t].status = status] \in Seq(Tokens)
         /\ Len([s EXCEPT ![t].status = status]) = Len(s)
<1>1. \A r \in Tokens : [r EXCEPT !.status = status] \in Tokens
  BY DEF Tokens
<1> HIDE DEF Tokens
<1>2. s[t] \in Tokens
  OBVIOUS
<1> QED BY <1>1, <1>2, ExceptSeq

(* The same where it is carried out. *)
LEMMA TokenRanRow ==
  ASSUME NEW s \in Seq(Tokens), NEW t \in 1..Len(s), NEW ran \in Seq(Executions)
  PROVE  /\ [s EXCEPT ![t].ran = ran] \in Seq(Tokens)
         /\ Len([s EXCEPT ![t].ran = ran]) = Len(s)
<1>1. \A r \in Tokens : [r EXCEPT !.ran = ran] \in Tokens
  BY DEF Tokens
<1> HIDE DEF Tokens
<1>2. s[t] \in Tokens
  OBVIOUS
<1> QED BY <1>1, <1>2, ExceptSeq

(* An update that is sent joins the queue. *)
LEMMA SendTypes ==
  ASSUME StaffTypes, NEW p \in People, NEW kind \in {"command", "confirm", "cancel"}, NEW about,
         kind = "command" => about \in Commands,
         kind # "command" => about \in 1..Len(tokens),
         Send(p, kind, about)
  PROVE  StaffTypes'
<1> DEFINE m == [id |-> sent + 1, by |-> p, kind |-> kind, about |-> about]
<1>1. sent \in Nat /\ desk.updates \in Nat /\ Len(tokens) \in Nat
  BY StaffAssumption DEF StaffTypes, QueueTypes, StoreTypes
<1>2. /\ sent' = sent + 1 /\ telegram' = Append(telegram, m) /\ sent' \in 0..desk.updates
      /\ UNCHANGED <<desk, offset, updates, seen, storeVars, handling, now, restarts>>
  BY <1>1 DEF Send
<1>3. Messages \subseteq Messages' /\ Handlings \subseteq Handlings' /\ Seq(Messages) \subseteq Seq(Messages')
  BY <1>1, <1>2, QueuesKept DEF storeVars
<1>4. about \in Commands \cup Nat /\ tokens' = tokens
  BY <1>1, <1>2 DEF storeVars
<1>5. m \in Messages'
  BY <1>1, <1>2, <1>4 DEF Messages, Fits
<1> HIDE DEF m
<1>6. telegram' \in Seq(Messages')
  BY <1>2, <1>3, <1>5, AppendProperties DEF StaffTypes, QueueTypes
<1>7. QueueTypes'
  <2>1. /\ desk' \in Desks /\ sent' \in 0..desk'.updates /\ updates' \in Seq(Messages')
        /\ handling' = Nobody \/ handling' \in Handlings'
    BY <1>2, <1>3 DEF StaffTypes, QueueTypes
  <2>2. offset' \in 0..sent' + 1 /\ seen' \subseteq 1..sent'
    BY <1>1, <1>2 DEF StaffTypes, QueueTypes
  <2> QED BY <1>6, <2>1, <2>2 DEF QueueTypes
<1> QED BY <1>2, <1>7 DEF StaffTypes, StoreTypes, storeVars

(* A poll takes a part of the queue. *)
LEMMA PollTypes == ASSUME StaffTypes, Poll PROVE StaffTypes'
<1>1. PICK n \in 0..Len(telegram) :
        telegram' = SubSeq(telegram, n + 1, Len(telegram)) /\ updates' = telegram'
  BY DEF Poll
<1>2. telegram \in Seq(Messages)
  BY DEF StaffTypes, QueueTypes
<1>3. \A i \in n + 1 .. Len(telegram) : telegram[i] \in Messages
  BY <1>1, <1>2
<1>4. telegram' \in Seq(Messages) /\ updates' \in Seq(Messages)
  BY <1>1, <1>2, <1>3, SubSeqProperties
<1>5. UNCHANGED <<desk, sent, offset, seen, storeVars, handling, now, restarts>>
  BY DEF Poll
<1>6. Messages' = Messages /\ Handlings' = Handlings
  BY <1>5 DEF Messages, Fits, Handlings, storeVars
<1> QED BY <1>4, <1>5, <1>6 DEF StaffTypes, QueueTypes, StoreTypes, storeVars

(* An update that is taken up was sent. *)
LEMMA TakeTypes == ASSUME StaffTypes, TakeUpdate PROVE StaffTypes'
<1> DEFINE u == Head(updates)
<1>1. u \in Messages /\ Tail(updates) \in Seq(Messages)
  BY HeadTailProperties DEF TakeUpdate, StaffTypes, QueueTypes
<1>2. /\ updates' = Tail(updates) /\ offset' = u.id + 1 /\ seen' = seen \cup {u.id}
      /\ UNCHANGED <<desk, telegram, sent, storeVars, now, restarts>>
  BY DEF TakeUpdate
<1>3. handling' = Nobody
      \/ handling' = [stage |-> "taken", update |-> u, read |-> Unread, raced |-> FALSE]
  BY DEF TakeUpdate
<1> HIDE DEF u
<1>4. u.id \in 1..sent /\ sent \in Nat
  BY <1>1, StaffAssumption DEF Messages, Fits, StaffTypes, QueueTypes
<1>5. Messages' = Messages /\ Handlings' = Handlings
  BY <1>2 DEF Messages, Fits, Handlings, storeVars
<1>6. [stage |-> "taken", update |-> u, read |-> Unread, raced |-> FALSE] \in Handlings
  BY <1>1 DEF Handlings
<1>7. offset' \in 0..sent' + 1
  BY <1>2, <1>4
<1>8. seen \subseteq 1..sent
  BY DEF StaffTypes, QueueTypes
<1>9. seen' \subseteq 1..sent'
  BY <1>2, <1>4, <1>8
<1> QED BY <1>1, <1>2, <1>3, <1>9, <1>5, <1>6, <1>7 DEF StaffTypes, QueueTypes, StoreTypes, storeVars

(* Whoever is handled was sent by one of the people, about a command or a challenge. *)
LEMMA HandledFits ==
  ASSUME StaffTypes, handling.stage \in {"taken", "read", "confirmed"}
  PROVE  /\ handling \in Handlings /\ Update \in Messages /\ Update.by \in People
         /\ Update.kind = "command" => Update.about \in Commands
         /\ handling.stage # "taken" => Update.kind = "confirm"
         /\ Update.kind # "command" => /\ Update.about \in 1..Len(tokens)
                                       /\ Token \in Tokens /\ Token.command \in Commands
<1>1. handling # Nobody
  BY DEF Nobody
<1>2. handling \in Handlings /\ Update \in Messages
  BY <1>1 DEF StaffTypes, QueueTypes, Handlings, Update
<1>3. /\ Update.by \in People
      /\ handling.stage # "taken" => Update.kind = "confirm"
      /\ Update.kind = "command" => Update.about \in Commands
      /\ Update.kind # "command" => Update.about \in 1..Len(tokens)
  BY <1>2 DEF Messages, Fits, Handlings, Update
<1>4. Update.kind # "command" => Token \in Tokens
  BY <1>3 DEF StaffTypes, StoreTypes, Token
<1> QED BY <1>2, <1>3, <1>4 DEF Tokens

(* Reading a subject gives a fact or nothing. *)
LEMMA SnapshotTypes ==
  ASSUME StaffTypes, NEW c \in Commands
  PROVE  /\ Subject(c) \in {"order", "server"} /\ facts[Subject(c)] \in Facts
         /\ Snapshot(c) \in Facts \cup {Unread}
         /\ Snapshot(c) # Unread => Snapshot(c) = facts[Subject(c)]
<1>1. Subject(c) \in {"order", "server"}
  BY DEF Subject, Commands
<1>2. facts["order"] \in Orders /\ facts["server"] \in {"active", "draining"}
  BY DEF StaffTypes, StoreTypes
<1> QED BY <1>1, <1>2 DEF Facts, Snapshot

(* An operation leaves its subject in one of its states. *)
LEMMA ExecutedFacts ==
  ASSUME StaffTypes, NEW c \in Commands
  PROVE  [facts EXCEPT ![Subject(c)] = Becomes(c)] \in [order : Orders, server : {"active", "draining"}]
<1>1. facts \in [order : Orders, server : {"active", "draining"}]
  BY DEF StaffTypes, StoreTypes
<1>2. CASE c \in {"verify", "approve", "reject", "refund"}
  <2>1. Subject(c) = "order" /\ Becomes(c) \in Orders
    BY <1>2 DEF Subject, Becomes, Orders
  <2> QED BY <1>1, <2>1
<1>3. CASE c \in {"drain", "admit"}
  <2>1. Subject(c) = "server" /\ Becomes(c) \in {"active", "draining"}
    BY <1>3 DEF Subject, Becomes
  <2> QED BY <1>1, <2>1
<1> QED BY <1>2, <1>3 DEF Commands

(* A step keeps the types. *)
LEMMA StaffTypesStep == StaffTypes /\ [StaffNext]_staffVars => StaffTypes'
<1> SUFFICES ASSUME StaffTypes, [StaffNext]_staffVars PROVE StaffTypes'
  OBVIOUS
<1>T. /\ tokens \in Seq(Tokens) /\ Len(tokens) \in Nat /\ DOMAIN tokens = 1..Len(tokens)
      /\ now \in Nat /\ QueueTypes
  BY StaffAssumption DEF StaffTypes, StoreTypes
<1>1. ASSUME NEW p \in People, NEW c \in desk.offers, Types(p, c) PROVE StaffTypes'
  <2>1. c \in Commands
    BY StaffAssumption, <1>T DEF QueueTypes
  <2> QED BY <1>1, <2>1, SendTypes DEF Types
<1>2. ASSUME NEW p \in People, NEW button \in {"confirm", "cancel"}, NEW t \in DOMAIN tokens,
             Taps(p, button, t)
      PROVE  StaffTypes'
  BY <1>2, <1>T, SendTypes DEF Taps
<1>3. CASE CustomerSubmits
  <2>1. facts' \in [order : Orders, server : {"active", "draining"}]
    BY <1>3 DEF CustomerSubmits, StaffTypes, StoreTypes, Orders
  <2>2. QueueTypes'
    BY <1>3, <1>T, QueueTypesKept DEF CustomerSubmits
  <2> QED BY <1>3, <2>1, <2>2 DEF CustomerSubmits, StaffTypes, StoreTypes
<1>4. CASE MaintenanceActs
  <2>1. facts' \in [order : Orders, server : {"active", "draining"}]
    BY <1>4 DEF MaintenanceActs, StaffTypes, StoreTypes, Orders
  <2>2. Messages' = Messages /\ Handlings' = Handlings
    BY <1>4 DEF MaintenanceActs, Messages, Fits, Handlings, queueVars
  <2>3. handling' = Nobody \/ handling' \in Handlings
    BY <1>4, <1>T, HandledFits DEF MaintenanceActs, QueueTypes, Handlings
  <2>4. QueueTypes'
    BY <1>4, <1>T, <2>2, <2>3 DEF MaintenanceActs, QueueTypes, queueVars
  <2> QED BY <1>4, <2>1, <2>4 DEF MaintenanceActs, StaffTypes, StoreTypes
<1>5. CASE PruneChallenges
  <2> DEFINE row(t) == IF tokens[t].status = "pending" /\ tokens[t].until <= now
                       THEN [tokens[t] EXCEPT !.status = "pruned"] ELSE tokens[t]
  <2>1. \A t \in 1..Len(tokens) : row(t) \in Tokens
    <3>1. \A r \in Tokens : [r EXCEPT !.status = "pruned"] \in Tokens
      BY DEF Tokens, TokenStatus
    <3> QED BY <1>T, <3>1
  <2>2. tokens' = [t \in 1..Len(tokens) |-> row(t)]
    BY <1>5, <1>T DEF PruneChallenges
  <2> HIDE DEF row
  <2>3. tokens' \in Seq(Tokens) /\ Len(tokens') = Len(tokens)
    BY <1>T, <2>1, <2>2
  <2>4. QueueTypes'
    BY <1>5, <1>T, <2>3, QueueTypesKept DEF PruneChallenges
  <2> QED BY <1>5, <2>3, <2>4 DEF PruneChallenges, StaffTypes, StoreTypes
<1>6. CASE TickPasses
  <2>1. QueueTypes'
    BY <1>6, <1>T, QueueTypesKept DEF TickPasses, storeVars
  <2>2. now' \in 0..LastTick
    BY <1>6, StaffAssumption DEF TickPasses, StaffTypes, StoreTypes
  <2> QED BY <1>6, <2>1, <2>2 DEF TickPasses, StaffTypes, StoreTypes, storeVars
<1>7. CASE Restart
  <2>1. Messages' = Messages
    BY <1>7 DEF Restart, Messages, Fits
  <2>2. QueueTypes'
    BY <1>7, <1>T, <2>1, StaffAssumption DEF Restart, QueueTypes
  <2>3. admins' \subseteq People \ {Owner}
    BY <1>7 DEF Restart, StaffTypes, StoreTypes
  <2> QED BY <1>7, <2>2, <2>3 DEF Restart, StaffTypes, StoreTypes
<1>8. CASE TurnsAway
  <2>1. QueueTypes'
    BY <1>8, <1>T, QueueTypesKept DEF TurnsAway, storeVars
  <2> QED BY <1>8, <2>1 DEF TurnsAway, StaffTypes, StoreTypes, storeVars
<1>9. CASE ShowsChallenge
  <2>1. Update.by \in People /\ Update.about \in Commands /\ Update.id \in Nat
    BY <1>9, HandledFits DEF ShowsChallenge, Asks, Messages
  <2>2. Snapshot(Update.about) \in Facts
    BY <1>9, <2>1, SnapshotTypes DEF ShowsChallenge
  <2>3. now + ChallengeTTL \in Nat
    BY <1>T, StaffAssumption
  <2> DEFINE row == [holder |-> Update.by, command |-> Update.about,
                     asked |-> Update.id, shown |-> Snapshot(Update.about),
                     until |-> now + ChallengeTTL, status |-> "pending", ran |-> <<>>]
  <2>4. row \in Tokens
    BY <2>1, <2>2, <2>3 DEF Tokens, TokenStatus
  <2>5. tokens' = Append(tokens, row)
    BY <1>9 DEF ShowsChallenge
  <2> HIDE DEF row
  <2>6. tokens' \in Seq(Tokens) /\ Len(tokens') = Len(tokens) + 1
    BY <1>T, <2>4, <2>5, AppendProperties
  <2>7. QueueTypes'
    BY <1>9, <1>T, <2>6, QueueTypesKept DEF ShowsChallenge
  <2> QED BY <1>9, <2>6, <2>7 DEF ShowsChallenge, StaffTypes, StoreTypes
<1>10. CASE ReadsAgain
  <2>1. /\ handling \in Handlings /\ Token.command \in Commands
    BY <1>10, HandledFits DEF ReadsAgain, Asks
  <2>2. Snapshot(Token.command) \in Facts \cup {Unread}
    BY <2>1, SnapshotTypes
  <2>3. ASSUME NEW read \in Facts
        PROVE  [handling EXCEPT !.stage = "read", !.read = read] \in Handlings
    BY <1>10, <2>1 DEF ReadsAgain, Asks, Update, Handlings
  <2>6. handling' = Nobody \/ handling' \in Handlings
    BY <1>10, <2>2, <2>3, Zenon DEF ReadsAgain
  <2>4. Messages' = Messages /\ Handlings' = Handlings
    BY <1>10 DEF ReadsAgain, Messages, Fits, Handlings, queueVars, storeVars
  <2>5. QueueTypes'
    BY <1>10, <1>T, <2>6, <2>4 DEF ReadsAgain, QueueTypes, queueVars
  <2> QED BY <1>10, <2>5 DEF ReadsAgain, StaffTypes, StoreTypes, storeVars
<1>11. CASE Consume
  <2>1. /\ handling \in Handlings /\ "consumed" \in TokenStatus
        /\ Update.about \in 1..Len(tokens)
    BY <1>11, HandledFits DEF Consume, TokenStatus
  <2>2. tokens' \in Seq(Tokens) /\ Len(tokens') = Len(tokens)
    BY <1>11, <1>T, <2>1, TokenStatusRow DEF Consume
  <2>3. handling' = Nobody \/ handling' \in Handlings
    BY <1>11, <2>1 DEF Consume, Handlings
  <2>4. Messages' = Messages /\ Handlings' = Handlings
    BY <1>11, <2>2 DEF Consume, Messages, Fits, Handlings, queueVars
  <2>5. QueueTypes'
    BY <1>11, <1>T, <2>3, <2>4 DEF Consume, QueueTypes, queueVars
  <2> QED BY <1>11, <2>2, <2>5 DEF Consume, StaffTypes, StoreTypes
<1>12. CASE Execute
  <2> DEFINE c == Token.command
             run == [by |-> Update.by, on |-> facts[Subject(c)], raced |-> handling.raced]
  <2>1. /\ handling \in Handlings /\ Token \in Tokens /\ c \in Commands
        /\ Update.about \in 1..Len(tokens) /\ Update.by \in People
    BY <1>12, HandledFits DEF Execute
  <2>2. run \in Executions
    BY <2>1, SnapshotTypes DEF Executions, Handlings
  <2>3. Append(Token.ran, run) \in Seq(Executions)
    BY <2>1, <2>2, AppendProperties DEF Tokens
  <2>4. \/ tokens' = [tokens EXCEPT ![Update.about].ran = Append(Token.ran, run)]
        \/ tokens' = tokens
    BY <1>12 DEF Execute, Token
  <2>5. \/ facts' = [facts EXCEPT ![Subject(c)] = Becomes(c)]
        \/ facts' = facts
    BY <1>12 DEF Execute
  <2> HIDE DEF c, run
  <2>6. tokens' \in Seq(Tokens) /\ Len(tokens') = Len(tokens)
    <3> DEFINE ran == Append(Token.ran, run)
    <3>1. ran \in Seq(Executions) /\ (tokens' = [tokens EXCEPT ![Update.about].ran = ran] \/ tokens' = tokens)
      BY <2>3, <2>4
    <3> HIDE DEF ran
    <3> QED BY <1>T, <2>1, <3>1, TokenRanRow
  <2>7. facts' \in [order : Orders, server : {"active", "draining"}]
    BY <2>1, <2>5, ExecutedFacts DEF StaffTypes, StoreTypes
  <2>8. QueueTypes'
    BY <1>12, <1>T, <2>6, QueueTypesKept DEF Execute
  <2> QED BY <1>12, <2>6, <2>7, <2>8 DEF Execute, StaffTypes, StoreTypes
<1>13. CASE Cancel
  <2>1. /\ Update.about \in 1..Len(tokens) /\ "cancelled" \in TokenStatus
    BY <1>13, HandledFits DEF Cancel, Asks, TokenStatus
  <2>2. tokens' \in Seq(Tokens) /\ Len(tokens') = Len(tokens)
    BY <1>13, <1>T, <2>1, TokenStatusRow DEF Cancel
  <2>3. QueueTypes'
    BY <1>13, <1>T, <2>2, QueueTypesKept DEF Cancel
  <2> QED BY <1>13, <2>2, <2>3 DEF Cancel, StaffTypes, StoreTypes
<1>14. CASE UNCHANGED staffVars
  <2>1. QueueTypes'
    BY <1>14, <1>T, QueueTypesKept DEF staffVars, storeVars
  <2> QED BY <1>14, <2>1 DEF staffVars, storeVars, StaffTypes, StoreTypes
<1> QED
  BY <1>1, <1>2, <1>3, <1>4, <1>5, <1>6, <1>7, <1>8, <1>9, <1>10, <1>11, <1>12, <1>13, <1>14,
     PollTypes, TakeTypes
  DEF StaffNext

(* The staff's commands keep their types. *)
THEOREM StaffTypesSafety == StaffSpec => []StaffTypeOK
<1>1. StaffTypes => StaffTypeOK
  <2> SUFFICES ASSUME StaffTypes PROVE StaffTypeOK
    OBVIOUS
  <2>1. handling.stage \in {"idle", "taken", "read", "confirmed"}
    BY DEF StaffTypes, QueueTypes, Handlings, Nobody
  <2>2. \A t \in DOMAIN tokens : tokens[t] \in Tokens
    BY DEF StaffTypes, StoreTypes
  <2> QED BY <2>1, <2>2 DEF StaffTypes, QueueTypes, StoreTypes, Tokens, TokenStatus, StaffTypeOK
<1> QED BY <1>1, StaffTypesInit, StaffTypesStep, PTL DEF StaffSpec

(* A challenge runs once, when it is consumed, on the state it showed; a command is
   asked about once; and the tap being handled has seen what it will act on. *)
RanWell(t) ==
  /\ tokens[t].status # "consumed" => tokens[t].ran = <<>>
  /\ Len(tokens[t].ran) <= 1
  /\ \A i \in DOMAIN tokens[t].ran :
       /\ tokens[t].status = "consumed"
       /\ tokens[t].ran[i].by = tokens[t].holder
       /\ tokens[t].ran[i].on = tokens[t].shown \/ tokens[t].ran[i].raced

AskedOnce ==
  /\ \A t \in DOMAIN tokens : tokens[t].asked \in seen
  /\ \A s, t \in DOMAIN tokens : tokens[s].asked = tokens[t].asked => s = t
  /\ handling # Nobody => Update.id \in seen
  /\ handling.stage = "taken" /\ Update.kind = "command" =>
       \A t \in DOMAIN tokens : tokens[t].asked # Update.id

TapInHand ==
  /\ handling.stage \in {"read", "confirmed"} /\ ~handling.raced =>
       facts[Subject(Token.command)] = handling.read
  /\ handling.stage = "confirmed" =>
       /\ Token.status = "consumed" /\ Token.ran = <<>>
       /\ Token.holder = Update.by /\ Token.shown = handling.read

RanOnce == \A t \in DOMAIN tokens : RanWell(t)

(* What a challenge says is not changed by its status, or by being carried out. *)
SaysTheSame(store, t) ==
  /\ DOMAIN store = DOMAIN tokens
  /\ \A u \in DOMAIN tokens :
       /\ store[u].holder = tokens[u].holder /\ store[u].asked = tokens[u].asked
       /\ store[u].command = tokens[u].command /\ store[u].shown = tokens[u].shown
       /\ u # t => store[u] = tokens[u]

(* A change of status. *)
LEMMA TokenDone ==
  ASSUME tokens \in Seq(Tokens), NEW t \in 1..Len(tokens), NEW status
  PROVE  LET store == [tokens EXCEPT ![t].status = status]
         IN  SaysTheSame(store, t) /\ store[t].status = status /\ store[t].ran = tokens[t].ran
<1> DEFINE done(r) == [r EXCEPT !.status = status]
           store == [tokens EXCEPT ![t].status = status]
<1>1. \A r \in Tokens : /\ done(r).holder = r.holder /\ done(r).asked = r.asked
                        /\ done(r).command = r.command /\ done(r).shown = r.shown
                        /\ done(r).status = status /\ done(r).ran = r.ran
  BY DEF Tokens
<1>2. DOMAIN tokens = 1..Len(tokens) /\ tokens[t] \in Tokens
  OBVIOUS
<1>3. /\ DOMAIN store = DOMAIN tokens /\ store[t] = done(tokens[t])
      /\ \A u \in DOMAIN tokens : u # t => store[u] = tokens[u]
  BY <1>2
<1> HIDE DEF done, store
<1> QED BY <1>1, <1>2, <1>3 DEF SaysTheSame, store

(* An execution. *)
LEMMA TokenRan ==
  ASSUME tokens \in Seq(Tokens), NEW t \in 1..Len(tokens), NEW ran
  PROVE  LET store == [tokens EXCEPT ![t].ran = ran]
         IN  SaysTheSame(store, t) /\ store[t].ran = ran /\ store[t].status = tokens[t].status
<1> DEFINE run(r) == [r EXCEPT !.ran = ran]
           store == [tokens EXCEPT ![t].ran = ran]
<1>1. \A r \in Tokens : /\ run(r).holder = r.holder /\ run(r).asked = r.asked
                        /\ run(r).command = r.command /\ run(r).shown = r.shown
                        /\ run(r).ran = ran /\ run(r).status = r.status
  BY DEF Tokens
<1>2. DOMAIN tokens = 1..Len(tokens) /\ tokens[t] \in Tokens
  OBVIOUS
<1>3. /\ DOMAIN store = DOMAIN tokens /\ store[t] = run(tokens[t])
      /\ \A u \in DOMAIN tokens : u # t => store[u] = tokens[u]
  BY <1>2
<1> HIDE DEF run, store
<1> QED BY <1>1, <1>2, <1>3 DEF SaysTheSame, store

(* The tap that consumes a challenge, or finds that it cannot. *)
LEMMA ConsumeIs ==
  ASSUME StaffTypes, Consume
  PROVE  /\ handling.stage = "read" /\ Update.about \in DOMAIN tokens
         /\ UNCHANGED <<queueVars, facts>>
         /\ \/ /\ Consumable /\ SaysTheSame(tokens', Update.about)
               /\ tokens'[Update.about].status = "consumed"
               /\ tokens'[Update.about].ran = Token.ran
               /\ handling' \in Handlings /\ handling'.stage = "confirmed"
               /\ handling'.update = Update /\ handling'.read = handling.read
               /\ handling'.raced = handling.raced
            \/ handling' = Nobody /\ tokens' = tokens
<1> DEFINE t == Update.about
           store == [tokens EXCEPT ![t].status = "consumed"]
<1>1. /\ handling \in Handlings /\ t \in 1..Len(tokens) /\ handling.stage = "read"
  BY HandledFits DEF Consume
<1>2. tokens \in Seq(Tokens) /\ DOMAIN tokens = 1..Len(tokens)
  BY DEF StaffTypes, StoreTypes
<1>3. CASE Consumable
  <2>1. tokens' = store /\ handling' = [handling EXCEPT !.stage = "confirmed"]
    BY <1>3 DEF Consume
  <2>2. SaysTheSame(store, t) /\ store[t].status = "consumed" /\ store[t].ran = tokens[t].ran
    BY <1>1, <1>2, TokenDone
  <2>3. /\ handling' \in Handlings /\ handling'.stage = "confirmed"
        /\ handling'.update = Update /\ handling'.read = handling.read
        /\ handling'.raced = handling.raced
    BY <1>1, <2>1 DEF Handlings, Update
  <2> HIDE DEF store
  <2> QED BY <1>1, <1>2, <1>3, <2>1, <2>2, <2>3 DEF Consume, Token
<1>4. CASE ~Consumable
  BY <1>1, <1>2, <1>4 DEF Consume
<1> QED BY <1>3, <1>4

(* The command is carried out, or refused. *)
LEMMA ExecuteIs ==
  ASSUME StaffTypes, Execute
  PROVE  /\ handling.stage = "confirmed" /\ Update.about \in DOMAIN tokens
         /\ handling' = Nobody /\ UNCHANGED queueVars
         /\ \/ /\ SaysTheSame(tokens', Update.about)
               /\ tokens'[Update.about].status = Token.status
               /\ tokens'[Update.about].ran =
                    Append(Token.ran, [by |-> Update.by, on |-> facts[Subject(Token.command)],
                                       raced |-> handling.raced])
            \/ tokens' = tokens
<1> DEFINE t == Update.about
           ran == Append(Token.ran, [by |-> Update.by, on |-> facts[Subject(Token.command)],
                                     raced |-> handling.raced])
           store == [tokens EXCEPT ![t].ran = ran]
<1>1. t \in 1..Len(tokens) /\ handling.stage = "confirmed"
  BY HandledFits DEF Execute
<1>2. tokens \in Seq(Tokens) /\ DOMAIN tokens = 1..Len(tokens)
  BY DEF StaffTypes, StoreTypes
<1>3. (tokens' = store \/ tokens' = tokens) /\ handling' = Nobody /\ UNCHANGED queueVars
  BY DEF Execute, Token
<1> HIDE DEF ran
<1>4. SaysTheSame(store, t) /\ store[t].ran = ran /\ store[t].status = tokens[t].status
  BY <1>1, <1>2, TokenRan
<1> HIDE DEF store
<1> QED BY <1>1, <1>2, <1>3, <1>4 DEF Token, ran

(* The holder's cancel button closes a pending challenge. *)
LEMMA CancelIs ==
  ASSUME StaffTypes, Cancel
  PROVE  /\ handling' = Nobody /\ UNCHANGED queueVars /\ Update.about \in DOMAIN tokens
         /\ \/ /\ Token.status = "pending" /\ SaysTheSame(tokens', Update.about)
               /\ tokens'[Update.about].status = "cancelled"
               /\ tokens'[Update.about].ran = Token.ran
            \/ tokens' = tokens
<1> DEFINE t == Update.about
           store == [tokens EXCEPT ![t].status = "cancelled"]
<1>1. t \in 1..Len(tokens)
  BY HandledFits DEF Cancel, Asks
<1>2. tokens \in Seq(Tokens) /\ DOMAIN tokens = 1..Len(tokens)
  BY DEF StaffTypes, StoreTypes
<1>3. /\ (Token.status = "pending" /\ tokens' = store) \/ tokens' = tokens
      /\ handling' = Nobody /\ UNCHANGED queueVars
  BY DEF Cancel
<1>4. SaysTheSame(store, t) /\ store[t].status = "cancelled" /\ store[t].ran = tokens[t].ran
  BY <1>1, <1>2, TokenDone
<1> HIDE DEF store
<1> QED BY <1>1, <1>2, <1>3, <1>4 DEF Token

(* A command is recorded as seen before it is answered, and never answered again. *)
LEMMA AskedOnceStep == StaffTypes /\ AskedOnce /\ [StaffNext]_staffVars => AskedOnce'
<1> SUFFICES ASSUME StaffTypes, AskedOnce, [StaffNext]_staffVars PROVE AskedOnce'
  OBVIOUS
<1>T. tokens \in Seq(Tokens) /\ DOMAIN tokens = 1..Len(tokens)
  BY DEF StaffTypes, StoreTypes
<1>N. Nobody.stage = "idle"
  BY DEF Nobody
<1>S. ASSUME UNCHANGED seen, DOMAIN tokens' = DOMAIN tokens,
             \A t \in DOMAIN tokens : tokens'[t].asked = tokens[t].asked,
             \/ handling' = Nobody
             \/ /\ handling # Nobody /\ handling'.update = handling.update
                /\ handling'.stage = handling.stage \/ handling'.stage # "taken"
      PROVE  AskedOnce'
  BY <1>S, <1>N DEF AskedOnce, Update
<1>1. ASSUME NEW p, NEW kind, NEW about, Send(p, kind, about) PROVE AskedOnce'
  BY <1>1 DEF Send, storeVars, AskedOnce, Update
<1>2. CASE CustomerSubmits \/ TickPasses \/ Restart \/ TurnsAway \/ Poll \/ UNCHANGED staffVars
  BY <1>2, <1>N DEF CustomerSubmits, TickPasses, Restart, TurnsAway, Poll, staffVars, queueVars,
     storeVars, AskedOnce, Update
<1>3. CASE MaintenanceActs
  <2>1. handling' = handling \/ (handling.stage \in {"read", "confirmed"} /\
          handling' = [handling EXCEPT !.raced = TRUE])
    BY <1>3 DEF MaintenanceActs
  <2>2. CASE handling' = handling
    BY <1>3, <2>2 DEF MaintenanceActs, queueVars, AskedOnce, Update
  <2>3. CASE handling.stage \in {"read", "confirmed"} /\ handling' = [handling EXCEPT !.raced = TRUE]
    <3>1. handling \in Handlings /\ handling # Nobody
      BY <1>N, <2>3, HandledFits
    <3>2. handling'.update = handling.update /\ handling'.stage = handling.stage
      BY <2>3, <3>1 DEF Handlings
    <3> QED BY <1>3, <1>S, <3>1, <3>2 DEF MaintenanceActs, queueVars
  <2> QED BY <2>1, <2>2, <2>3
<1>4. CASE PruneChallenges
  <2>1. \A t \in DOMAIN tokens : tokens'[t].asked = tokens[t].asked
    BY <1>4, <1>T DEF PruneChallenges, Tokens
  <2>2. DOMAIN tokens' = DOMAIN tokens /\ seen' = seen /\ handling' = handling
    BY <1>4 DEF PruneChallenges, queueVars
  <2> QED BY <2>1, <2>2 DEF AskedOnce, Update
<1>5. CASE TakeUpdate
  <2> DEFINE u == Head(updates)
  <2>1. /\ tokens' = tokens /\ seen' = seen \cup {u.id}
        /\ handling' = IF u.id \in seen THEN Nobody
             ELSE [stage |-> "taken", update |-> u, read |-> Unread, raced |-> FALSE]
    BY <1>5 DEF TakeUpdate, storeVars
  <2> HIDE DEF u
  <2> QED BY <1>N, <2>1 DEF AskedOnce, Update
<1>6. CASE ShowsChallenge
  <2> DEFINE row == [holder |-> Update.by, command |-> Update.about,
                     asked |-> Update.id, shown |-> Snapshot(Update.about),
                     until |-> now + ChallengeTTL, status |-> "pending", ran |-> <<>>]
  <2>1. /\ tokens' = Append(tokens, row) /\ seen' = seen /\ handling' = Nobody
        /\ handling.stage = "taken" /\ Update.kind = "command" /\ handling # Nobody
    BY <1>6, <1>N DEF ShowsChallenge, Asks, queueVars
  <2>2. row.asked = Update.id
    OBVIOUS
  <2> HIDE DEF row
  <2>3. /\ DOMAIN tokens' = 1..Len(tokens) + 1
        /\ \A t \in 1..Len(tokens) : tokens'[t] = tokens[t]
        /\ tokens'[Len(tokens) + 1] = row
    BY <1>T, <2>1
  <2>4. \A t \in DOMAIN tokens' : t \in DOMAIN tokens \/ t = Len(tokens) + 1
    BY <1>T, <2>3
  <2> QED BY <1>N, <1>T, <2>1, <2>2, <2>3, <2>4 DEF AskedOnce
<1>7. CASE ReadsAgain
  <2>1. /\ handling \in Handlings /\ handling # Nobody
    BY <1>7, <1>N, HandledFits DEF ReadsAgain, Asks
  <2>2. handling' = Nobody \/ (handling'.update = handling.update /\ handling'.stage = "read")
    BY <1>7, <2>1 DEF ReadsAgain, Handlings
  <2> QED BY <1>7, <1>S, <2>1, <2>2 DEF ReadsAgain, queueVars, storeVars
<1>8. CASE Consume
  <2>1. handling # Nobody /\ seen' = seen
    BY <1>8, <1>N, ConsumeIs DEF queueVars
  <2>2. handling' = Nobody \/ (handling'.update = handling.update /\ handling'.stage = "confirmed")
    BY <1>8, ConsumeIs DEF Update
  <2>3. /\ DOMAIN tokens' = DOMAIN tokens
        /\ \A t \in DOMAIN tokens : tokens'[t].asked = tokens[t].asked
    BY <1>8, ConsumeIs DEF SaysTheSame
  <2> QED BY <1>S, <2>1, <2>2, <2>3
<1>9. CASE Execute
  <2>1. /\ DOMAIN tokens' = DOMAIN tokens
        /\ \A t \in DOMAIN tokens : tokens'[t].asked = tokens[t].asked
    BY <1>9, ExecuteIs DEF SaysTheSame
  <2> QED BY <1>9, <1>S, <2>1, ExecuteIs DEF queueVars
<1>10. CASE Cancel
  <2>1. /\ DOMAIN tokens' = DOMAIN tokens
        /\ \A t \in DOMAIN tokens : tokens'[t].asked = tokens[t].asked
    BY <1>10, CancelIs DEF SaysTheSame
  <2> QED BY <1>10, <1>S, <2>1, CancelIs DEF queueVars
<1> QED
  BY <1>1, <1>2, <1>3, <1>4, <1>5, <1>6, <1>7, <1>8, <1>9, <1>10 DEF StaffNext, Types, Taps

(* What the thread holds is still what it read: only the other thread moves a
   subject meanwhile, and then it is marked. *)
LEMMA TapInHandStep ==
  StaffTypes /\ RanOnce /\ TapInHand /\ [StaffNext]_staffVars => TapInHand'
<1> SUFFICES ASSUME StaffTypes, RanOnce, TapInHand, [StaffNext]_staffVars PROVE TapInHand'
  OBVIOUS
<1>T. tokens \in Seq(Tokens) /\ DOMAIN tokens = 1..Len(tokens)
  BY DEF StaffTypes, StoreTypes
<1>N. Nobody.stage = "idle"
  BY DEF Nobody
<1>1. CASE handling'.stage \notin {"read", "confirmed"}
  BY <1>1 DEF TapInHand
<1>2. CASE UNCHANGED <<tokens, facts, handling>>
  BY <1>2 DEF TapInHand, Token, Update
<1>3. CASE MaintenanceActs
  <2>1. CASE handling.stage \in {"read", "confirmed"}
    <3>1. handling \in Handlings /\ tokens' = tokens
      BY <1>3, <2>1, HandledFits DEF MaintenanceActs
    <3>2. /\ handling'.raced /\ handling'.update = handling.update
          /\ handling'.stage = handling.stage /\ handling'.read = handling.read
      BY <1>3, <2>1, <3>1 DEF MaintenanceActs, Handlings
    <3> QED BY <2>1, <3>1, <3>2 DEF TapInHand, Token, Update
  <2>2. CASE handling.stage \notin {"read", "confirmed"}
    BY <1>1, <1>3, <2>2 DEF MaintenanceActs
  <2> QED BY <2>1, <2>2
<1>4. CASE PruneChallenges
  <2>1. CASE handling.stage \in {"read", "confirmed"}
    <3>1. Update.about \in DOMAIN tokens
      BY <1>T, <2>1, HandledFits
    <3>2. /\ tokens'[Update.about].command = Token.command
          /\ Token.status = "consumed" => tokens'[Update.about] = Token
      BY <1>4, <1>T, <3>1 DEF PruneChallenges, Token, Tokens
    <3>3. facts' = facts /\ handling' = handling
      BY <1>4 DEF PruneChallenges
    <3> QED BY <3>2, <3>3 DEF TapInHand, Token, Update
  <2>2. CASE handling.stage \notin {"read", "confirmed"}
    BY <1>1, <1>4, <2>2 DEF PruneChallenges
  <2> QED BY <2>1, <2>2
<1>5. CASE ReadsAgain
  <2>1. CASE handling' = Nobody
    BY <1>1, <1>N, <2>1
  <2>2. CASE handling' # Nobody
    <3>1. handling \in Handlings /\ Token.command \in Commands
      BY <1>5, HandledFits DEF ReadsAgain, Asks
    <3>2. Snapshot(Token.command) = facts[Subject(Token.command)]
      BY <1>5, <2>2, <3>1, SnapshotTypes DEF ReadsAgain
    <3>3. /\ handling'.read = facts[Subject(Token.command)] /\ handling'.stage = "read"
          /\ handling'.update = handling.update
      BY <1>5, <2>2, <3>1, <3>2 DEF ReadsAgain, Handlings
    <3>4. tokens' = tokens /\ facts' = facts
      BY <1>5 DEF ReadsAgain, storeVars
    <3> QED BY <3>3, <3>4 DEF TapInHand, Token, Update
  <2> QED BY <2>1, <2>2
<1>6. CASE Consume
  <2>1. CASE handling' = Nobody
    BY <1>1, <1>N, <2>1
  <2>2. CASE handling' # Nobody
    <3>1. /\ Consumable /\ SaysTheSame(tokens', Update.about)
          /\ tokens'[Update.about].status = "consumed" /\ tokens'[Update.about].ran = Token.ran
          /\ handling'.stage = "confirmed" /\ handling'.update = Update
          /\ handling'.read = handling.read /\ handling'.raced = handling.raced
          /\ facts' = facts /\ handling.stage = "read" /\ Update.about \in DOMAIN tokens
      BY <1>6, <2>2, ConsumeIs
    <3>2. Token.ran = <<>>
      BY <3>1 DEF RanOnce, RanWell, Consumable, Token
    <3>3. /\ tokens'[Update.about].holder = Token.holder
          /\ tokens'[Update.about].shown = Token.shown
          /\ tokens'[Update.about].command = Token.command
      BY <3>1 DEF SaysTheSame, Token
    <3>4. Update' = Update /\ Token' = tokens'[Update.about]
      BY <3>1 DEF Update, Token
    <3>5. ~handling.raced => facts[Subject(Token.command)] = handling.read
      BY <3>1 DEF TapInHand
    <3> QED BY <3>1, <3>2, <3>3, <3>4, <3>5 DEF TapInHand, Consumable
  <2> QED BY <2>1, <2>2
<1>7. CASE Execute \/ Cancel \/ ShowsChallenge \/ TurnsAway \/ Restart
  <2>1. handling' = Nobody
    BY <1>7, ExecuteIs, CancelIs DEF ShowsChallenge, TurnsAway, Restart
  <2> QED BY <1>1, <1>N, <2>1
<1>8. CASE TakeUpdate
  <2>1. handling' = Nobody \/ handling'.stage = "taken"
    BY <1>8 DEF TakeUpdate
  <2> QED BY <1>1, <1>N, <2>1
<1>9. CASE CustomerSubmits
  BY <1>1, <1>9, <1>N DEF CustomerSubmits
<1>10. ASSUME NEW p, NEW kind, NEW about, Send(p, kind, about) PROVE TapInHand'
  BY <1>2, <1>10 DEF Send, storeVars
<1>11. CASE TickPasses \/ Poll \/ UNCHANGED staffVars
  BY <1>2, <1>11 DEF TickPasses, Poll, staffVars, storeVars
<1> QED
  BY <1>3, <1>4, <1>5, <1>6, <1>7, <1>8, <1>9, <1>10, <1>11 DEF StaffNext, Types, Taps

(* A challenge is carried out after it was consumed, and is consumed once. *)
LEMMA RanOnceStep ==
  StaffTypes /\ RanOnce /\ TapInHand /\ [StaffNext]_staffVars => RanOnce'
<1> SUFFICES ASSUME StaffTypes, RanOnce, TapInHand, [StaffNext]_staffVars,
                    NEW t \in DOMAIN tokens'
             PROVE  RanWell(t)'
  BY DEF RanOnce
<1>T. tokens \in Seq(Tokens) /\ DOMAIN tokens = 1..Len(tokens)
  BY DEF StaffTypes, StoreTypes
<1>1. CASE tokens' = tokens
  BY <1>1 DEF RanOnce, RanWell
<1>2. CASE PruneChallenges
  <2>1. \/ tokens'[t] = tokens[t]
        \/ tokens[t].status = "pending" /\ tokens'[t] = [tokens[t] EXCEPT !.status = "pruned"]
    BY <1>2 DEF PruneChallenges
  <2>2. tokens[t] \in Tokens /\ RanWell(t)
    BY <1>2, <1>T DEF PruneChallenges, RanOnce
  <2>3. CASE tokens'[t] = tokens[t]
    BY <2>2, <2>3 DEF RanWell
  <2>4. CASE tokens[t].status = "pending" /\ tokens'[t] = [tokens[t] EXCEPT !.status = "pruned"]
    <3>1. tokens'[t].ran = <<>>
      BY <2>2, <2>4 DEF RanWell, Tokens
    <3> QED BY <3>1 DEF RanWell
  <2> QED BY <2>1, <2>3, <2>4
<1>3. CASE ShowsChallenge
  <2> DEFINE row == [holder |-> Update.by, command |-> Update.about,
                     asked |-> Update.id, shown |-> Snapshot(Update.about),
                     until |-> now + ChallengeTTL, status |-> "pending", ran |-> <<>>]
  <2>1. tokens' = Append(tokens, row)
    BY <1>3 DEF ShowsChallenge
  <2>2. row.ran = <<>>
    OBVIOUS
  <2> HIDE DEF row
  <2>3. (t \in DOMAIN tokens /\ tokens'[t] = tokens[t]) \/ tokens'[t] = row
    BY <1>T, <2>1
  <2>4. tokens'[t].ran = <<>> => RanWell(t)'
    BY DEF RanWell
  <2> QED BY <2>2, <2>3, <2>4 DEF RanOnce, RanWell
<1>4. ASSUME SaysTheSame(tokens', Update.about), t # Update.about PROVE RanWell(t)'
  <2>1. t \in DOMAIN tokens /\ tokens'[t] = tokens[t]
    BY <1>4 DEF SaysTheSame
  <2> QED BY <2>1 DEF RanOnce, RanWell
<1>5. ASSUME tokens'[t].ran = <<>> PROVE RanWell(t)'
  BY <1>5 DEF RanWell
<1>6. CASE Consume
  <2>1. \/ tokens' = tokens
        \/ /\ Consumable /\ SaysTheSame(tokens', Update.about) /\ Update.about \in DOMAIN tokens
           /\ tokens'[Update.about].ran = Token.ran
    BY <1>6, ConsumeIs
  <2>2. Consumable /\ Update.about \in DOMAIN tokens => Token.ran = <<>>
    BY DEF RanOnce, RanWell, Consumable, Token
  <2> QED BY <1>1, <1>4, <1>5, <2>1, <2>2
<1>7. CASE Cancel
  <2>1. \/ tokens' = tokens
        \/ /\ Token.status = "pending" /\ SaysTheSame(tokens', Update.about)
           /\ Update.about \in DOMAIN tokens /\ tokens'[Update.about].ran = Token.ran
    BY <1>7, CancelIs
  <2>2. Token.status = "pending" /\ Update.about \in DOMAIN tokens => Token.ran = <<>>
    BY DEF RanOnce, RanWell, Token
  <2> QED BY <1>1, <1>4, <1>5, <2>1, <2>2
<1>8. CASE Execute
  <2> DEFINE run == [by |-> Update.by, on |-> facts[Subject(Token.command)], raced |-> handling.raced]
  <2>1. \/ tokens' = tokens
        \/ /\ SaysTheSame(tokens', Update.about) /\ Update.about \in DOMAIN tokens
           /\ tokens'[Update.about].status = Token.status
           /\ tokens'[Update.about].ran = Append(Token.ran, run)
    BY <1>8, ExecuteIs
  <2>2. /\ Token.status = "consumed" /\ Token.ran = <<>> /\ Token.holder = Update.by
        /\ Token.shown = handling.read
        /\ ~handling.raced => facts[Subject(Token.command)] = handling.read
    BY <1>8, ExecuteIs DEF TapInHand
  <2>3. run.by = Token.holder /\ (run.on = Token.shown \/ run.raced)
    BY <2>2
  <2> HIDE DEF run
  <2>4. Append(<<>>, run) = <<run>>
    OBVIOUS
  <2>5. CASE t = Update.about /\ SaysTheSame(tokens', Update.about) /\ Update.about \in DOMAIN tokens
             /\ tokens'[Update.about].status = Token.status
             /\ tokens'[Update.about].ran = <<run>>
    <3>1. tokens'[t].holder = Token.holder /\ tokens'[t].shown = Token.shown
      BY <2>5 DEF SaysTheSame, Token
    <3>2. Len(tokens'[t].ran) = 1 /\ DOMAIN tokens'[t].ran = {1} /\ tokens'[t].ran[1] = run
      BY <2>5
    <3> QED BY <2>2, <2>3, <2>5, <3>1, <3>2 DEF RanWell
  <2> QED BY <1>1, <1>4, <2>1, <2>2, <2>4, <2>5
<1>9. ASSUME NEW p, NEW kind, NEW about, Send(p, kind, about) PROVE tokens' = tokens
  BY <1>9 DEF Send, storeVars
<1>10. CASE CustomerSubmits \/ MaintenanceActs \/ TickPasses \/ Restart \/ Poll \/ TakeUpdate
            \/ TurnsAway \/ ReadsAgain \/ UNCHANGED staffVars
  BY <1>1, <1>10 DEF CustomerSubmits, MaintenanceActs, TickPasses, Restart, Poll, TakeUpdate,
     TurnsAway, ReadsAgain, staffVars, storeVars
<1> QED
  BY <1>1, <1>2, <1>3, <1>6, <1>7, <1>8, <1>9, <1>10 DEF StaffNext, Types, Taps

(* A confirmed command runs once, by who asked for it, on the state it showed, however
   often Telegram delivers and after any crash. *)
THEOREM ConfirmedActionSafety == StaffSpec => []ConfirmedActionIsCurrent
<1>1. StaffInit => RanOnce /\ AskedOnce /\ TapInHand
  BY DEF StaffInit, RanOnce, AskedOnce, TapInHand, Nobody
<1>2. RanOnce /\ AskedOnce => ConfirmedActionIsCurrent
  BY DEF RanOnce, RanWell, AskedOnce, ConfirmedActionIsCurrent
<1> QED
  BY <1>1, <1>2, StaffTypesInit, StaffTypesStep, AskedOnceStep, TapInHandStep, RanOnceStep, PTL
  DEF StaffSpec

-----------------------------------------------------------------------------
(* Receipt store. *)

ReadStatus == {"none", "pending", "running", "done", "failed"}
ReadJobs == [Receipts -> [status : ReadStatus, attempts : Nat, lockedAt : Nat, due : Nat]]

ReadingsTypes ==
  /\ selected \in [Receipts -> Wallets]
  /\ review \in [Receipts -> {"unsent", "pending", "decided"}]
  /\ reading \in [Receipts -> Rows] /\ judged \in [Receipts -> Rows]
  /\ readJob \in ReadJobs
  /\ calls \in [Assistants -> SUBSET Receipts] /\ held \in [Assistants -> SUBSET Rows]
  /\ \A a \in Assistants : calls[a] = {} => held[a] = {}
  /\ late \subseteq Holding({}) /\ overtaken \subseteq Receipts
  /\ hour \in Nat

(* The types of the first state. *)
LEMMA ReadingsTypesInit == ReadingsInit => ReadingsTypes
BY DEF ReadingsInit, ReadingsTypes, Rows, ReadJobs, ReadStatus, NotRead, NoReadJob, Holding

(* A job's row stays one when its parts are written. *)
LEMMA ReadJobRow ==
  ASSUME NEW jobs \in ReadJobs, NEW e, NEW status \in ReadStatus, NEW n \in Nat, NEW m \in Nat,
         NEW l \in Nat
  PROVE  /\ [jobs EXCEPT ![e].status = status] \in ReadJobs
         /\ [jobs EXCEPT ![e].status = status, ![e].due = n] \in ReadJobs
         /\ [jobs EXCEPT ![e].status = status, ![e].lockedAt = l] \in ReadJobs
         /\ [jobs EXCEPT ![e].status = status, ![e].due = n, ![e].lockedAt = l] \in ReadJobs
         /\ [jobs EXCEPT ![e].status = status, ![e].lockedAt = n, ![e].attempts = m] \in ReadJobs
<1> DEFINE R == [status : ReadStatus, attempts : Nat, lockedAt : Nat, due : Nat]
           ended == [jobs EXCEPT ![e].status = status]
           locked == [ended EXCEPT ![e].lockedAt = n]
           again == [ended EXCEPT ![e].due = n]
<1>1. \A r \in R : /\ [r EXCEPT !.status = status] \in R /\ [r EXCEPT !.due = n] \in R
                   /\ [r EXCEPT !.lockedAt = n] \in R /\ [r EXCEPT !.attempts = m] \in R
                   /\ [r EXCEPT !.lockedAt = l] \in R
  OBVIOUS
<1> HIDE DEF R
<1>2. ended \in [Receipts -> R]
  BY <1>1 DEF ReadJobs, R
<1>3. /\ locked \in [Receipts -> R] /\ again \in [Receipts -> R]
      /\ [ended EXCEPT ![e].lockedAt = l] \in [Receipts -> R]
  BY <1>1, <1>2
<1>4. /\ [locked EXCEPT ![e].attempts = m] \in [Receipts -> R]
      /\ [again EXCEPT ![e].lockedAt = l] \in [Receipts -> R]
  BY <1>1, <1>3
<1>5. /\ [jobs EXCEPT ![e].status = status, ![e].due = n] = again
      /\ [jobs EXCEPT ![e].status = status, ![e].lockedAt = l] = [ended EXCEPT ![e].lockedAt = l]
      /\ [jobs EXCEPT ![e].status = status, ![e].due = n, ![e].lockedAt = l]
           = [again EXCEPT ![e].lockedAt = l]
      /\ [jobs EXCEPT ![e].status = status, ![e].lockedAt = n, ![e].attempts = m]
           = [locked EXCEPT ![e].attempts = m]
  OBVIOUS
<1> QED BY <1>2, <1>3, <1>4, <1>5 DEF ReadJobs, R

(* A step keeps the types. *)
LEMMA ReadingsTypesStep == ReadingsTypes /\ [ReadingsNext]_readingsVars => ReadingsTypes'
<1> SUFFICES ASSUME ReadingsTypes, [ReadingsNext]_readingsVars PROVE ReadingsTypes'
  OBVIOUS
<1>1. ASSUME NEW e \in Receipts, SubmitReceipt(e) PROVE ReadingsTypes'
  <2>1. "pending" \in ReadStatus /\ hour \in Nat /\ readJob \in ReadJobs
    BY DEF ReadingsTypes, ReadStatus
  <2>2. readJob' \in ReadJobs
    BY <1>1, <2>1, ReadJobRow DEF SubmitReceipt
  <2> QED BY <1>1, <2>2 DEF SubmitReceipt, ReadingsTypes, Holding
<1>2. ASSUME NEW e \in Receipts, Decide(e) PROVE ReadingsTypes'
  BY <1>2 DEF Decide, ReadingsTypes, Holding
<1>3. ASSUME NEW e \in Receipts, NEW a \in Assistants, ClaimReading(a, e) PROVE ReadingsTypes'
  <2> DEFINE jobs == [d \in Receipts |-> Reset(readJob[d])]
  <2>1. jobs \in ReadJobs
    BY DEF Reset, ReadingsTypes, ReadJobs, ReadStatus
  <2>2. jobs[e].attempts + 1 \in Nat /\ hour \in Nat /\ "running" \in ReadStatus
    BY <2>1 DEF ReadJobs, ReadingsTypes, ReadStatus
  <2>3. readJob' = [jobs EXCEPT ![e].status = "running", ![e].lockedAt = hour,
                                ![e].attempts = jobs[e].attempts + 1]
    BY <1>3 DEF ClaimReading
  <2> HIDE DEF jobs
  <2>4. readJob' \in ReadJobs
    BY <2>1, <2>2, <2>3, ReadJobRow
  <2> QED BY <1>3, <2>4 DEF ClaimReading, ReadingsTypes, Holding
<1>4. ASSUME NEW e \in Receipts, Done(e) = readJob' PROVE readJob' \in ReadJobs
  <2>1. "done" \in ReadStatus /\ 0 \in Nat /\ readJob \in ReadJobs
    BY DEF ReadingsTypes, ReadStatus
  <2> QED BY <1>4, <2>1, ReadJobRow DEF Done
<1>5. ASSUME NEW e \in Receipts, NEW a \in Assistants, FinishReads(a, e) PROVE ReadingsTypes'
  <2>1. PICK r \in Rows : held' = [held EXCEPT ![a] = {r}]
    BY <1>5 DEF FinishReads, Results
  <2> QED BY <1>5, <2>1 DEF FinishReads, ReadingsTypes, Holding
<1>6. ASSUME NEW e \in Receipts, NEW a \in Assistants, FinishWrites(a, e) PROVE ReadingsTypes'
  <2>1. PICK r \in held[a] : reading' = [reading EXCEPT ![e] = r]
    BY <1>6 DEF FinishWrites
  <2>2. reading' \in [Receipts -> Rows] /\ readJob' \in ReadJobs
    BY <1>4, <1>6, <2>1 DEF FinishWrites, ReadingsTypes
  <2>3. late' \subseteq Holding({})'
    BY <1>6 DEF FinishWrites, ReadingsTypes, Holding
  <2> QED BY <1>6, <2>2, <2>3 DEF FinishWrites, ReadingsTypes
<1>7. ASSUME NEW e \in Receipts, NEW a \in Assistants, FinishTooLate(a, e) PROVE ReadingsTypes'
  BY <1>4, <1>7 DEF FinishTooLate, ReadingsTypes, Holding
<1>8. ASSUME NEW a \in Assistants, Drop(a)
      PROVE  /\ calls' \in [Assistants -> SUBSET Receipts] /\ held' \in [Assistants -> SUBSET Rows]
             /\ \A b \in Assistants : calls'[b] = {} => held'[b] = {}
             /\ late' \subseteq Holding({})'
  BY <1>8 DEF Drop, ReadingsTypes, Holding
<1>9. ASSUME NEW e \in Receipts, NEW a \in Assistants, FailReading(a, e) PROVE ReadingsTypes'
  <2>1. hour + RetryAfter \in Nat /\ readJob \in ReadJobs /\ 0 \in Nat
    BY ReadingsAssumption DEF ReadingsTypes
  <2> DEFINE status == IF readJob[e].attempts >= MaxReads THEN "failed" ELSE "pending"
  <2>2. status \in ReadStatus
    BY DEF ReadStatus
  <2>3. readJob' = [readJob EXCEPT ![e].status = status, ![e].due = hour + RetryAfter,
                                   ![e].lockedAt = 0]
    BY <1>9 DEF FailReading
  <2> HIDE DEF status
  <2>4. readJob' \in ReadJobs
    BY <2>1, <2>2, <2>3, ReadJobRow
  <2>5. Drop(a)
    BY <1>9 DEF FailReading
  <2> QED BY <1>8, <1>9, <2>4, <2>5 DEF FailReading, ReadingsTypes
<1>10. ASSUME NEW a \in Assistants, AssistantDies(a) PROVE ReadingsTypes'
  BY <1>8, <1>10 DEF AssistantDies, ReadingsTypes
<1>11. CASE SetReceiptMode \/ HoursPass \/ UNCHANGED readingsVars
  BY <1>11 DEF SetReceiptMode, HoursPass, readingsVars, ReadingsTypes, Holding
<1> QED
  BY <1>1, <1>2, <1>3, <1>5, <1>6, <1>7, <1>9, <1>10, <1>11 DEF ReadingsNext

(* Receipts, store and jobs keep their types. *)
THEOREM ReadingsTypesSafety == ReadingsSpec => []ReadingsTypeOK
<1>1. ReadingsTypes => ReadingsTypeOK
  BY DEF ReadingsTypes, ReadingsTypeOK, ReadJobs, ReadStatus
<1> QED BY <1>1, ReadingsTypesInit, ReadingsTypesStep, PTL DEF ReadingsSpec

(* What a worker is about to write is still about a receipt that awaits review,
   and if it is clean still no duplicate, unless something it read has changed:
   then the worker is late. *)
HeldIsCurrent ==
  \A a \in Assistants \ late : \A e \in calls[a] : \A r \in held[a] :
    review[e] = "pending" /\ (r.status = "parsed" => ~Duplicate(e, r))

LEMMA HeldIsCurrentStep ==
  ReadingsTypes /\ HeldIsCurrent /\ [ReadingsNext]_readingsVars => HeldIsCurrent'
<1> SUFFICES ASSUME ReadingsTypes, HeldIsCurrent, [ReadingsNext]_readingsVars
             PROVE  HeldIsCurrent'
  OBVIOUS
<1>1. ASSUME NEW e \in Receipts, SubmitReceipt(e) PROVE HeldIsCurrent'
  BY <1>1 DEF SubmitReceipt, ReadingsTypes, HeldIsCurrent, Duplicate
<1>2. ASSUME NEW e \in Receipts, Decide(e) PROVE HeldIsCurrent'
  BY <1>2 DEF Decide, ReadingsTypes, HeldIsCurrent, Duplicate, Holding
<1>3. ASSUME NEW e \in Receipts, NEW a \in Assistants, ClaimReading(a, e)
      PROVE  HeldIsCurrent'
  <2>1. \A b \in Assistants : calls'[b] # calls[b] => b = a
    BY <1>3 DEF ClaimReading, ReadingsTypes
  <2>2. held[a] = {}
    BY <1>3 DEF ClaimReading, ReadingsTypes
  <2> QED BY <1>3, <2>1, <2>2 DEF ClaimReading, HeldIsCurrent, Duplicate
<1>4. ASSUME NEW e \in Receipts, NEW a \in Assistants, FinishReads(a, e)
      PROVE  HeldIsCurrent'
  <2>1. PICK r \in Results(e) : held' = [held EXCEPT ![a] = {r}]
    BY <1>4 DEF FinishReads
  <2>2. r.status = "parsed" => ~Duplicate(e, r)
    BY DEF Results
  <2>3. /\ calls[a] = {e} /\ review[e] = "pending" /\ held'[a] = {r}
        /\ UNCHANGED <<selected, review, reading, calls, late>>
        /\ \A b \in Assistants \ {a} : held'[b] = held[b]
    BY <1>4, <2>1 DEF FinishReads, ReadingsTypes
  <2>4. \A b \in Assistants \ late : \A f \in calls[b] : \A s \in held'[b] :
          review[f] = "pending" /\ (s.status = "parsed" => ~Duplicate(f, s))
    BY <2>2, <2>3 DEF HeldIsCurrent
  <2>5. \A f, s : Duplicate(f, s)' <=> Duplicate(f, s)
    BY <2>3 DEF Duplicate
  <2> QED BY <2>3, <2>4, <2>5 DEF HeldIsCurrent
<1>5. ASSUME NEW e \in Receipts, NEW a \in Assistants, FinishWrites(a, e)
      PROVE  HeldIsCurrent'
  <2>1. \A b \in Assistants \ late' : held'[b] = {}
    BY <1>5 DEF FinishWrites, ReadingsTypes, Holding
  <2> QED BY <2>1 DEF HeldIsCurrent
<1>6. ASSUME NEW e \in Receipts, NEW a \in Assistants, FinishTooLate(a, e)
      PROVE  HeldIsCurrent'
  BY <1>6 DEF FinishTooLate, ReadingsTypes, HeldIsCurrent, Duplicate
<1>7. ASSUME NEW a \in Assistants, Drop(a), UNCHANGED <<selected, review, reading>>
      PROVE  HeldIsCurrent'
  BY <1>7 DEF Drop, ReadingsTypes, HeldIsCurrent, Duplicate
<1>8. CASE SetReceiptMode \/ HoursPass \/ UNCHANGED readingsVars
  BY <1>8 DEF SetReceiptMode, HoursPass, readingsVars, HeldIsCurrent, Duplicate
<1> QED
  BY <1>1, <1>2, <1>3, <1>4, <1>5, <1>6, <1>7, <1>8
  DEF ReadingsNext, FailReading, AssistantDies

(* A reading that is written by a worker that is not late was judged on the
   review state and the other readings as they are. *)
LEMMA ReadingsStandStep ==
  ReadingsTypes /\ HeldIsCurrent /\ ReadingsStand /\ [ReadingsNext]_readingsVars
    => ReadingsStand'
<1> SUFFICES ASSUME ReadingsTypes, HeldIsCurrent, ReadingsStand, [ReadingsNext]_readingsVars
             PROVE  ReadingsStand'
  OBVIOUS
<1>1. ASSUME NEW e \in Receipts, SubmitReceipt(e) PROVE ReadingsStand'
  BY <1>1 DEF SubmitReceipt, ReadingsTypes, ReadingsStand, CleanTwice
<1>2. ASSUME NEW e \in Receipts, Decide(e) PROVE ReadingsStand'
  BY <1>2 DEF Decide, ReadingsTypes, ReadingsStand, CleanTwice
<1>3. ASSUME NEW e \in Receipts, NEW a \in Assistants, FinishWrites(a, e)
      PROVE  ReadingsStand'
  <2>1. PICK r \in held[a] : reading' = [reading EXCEPT ![e] = r]
    BY <1>3 DEF FinishWrites
  <2>2. /\ reading'[e] = r /\ \A d \in Receipts \ {e} : reading'[d] = reading[d]
        /\ review' = review /\ judged' = judged /\ selected' = selected
    BY <1>3, <2>1 DEF FinishWrites, ReadingsTypes
  <2>3. e \in overtaken' \/ (review[e] = "pending" /\ (r.status = "parsed" => ~Duplicate(e, r)))
    BY <1>3 DEF FinishWrites, HeldIsCurrent
  <2>4. overtaken \subseteq overtaken' \cup {e}
    BY <1>3 DEF FinishWrites
  <2>5. ASSUME NEW d \in Receipts \ overtaken', review'[d] = "decided"
        PROVE  reading'[d] = judged'[d]
    BY <2>2, <2>3, <2>4, <2>5 DEF ReadingsStand
  <2>6. ASSUME NEW d \in Receipts \ {e}, e \notin overtaken', CleanTwice(d, e)' \/ CleanTwice(e, d)'
        PROVE  reading'[e].alias
    BY <2>2, <2>3, <2>6 DEF CleanTwice, Duplicate
  <2>7. ASSUME NEW d \in Receipts \ overtaken', NEW f \in Receipts \ overtaken',
               CleanTwice(d, f)'
        PROVE  reading'[d].alias \/ reading'[f].alias
    <3>1. d # f
      BY <2>7 DEF CleanTwice
    <3>2. CASE d = e \/ f = e
      BY <2>6, <2>7, <3>1, <3>2
    <3>3. CASE d # e /\ f # e
      BY <2>2, <2>4, <2>7, <3>3 DEF CleanTwice, ReadingsStand
    <3> QED BY <3>2, <3>3
  <2> QED BY <2>5, <2>7 DEF ReadingsStand
<1>4. ASSUME UNCHANGED <<selected, review, reading, judged, overtaken>> PROVE ReadingsStand'
  BY <1>4 DEF ReadingsStand, CleanTwice
<1>5. ASSUME NEW e \in Receipts, NEW a \in Assistants,
             ClaimReading(a, e) \/ FinishReads(a, e) \/ FinishTooLate(a, e) \/ FailReading(a, e)
      PROVE  UNCHANGED <<selected, review, reading, judged, overtaken>>
  BY <1>5 DEF ClaimReading, FinishReads, FinishTooLate, FailReading
<1>6. CASE \E a \in Assistants : AssistantDies(a)
  BY <1>4, <1>6 DEF AssistantDies
<1>7. CASE SetReceiptMode \/ HoursPass \/ UNCHANGED readingsVars
  BY <1>4, <1>7 DEF SetReceiptMode, HoursPass, readingsVars
<1> QED BY <1>1, <1>2, <1>3, <1>4, <1>5, <1>6, <1>7 DEF ReadingsNext

(* On either database a decided receipt keeps saying what the staff saw, whatever
   workers answer late, and no transaction reads as clean on two orders' receipts
   of a wallet that both name as it was selected, but for readings overtaken
   between their judgement and their write. *)
THEOREM ReadingsStandSafety == ReadingsSpec => []ReadingsStand
<1>1. ReadingsInit => HeldIsCurrent /\ ReadingsStand
  BY DEF ReadingsInit, HeldIsCurrent, ReadingsStand, CleanTwice, NotRead
<1> QED
  BY <1>1, ReadingsTypesInit, ReadingsTypesStep, HeldIsCurrentStep, ReadingsStandStep, PTL
  DEF ReadingsSpec

(* Under SQLite's writer lock one worker at most is about to write, and nothing
   it judged by changes before it does. *)
OneHolds ==
  /\ \A a, b \in Assistants : held[a] # {} /\ held[b] # {} => a = b
  /\ late = {} /\ overtaken = {}

LEMMA OneHoldsStep ==
  ASSUME Backend = "sqlite", ReadingsTypes, OneHolds, [ReadingsNext]_readingsVars
  PROVE  OneHolds'
<1>1. CASE \E e \in Receipts : SubmitReceipt(e)
  BY <1>1 DEF SubmitReceipt, OneHolds
<1>2. CASE \E e \in Receipts : Decide(e)
  BY <1>2 DEF Decide, OneHolds, Writable, Holding
<1>3. CASE \E e \in Receipts, a \in Assistants : FinishReads(a, e)
  BY <1>3 DEF FinishReads, OneHolds, Writable, ReadingsTypes
<1>4. ASSUME NEW e \in Receipts, NEW a \in Assistants, FinishWrites(a, e) PROVE OneHolds'
  <2>1. held[a] # {} /\ Holding({a}) = {}
    BY <1>4 DEF FinishWrites, OneHolds, Holding
  <2> QED BY <1>4, <2>1 DEF FinishWrites, OneHolds, ReadingsTypes
<1>5. ASSUME NEW a \in Assistants, Drop(a), UNCHANGED overtaken PROVE OneHolds'
  BY <1>5 DEF Drop, OneHolds, ReadingsTypes
<1>6. CASE UNCHANGED <<held, late, overtaken>>
  BY <1>6 DEF OneHolds
<1> QED
  BY <1>1, <1>2, <1>3, <1>4, <1>5, <1>6
  DEF ReadingsNext, ClaimReading, FinishTooLate, FailReading, AssistantDies, SetReceiptMode,
      HoursPass, readingsVars

(* On SQLite there is nothing to except: every decided receipt says what the staff
   saw, and a transaction is clean twice only where a model used an alias. *)
THEOREM LockedReadingsSafety ==
  ASSUME Backend = "sqlite"
  PROVE  ReadingsSpec => [](ReadingsStand /\ overtaken = {})
<1>1. ReadingsInit => OneHolds
  BY DEF ReadingsInit, OneHolds
<1>2. ReadingsTypes /\ OneHolds /\ [ReadingsNext]_readingsVars => OneHolds'
  BY OneHoldsStep
<1>3. OneHolds => overtaken = {}
  BY DEF OneHolds
<1> QED
  BY <1>1, <1>2, <1>3, ReadingsStandSafety, ReadingsTypesInit, ReadingsTypesStep, PTL
  DEF ReadingsSpec

-----------------------------------------------------------------------------
(* Notifications, for any staff, repairs, workers, leases and clocks.  One can
   be in several hands at once: each worker that outlived its lease still holds
   it.  The argument balances, for each row, the messages that arrived and the
   workers that may still send it against the doubts on record. *)

Row == [status : {"absent", "pending", "failed", "sent"}, attempts : Nat, due : Nat]
Batch == [left : SUBSET Keys, hand : SUBSET Keys, got : {"none", "ok", "error"}]

DeliveryTypeOK ==
  /\ rows \in [Keys -> Row] /\ sending \in [Senders -> Batch]
  /\ delivered \in [Keys -> Nat] /\ doubts \in [Keys -> Nat] /\ minute \in Nat
  /\ \A w \in Senders : sending[w].hand # {} => sending[w].got # "none"

(* The workers that claimed a row and have not sent it. *)
Claimers(k) == {w \in Senders : k \in sending[w].left}
Exposed(k) == delivered[k] + Cardinality(Claimers(k))

HasArrived(k) == \E w \in Senders : k \in sending[w].hand /\ sending[w].got = "ok"
IsRefused(k) == \E w \in Senders : k \in sending[w].hand /\ sending[w].got = "error"

(* Every message beyond the first is paid for with a doubt, and so is every
   worker that may still send one. *)
Balanced == \A k \in Keys : Exposed(k) <= doubts[k] + 1

(* A row that may be claimed afresh, or whose worker got an error, has no
   message that is not in doubt. *)
IsFree(k) == rows[k].status # "sent" /\ ~HasArrived(k) /\ Claimers(k) = {}
Settled == \A k \in Keys : IsFree(k) \/ IsRefused(k) => Exposed(k) <= doubts[k]

(* What is, or is about to be, marked sent has arrived. *)
SentArrived == \A k \in Keys :
  rows[k].status = "sent" \/ HasArrived(k) => delivered[k] >= 1

DeliveryInv == DeliveryTypeOK /\ Balanced /\ Settled /\ SentArrived

-----------------------------------------------------------------------------
(* The claimers of a row are finitely many, and are counted one by one. *)
LEMMA ClaimersCount ==
  ASSUME NEW k
  PROVE  IsFiniteSet(Claimers(k)) /\ Cardinality(Claimers(k)) \in Nat
<1>1. Claimers(k) \subseteq Senders
  BY DEF Claimers
<1> QED BY <1>1, SendersAssumption, FS_Subset, FS_CardinalityType

(* The tables start empty. *)
LEMMA DeliveryInit == OutboxInit => DeliveryInv
<1> SUFFICES ASSUME OutboxInit PROVE DeliveryInv
  OBVIOUS
<1>1. DeliveryTypeOK
  BY DEF OutboxInit, DeliveryTypeOK, Row, Batch, Absent, NoSend
<1>2. \A k \in Keys : Claimers(k) = {} /\ ~HasArrived(k) /\ ~IsRefused(k)
  BY DEF OutboxInit, Claimers, HasArrived, IsRefused, NoSend
<1>3. \A k \in Keys : Exposed(k) = 0
  BY <1>2, FS_EmptySet DEF OutboxInit, Exposed
<1> QED BY <1>1, <1>2, <1>3
        DEF OutboxInit, DeliveryInv, Balanced, Settled, SentArrived, IsFree, Absent

(* A step that leaves the workers and what they sent alone keeps the balance,
   if it marks no row as sent and none that was sent as anything else. *)
LEMMA QuietStep ==
  ASSUME DeliveryInv, UNCHANGED <<sending, delivered, doubts>>, DeliveryTypeOK',
         \A k \in Keys : rows'[k].status = "sent" <=> rows[k].status = "sent"
  PROVE  DeliveryInv'
<1>1. \A k \in Keys : /\ Claimers(k)' = Claimers(k) /\ Exposed(k)' = Exposed(k)
                      /\ HasArrived(k)' = HasArrived(k) /\ IsRefused(k)' = IsRefused(k)
  BY DEF Claimers, Exposed, HasArrived, IsRefused
<1> QED BY <1>1 DEF DeliveryInv, Balanced, Settled, SentArrived, IsFree

(* Rows are only added to the table. *)
LEMMA QueueStep ==
  ASSUME DeliveryInv, NEW keys, Queue(keys), UNCHANGED <<sending, delivered, doubts, minute>>
  PROVE  DeliveryInv'
<1>1. rows' \in [Keys -> Row]
  BY DEF DeliveryInv, DeliveryTypeOK, Queue, Row
<1>2. DeliveryTypeOK'
  BY <1>1 DEF DeliveryInv, DeliveryTypeOK
<1>3. \A k \in Keys : rows'[k].status = "sent" <=> rows[k].status = "sent"
  BY DEF Queue, Absent
<1> QED BY <1>2, <1>3, QuietStep

(* A claim adds one worker to the claimers of each due row.  Where the row was
   in somebody's hands it adds a doubt too; where it was not, the row was free. *)
LEMMA ClaimStep ==
  ASSUME DeliveryInv, NEW w \in Senders, ClaimPending(w)
  PROVE  DeliveryInv'
<1> DEFINE due == {k \in Keys : SendDue(k)}
<1>1. /\ sending[w] = NoSend
      /\ rows' = [k \in Keys |->
            IF k \in due THEN [rows[k] EXCEPT !.due = minute + Lease] ELSE rows[k]]
      /\ doubts' = [k \in Keys |->
            IF k \in due /\ InHand(k) /\ rows[k].due <= minute THEN doubts[k] + 1
            ELSE doubts[k]]
      /\ sending' = [sending EXCEPT ![w].left = due]
      /\ UNCHANGED <<delivered, minute>>
  BY DEF ClaimPending
<1> HIDE DEF due
<1>2. due \subseteq Keys /\ \A k \in due : rows[k].status # "sent" /\ rows[k].due <= minute
  BY DEF due, SendDue
<1>3. DeliveryTypeOK'
  <2>1. rows' \in [Keys -> Row]
    <3>1. minute + Lease \in Nat
      BY OutboxAssumption DEF DeliveryInv, DeliveryTypeOK
    <3>2. \A r \in Row, n \in Nat : [r EXCEPT !.due = n] \in Row
      BY DEF Row
    <3>3. \A k \in Keys : rows[k] \in Row /\ [rows[k] EXCEPT !.due = minute + Lease] \in Row
      BY <3>1, <3>2 DEF DeliveryInv, DeliveryTypeOK
    <3> QED BY <1>1, <3>3
  <2>2. sending' \in [Senders -> Batch]
    BY <1>1, <1>2 DEF DeliveryInv, DeliveryTypeOK, Batch
  <2>3. doubts' \in [Keys -> Nat]
    BY <1>1 DEF DeliveryInv, DeliveryTypeOK
  <2>4. \A v \in Senders : /\ sending'[v].hand = sending[v].hand
                           /\ sending'[v].got = sending[v].got
    BY <1>1 DEF DeliveryInv, DeliveryTypeOK, Batch
  <2> QED BY <2>1, <2>2, <2>3, <2>4, <1>1 DEF DeliveryInv, DeliveryTypeOK
<1>4. ASSUME NEW k \in Keys
      PROVE  /\ HasArrived(k)' = HasArrived(k) /\ IsRefused(k)' = IsRefused(k)
             /\ rows'[k].status = rows[k].status
  <2>1. \A v \in Senders : /\ sending'[v].hand = sending[v].hand
                           /\ sending'[v].got = sending[v].got
    BY <1>1 DEF DeliveryInv, DeliveryTypeOK, Batch
  <2>2. rows'[k].status = rows[k].status
    BY <1>1 DEF DeliveryInv, DeliveryTypeOK, Row
  <2> QED BY <2>1, <2>2 DEF HasArrived, IsRefused
<1>5. \A k \in Keys : Exposed(k) \in Nat
  BY ClaimersCount DEF Exposed, DeliveryInv, DeliveryTypeOK
<1>6. ASSUME NEW k \in Keys, k \notin due
      PROVE  Claimers(k)' = Claimers(k) /\ Exposed(k)' = Exposed(k) /\ doubts'[k] = doubts[k]
  <2>1. Claimers(k)' = Claimers(k)
    BY <1>1, <1>6 DEF Claimers, DeliveryInv, DeliveryTypeOK, Batch, NoSend
  <2> QED BY <2>1, <1>1, <1>6 DEF Exposed
<1>7. ASSUME NEW k \in due
      PROVE  /\ Claimers(k)' # {} /\ Exposed(k)' = Exposed(k) + 1
             /\ doubts'[k] = IF InHand(k) THEN doubts[k] + 1 ELSE doubts[k]
  <2>1. w \notin Claimers(k)
    BY <1>1 DEF Claimers, NoSend
  <2>2. Claimers(k)' = Claimers(k) \cup {w}
    BY <1>1, <1>7 DEF Claimers, DeliveryInv, DeliveryTypeOK, Batch
  <2>3. Cardinality(Claimers(k)') = Cardinality(Claimers(k)) + 1
    BY <2>1, <2>2, ClaimersCount, FS_AddElement
  <2> QED BY <2>2, <2>3, <1>1, <1>2, ClaimersCount
          DEF Exposed, DeliveryInv, DeliveryTypeOK
<1>8. ASSUME NEW k \in due, ~InHand(k) PROVE IsFree(k) /\ ~IsRefused(k)
  <2>1. ~HasArrived(k) /\ ~IsRefused(k) /\ Claimers(k) = {}
    BY <1>8 DEF InHand, HasArrived, IsRefused, Claimers
  <2> QED BY <2>1, <1>2 DEF IsFree
<1>9. \A k \in Keys : doubts[k] \in Nat
  BY DEF DeliveryInv, DeliveryTypeOK
<1>10. ASSUME NEW k \in Keys PROVE Exposed(k)' <= doubts'[k] + 1
  BY <1>2, <1>5, <1>6, <1>7, <1>8, <1>9 DEF DeliveryInv, Balanced, Settled
<1>11. ASSUME NEW k \in Keys, IsFree(k)' \/ IsRefused(k)'
       PROVE  Exposed(k)' <= doubts'[k]
  <2>1. CASE k \notin due
    BY <2>1, <1>4, <1>6, <1>11 DEF DeliveryInv, Settled, IsFree
  <2>2. CASE k \in due
    <3>1. IsRefused(k)
      BY <2>2, <1>4, <1>7, <1>11 DEF IsFree
    <3>2. InHand(k)
      BY <3>1, <2>2, <1>8
    <3> QED BY <3>1, <3>2, <2>2, <1>5, <1>7, <1>9 DEF DeliveryInv, Settled
  <2> QED BY <2>1, <2>2
<1>12. SentArrived'
  BY <1>1, <1>4 DEF DeliveryInv, SentArrived
<1> QED BY <1>3, <1>10, <1>11, <1>12 DEF DeliveryInv, Balanced, Settled

(* A worker takes one of its rows in hand: one claimer fewer, and one message
   more only if it arrived. *)
LEMMA DeliverStep ==
  ASSUME DeliveryInv, NEW w \in Senders, Deliver(w)
  PROVE  DeliveryInv'
<1>1. PICK k \in sending[w].left, got \in {"ok", "error"}, arrives \in BOOLEAN :
        /\ sending[w].hand = {}
        /\ got = "ok" => arrives
        /\ sending' = [sending EXCEPT ![w] = [left |-> @.left \ {k}, hand |-> {k}, got |-> got]]
        /\ delivered' = [delivered EXCEPT ![k] = IF arrives THEN @ + 1 ELSE @]
        /\ doubts' = [doubts EXCEPT ![k] = IF arrives /\ got = "error" THEN @ + 1 ELSE @]
        /\ UNCHANGED <<rows, minute>>
  BY DEF Deliver
<1>2. k \in Keys
  BY <1>1 DEF DeliveryInv, DeliveryTypeOK, Batch
<1>3. /\ sending'[w] = [left |-> sending[w].left \ {k}, hand |-> {k}, got |-> got]
      /\ \A v \in Senders \ {w} : sending'[v] = sending[v]
  BY <1>1 DEF DeliveryInv, DeliveryTypeOK
<1>4. DeliveryTypeOK'
  <2>1. sending' \in [Senders -> Batch]
    BY <1>1, <1>2 DEF DeliveryInv, DeliveryTypeOK, Batch
  <2>2. delivered' \in [Keys -> Nat] /\ doubts' \in [Keys -> Nat]
    <3>1. /\ delivered \in [Keys -> Nat] /\ doubts \in [Keys -> Nat]
          /\ delivered[k] + 1 \in Nat /\ doubts[k] + 1 \in Nat
      BY <1>2 DEF DeliveryInv, DeliveryTypeOK
    <3>2. \E n, d \in Nat : delivered' = [delivered EXCEPT ![k] = n]
                            /\ doubts' = [doubts EXCEPT ![k] = d]
      <4>1. \E n \in Nat : delivered' = [delivered EXCEPT ![k] = n]
        BY <1>1, <1>2, <3>1
      <4>2. \E d \in Nat : doubts' = [doubts EXCEPT ![k] = d]
        BY <1>1, <1>2, <3>1
      <4> QED BY <4>1, <4>2
    <3> QED BY <3>1, <3>2
  <2>3. \A v \in Senders : sending'[v].hand # {} => sending'[v].got # "none"
    BY <1>3 DEF DeliveryInv, DeliveryTypeOK
  <2> QED BY <2>1, <2>2, <2>3, <1>1 DEF DeliveryInv, DeliveryTypeOK
<1>5. \A j \in Keys : Exposed(j) \in Nat /\ delivered[j] \in Nat /\ doubts[j] \in Nat
  BY ClaimersCount DEF Exposed, DeliveryInv, DeliveryTypeOK
<1>6. ASSUME NEW j \in Keys, j # k
      PROVE  /\ Claimers(j)' = Claimers(j) /\ Exposed(j)' = Exposed(j)
             /\ HasArrived(j)' = HasArrived(j) /\ IsRefused(j)' = IsRefused(j)
             /\ doubts'[j] = doubts[j] /\ delivered'[j] = delivered[j]
             /\ rows'[j] = rows[j]
  <2>1. Claimers(j)' = Claimers(j)
    BY <1>3, <1>6 DEF Claimers
  <2>2. HasArrived(j)' = HasArrived(j) /\ IsRefused(j)' = IsRefused(j)
    BY <1>1, <1>3, <1>6 DEF HasArrived, IsRefused
  <2>3. doubts'[j] = doubts[j] /\ delivered'[j] = delivered[j] /\ rows'[j] = rows[j]
    BY <1>1, <1>6 DEF DeliveryInv, DeliveryTypeOK
  <2> QED BY <2>1, <2>2, <2>3 DEF Exposed
<1>7. /\ delivered'[k] = IF arrives THEN delivered[k] + 1 ELSE delivered[k]
      /\ doubts'[k] = IF arrives /\ got = "error" THEN doubts[k] + 1 ELSE doubts[k]
  BY <1>1, <1>2 DEF DeliveryInv, DeliveryTypeOK
<1>8. Exposed(k)' = IF arrives THEN Exposed(k) ELSE Exposed(k) - 1
  <2>1. Claimers(k)' = Claimers(k) \ {w}
    BY <1>3 DEF Claimers
  <2>2. w \in Claimers(k)
    BY <1>1 DEF Claimers
  <2>3. Cardinality(Claimers(k)') = Cardinality(Claimers(k)) - 1
    BY <2>1, <2>2, ClaimersCount, FS_RemoveElement
  <2>4. Cardinality(Claimers(k)) \in Nat /\ delivered[k] \in Nat
    BY <1>2, <1>5, ClaimersCount
  <2> QED BY <2>3, <2>4, <1>7 DEF Exposed
<1>9. Exposed(k)' <= doubts'[k] + 1
  BY <1>2, <1>5, <1>7, <1>8 DEF DeliveryInv, Balanced
<1>10. IsFree(k)' \/ IsRefused(k)' => Exposed(k)' <= doubts'[k]
  <2>1. CASE got = "error"
    BY <2>1, <1>2, <1>5, <1>7, <1>8 DEF DeliveryInv, Balanced
  <2>2. CASE got = "ok"
    <3>1. HasArrived(k)'
      BY <2>2, <1>3 DEF HasArrived
    <3>2. IsRefused(k)' => IsRefused(k)
      BY <2>2, <1>3 DEF IsRefused
    <3> QED BY <2>2, <3>1, <3>2, <1>1, <1>2, <1>7, <1>8 DEF IsFree, DeliveryInv, Settled
  <2> QED BY <2>1, <2>2
<1>11. rows'[k].status = "sent" \/ HasArrived(k)' => delivered'[k] >= 1
  <2>1. CASE arrives
    BY <2>1, <1>2, <1>5, <1>7
  <2>2. CASE ~arrives
    <3>1. HasArrived(k)' => HasArrived(k)
      BY <2>2, <1>1, <1>3 DEF HasArrived
    <3> QED BY <2>2, <3>1, <1>1, <1>2, <1>7 DEF DeliveryInv, SentArrived
  <2> QED BY <2>1, <2>2
<1>12. Balanced'
  BY <1>6, <1>9 DEF DeliveryInv, Balanced
<1>13. Settled'
  BY <1>6, <1>10 DEF DeliveryInv, Settled, IsFree
<1>14. SentArrived'
  BY <1>6, <1>11 DEF DeliveryInv, SentArrived
<1> QED BY <1>4, <1>12, <1>13, <1>14 DEF DeliveryInv

(* The hands of a worker are emptied and the outcome written down.  A row that
   is free again was refused, so it was settled already. *)
LEMMA MarkStep ==
  ASSUME DeliveryInv, NEW w \in Senders, MarkSent(w) \/ MarkFailed(w)
  PROVE  DeliveryInv'
<1>1. PICK k \in sending[w].hand :
        /\ sending[w].hand = {k}
        /\ sending' = [sending EXCEPT ![w].hand = {}, ![w].got = "none"]
        /\ UNCHANGED <<delivered, doubts, minute>>
        /\ \/ sending[w].got = "ok" /\ rows' = [rows EXCEPT ![k].status = "sent"]
           \/ /\ sending[w].got = "error"
              /\ \E n, d \in Nat : rows' = [rows EXCEPT ![k] =
                   [status |-> "failed", attempts |-> n, due |-> d]]
  <2>1. CASE MarkSent(w)
    BY <2>1 DEF MarkSent, Marked
  <2>2. CASE MarkFailed(w)
    <3>1. DeadLetter \in Nat /\ minute + Delay \in Nat
      BY OutboxAssumption DEF DeliveryInv, DeliveryTypeOK, DeadLetter
    <3>2. \A k \in sending[w].hand : rows[k].attempts + 1 \in Nat
      BY DEF DeliveryInv, DeliveryTypeOK, Row, Batch
    <3> HIDE DEF DeadLetter
    <3> QED BY <2>2, <3>1, <3>2 DEF MarkFailed, Marked
  <2> QED BY <2>1, <2>2
<1>2. k \in Keys
  BY <1>1 DEF DeliveryInv, DeliveryTypeOK, Batch
<1>3. /\ sending'[w] = [left |-> sending[w].left, hand |-> {}, got |-> "none"]
      /\ \A v \in Senders \ {w} : sending'[v] = sending[v]
  BY <1>1 DEF DeliveryInv, DeliveryTypeOK, Batch
<1>4. /\ \A j \in Keys \ {k} : rows'[j] = rows[j]
      /\ sending[w].got = "ok" => rows'[k].status = "sent"
      /\ sending[w].got = "error" => rows'[k].status = "failed"
      /\ rows' \in [Keys -> Row]
  <2>1. CASE rows' = [rows EXCEPT ![k].status = "sent"] /\ sending[w].got = "ok"
    <3>1. rows[k] \in Row /\ [rows[k] EXCEPT !.status = "sent"] \in Row
      BY <1>2 DEF DeliveryInv, DeliveryTypeOK, Row
    <3>2. rows' = [rows EXCEPT ![k] = [rows[k] EXCEPT !.status = "sent"]]
      BY <2>1
    <3> QED BY <2>1, <3>1, <3>2, <1>2 DEF DeliveryInv, DeliveryTypeOK, Row
  <2>2. CASE sending[w].got = "error"
    BY <2>2, <1>1, <1>2 DEF DeliveryInv, DeliveryTypeOK, Row
  <2> QED BY <2>1, <2>2, <1>1
<1>5. DeliveryTypeOK'
  <2>1. sending' \in [Senders -> Batch]
    BY <1>1 DEF DeliveryInv, DeliveryTypeOK, Batch
  <2> QED BY <2>1, <1>1, <1>3, <1>4 DEF DeliveryInv, DeliveryTypeOK
<1>6. ASSUME NEW j \in Keys
      PROVE  /\ Claimers(j)' = Claimers(j) /\ Exposed(j)' = Exposed(j)
             /\ HasArrived(j)' => HasArrived(j)
             /\ IsRefused(j)' => IsRefused(j)
             /\ j # k => (HasArrived(j) => HasArrived(j)')
  <2>1. Claimers(j)' = Claimers(j)
    BY <1>3 DEF Claimers
  <2>2. Exposed(j)' = Exposed(j)
    BY <2>1, <1>1 DEF Exposed
  <2>3. (HasArrived(j)' => HasArrived(j)) /\ (IsRefused(j)' => IsRefused(j))
    BY <1>3 DEF HasArrived, IsRefused
  <2>4. j # k => (HasArrived(j) => HasArrived(j)')
    BY <1>1, <1>3 DEF HasArrived
  <2> QED BY <2>1, <2>2, <2>3, <2>4
<1>7. Balanced'
  BY <1>1, <1>6 DEF DeliveryInv, Balanced
<1>8. ASSUME NEW j \in Keys, IsFree(j)' \/ IsRefused(j)' PROVE IsFree(j) \/ IsRefused(j)
  <2>1. CASE j # k
    BY <2>1, <1>4, <1>6, <1>8 DEF IsFree
  <2>2. CASE j = k /\ sending[w].got = "ok"
    BY <2>2, <1>4, <1>6, <1>8 DEF IsFree
  <2>3. CASE j = k /\ sending[w].got = "error"
    BY <2>3, <1>1 DEF IsRefused
  <2> QED BY <2>1, <2>2, <2>3, <1>1
<1>9. Settled'
  BY <1>1, <1>6, <1>8 DEF DeliveryInv, Settled
<1>10. ASSUME NEW j \in Keys, rows'[j].status = "sent" \/ HasArrived(j)'
       PROVE  rows[j].status = "sent" \/ HasArrived(j)
  <2>1. CASE j = k /\ sending[w].got = "ok"
    BY <2>1, <1>1 DEF HasArrived
  <2>2. CASE j = k /\ sending[w].got = "error"
    BY <2>2, <1>4, <1>6, <1>10
  <2>3. CASE j # k
    BY <2>3, <1>4, <1>6, <1>10
  <2> QED BY <2>1, <2>2, <2>3, <1>1
<1>11. SentArrived'
  BY <1>1, <1>10 DEF DeliveryInv, SentArrived
<1> QED BY <1>5, <1>7, <1>9, <1>11 DEF DeliveryInv

(* A crash gives up what its worker had claimed; a message it could no longer
   mark as sent is in doubt. *)
LEMMA CrashStep ==
  ASSUME DeliveryInv, NEW w \in Senders, SenderCrash(w)
  PROVE  DeliveryInv'
<1>1. /\ sending' = [sending EXCEPT ![w] = NoSend]
      /\ doubts' = [k \in Keys |->
            IF k \in sending[w].hand /\ sending[w].got = "ok" THEN doubts[k] + 1 ELSE doubts[k]]
      /\ UNCHANGED <<rows, delivered, minute>>
  BY DEF SenderCrash
<1>2. sending'[w] = NoSend /\ \A v \in Senders \ {w} : sending'[v] = sending[v]
  BY <1>1 DEF DeliveryInv, DeliveryTypeOK
<1>3. DeliveryTypeOK'
  BY <1>1 DEF DeliveryInv, DeliveryTypeOK, Batch, NoSend
<1>4. \A k \in Keys : Exposed(k) \in Nat /\ doubts[k] \in Nat
  BY ClaimersCount DEF Exposed, DeliveryInv, DeliveryTypeOK
<1>5. ASSUME NEW k \in Keys
      PROVE  /\ Exposed(k)' \in Nat
             /\ Exposed(k)' = IF w \in Claimers(k) THEN Exposed(k) - 1 ELSE Exposed(k)
             /\ Claimers(k) = {} \/ w \in Claimers(k) \/ Claimers(k)' # {}
             /\ HasArrived(k)' => HasArrived(k)
             /\ IsRefused(k)' => IsRefused(k)
             /\ HasArrived(k) => HasArrived(k)' \/ doubts'[k] = doubts[k] + 1
             /\ doubts'[k] \in {doubts[k], doubts[k] + 1}
  <2>1. Claimers(k)' = Claimers(k) \ {w}
    BY <1>2 DEF Claimers, NoSend
  <2>2. Exposed(k)' = IF w \in Claimers(k) THEN Exposed(k) - 1 ELSE Exposed(k)
    <3>1. /\ IsFiniteSet(Claimers(k)) /\ Cardinality(Claimers(k)) \in Nat
          /\ delivered[k] \in Nat /\ delivered' = delivered
      BY <1>1, ClaimersCount DEF DeliveryInv, DeliveryTypeOK
    <3>2. CASE w \in Claimers(k)
      <4>1. Cardinality(Claimers(k)') = Cardinality(Claimers(k)) - 1
        BY <3>1, <3>2, <2>1, FS_RemoveElement
      <4> QED BY <3>1, <3>2, <4>1 DEF Exposed
    <3>3. CASE w \notin Claimers(k)
      <4>1. Claimers(k)' = Claimers(k)
        BY <3>3, <2>1
      <4> QED BY <3>1, <3>3, <4>1 DEF Exposed
    <3> QED BY <3>2, <3>3
  <2>3. Exposed(k)' \in Nat
    <3>1. IsFiniteSet(Claimers(k)') /\ Cardinality(Claimers(k)') \in Nat
      BY <2>1, ClaimersCount, FS_RemoveElement, FS_CardinalityType
    <3> QED BY <3>1, <1>1 DEF Exposed, DeliveryInv, DeliveryTypeOK
  <2>4. (HasArrived(k)' => HasArrived(k)) /\ (IsRefused(k)' => IsRefused(k))
    BY <1>2 DEF HasArrived, IsRefused, NoSend
  <2>5. HasArrived(k) => HasArrived(k)' \/ doubts'[k] = doubts[k] + 1
    BY <1>1, <1>2 DEF HasArrived
  <2>6. doubts'[k] \in {doubts[k], doubts[k] + 1}
    BY <1>1
  <2> QED BY <2>1, <2>2, <2>3, <2>4, <2>5, <2>6
<1>6. Balanced'
  BY <1>4, <1>5 DEF DeliveryInv, Balanced
<1>7. ASSUME NEW k \in Keys, IsFree(k)' \/ IsRefused(k)' PROVE Exposed(k)' <= doubts'[k]
  <2>1. CASE IsRefused(k) \/ IsFree(k)
    BY <2>1, <1>4, <1>5 DEF DeliveryInv, Settled
  <2>2. CASE w \in Claimers(k) \/ doubts'[k] = doubts[k] + 1
    BY <2>2, <1>4, <1>5 DEF DeliveryInv, Balanced
  <2> QED BY <2>1, <2>2, <1>1, <1>5, <1>7 DEF IsFree
<1>8. SentArrived'
  BY <1>1, <1>5 DEF DeliveryInv, SentArrived
<1> QED BY <1>3, <1>6, <1>7, <1>8 DEF DeliveryInv, Settled

(* Whatever the staff, the repairs, the customers, the workers and the clock
   do, the invariant is kept. *)
LEMMA DeliveryStep == DeliveryInv /\ [OutboxNext]_outboxVars => DeliveryInv'
<1> SUFFICES ASSUME DeliveryInv, [OutboxNext]_outboxVars PROVE DeliveryInv'
  OBVIOUS
<1>1. ASSUME NEW r \in Repairs, RepairOpens(r) PROVE DeliveryInv'
  BY <1>1, QueueStep DEF RepairOpens
<1>2. ASSUME NEW r \in Repairs, EnsureAlerts(r) PROVE DeliveryInv'
  BY <1>2, QueueStep DEF EnsureAlerts
<1>3. CASE QueueQuotaWarning
  BY <1>3, QueueStep DEF QueueQuotaWarning
<1>4. ASSUME UNCHANGED <<rows, sending, delivered, doubts>>, minute' \in Nat
      PROVE  DeliveryInv'
  <2>1. DeliveryTypeOK'
    BY <1>4 DEF DeliveryInv, DeliveryTypeOK
  <2> QED BY <2>1, <1>4, QuietStep
<1>5. minute \in Nat /\ minute + 1 \in Nat
  BY DEF DeliveryInv, DeliveryTypeOK
<1>6. CASE UsageGrows \/ SetQuotaAlerts \/ MinutePasses
  BY <1>4, <1>5, <1>6 DEF UsageGrows, SetQuotaAlerts, MinutePasses
<1>7. ASSUME NEW p \in Readers, SetPreference(p) PROVE DeliveryInv'
  BY <1>4, <1>5, <1>7 DEF SetPreference
<1>8. ASSUME NEW w \in Senders,
             ClaimPending(w) \/ Deliver(w) \/ MarkSent(w) \/ MarkFailed(w) \/ SenderCrash(w)
      PROVE  DeliveryInv'
  BY <1>8, ClaimStep, DeliverStep, MarkStep, CrashStep
<1>9. CASE UNCHANGED outboxVars
  BY <1>4, <1>5, <1>9 DEF outboxVars
<1> QED BY <1>1, <1>2, <1>3, <1>6, <1>7, <1>8, <1>9 DEF OutboxNext

(* In every reachable state a row marked sent has arrived, and no message has
   arrived more often than its delivery was in doubt, however many workers
   overlap, whatever the lease and wherever they crash. *)
THEOREM SentOnceSafety == OutboxSpec => []SentOnceUnlessUnsure
<1>1. DeliveryInv => SentOnceUnlessUnsure
  <2> SUFFICES ASSUME DeliveryInv, NEW k \in Keys
               PROVE  /\ rows[k].status = "sent" => delivered[k] >= 1
                      /\ delivered[k] <= 1 + doubts[k]
    BY DEF SentOnceUnlessUnsure
  <2>1. /\ delivered[k] \in Nat /\ doubts[k] \in Nat
        /\ Cardinality(Claimers(k)) \in Nat
    BY ClaimersCount DEF DeliveryInv, DeliveryTypeOK
  <2>2. delivered[k] + Cardinality(Claimers(k)) <= doubts[k] + 1
    BY DEF DeliveryInv, Balanced, Exposed
  <2> QED BY <2>1, <2>2 DEF DeliveryInv, SentArrived
<1> QED BY <1>1, DeliveryInit, DeliveryStep, PTL DEF OutboxSpec

(* What the types add: no row waits past a dead letter, and a worker has one row
   in hand. *)
OutboxBounds ==
  /\ minute \in 0..LastMinute /\ \A k \in Keys : rows[k].due \in 0..DeadLetter
  /\ open \subseteq Repairs /\ wants \subseteq Readers
  /\ \A w \in Senders : sending[w].hand = {} \/ \E k \in Keys : sending[w].hand = {k}

(* Every step keeps them. *)
LEMMA BoundsStep ==
  ASSUME DeliveryTypeOK, OutboxBounds, [OutboxNext]_outboxVars PROVE OutboxBounds'
<1>1. /\ 0..LastMinute \subseteq 0..DeadLetter /\ LastMinute \in Nat /\ DeadLetter \in 0..DeadLetter
      /\ \A n \in 0..LastMinute : n + Lease \in 0..DeadLetter /\ n + Delay \in 0..DeadLetter
  BY OutboxAssumption DEF DeadLetter
<1> USE DEF OutboxBounds
<1>2. ASSUME NEW keys, Queue(keys), UNCHANGED minute
      PROVE  \A k \in Keys : rows'[k].due \in 0..DeadLetter
  BY <1>1, <1>2 DEF Queue
<1>3. ASSUME NEW r \in Repairs, RepairOpens(r) \/ EnsureAlerts(r) PROVE OutboxBounds'
  <2>1. \A k \in Keys : rows'[k].due \in 0..DeadLetter
    BY <1>2, <1>3 DEF RepairOpens, EnsureAlerts
  <2> QED BY <2>1, <1>3 DEF RepairOpens, EnsureAlerts, sources
<1>4. CASE QueueQuotaWarning
  <2>1. \A k \in Keys : rows'[k].due \in 0..DeadLetter
    BY <1>2, <1>4 DEF QueueQuotaWarning
  <2> QED BY <2>1, <1>4 DEF QueueQuotaWarning, sources
<1>5. CASE UsageGrows \/ SetQuotaAlerts \/ MinutePasses
  BY <1>1, <1>5 DEF UsageGrows, SetQuotaAlerts, MinutePasses, sources
<1>6. ASSUME NEW p \in Readers, SetPreference(p) PROVE OutboxBounds'
  BY <1>6 DEF SetPreference
<1>7. ASSUME NEW w \in Senders, ClaimPending(w) PROVE OutboxBounds'
  <2> DEFINE due == {k \in Keys : SendDue(k)}
  <2>1. /\ rows' = [k \in Keys |->
             IF k \in due THEN [rows[k] EXCEPT !.due = minute + Lease] ELSE rows[k]]
        /\ sending' = [sending EXCEPT ![w].left = due]
        /\ UNCHANGED <<sources, minute>>
    BY <1>7 DEF ClaimPending
  <2> HIDE DEF due
  <2>2. \A k \in Keys : rows'[k].due \in 0..DeadLetter
    BY <2>1, <1>1 DEF DeliveryTypeOK, Row
  <2>3. \A v \in Senders : sending'[v].hand = sending[v].hand
    BY <2>1 DEF DeliveryTypeOK, Batch
  <2> QED BY <2>1, <2>2, <2>3 DEF sources
<1>8. ASSUME NEW w \in Senders, Deliver(w) PROVE OutboxBounds'
  <2>1. PICK k \in sending[w].left, got \in {"ok", "error"} :
          sending' = [sending EXCEPT ![w] = [left |-> @.left \ {k}, hand |-> {k}, got |-> got]]
    BY <1>8 DEF Deliver
  <2>2. k \in Keys
    BY DEF DeliveryTypeOK, Batch
  <2>3. \A v \in Senders : sending'[v].hand = IF v = w THEN {k} ELSE sending[v].hand
    BY <2>1 DEF DeliveryTypeOK
  <2> QED BY <2>2, <2>3, <1>8 DEF Deliver, sources
<1>9. ASSUME NEW w \in Senders, MarkSent(w) \/ MarkFailed(w) PROVE OutboxBounds'
  <2>1. PICK k \in sending[w].hand :
          /\ Marked(w, k)
          /\ \/ rows' = [rows EXCEPT ![k].status = "sent"]
             \/ LET tries == rows[k].attempts + 1 IN
                rows' = [rows EXCEPT ![k] = [status |-> "failed", attempts |-> tries,
                  due |-> IF tries >= MaxSends THEN DeadLetter ELSE minute + Delay]]
    BY <1>9 DEF MarkSent, MarkFailed
  <2>2. \A v \in Senders : sending'[v].hand = IF v = w THEN {} ELSE sending[v].hand
    BY <2>1 DEF Marked, DeliveryTypeOK, Batch
  <2>3. \A j \in Keys : rows'[j].due \in 0..DeadLetter
    BY <2>1, <1>1 DEF DeliveryTypeOK, Row
  <2> QED BY <2>1, <2>2, <2>3 DEF Marked, sources
<1>10. ASSUME NEW w \in Senders, SenderCrash(w) PROVE OutboxBounds'
  <2>1. \A v \in Senders : sending'[v].hand = IF v = w THEN {} ELSE sending[v].hand
    BY <1>10 DEF SenderCrash, DeliveryTypeOK, NoSend
  <2> QED BY <2>1, <1>10 DEF SenderCrash, sources
<1>11. CASE UNCHANGED outboxVars
  BY <1>11 DEF outboxVars, sources
<1> QED BY <1>3, <1>4, <1>5, <1>6, <1>7, <1>8, <1>9, <1>10, <1>11 DEF OutboxNext

(* The table, the preferences and the workers' batches keep their types. *)
THEOREM OutboxTypesSafety == OutboxSpec => []OutboxTypeOK
<1>1. OutboxInit => OutboxBounds
  <2> SUFFICES ASSUME OutboxInit PROVE OutboxBounds
    OBVIOUS
  <2>1. 0 \in 0..LastMinute /\ 0 \in 0..DeadLetter
    BY OutboxAssumption DEF DeadLetter
  <2> QED BY <2>1 DEF OutboxInit, OutboxBounds, Absent, NoSend
<1>2. DeliveryInv /\ OutboxBounds => OutboxTypeOK
  <2> SUFFICES ASSUME DeliveryInv, OutboxBounds PROVE OutboxTypeOK
    OBVIOUS
  <2>1. ASSUME NEW w \in Senders PROVE Cardinality(sending[w].hand) <= 1
    <3>1. CASE sending[w].hand = {}
      <4>1. Cardinality({}) = 0
        BY FS_EmptySet
      <4> QED BY <4>1, <3>1
    <3>2. ASSUME NEW k \in Keys, sending[w].hand = {k}
          PROVE  Cardinality(sending[w].hand) <= 1
      <4>1. Cardinality({k}) = 1
        BY FS_Singleton
      <4> QED BY <4>1, <3>2
    <3> QED BY <3>1, <3>2 DEF OutboxBounds
  <2>2. ASSUME NEW k \in Keys
        PROVE  /\ rows[k].status \in {"absent", "pending", "failed", "sent"}
               /\ rows[k].attempts \in Nat /\ rows[k].due \in 0..DeadLetter
    BY DEF DeliveryInv, DeliveryTypeOK, OutboxBounds, Row
  <2>3. \A w \in Senders : sending[w].left \subseteq Keys
    BY DEF DeliveryInv, DeliveryTypeOK, Batch
  <2> QED BY <2>1, <2>2, <2>3 DEF OutboxBounds, OutboxTypeOK
<1>3. DeliveryInv => DeliveryTypeOK
  BY DEF DeliveryInv
<1> QED BY <1>1, <1>2, <1>3, DeliveryInit, DeliveryStep, BoundsStep, PTL DEF OutboxSpec
=============================================================================
