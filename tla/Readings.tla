------------------------------- MODULE Readings -------------------------------
(***************************************************************************)
(* Assisted reading of receipts: a job per receipt, claimed by a worker,   *)
(* read by a model outside any transaction, and written down if the        *)
(* receipt still awaits the staff's decision as the writing begins.  The   *)
(* staff decides at any time, with or without a reading, and switches the  *)
(* assistance off and on.  A worker that dies leaves its job running; ten  *)
(* minutes later it is taken up again, also when the worker is only slow:  *)
(* its late result or error still arrives.                                 *)
(*                                                                         *)
(* Writing a reading down is two steps: the review state and the other     *)
(* orders' readings are read, then the row is written by its id.  On       *)
(* SQLite BEGIN IMMEDIATE keeps every other writer out in between; on      *)
(* PostgreSQL nothing does.                                                *)
(***************************************************************************)
EXTENDS Integers

CONSTANTS
  Backend,        \* "sqlite" or "postgres"
  Receipts,       \* payment_evidence of different orders
  Wallets,        \* payment methods a customer may select and the rules know
  Printed,        \* transaction ids a model may read from a screenshot
  Assistants,     \* worker processes
  MaxReads,       \* attempts after which an error ends a job
  StaleAfter,     \* ticks after which a running job is taken up again
  RetryAfter,     \* ticks before a failed job is due again
  LastHour,       \* bound: ticks explored
  Switches        \* bound: changes of the receipt mode

ASSUME ReadingsAssumption ==
  /\ Backend \in {"sqlite", "postgres"}
  /\ {MaxReads, StaleAfter, RetryAfter} \subseteq Nat \ {0}
  /\ {LastHour, Switches} \subseteq Nat
  /\ {"none", "other"} \cap Wallets = {}

VARIABLES
  mode,        \* receipt_verification_policy.mode
  switches,    \* changes of it so far
  selected,    \* the method the customer pays with: on the order and the receipt
  review,      \* payment_evidence.review_status
  reading,     \* extraction_json: what the model made out and the verdict
  judged,      \* the reading the staff's decision was made on
  readJob,     \* receipt_extraction_jobs
  calls,       \* the receipt each worker's model call is about
  held,        \* the row a worker has judged and not yet written
  late,        \* workers that hold a row judged on what has changed since
  overtaken,   \* receipts whose reading was written by one of those
  hour         \* the clock

readingsVars == <<mode, switches, selected, review, reading, judged, readJob, calls, held,
                  late, overtaken, hour>>

(* extraction_status "parsed" is the verdict candidate_pass, which only a
   reading that names the selected wallet gets: as the selection spells it
   ("wavepay", "Wave Pay") or by an alias ("Wave Money"). *)
Rows == [tx : Printed \cup {"none"}, alias : BOOLEAN, status : {"none", "parsed", "needs_review"}]

NotRead == [tx |-> "none", alias |-> FALSE, status |-> "none"]
NoReadJob == [status |-> "none", attempts |-> 0, lockedAt |-> 0, due |-> 0]

ReadingsInit ==
  /\ mode = "manual" /\ switches = 0
  /\ selected \in [Receipts -> Wallets]
  /\ review = [e \in Receipts |-> "unsent"]
  /\ reading = [e \in Receipts |-> NotRead] /\ judged = [e \in Receipts |-> NotRead]
  /\ readJob = [e \in Receipts |-> NoReadJob]
  /\ calls = [a \in Assistants |-> {}] /\ held = [a \in Assistants |-> {}]
  /\ late = {} /\ overtaken = {}
  /\ hour = 0

(* A transaction may write: on SQLite only while no other is between its reads
   and its writes. *)
Writable == Backend = "sqlite" => \A a \in Assistants : held[a] = {}

(* The workers, other than some, with a row to write. *)
Holding(others) == {a \in Assistants \ others : held[a] # {}}

-----------------------------------------------------------------------------
(* The customer, the staff, and the clock. *)

(* A receipt gets a job where the assistance is on as it arrives. *)
SubmitReceipt(e) ==
  /\ Writable
  /\ review[e] = "unsent" /\ review' = [review EXCEPT ![e] = "pending"]
  /\ readJob' = IF mode = "assisted"
                THEN [readJob EXCEPT ![e].status = "pending", ![e].due = hour] ELSE readJob
  /\ UNCHANGED <<mode, switches, selected, reading, judged, calls, held, late, overtaken, hour>>

(* verify_receipt or reject_receipt: alike to what follows. *)
Decide(e) ==
  /\ Writable
  /\ review[e] = "pending" /\ review' = [review EXCEPT ![e] = "decided"]
  /\ judged' = [judged EXCEPT ![e] = reading[e]]
  /\ late' = late \cup {a \in Holding({}) : e \in calls[a]}
  /\ UNCHANGED <<mode, switches, selected, reading, readJob, calls, held, overtaken, hour>>

SetReceiptMode ==
  /\ Writable
  /\ switches < Switches /\ switches' = switches + 1
  /\ mode' = IF mode = "manual" THEN "assisted" ELSE "manual"
  /\ UNCHANGED <<selected, review, reading, judged, readJob, calls, held, late, overtaken, hour>>

HoursPass ==
  /\ hour < LastHour /\ hour' = hour + 1
  /\ UNCHANGED <<mode, switches, selected, review, reading, judged, readJob, calls, held,
                 late, overtaken>>

-----------------------------------------------------------------------------
(* The workers. *)

(* One transaction: running jobs gone stale are pending again, and one that
   is due and still awaits review is taken. *)
Reset(job) == IF job.status = "running" /\ job.lockedAt + StaleAfter < hour
              THEN [job EXCEPT !.status = "pending", !.lockedAt = 0] ELSE job

ClaimReading(a, e) ==
  /\ Writable /\ mode = "assisted" /\ calls[a] = {}
  /\ LET jobs == [d \in Receipts |-> Reset(readJob[d])] IN
     /\ jobs[e].status = "pending" /\ jobs[e].due <= hour /\ review[e] = "pending"
     /\ readJob' = [jobs EXCEPT ![e].status = "running", ![e].lockedAt = hour,
                                ![e].attempts = @ + 1]
  /\ calls' = [calls EXCEPT ![a] = {e}]
  /\ UNCHANGED <<mode, switches, selected, review, reading, judged, held, late, overtaken, hour>>

(* A transaction that another order's reading shows, if that order selected the
   provider the model wrote: the two strings are compared and no alias of one
   wallet equals the other. *)
Duplicate(e, r) ==
  ~r.alias /\ \E d \in Receipts \ {e} : reading[d].tx = r.tx /\ selected[d] = selected[e]

(* evaluate_receipt_candidate, which does resolve aliases: a transaction of the
   selected wallet that is no duplicate passes if the other rules let it.
   Anything may need review: another wallet, one unknown or not named. *)
Results(e) ==
  {r \in Rows :
     \/ r.status = "needs_review" /\ ~r.alias
     \/ r.status = "parsed" /\ r.tx # "none" /\ ~Duplicate(e, r)}

Done(e) == [readJob EXCEPT ![e].status = "done", ![e].lockedAt = 0]

(* Mutant: a result is judged whatever was decided meanwhile. *)
FinishReads_Unchecked(a, e) ==
  /\ Writable /\ calls[a] = {e} /\ held[a] = {}
  /\ \E r \in Results(e) : held' = [held EXCEPT ![a] = {r}]
  /\ UNCHANGED <<mode, switches, selected, review, reading, judged, readJob, calls, late,
                 overtaken, hour>>

(* The result of a receipt that awaits review is compared and judged. *)
FinishReads(a, e) ==
  /\ Writable /\ calls[a] = {e} /\ held[a] = {} /\ review[e] = "pending"
  /\ \E r \in Results(e) : held' = [held EXCEPT ![a] = {r}]
  /\ UNCHANGED <<mode, switches, selected, review, reading, judged, readJob, calls, late,
                 overtaken, hour>>

(* It is written by the receipt's id, whatever has become of it; who else was
   about to write did not see it. *)
FinishWrites(a, e) ==
  /\ calls[a] = {e} /\ calls' = [calls EXCEPT ![a] = {}]
  /\ \E r \in held[a] : reading' = [reading EXCEPT ![e] = r]
  /\ held' = [held EXCEPT ![a] = {}] /\ readJob' = Done(e)
  /\ late' = (late \cup Holding({a})) \ {a}
  /\ overtaken' = IF a \in late THEN overtaken \cup {e} ELSE overtaken \ {e}
  /\ UNCHANGED <<mode, switches, selected, review, judged, hour>>

(* The result of a receipt that was decided meanwhile is thrown away. *)
FinishTooLate(a, e) ==
  /\ Writable /\ calls[a] = {e} /\ held[a] = {} /\ review[e] # "pending"
  /\ calls' = [calls EXCEPT ![a] = {}] /\ readJob' = Done(e)
  /\ UNCHANGED <<mode, switches, selected, review, reading, judged, held, late, overtaken, hour>>

Drop(a) == /\ calls[a] # {} /\ calls' = [calls EXCEPT ![a] = {}]
           /\ held' = [held EXCEPT ![a] = {}] /\ late' = late \ {a}

(* An error, of the model or of the database, counts the job's attempts,
   whoever made them. *)
FailReading(a, e) ==
  /\ Writable \/ held[a] # {}
  /\ calls[a] = {e} /\ Drop(a)
  /\ readJob' = [readJob EXCEPT
       ![e].status = IF readJob[e].attempts >= MaxReads THEN "failed" ELSE "pending",
       ![e].due = hour + RetryAfter, ![e].lockedAt = 0]
  /\ UNCHANGED <<mode, switches, selected, review, reading, judged, overtaken, hour>>

AssistantDies(a) ==
  /\ Drop(a)
  /\ UNCHANGED <<mode, switches, selected, review, reading, judged, readJob, overtaken, hour>>

ReadingsNext ==
  \/ \E e \in Receipts :
       \/ SubmitReceipt(e) \/ Decide(e)
       \/ \E a \in Assistants :
            \/ ClaimReading(a, e) \/ FinishReads(a, e) \/ FinishWrites(a, e)
            \/ FinishTooLate(a, e) \/ FailReading(a, e)
  \/ \E a \in Assistants : AssistantDies(a)
  \/ SetReceiptMode \/ HoursPass

ReadingsSpec == ReadingsInit /\ [][ReadingsNext]_readingsVars

-----------------------------------------------------------------------------
ReadingsTypeOK ==
  /\ \A e \in Receipts :
       /\ selected[e] \in Wallets /\ review[e] \in {"unsent", "pending", "decided"}
       /\ readJob[e].status \in {"none", "pending", "running", "done", "failed"}
       /\ reading[e] \in Rows /\ judged[e] \in Rows
  /\ \A a \in Assistants : calls[a] \subseteq Receipts /\ held[a] \subseteq Rows
  /\ late \subseteq Holding({}) /\ overtaken \subseteq Receipts

(* Two orders' receipts, paid by one wallet, read as clean and as showing the
   same transaction. *)
CleanTwice(d, e) ==
  /\ d # e /\ selected[d] = selected[e] /\ reading[d].tx = reading[e].tx
  /\ reading[d].status = "parsed" /\ reading[e].status = "parsed"

(* What the staff saw when it decided is what the receipt keeps saying, also
   when a model answers late or a second worker read it again; and of two orders'
   receipts that show one transaction, not both read as clean unless a model
   named the wallet by an alias.  Excepted is a reading that was written, on
   PostgreSQL, after what it was judged on had changed. *)
ReadingsStand ==
  /\ \A e \in Receipts \ overtaken : review[e] = "decided" => reading[e] = judged[e]
  /\ \A d, e \in Receipts \ overtaken :
       CleanTwice(d, e) => reading[d].alias \/ reading[e].alias
=============================================================================
