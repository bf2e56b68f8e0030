------------------------------ MODULE PaidAccess ------------------------------
(***************************************************************************)
(* Paid VPN access: the subscription of an approved order, its two durable *)
(* jobs, its local key row and the key on the Outline server, and the      *)
(* workers that run the jobs (commerce_worker.py).                         *)
(*                                                                         *)
(* A subscription is 1:1 with its order (subscriptions.order_id UNIQUE),   *)
(* as is a key with its subscription, so everything is indexed by order.   *)
(* The Outline key id is derived from the subscription id, so the server   *)
(* holds at most one key per order: remote is a set of orders.             *)
(*                                                                         *)
(* One worker is the maintenance thread of one process; two workers are    *)
(* two processes that overlap.  Statements of one transaction are one      *)
(* step; a call to the Outline server is a step of its own, and between    *)
(* two steps anything else may happen.                                     *)
(***************************************************************************)
EXTENDS Naturals, FiniteSets

CONSTANTS
  Orders,         \* order ids, each with at most one subscription
  Workers,        \* threads running process_jobs
  MaxAttempts,    \* failures before a job is parked as failed (8 in the code)
  MaxCrashes,     \* bound: crashes explored
  MaxRetries,     \* bound: operator retries of a parked job explored
  CleanupFails    \* whether the free-key cleanup after activation may raise

ASSUME AttemptsAssumption == MaxAttempts \in Nat \ {0}
ASSUME BoundsAssumption ==
  /\ MaxCrashes \in Nat
  /\ MaxRetries \in Nat
  /\ CleanupFails \in BOOLEAN

VARIABLES
  sub,        \* subscriptions.status
  due,        \* subscriptions whose expires_at has passed
  job,        \* provisioning_jobs.status, "none" when there is no row
  attempts,   \* provisioning_jobs.attempts, saturating at MaxAttempts
  stale,      \* running jobs whose locked_at is over five minutes old
  key,        \* paid_vpn_keys.status
  remote,     \* orders whose key exists on the Outline server
  refunded,   \* orders.refund_status = 'refunded'
  step,       \* where each worker is in its job
  task,       \* the job each busy worker holds
  created,    \* the worker's created_remote flag
  crashes,    \* crashes so far
  retries     \* operator retries so far

workVars   == <<step, task, created>>
boundVars  == <<crashes, retries>>
accessVars == <<sub, due, job, attempts, stale, key, remote, refunded,
                workVars, boundVars>>

Jobs  == Orders \X {"provision", "revoke"}
NoJob == <<"none", "none">>
Prov(o) == <<o, "provision">>
Rev(o)  == <<o, "revoke">>

SubStatus == {"none", "pending", "active", "expired", "revoked", "cancelled"}
JobStatus == {"none", "pending", "running", "done", "failed"}
KeyStatus == {"none", "active", "revoked"}
Steps     == {"idle", "claimed", "create", "commit", "cleanup",
              "delete", "record"}

(* The one shape invariant of this module. *)
AccessTypeOK ==
  /\ sub \in [Orders -> SubStatus]
  /\ due \subseteq Orders
  /\ job \in [Jobs -> JobStatus]
  /\ attempts \in [Jobs -> 0..MaxAttempts]
  /\ stale \subseteq Jobs
  /\ key \in [Orders -> KeyStatus]
  /\ remote \subseteq Orders
  /\ refunded \subseteq Orders
  /\ step \in [Workers -> Steps]
  /\ task \in [Workers -> Jobs \cup {NoJob}]
  /\ created \in [Workers -> BOOLEAN]
  /\ crashes \in 0..MaxCrashes
  /\ retries \in 0..MaxRetries

AccessInit ==
  /\ sub = [o \in Orders |-> "none"]
  /\ due = {}
  /\ job = [j \in Jobs |-> "none"]
  /\ attempts = [j \in Jobs |-> 0]
  /\ stale = {}
  /\ key = [o \in Orders |-> "none"]
  /\ remote = {}
  /\ refunded = {}
  /\ step = [w \in Workers |-> "idle"]
  /\ task = [w \in Workers |-> NoJob]
  /\ created = [w \in Workers |-> FALSE]
  /\ crashes = 0
  /\ retries = 0

-----------------------------------------------------------------------------
(* What the order side does to access, inside its own transactions. *)

(* INSERT INTO provisioning_jobs ... ON CONFLICT DO NOTHING *)
QueueRevoke(j, o) ==
  [j EXCEPT ![Rev(o)] = IF @ = "none" THEN "pending" ELSE @]

(* approve_order: a pending subscription and its provision job *)
OpenAccess(o) ==
  /\ sub[o] = "none"
  /\ sub' = [sub EXCEPT ![o] = "pending"]
  /\ job' = [job EXCEPT ![Prov(o)] = "pending"]
  /\ UNCHANGED <<due, attempts, stale, key, remote, refunded,
                 workVars, boundVars>>

CloseAccess_IfKey(o) ==            \* mutant: no revoke when there is no key yet
  /\ o \notin refunded
  /\ refunded' = refunded \cup {o}
  /\ sub' = [sub EXCEPT ![o] = CASE @ = "active"  -> "revoked"
                                 [] @ = "pending" -> "cancelled"
                                 [] OTHER         -> @]
  /\ job' = IF key[o] = "none" THEN job ELSE QueueRevoke(job, o)
  /\ UNCHANGED <<due, attempts, stale, key, remote, workVars, boundVars>>

(* refund_order: record the refund, close the subscription, queue the revoke *)
CloseAccess(o) ==
  /\ o \notin refunded
  /\ refunded' = refunded \cup {o}
  /\ sub' = [sub EXCEPT ![o] = CASE @ = "active"  -> "revoked"
                                 [] @ = "pending" -> "cancelled"
                                 [] OTHER         -> @]
  /\ job' = IF sub[o] = "none" THEN job ELSE QueueRevoke(job, o)
  /\ UNCHANGED <<due, attempts, stale, key, remote, workVars, boundVars>>

-----------------------------------------------------------------------------
(* Sweeps of the maintenance pass.  A sweep's rows are independent, so a
   transaction over several of them is one step per row. *)

(* Sweeps run on the thread that runs the jobs, between two of them. *)
Resting == \E w \in Workers : step[w] = "idle"

(* _expire *)
Expire(o) ==
  /\ Resting
  /\ sub[o] = "active"
  /\ o \in due
  /\ sub' = [sub EXCEPT ![o] = "expired"]
  /\ job' = QueueRevoke(job, o)
  /\ UNCHANGED <<due, attempts, stale, key, remote, refunded,
                 workVars, boundVars>>

(* enforce_quotas, for a key whose observed transfer reached its quota *)
EnforceQuota(o) ==
  /\ Resting
  /\ key[o] = "active"
  /\ sub[o] = "active"
  /\ sub' = [sub EXCEPT ![o] = "revoked"]
  /\ job' = QueueRevoke(job, o)
  /\ UNCHANGED <<due, attempts, stale, key, remote, refunded,
                 workVars, boundVars>>

(* Time reaches expires_at of an activated subscription. *)
BecomesDue(o) ==
  /\ sub[o] = "active"
  /\ o \notin due
  /\ due' = due \cup {o}
  /\ UNCHANGED <<sub, job, attempts, stale, key, remote, refunded,
                 workVars, boundVars>>

(* Five minutes pass since a running job was claimed. *)
LockAges(j) ==
  /\ job[j] = "running"
  /\ j \notin stale
  /\ stale' = stale \cup {j}
  /\ UNCHANGED <<sub, due, job, attempts, key, remote, refunded,
                 workVars, boundVars>>

-----------------------------------------------------------------------------
(* Claiming: stale running jobs go back to pending, whatever their kind, and
   the claimed job starts running, in one transaction.  Which pending job is
   due first depends on retry delays; any of them may be.  *)

Reclaimed_Provision ==             \* mutant: stale provision jobs only
  [j \in Jobs |-> IF job[j] = "running" /\ j \in stale /\ j[2] = "provision"
                    THEN "pending" ELSE job[j]]

Reclaimed_Revoke ==                \* mutant: stale revoke jobs only
  [j \in Jobs |-> IF job[j] = "running" /\ j \in stale /\ j[2] = "revoke"
                    THEN "pending" ELSE job[j]]

Reclaimed == [j \in Jobs |-> IF job[j] = "running" /\ j \in stale
                               THEN "pending" ELSE job[j]]

(* _claim_job *)
Claim(w, j) ==
  /\ step[w] = "idle"
  /\ Reclaimed[j] = "pending"
  /\ job' = [Reclaimed EXCEPT ![j] = "running"]
  /\ attempts' = [attempts EXCEPT ![j] = IF @ < MaxAttempts THEN @ + 1 ELSE @]
  /\ stale' = {}
  /\ step' = [step EXCEPT ![w] = "claimed"]
  /\ task' = [task EXCEPT ![w] = j]
  /\ created' = [created EXCEPT ![w] = FALSE]
  /\ UNCHANGED <<sub, due, key, remote, refunded, boundVars>>

Holds(w, s, op) == step[w] = s /\ task[w][2] = op
OrderOf(w) == task[w][1]

Rest(w) ==
  /\ step' = [step EXCEPT ![w] = "idle"]
  /\ task' = [task EXCEPT ![w] = NoJob]
  /\ created' = [created EXCEPT ![w] = FALSE]

(* _job_done writes the row by id, whoever holds it now. *)
JobDone(w) ==
  /\ job' = [job EXCEPT ![task[w]] = "done"]
  /\ stale' = stale \ {task[w]}
  /\ Rest(w)

(* _job_failed *)
JobFailed(w) ==
  /\ job' = [job EXCEPT ![task[w]] =
               IF attempts[task[w]] >= MaxAttempts THEN "failed" ELSE "pending"]
  /\ stale' = stale \ {task[w]}
  /\ Rest(w)

Advance(w, s) == step' = [step EXCEPT ![w] = s] /\ UNCHANGED task

-----------------------------------------------------------------------------
(* _provision *)

ProvisionEnds_OnServer(w) ==      \* mutant: a key on the server ends the job
  /\ Holds(w, "claimed", "provision")
  /\ LET o == OrderOf(w)
         late == sub[o] = "active" /\ o \in due
     IN  /\ sub[o] \notin {"pending", "active"} \/ late \/ o \in remote
         /\ sub' = IF late THEN [sub EXCEPT ![o] = "expired"] ELSE sub
  /\ JobDone(w)
  /\ UNCHANGED <<due, attempts, key, remote, refunded, boundVars>>

(* A subscription in the past, or one that already has its key, ends the job.
   None of those states is ever left for another the code would treat
   differently, so reading and ending are one step. *)
ProvisionEnds(w) ==
  /\ Holds(w, "claimed", "provision")
  /\ LET o == OrderOf(w)
         late == sub[o] = "active" /\ o \in due
     IN  /\ sub[o] \notin {"pending", "active"} \/ late \/ key[o] # "none"
         /\ sub' = IF late THEN [sub EXCEPT ![o] = "expired"] ELSE sub
  /\ JobDone(w)
  /\ UNCHANGED <<due, attempts, key, remote, refunded, boundVars>>

(* Subscription and key are read without a lock; the worker goes on to the
   Outline server with what it read. *)
ProvisionBegins(w) ==
  /\ Holds(w, "claimed", "provision")
  /\ LET o == OrderOf(w)
     IN  /\ sub[o] \in {"pending", "active"}
         /\ ~(sub[o] = "active" /\ o \in due)
         /\ key[o] = "none"
  /\ Advance(w, "create")
  /\ UNCHANGED <<sub, due, job, attempts, stale, key, remote, refunded,
                 created, boundVars>>

(* A key left by an earlier attempt is adopted, otherwise one is created; a
   timed-out creation that a second read finds counts as created. *)
RemoteCreate(w) ==
  /\ step[w] = "create"
  /\ remote' = remote \cup {OrderOf(w)}
  /\ created' = [created EXCEPT ![w] = OrderOf(w) \notin remote]
  /\ Advance(w, "commit")
  /\ UNCHANGED <<sub, due, job, attempts, stale, key, refunded, boundVars>>

(* The call raises, with or without the key having been created. *)
RemoteCreateFails(w) ==
  /\ step[w] = "create"
  /\ remote' \in {remote, remote \cup {OrderOf(w)}}
  /\ JobFailed(w)
  /\ UNCHANGED <<sub, due, attempts, key, refunded, boundVars>>

(* Whatever raises after the key was obtained: a key this run created is
   deleted, best effort, and the job fails. *)
Undo(w) ==
  /\ remote' \in {remote, IF created[w] THEN remote \ {OrderOf(w)} ELSE remote}
  /\ JobFailed(w)
  /\ UNCHANGED <<due, attempts, refunded, boundVars>>

(* set_data_limit or the transaction raises; a key row that is already there
   makes the insert raise. *)
ProvisionFails(w) ==
  /\ step[w] = "commit"
  /\ Undo(w)
  /\ UNCHANGED <<sub, key>>

(* The activating transaction: the subscription becomes active whatever it
   has become since it was read, and its paid time starts now. *)
ProvisionCommits(w) ==
  /\ step[w] = "commit"
  /\ key[OrderOf(w)] = "none"
  /\ key' = [key EXCEPT ![OrderOf(w)] = "active"]
  /\ sub' = [sub EXCEPT ![OrderOf(w)] = "active"]
  /\ due' = due \ {OrderOf(w)}
  /\ job' = [job EXCEPT ![task[w]] = "done"]
  /\ stale' = stale \ {task[w]}
  /\ Advance(w, "cleanup")
  /\ UNCHANGED <<attempts, remote, refunded, created, boundVars>>

(* _revoke_legacy_free_keys runs still inside the try block.  It returns, *)
CleanupDone(w) ==
  /\ Rest(w)
  /\ UNCHANGED <<sub, due, job, attempts, stale, key, remote, refunded,
                 boundVars>>

(* or it raises, because it writes to the database even to note a failure. *)
CleanupRaises(w) ==
  /\ CleanupFails
  /\ Undo(w)
  /\ UNCHANGED <<sub, key>>

Cleanup(w) ==
  /\ step[w] = "cleanup"
  /\ CleanupDone(w) \/ CleanupRaises(w)

-----------------------------------------------------------------------------
(* _revoke *)

RevokeEnds(w) ==
  /\ Holds(w, "claimed", "revoke")
  /\ key[OrderOf(w)] # "active"
  /\ JobDone(w)
  /\ UNCHANGED <<sub, due, attempts, key, remote, refunded, boundVars>>

RevokeBegins(w) ==
  /\ Holds(w, "claimed", "revoke")
  /\ key[OrderOf(w)] = "active"
  /\ Advance(w, "delete")
  /\ UNCHANGED <<sub, due, job, attempts, stale, key, remote, refunded,
                 created, boundVars>>

RemoteDelete_Unconfirmed(w) ==     \* mutant: no read after the delete
  /\ step[w] = "delete"
  /\ remote' \in {remote, remote \ {OrderOf(w)}}
  /\ Advance(w, "record")
  /\ UNCHANGED <<sub, due, job, attempts, stale, key, refunded, created,
                 boundVars>>

(* The delete is accepted (a missing key counts) and a read confirms it. *)
RemoteDelete(w) ==
  /\ step[w] = "delete"
  /\ remote' = remote \ {OrderOf(w)}
  /\ Advance(w, "record")
  /\ UNCHANGED <<sub, due, job, attempts, stale, key, refunded, created,
                 boundVars>>

(* The delete or the confirming read raises, the key deleted or not. *)
RemoteDeleteFails(w) ==
  /\ step[w] = "delete"
  /\ remote' \in {remote, remote \ {OrderOf(w)}}
  /\ JobFailed(w)
  /\ UNCHANGED <<sub, due, attempts, key, refunded, boundVars>>

RevokeCommits(w) ==
  /\ step[w] = "record"
  /\ key' = [key EXCEPT ![OrderOf(w)] = "revoked"]
  /\ JobDone(w)
  /\ UNCHANGED <<sub, due, attempts, remote, refunded, boundVars>>

RevokeFails(w) ==
  /\ step[w] = "record"
  /\ JobFailed(w)
  /\ UNCHANGED <<sub, due, attempts, key, remote, refunded, boundVars>>

-----------------------------------------------------------------------------
(* retry_job, retry_failed_job: an operator requeues a parked job. *)
RetryJob(j) ==
  /\ job[j] = "failed"
  /\ retries < MaxRetries
  /\ retries' = retries + 1
  /\ job' = [job EXCEPT ![j] = "pending"]
  /\ attempts' = [attempts EXCEPT ![j] = 0]
  /\ UNCHANGED <<sub, due, stale, key, remote, refunded, workVars, crashes>>

(* A process dies: the worker forgets its job, the rows stay. *)
WorkerCrash(w) ==
  /\ crashes < MaxCrashes
  /\ crashes' = crashes + 1
  /\ Rest(w)
  /\ UNCHANGED <<sub, due, job, attempts, stale, key, remote, refunded, retries>>

WorkerStep(w) ==
  \/ ProvisionEnds(w) \/ ProvisionBegins(w)
  \/ RemoteCreate(w) \/ RemoteCreateFails(w)
  \/ ProvisionCommits(w) \/ ProvisionFails(w)
  \/ Cleanup(w)
  \/ RevokeEnds(w) \/ RevokeBegins(w)
  \/ RemoteDelete(w) \/ RemoteDeleteFails(w)
  \/ RevokeCommits(w) \/ RevokeFails(w)

(* What the maintenance pass does to access. *)
PassNext ==
  \/ \E w \in Workers : WorkerStep(w)
  \/ \E w \in Workers, j \in Jobs : Claim(w, j)
  \/ \E o \in Orders : Expire(o)
  \/ \E o \in Orders : EnforceQuota(o)

(* What happens around it: time, crashes and the operator. *)
AroundNext ==
  \/ \E o \in Orders : BecomesDue(o)
  \/ \E j \in Jobs : LockAges(j)
  \/ \E j \in Jobs : RetryJob(j)
  \/ \E w \in Workers : WorkerCrash(w)

(* On its own: an order is approved unless it was refunded, and refunded at any
   time. *)
AccessNext ==
  \/ PassNext
  \/ AroundNext
  \/ \E o \in Orders \ refunded : OpenAccess(o)
  \/ \E o \in Orders : CloseAccess(o)

AccessSpec == AccessInit /\ [][AccessNext]_accessVars

(* The maintenance pass runs every interval: a job in hand is carried to its
   end, every due sweep happens, time passes, and a pending job is claimed
   although other jobs are claimed in between. *)
WorkerFairness ==
  /\ \A w \in Workers : WF_accessVars(WorkerStep(w))
  /\ \A w \in Workers, j \in Jobs : SF_accessVars(Claim(w, j))
  /\ \A o \in Orders : SF_accessVars(Expire(o)) /\ WF_accessVars(BecomesDue(o))
  /\ \A j \in Jobs : WF_accessVars(LockAges(j))

FairAccessSpec == AccessSpec /\ WorkerFairness

-----------------------------------------------------------------------------
(* Properties *)

(* A revoke that somebody still owes: queued, running, or parked where the
   operator sees it. *)
RevokeOwed(o) == job[Rev(o)] \in {"pending", "running", "failed"}

(* A customer never holds a live key of a closed subscription that no job is
   going to delete: refund, expiry, quota and the worker all keep the revoke
   job outstanding until the key row is revoked. *)
ClosedKeyIsBeingRevoked ==
  \A o \in Orders :
    key[o] = "active" /\ (o \in refunded \/ sub[o] # "active") => RevokeOwed(o)

(* A key the customer was given works: the Outline server still has it unless
   its revocation is under way. *)
IssuedKeyExists ==
  \A o \in Orders : key[o] = "active" /\ ~RevokeOwed(o) => o \in remote

(* A revoked key row means the server really lost the key, also after failed
   and repeated attempts. *)
RevokedKeyIsGone ==
  \A o \in Orders : key[o] = "revoked" => o \notin remote

(* The worker keeps the promise of AccessLifecycle, whatever fails, is retried
   or is closed meanwhile: a key is given once and works, closing is for good,
   and only a closed order ends without its key. *)
IsClosed(o) == o \in refunded \/ sub[o] \in {"expired", "revoked", "cancelled"}
PhaseOf(o) ==
  CASE key[o] = "revoked" -> "ended"
    [] key[o] = "active"  -> IF RevokeOwed(o) THEN "ending" ELSE "given"
    [] OTHER              -> IF sub[o] = "none" THEN "none"
                             ELSE IF job[Prov(o)] = "done" THEN "ended" ELSE "promised"

Promised == INSTANCE AccessLifecycle WITH
  phase  <- [o \in Orders |-> PhaseOf(o)],
  closed <- {o \in Orders : IsClosed(o)},
  works  <- remote

KeepsPromise == Promised!Spec

(* Every subscription whose time ran out, or that was refunded, loses its key
   or ends as a parked job the operator sees: it never just stays. *)
ClosedAccessEnds ==
  \A o \in Orders :
    (key[o] = "active" /\ (o \in due \/ o \in refunded))
      ~> (key[o] = "revoked" \/ job[Rev(o)] = "failed")

(* An approved order is activated, closed, or parked where an operator sees
   it; it is never silently left pending. *)
ApprovedAccessIsDecided ==
  \A o \in Orders :
    sub[o] = "pending" ~> (sub[o] # "pending" \/ job[Prov(o)] = "failed")
=============================================================================
