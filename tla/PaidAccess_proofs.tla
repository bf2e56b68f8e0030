--------------------------- MODULE PaidAccess_proofs ---------------------------
(***************************************************************************)
(* Proofs about PaidAccess, for every set of orders and every bound.       *)
(*                                                                         *)
(* The type invariant holds with any number of workers.  The safety        *)
(* invariants need the topology the deployment documents, one maintenance  *)
(* thread, and a cleanup that does not raise; both are hypotheses of the   *)
(* theorems, and both are needed.                                          *)
(***************************************************************************)
EXTENDS PaidAccess, TLAPS

(* One job row per order and operation. *)
LEMMA JobRows ==
  /\ \A o \in Orders : Prov(o) \in Jobs /\ Rev(o) \in Jobs
  /\ \A o, p \in Orders : Prov(o) # Rev(p)
  /\ \A o, p \in Orders : Prov(o) = Prov(p) => o = p
  /\ \A o, p \in Orders : Rev(o) = Rev(p) => o = p
  /\ \A j \in Jobs : j[1] \in Orders /\ (j = Prov(j[1]) \/ j = Rev(j[1]))
  /\ \A j \in Jobs : j[2] = "provision" => j = Prov(j[1])
  /\ \A j \in Jobs : j[2] = "revoke" => j = Rev(j[1])
  /\ \A o \in Orders : Prov(o)[1] = o /\ Rev(o)[1] = o
  /\ \A o \in Orders : Prov(o)[2] = "provision" /\ Rev(o)[2] = "revoke"
  /\ NoJob \notin Jobs /\ NoJob[2] = "none"
BY DEF Jobs, Prov, Rev, NoJob

(* A worker that holds a job of the wrong shape would break every step below:
   steps that end in JobDone or JobFailed write a row of the job table. *)
HeldJob ==
  \A w \in Workers :
    /\ step[w] # "idle" => task[w] \in Jobs
    /\ step[w] \in {"create", "commit", "cleanup"} => task[w][2] = "provision"
    /\ step[w] \in {"delete", "record"} => task[w][2] = "revoke"

TypeInv == AccessTypeOK /\ HeldJob

(* The empty tables are well typed. *)
LEMMA TypeInit == AccessInit => TypeInv
BY JobRows, BoundsAssumption, AttemptsAssumption
   DEF AccessInit, TypeInv, AccessTypeOK, HeldJob, SubStatus, JobStatus,
       KeyStatus, Steps

(* Every action keeps the types, with any number of workers. *)
LEMMA TypeStep == TypeInv /\ [AccessNext]_accessVars => TypeInv'
<1> SUFFICES ASSUME TypeInv, [AccessNext]_accessVars PROVE TypeInv'
  OBVIOUS
<1> USE JobRows, AttemptsAssumption, BoundsAssumption
    DEF TypeInv, AccessTypeOK, HeldJob, SubStatus, JobStatus, KeyStatus, Steps,
        accessVars, workVars, boundVars
<1>1. ASSUME NEW o \in Orders, OpenAccess(o) PROVE TypeInv'
  BY <1>1 DEF OpenAccess
<1>2. ASSUME NEW o \in Orders, CloseAccess(o) PROVE TypeInv'
  BY <1>2 DEF CloseAccess, QueueRevoke
<1>3. ASSUME NEW o \in Orders, Expire(o) PROVE TypeInv'
  BY <1>3 DEF Expire, QueueRevoke
<1>4. ASSUME NEW o \in Orders, EnforceQuota(o) PROVE TypeInv'
  BY <1>4 DEF EnforceQuota, QueueRevoke
<1>5. ASSUME NEW o \in Orders, BecomesDue(o) PROVE TypeInv'
  BY <1>5 DEF BecomesDue
<1>6. ASSUME NEW j \in Jobs, LockAges(j) PROVE TypeInv'
  BY <1>6 DEF LockAges
<1>7. ASSUME NEW w \in Workers, NEW j \in Jobs, Claim(w, j) PROVE TypeInv'
  BY <1>7 DEF Claim, Reclaimed
<1>8. ASSUME NEW w \in Workers, ProvisionEnds(w) PROVE TypeInv'
  BY <1>8 DEF ProvisionEnds, JobDone, Rest, Holds, OrderOf
<1>9. ASSUME NEW w \in Workers, ProvisionBegins(w) PROVE TypeInv'
  BY <1>9 DEF ProvisionBegins, Advance, Holds, OrderOf
<1>10. ASSUME NEW w \in Workers, RemoteCreate(w) PROVE TypeInv'
  BY <1>10 DEF RemoteCreate, Advance, OrderOf
<1>11. ASSUME NEW w \in Workers, RemoteCreateFails(w) PROVE TypeInv'
  BY <1>11 DEF RemoteCreateFails, JobFailed, Rest, OrderOf
<1>12. ASSUME NEW w \in Workers, ProvisionCommits(w) PROVE TypeInv'
  BY <1>12 DEF ProvisionCommits, Advance, OrderOf
<1>13. ASSUME NEW w \in Workers, ProvisionFails(w) PROVE TypeInv'
  BY <1>13 DEF ProvisionFails, Undo, JobFailed, Rest, OrderOf
<1>14. ASSUME NEW w \in Workers, step[w] = "cleanup", CleanupDone(w) PROVE TypeInv'
  BY <1>14 DEF CleanupDone, Rest
<1>15. ASSUME NEW w \in Workers, step[w] = "cleanup", CleanupRaises(w) PROVE TypeInv'
  BY <1>15 DEF CleanupRaises, Undo, JobFailed, Rest, OrderOf
<1>16. ASSUME NEW w \in Workers, RevokeEnds(w) PROVE TypeInv'
  BY <1>16 DEF RevokeEnds, JobDone, Rest, Holds, OrderOf
<1>17. ASSUME NEW w \in Workers, RevokeBegins(w) PROVE TypeInv'
  BY <1>17 DEF RevokeBegins, Advance, Holds, OrderOf
<1>18. ASSUME NEW w \in Workers, RemoteDelete(w) PROVE TypeInv'
  BY <1>18 DEF RemoteDelete, Advance, OrderOf
<1>19. ASSUME NEW w \in Workers, RemoteDeleteFails(w) PROVE TypeInv'
  BY <1>19 DEF RemoteDeleteFails, JobFailed, Rest, OrderOf
<1>20. ASSUME NEW w \in Workers, RevokeCommits(w) PROVE TypeInv'
  BY <1>20 DEF RevokeCommits, JobDone, Rest, OrderOf
<1>21. ASSUME NEW w \in Workers, RevokeFails(w) PROVE TypeInv'
  BY <1>21 DEF RevokeFails, JobFailed, Rest, OrderOf
<1>22. ASSUME NEW j \in Jobs, RetryJob(j) PROVE TypeInv'
  BY <1>22 DEF RetryJob
<1>23. ASSUME NEW w \in Workers, WorkerCrash(w) PROVE TypeInv'
  BY <1>23 DEF WorkerCrash, Rest
<1>24. CASE UNCHANGED accessVars
  BY <1>24
<1> QED
  BY <1>1, <1>2, <1>3, <1>4, <1>5, <1>6, <1>7, <1>8, <1>9, <1>10, <1>11, <1>12, <1>13, <1>14, <1>15, <1>16, <1>17, <1>18, <1>19, <1>20, <1>21, <1>22, <1>23, <1>24
  DEF AccessNext, PassNext, AroundNext, WorkerStep, Cleanup

(* Every table of the access side keeps its type, whatever the workers do. *)
THEOREM TypeCorrect == AccessSpec => []AccessTypeOK
<1>1. AccessInit => TypeInv
  BY TypeInit
<1>2. TypeInv /\ [AccessNext]_accessVars => TypeInv'
  BY TypeStep
<1>3. TypeInv => AccessTypeOK
  BY DEF TypeInv
<1> QED
  BY <1>1, <1>2, <1>3, PTL DEF AccessSpec

-----------------------------------------------------------------------------
(* The inductive invariant behind the three safety properties, as the facts a
   reviewer of commerce_worker.py relies on. *)

OneWorker == \A v, w \in Workers : v = w

(* The worker's job is its own: nobody reclaims it while it runs. *)
HeldIsRunning ==
  \A w \in Workers :
    step[w] \notin {"idle", "cleanup"} => job[task[w]] = "running"

(* Nothing exists for an order before its subscription. *)
NothingBefore ==
  \A o \in Orders : sub[o] = "none" =>
    key[o] = "none" /\ job[Prov(o)] = "none" /\ job[Rev(o)] = "none"

(* A key row and the end of the provision job are one transaction. *)
KeyMeansProvisioned ==
  \A o \in Orders : key[o] # "none" => job[Prov(o)] = "done"

(* Whatever closes a subscription queues its revoke job. *)
ClosedHasRevoke ==
  \A o \in Orders :
    /\ o \in refunded /\ sub[o] # "none" => job[Rev(o)] # "none"
    /\ key[o] = "active" /\ sub[o] # "active" => job[Rev(o)] # "none"

(* A subscription with a revoke job and no key is closed for good. *)
RevokeIsFinal ==
  \A o \in Orders :
    job[Rev(o)] # "none" /\ key[o] = "none" => sub[o] \notin {"pending", "active"}

(* The same, once a worker has gone on to the server with what it read: the
   order may be closed behind its back, but its revoke job cannot start. *)
CreateInHand ==
  \A w \in Workers : step[w] \in {"create", "commit"} =>
    /\ key[OrderOf(w)] = "none"
    /\ job[Rev(OrderOf(w))] \in {"none", "pending"}
    /\ step[w] = "commit" => OrderOf(w) \in remote

DoneRevokeMeansNoKey ==
  \A o \in Orders : job[Rev(o)] = "done" => key[o] # "active"

DeleteInHand ==
  \A w \in Workers :
    /\ step[w] \in {"delete", "record"} => key[OrderOf(w)] = "active"
    /\ step[w] = "record" => OrderOf(w) \notin remote

LiveKeyIsRemote ==
  \A o \in Orders :
    key[o] = "active" /\ job[Rev(o)] = "none" => o \in remote

AccessInv ==
  /\ TypeInv
  /\ HeldIsRunning
  /\ NothingBefore
  /\ KeyMeansProvisioned
  /\ ClosedHasRevoke
  /\ RevokeIsFinal
  /\ CreateInHand
  /\ DoneRevokeMeansNoKey
  /\ DeleteInHand
  /\ LiveKeyIsRemote
  /\ RevokedKeyIsGone

(* Initially there is nothing to revoke and nobody at work. *)
LEMMA AccessInitInv == AccessInit => AccessInv
BY TypeInit, JobRows
   DEF AccessInit, AccessInv, HeldIsRunning, NothingBefore, KeyMeansProvisioned,
       ClosedHasRevoke, RevokeIsFinal, CreateInHand, DoneRevokeMeansNoKey,
       DeleteInHand, LiveKeyIsRemote, RevokedKeyIsGone

(* Every action keeps the invariant.  The steps that carry the argument are
   closing an order while its key is being made (<1>2), ending a provision job
   without a key (<1>8), activating (<1>12) and ending a revoke job (<1>15). *)
LEMMA AccessStep ==
  ASSUME OneWorker, ~CleanupFails, AccessInv, [AccessNext]_accessVars
  PROVE  AccessInv'
<1> USE JobRows
    DEF AccessInv, HeldIsRunning, NothingBefore, KeyMeansProvisioned,
        ClosedHasRevoke, RevokeIsFinal, CreateInHand, DoneRevokeMeansNoKey,
        DeleteInHand, LiveKeyIsRemote, RevokedKeyIsGone,
        OneWorker, TypeInv, AccessTypeOK, HeldJob, OrderOf,
        accessVars, workVars, boundVars
<1>0. TypeInv'
  BY TypeStep
<1>1. ASSUME NEW o \in Orders \ refunded, OpenAccess(o) PROVE AccessInv'
  BY <1>0, <1>1 DEF OpenAccess
<1>2. ASSUME NEW o \in Orders, CloseAccess(o) PROVE AccessInv'
  <2>1. sub[o] # "none" => job'[Rev(o)] # "none"
    BY <1>2 DEF CloseAccess, QueueRevoke
  <2>2. \A j \in Jobs : j # Rev(o) => job'[j] = job[j]
    BY <1>2 DEF CloseAccess, QueueRevoke
  <2>3. ClosedHasRevoke'
    BY <1>2, <2>1, <2>2 DEF CloseAccess, QueueRevoke
  <2>4. RevokeIsFinal'
    BY <1>2, <2>1, <2>2 DEF CloseAccess, QueueRevoke
  <2>5. CreateInHand' /\ HeldIsRunning'
    BY <1>2, <2>1, <2>2 DEF CloseAccess, QueueRevoke
  <2> QED
    BY <1>0, <1>2, <2>1, <2>2, <2>3, <2>4, <2>5 DEF CloseAccess, QueueRevoke
<1>3. ASSUME NEW o \in Orders, Expire(o) PROVE AccessInv'
  BY <1>0, <1>3 DEF Expire, QueueRevoke
<1>4. ASSUME NEW o \in Orders, EnforceQuota(o) PROVE AccessInv'
  BY <1>0, <1>4 DEF EnforceQuota, QueueRevoke
<1>5. ASSUME NEW o \in Orders, BecomesDue(o) PROVE AccessInv'
  BY <1>0, <1>5 DEF BecomesDue
<1>6. ASSUME NEW j \in Jobs, LockAges(j) PROVE AccessInv'
  BY <1>0, <1>6 DEF LockAges
<1>7. ASSUME NEW w \in Workers, NEW j \in Jobs, Claim(w, j) PROVE AccessInv'
  BY <1>0, <1>7 DEF Claim, Reclaimed
<1>8. ASSUME NEW w \in Workers, ProvisionEnds(w) PROVE AccessInv'
  <2>1. OrderOf(w) \in Orders /\ task[w] = Prov(OrderOf(w))
    BY <1>8 DEF ProvisionEnds, Holds
  <2>2. key[OrderOf(w)] = "none"
    BY <1>8, <2>1 DEF ProvisionEnds, Holds
  <2>3. ClosedHasRevoke' /\ RevokeIsFinal'
    BY <1>8, <2>1, <2>2 DEF ProvisionEnds, JobDone, Rest, Holds
  <2> QED
    BY <1>0, <1>8, <2>1, <2>2, <2>3 DEF ProvisionEnds, JobDone, Rest, Holds
<1>9. ASSUME NEW w \in Workers, ProvisionBegins(w) PROVE AccessInv'
  BY <1>0, <1>9 DEF ProvisionBegins, Advance, Holds
<1>10. ASSUME NEW w \in Workers, RemoteCreate(w) PROVE AccessInv'
  BY <1>0, <1>10 DEF RemoteCreate, Advance
<1>11. ASSUME NEW w \in Workers, RemoteCreateFails(w) PROVE AccessInv'
  BY <1>0, <1>11 DEF RemoteCreateFails, JobFailed, Rest
<1>12. ASSUME NEW w \in Workers, ProvisionCommits(w) PROVE AccessInv'
  <2>1. OrderOf(w) \in Orders /\ task[w] = Prov(OrderOf(w))
    BY <1>12 DEF ProvisionCommits
  <2>2. /\ job[Rev(OrderOf(w))] \in {"none", "pending"}
        /\ OrderOf(w) \in remote
    BY <1>12, <2>1 DEF ProvisionCommits
  <2>3. ClosedHasRevoke'
    BY <1>12, <2>1 DEF ProvisionCommits, Advance
  <2>4. DoneRevokeMeansNoKey' /\ LiveKeyIsRemote'
    BY <1>12, <2>1, <2>2 DEF ProvisionCommits, Advance
  <2>5. KeyMeansProvisioned' /\ NothingBefore'
    BY <1>12, <2>1 DEF ProvisionCommits, Advance
  <2> QED
    BY <1>0, <1>12, <2>1, <2>2, <2>3, <2>4, <2>5 DEF ProvisionCommits, Advance
<1>13. ASSUME NEW w \in Workers, ProvisionFails(w) PROVE AccessInv'
  BY <1>0, <1>13 DEF ProvisionFails, Undo, JobFailed, Rest
<1>14. ASSUME NEW w \in Workers, step[w] = "cleanup", CleanupDone(w) PROVE AccessInv'
  BY <1>0, <1>14 DEF CleanupDone, Rest
<1>15. ASSUME NEW w \in Workers, RevokeEnds(w) PROVE AccessInv'
  <2>1. /\ OrderOf(w) \in Orders
        /\ task[w] = Rev(OrderOf(w))
        /\ key[OrderOf(w)] # "active"
    BY <1>15 DEF RevokeEnds, Holds
  <2>2. DoneRevokeMeansNoKey'
    BY <1>15, <2>1 DEF RevokeEnds, JobDone, Rest, Holds
  <2> QED
    BY <1>0, <1>15, <2>1, <2>2 DEF RevokeEnds, JobDone, Rest, Holds
<1>16. ASSUME NEW w \in Workers, RevokeBegins(w) PROVE AccessInv'
  BY <1>0, <1>16 DEF RevokeBegins, Advance, Holds
<1>17. ASSUME NEW w \in Workers, RemoteDelete(w) PROVE AccessInv'
  BY <1>0, <1>17 DEF RemoteDelete, Advance
<1>18. ASSUME NEW w \in Workers, RemoteDeleteFails(w) PROVE AccessInv'
  BY <1>0, <1>18 DEF RemoteDeleteFails, JobFailed, Rest
<1>19. ASSUME NEW w \in Workers, RevokeCommits(w) PROVE AccessInv'
  BY <1>0, <1>19 DEF RevokeCommits, JobDone, Rest
<1>20. ASSUME NEW w \in Workers, RevokeFails(w) PROVE AccessInv'
  BY <1>0, <1>20 DEF RevokeFails, JobFailed, Rest
<1>21. ASSUME NEW j \in Jobs, RetryJob(j) PROVE AccessInv'
  BY <1>0, <1>21 DEF RetryJob
<1>22. ASSUME NEW w \in Workers, WorkerCrash(w) PROVE AccessInv'
  BY <1>0, <1>22 DEF WorkerCrash, Rest
<1>23. CASE UNCHANGED accessVars
  BY <1>0, <1>23
<1> QED
  BY <1>1, <1>2, <1>3, <1>4, <1>5, <1>6, <1>7, <1>8, <1>9, <1>10, <1>11, <1>12, <1>13, <1>14, <1>15, <1>16, <1>17, <1>18, <1>19, <1>20, <1>21, <1>22, <1>23
  DEF AccessNext, PassNext, AroundNext, WorkerStep, Cleanup, CleanupRaises

(* The invariant holds along every behaviour of one worker. *)
LEMMA AccessInvariant ==
  ASSUME OneWorker, ~CleanupFails
  PROVE  AccessSpec => []AccessInv
<1>1. AccessInit => AccessInv
  BY AccessInitInv
<1>2. AccessInv /\ [AccessNext]_accessVars => AccessInv'
  BY AccessStep
<1> QED
  BY <1>1, <1>2, PTL DEF AccessSpec

(* A closed subscription with a live key always has its revoke job outstanding,
   for any number of orders, failures, crashes and retries. *)
THEOREM ClosedKeySafety ==
  ASSUME OneWorker, ~CleanupFails
  PROVE  AccessSpec => []ClosedKeyIsBeingRevoked
<1>1. AccessInv => ClosedKeyIsBeingRevoked
  <2> SUFFICES ASSUME AccessInv, NEW o \in Orders, key[o] = "active",
                      o \in refunded \/ sub[o] # "active"
               PROVE  RevokeOwed(o)
    BY DEF ClosedKeyIsBeingRevoked
  <2>1. job[Rev(o)] # "none"
    BY DEF AccessInv, ClosedHasRevoke
  <2>2. job[Rev(o)] # "done"
    BY DEF AccessInv, DoneRevokeMeansNoKey
  <2> QED
    BY <2>1, <2>2, JobRows
       DEF AccessInv, TypeInv, AccessTypeOK, JobStatus, RevokeOwed
<1> QED
  BY <1>1, AccessInvariant, PTL

(* A key the customer holds exists on the Outline server unless its revocation
   is owed. *)
THEOREM IssuedKeySafety ==
  ASSUME OneWorker, ~CleanupFails
  PROVE  AccessSpec => []IssuedKeyExists
<1>1. AccessInv => IssuedKeyExists
  <2> SUFFICES ASSUME AccessInv, NEW o \in Orders, key[o] = "active",
                      ~RevokeOwed(o)
               PROVE  o \in remote
    BY DEF IssuedKeyExists
  <2>1. job[Rev(o)] = "none"
    BY JobRows DEF AccessInv, TypeInv, AccessTypeOK, JobStatus, RevokeOwed,
                   DoneRevokeMeansNoKey
  <2> QED
    BY <2>1 DEF AccessInv, LiveKeyIsRemote
<1> QED
  BY <1>1, AccessInvariant, PTL

(* A key row that says revoked is gone from the server. *)
THEOREM RevokedKeySafety ==
  ASSUME OneWorker, ~CleanupFails
  PROVE  AccessSpec => []RevokedKeyIsGone
<1>1. AccessInv => RevokedKeyIsGone
  BY DEF AccessInv
<1> QED
  BY <1>1, AccessInvariant, PTL

-----------------------------------------------------------------------------
(* Paid access implements the promise of AccessLifecycle. *)

(* A subscription that was active once has its key row, and only a refund
   cancels one. *)
SubHasKey ==
  \A o \in Orders :
    /\ sub[o] \in {"active", "expired", "revoked"} => key[o] # "none"
    /\ sub[o] = "cancelled" => o \in refunded

(* Every action keeps that. *)
LEMMA SubHasKeyStep ==
  ASSUME TypeInv, SubHasKey, [AccessNext]_accessVars PROVE SubHasKey'
<1> USE JobRows DEF SubHasKey, TypeInv, AccessTypeOK, HeldJob, OrderOf, accessVars, workVars,
                    boundVars
<1>1. ASSUME NEW o \in Orders, OpenAccess(o) \/ CloseAccess(o) \/ Expire(o) \/ EnforceQuota(o)
      PROVE  SubHasKey'
  BY <1>1 DEF OpenAccess, CloseAccess, Expire, EnforceQuota
<1>2. ASSUME NEW w \in Workers, ProvisionCommits(w) PROVE SubHasKey'
  BY <1>2 DEF ProvisionCommits
<1>3. ASSUME NEW w \in Workers, ProvisionEnds(w) PROVE SubHasKey'
  BY <1>3 DEF ProvisionEnds, Holds
<1>4. ASSUME NEW w \in Workers, RevokeCommits(w) PROVE SubHasKey'
  BY <1>4 DEF RevokeCommits
<1>5. ASSUME UNCHANGED <<sub, key, refunded>> PROVE SubHasKey'
  BY <1>5
<1>6. ASSUME NEW w \in Workers,
             \/ ProvisionBegins(w) \/ RemoteCreate(w) \/ RemoteCreateFails(w)
             \/ ProvisionFails(w) \/ Cleanup(w) \/ RevokeEnds(w) \/ RevokeBegins(w)
             \/ RemoteDelete(w) \/ RemoteDeleteFails(w) \/ RevokeFails(w) \/ WorkerCrash(w)
      PROVE  UNCHANGED <<sub, key, refunded>>
  BY <1>6 DEF ProvisionBegins, RemoteCreate, RemoteCreateFails, ProvisionFails, Undo, Cleanup,
              CleanupDone, CleanupRaises, RevokeEnds, RevokeBegins, RemoteDelete,
              RemoteDeleteFails, RevokeFails, WorkerCrash
<1>7. ASSUME NEW w \in Workers, NEW j \in Jobs, Claim(w, j) PROVE UNCHANGED <<sub, key, refunded>>
  BY <1>7 DEF Claim
<1>8. ASSUME NEW j \in Jobs, LockAges(j) \/ RetryJob(j) PROVE UNCHANGED <<sub, key, refunded>>
  BY <1>8 DEF LockAges, RetryJob
<1>9. ASSUME NEW o \in Orders, BecomesDue(o) PROVE UNCHANGED <<sub, key, refunded>>
  BY <1>9 DEF BecomesDue
<1> QED
  BY <1>1, <1>2, <1>3, <1>4, <1>5, <1>6, <1>7, <1>8, <1>9
  DEF AccessNext, PassNext, AroundNext, WorkerStep

(* What of an order its phase and its closing depend on. *)
KeepsPhase(q) ==
  /\ key'[q] = key[q]
  /\ sub'[q] = "none" <=> sub[q] = "none"
  /\ job'[Prov(q)] = "done" <=> job[Prov(q)] = "done"
  /\ key[q] = "active" => (RevokeOwed(q)' <=> RevokeOwed(q))
  /\ IsClosed(q)' <=> IsClosed(q)

(* How a step may move the access of one order. *)
MovesPhase(o) ==
  \/ /\ PhaseOf(o) = "none" /\ ~IsClosed(o) /\ PhaseOf(o)' = "promised"
     /\ IsClosed(o)' <=> IsClosed(o)
     /\ remote' = remote
  \/ /\ PhaseOf(o) = "promised" /\ o \in remote
     /\ PhaseOf(o)' = IF IsClosed(o) THEN "ending" ELSE "given"
     /\ IsClosed(o)' <=> IsClosed(o)
     /\ remote' = remote
  \/ /\ PhaseOf(o) = "promised" /\ IsClosed(o) /\ PhaseOf(o)' = "ended"
     /\ IsClosed(o)' <=> IsClosed(o)
     /\ remote' = remote
  \/ /\ ~IsClosed(o) /\ IsClosed(o)'
     /\ PhaseOf(o)' = IF PhaseOf(o) = "given" THEN "ending" ELSE PhaseOf(o)
     /\ remote' = remote
  \/ /\ PhaseOf(o) = "ending" /\ o \notin remote /\ PhaseOf(o)' = "ended"
     /\ IsClosed(o)' <=> IsClosed(o)
     /\ remote' = remote
  \/ /\ KeepsPhase(o)
     /\ \/ PhaseOf(o) = "promised" /\ remote' \in {remote, remote \cup {o}, remote \ {o}}
        \/ PhaseOf(o) = "ending" /\ remote' \in {remote, remote \ {o}}

(* Those facts decide the phase. *)
LEMMA PhaseIsKept ==
  ASSUME NEW q \in Orders, KeepsPhase(q)
  PROVE  PhaseOf(q)' = PhaseOf(q) /\ (IsClosed(q)' <=> IsClosed(q))
BY DEF KeepsPhase, PhaseOf

(* Where no order moves, the promise stutters. *)
LEMMA PromiseStutters ==
  ASSUME \A q \in Orders : KeepsPhase(q), remote' = remote
  PROVE  UNCHANGED Promised!accessState
<1>1. \A q \in Orders : PhaseOf(q)' = PhaseOf(q) /\ (IsClosed(q)' <=> IsClosed(q))
  BY PhaseIsKept
<1>2. [o \in Orders |-> PhaseOf(o)]' = [o \in Orders |-> PhaseOf(o)]
  BY <1>1
<1>3. {o \in Orders : IsClosed(o)}' = {o \in Orders : IsClosed(o)}
  BY <1>1
<1> QED BY <1>2, <1>3 DEF Promised!accessState

(* Where one order moves, the promise takes a step or stutters. *)
LEMMA PromiseMoves ==
  ASSUME NEW o \in Orders, \A q \in Orders \ {o} : KeepsPhase(q), MovesPhase(o)
  PROVE  [Promised!Next]_Promised!accessState
<1> DEFINE phase == [q \in Orders |-> PhaseOf(q)]
           closed == {q \in Orders : IsClosed(q)}
<1>1. \A q \in Orders \ {o} : PhaseOf(q)' = PhaseOf(q) /\ (IsClosed(q)' <=> IsClosed(q))
  BY PhaseIsKept
<1>2. phase[o] = PhaseOf(o) /\ (o \in closed <=> IsClosed(o))
  OBVIOUS
<1>3. phase' = [phase EXCEPT ![o] = PhaseOf(o)']
  BY <1>1
<1>4. (IsClosed(o)' <=> IsClosed(o)) => closed' = closed
  BY <1>1
<1>5. IsClosed(o)' => closed' = closed \cup {o}
  BY <1>1
<1>6. PhaseOf(o)' = PhaseOf(o) => phase' = phase
  BY <1>3
<1>7. KeepsPhase(o) => PhaseOf(o)' = PhaseOf(o) /\ (IsClosed(o)' <=> IsClosed(o))
  BY PhaseIsKept
<1> HIDE DEF phase, closed
<1>8. Promised!Next \/ (phase' = phase /\ closed' = closed /\ remote' = remote)
  BY <1>2, <1>3, <1>4, <1>5, <1>6, <1>7
  DEF MovesPhase, Promised!Next, Promised!Promise, Promised!Give, Promised!Drop, Promised!Close,
      Promised!TakeAway, Promised!Serve, Promised!Becomes, phase, closed
<1> QED BY <1>8 DEF Promised!accessState, phase, closed

(* The phases, case by case, before a step and after it. *)
LEMMA PhaseCases ==
  ASSUME NEW o \in Orders
  PROVE  /\ key[o] = "revoked" => PhaseOf(o) = "ended"
         /\ key'[o] = "revoked" => PhaseOf(o)' = "ended"
         /\ key[o] = "active" => PhaseOf(o) = IF RevokeOwed(o) THEN "ending" ELSE "given"
         /\ key'[o] = "active" => PhaseOf(o)' = IF RevokeOwed(o)' THEN "ending" ELSE "given"
         /\ key[o] \notin {"active", "revoked"} =>
              PhaseOf(o) = IF sub[o] = "none" THEN "none"
                           ELSE IF job[Prov(o)] = "done" THEN "ended" ELSE "promised"
         /\ key'[o] \notin {"active", "revoked"} =>
              PhaseOf(o)' = IF sub'[o] = "none" THEN "none"
                            ELSE IF job'[Prov(o)] = "done" THEN "ended" ELSE "promised"
BY DEF PhaseOf

(* A step that writes only the rows of one order leaves the others alone. *)
LEMMA OthersKeepPhase ==
  ASSUME NEW o \in Orders,
         \A q \in Orders \ {o} :
           /\ sub'[q] = sub[q] /\ key'[q] = key[q]
           /\ job'[Prov(q)] = job[Prov(q)] /\ job'[Rev(q)] = job[Rev(q)]
           /\ q \in refunded' <=> q \in refunded
  PROVE  \A q \in Orders \ {o} : KeepsPhase(q)
BY DEF KeepsPhase, RevokeOwed, IsClosed

(* The inductive invariant of the refinement. *)
PromiseInv == AccessInv /\ SubHasKey

(* Orders are opened, closed and swept as the promise says. *)
LEMMA OrderSideMoves ==
  ASSUME PromiseInv, NEW o \in Orders,
         (o \notin refunded /\ OpenAccess(o)) \/ CloseAccess(o) \/ Expire(o) \/ EnforceQuota(o)
  PROVE  [Promised!Next]_Promised!accessState
<1> USE JobRows DEF PromiseInv, AccessInv, SubHasKey, TypeInv, AccessTypeOK
<1>1. /\ \A q \in Orders \ {o} :
           /\ sub'[q] = sub[q] /\ key'[q] = key[q]
           /\ job'[Prov(q)] = job[Prov(q)] /\ job'[Rev(q)] = job[Rev(q)]
           /\ q \in refunded' <=> q \in refunded
      /\ remote' = remote
  BY DEF OpenAccess, CloseAccess, Expire, EnforceQuota, QueueRevoke
<1>2. ASSUME o \notin refunded, OpenAccess(o) PROVE MovesPhase(o)
  BY <1>2, PhaseCases DEF OpenAccess, NothingBefore, MovesPhase, IsClosed
<1>3. ASSUME CloseAccess(o) \/ Expire(o) \/ EnforceQuota(o) PROVE KeepsPhase(o) \/ MovesPhase(o)
  <2>1. /\ key' = key /\ IsClosed(o)'
        /\ sub'[o] = "none" <=> sub[o] = "none"
        /\ job'[Prov(o)] = job[Prov(o)]
    BY <1>3 DEF CloseAccess, Expire, EnforceQuota, QueueRevoke, IsClosed
  <2>2. job'[Rev(o)] = IF sub[o] # "none" /\ job[Rev(o)] = "none" THEN "pending" ELSE job[Rev(o)]
    BY <1>3 DEF CloseAccess, Expire, EnforceQuota, QueueRevoke
  <2>3. key[o] = "active" => sub[o] # "none" /\ job[Rev(o)] # "done"
    BY DEF NothingBefore, DoneRevokeMeansNoKey
  <2>4. key[o] = "active" /\ IsClosed(o) => job[Rev(o)] # "none"
    BY <2>3 DEF ClosedHasRevoke, IsClosed
  <2>5. ASSUME IsClosed(o) PROVE KeepsPhase(o)
    BY <2>1, <2>2, <2>3, <2>4, <2>5 DEF KeepsPhase, RevokeOwed
  <2>6. ASSUME ~IsClosed(o) PROVE MovesPhase(o)
    <3>1. job[Rev(o)] \in JobStatus
      OBVIOUS
    <3>2. key[o] = "active" => RevokeOwed(o)'
      BY <2>2, <2>3, <3>1 DEF RevokeOwed, JobStatus
    <3>3. PhaseOf(o)' = IF PhaseOf(o) = "given" THEN "ending" ELSE PhaseOf(o)
      BY <2>1, <3>2, PhaseCases
    <3> QED BY <1>1, <2>1, <2>6, <3>3 DEF MovesPhase
  <2> QED BY <2>5, <2>6
<1>4. \A q \in Orders \ {o} : KeepsPhase(q)
  BY <1>1, OthersKeepPhase
<1>5. CASE KeepsPhase(o)
  <2>1. \A q \in Orders : KeepsPhase(q)
    BY <1>4, <1>5
  <2> QED BY <1>1, <2>1, PromiseStutters
<1> QED BY <1>2, <1>3, <1>4, <1>5, PromiseMoves

(* Provisioning keeps the promise: what ends a job without a key is a closed
   order, and the activating transaction gives the key of an order that was
   closed behind the worker's back only to lose it. *)
LEMMA ProvisionMoves ==
  ASSUME PromiseInv, ~CleanupFails, NEW w \in Workers,
         \/ ProvisionEnds(w) \/ RemoteCreate(w) \/ RemoteCreateFails(w)
         \/ ProvisionCommits(w) \/ ProvisionFails(w)
  PROVE  [Promised!Next]_Promised!accessState
<1> USE JobRows DEF PromiseInv, AccessInv, SubHasKey, TypeInv, AccessTypeOK, HeldJob
<1>1. PICK o \in Orders :
        o = OrderOf(w) /\ task[w] = Prov(o) /\ job[Prov(o)] = "running"
  BY DEF ProvisionEnds, RemoteCreate, RemoteCreateFails, ProvisionCommits, ProvisionFails,
         Holds, OrderOf, HeldIsRunning
<1>2. key[o] = "none" /\ sub[o] \notin {"none", "active", "expired", "revoked"}
  BY <1>1 DEF KeyMeansProvisioned, NothingBefore, KeyStatus
<1>3. PhaseOf(o) = "promised"
  BY <1>1, <1>2, PhaseCases
<1>4. ASSUME ProvisionEnds(w) PROVE MovesPhase(o)
  <2>1. sub' = sub /\ sub[o] = "cancelled" /\ UNCHANGED <<key, remote, refunded>>
    BY <1>1, <1>2, <1>4 DEF ProvisionEnds, SubStatus
  <2>2. job' = [job EXCEPT ![Prov(o)] = "done"]
    BY <1>1, <1>4 DEF ProvisionEnds, JobDone
  <2> QED BY <1>1, <1>2, <1>3, <2>1, <2>2, PhaseCases DEF MovesPhase, IsClosed
<1>5. ASSUME RemoteCreate(w) PROVE MovesPhase(o)
  <2>1. remote' = remote \cup {o} /\ UNCHANGED <<sub, key, job, refunded>>
    BY <1>1, <1>5 DEF RemoteCreate
  <2> QED BY <1>1, <1>2, <1>3, <2>1 DEF MovesPhase, KeepsPhase, IsClosed, RevokeOwed
<1>6. ASSUME RemoteCreateFails(w) \/ ProvisionFails(w) PROVE MovesPhase(o)
  <2>1. /\ remote' \in {remote, remote \cup {o}, remote \ {o}}
        /\ UNCHANGED <<sub, key, refunded>>
    BY <1>1, <1>6 DEF RemoteCreateFails, ProvisionFails, Undo
  <2>2. \E s \in {"failed", "pending"} : job' = [job EXCEPT ![Prov(o)] = s]
    BY <1>1, <1>6 DEF RemoteCreateFails, ProvisionFails, Undo, JobFailed
  <2> QED BY <1>1, <1>2, <1>3, <2>1, <2>2 DEF MovesPhase, KeepsPhase, IsClosed, RevokeOwed
<1>7. ASSUME ProvisionCommits(w) PROVE MovesPhase(o)
  <2>1. /\ sub' = [sub EXCEPT ![o] = "active"] /\ key' = [key EXCEPT ![o] = "active"]
        /\ job' = [job EXCEPT ![Prov(o)] = "done"] /\ UNCHANGED <<remote, refunded>>
    BY <1>1, <1>7 DEF ProvisionCommits
  <2>2. o \in remote /\ job[Rev(o)] \in {"none", "pending"}
    BY <1>1, <1>7 DEF ProvisionCommits, CreateInHand
  <2>3. IsClosed(o) <=> o \in refunded
    BY <1>1, <1>2 DEF IsClosed
  <2>4. IsClosed(o)' <=> o \in refunded
    BY <1>1, <2>1 DEF IsClosed
  <2>5. o \in refunded => job[Rev(o)] # "none"
    BY <1>1, <1>2 DEF ClosedHasRevoke
  <2>6. o \notin refunded => job[Rev(o)] = "none"
    <3>1. sub[o] \in SubStatus
      BY <1>1
    <3>2. o \notin refunded => sub[o] = "pending"
      BY <1>1, <1>2, <3>1 DEF SubStatus
    <3> QED BY <1>1, <1>2, <3>2 DEF RevokeIsFinal
  <2>7. RevokeOwed(o)' <=> o \in refunded
    BY <1>1, <2>1, <2>2, <2>5, <2>6 DEF RevokeOwed
  <2>8. PhaseOf(o)' = IF IsClosed(o) THEN "ending" ELSE "given"
    BY <1>1, <2>1, <2>3, <2>7, PhaseCases
  <2> QED BY <1>3, <2>1, <2>2, <2>3, <2>4, <2>8 DEF MovesPhase
<1>8. \A q \in Orders \ {o} :
        /\ sub'[q] = sub[q] /\ key'[q] = key[q]
        /\ job'[Prov(q)] = job[Prov(q)] /\ job'[Rev(q)] = job[Rev(q)]
        /\ q \in refunded' <=> q \in refunded
  BY <1>1 DEF ProvisionEnds, RemoteCreate, RemoteCreateFails, ProvisionCommits, ProvisionFails,
              Undo, JobDone, JobFailed
<1>9. \A q \in Orders \ {o} : KeepsPhase(q)
  BY <1>1, <1>8, OthersKeepPhase
<1> QED BY <1>1, <1>4, <1>5, <1>6, <1>7, <1>9, PromiseMoves

(* Revocation keeps the promise: only a key that is being taken away leaves the
   server, and its row says so only once the server lost it. *)
LEMMA RevokeMoves ==
  ASSUME PromiseInv, NEW w \in Workers,
         RemoteDelete(w) \/ RemoteDeleteFails(w) \/ RevokeCommits(w)
  PROVE  [Promised!Next]_Promised!accessState
<1> USE JobRows DEF PromiseInv, AccessInv, TypeInv, AccessTypeOK, HeldJob
<1>1. PICK o \in Orders :
        o = OrderOf(w) /\ task[w] = Rev(o) /\ job[Rev(o)] = "running"
  BY DEF RemoteDelete, RemoteDeleteFails, RevokeCommits, OrderOf, HeldIsRunning
<1>2. key[o] = "active"
  BY <1>1 DEF RemoteDelete, RemoteDeleteFails, RevokeCommits, DeleteInHand
<1>3. PhaseOf(o) = "ending"
  BY <1>1, <1>2, PhaseCases DEF RevokeOwed
<1>4. ASSUME RemoteDelete(w) PROVE MovesPhase(o)
  <2>1. remote' = remote \ {o} /\ UNCHANGED <<sub, key, job, refunded>>
    BY <1>1, <1>4 DEF RemoteDelete
  <2> QED BY <1>3, <2>1 DEF MovesPhase, KeepsPhase, IsClosed, RevokeOwed
<1>5. ASSUME RemoteDeleteFails(w) PROVE MovesPhase(o)
  <2>1. remote' \in {remote, remote \ {o}} /\ UNCHANGED <<sub, key, refunded>>
    BY <1>1, <1>5 DEF RemoteDeleteFails
  <2>2. \E s \in {"failed", "pending"} : job' = [job EXCEPT ![Rev(o)] = s]
    BY <1>1, <1>5 DEF RemoteDeleteFails, JobFailed
  <2> QED BY <1>1, <1>3, <2>1, <2>2 DEF MovesPhase, KeepsPhase, IsClosed, RevokeOwed
<1>6. ASSUME RevokeCommits(w) PROVE MovesPhase(o)
  <2>1. key' = [key EXCEPT ![o] = "revoked"] /\ UNCHANGED <<sub, remote, refunded>>
    BY <1>1, <1>6 DEF RevokeCommits
  <2>2. o \notin remote
    BY <1>1, <1>6 DEF RevokeCommits, DeleteInHand
  <2> QED BY <1>1, <1>3, <2>1, <2>2, PhaseCases DEF MovesPhase, IsClosed
<1>7. \A q \in Orders \ {o} :
        /\ sub'[q] = sub[q] /\ key'[q] = key[q]
        /\ job'[Prov(q)] = job[Prov(q)] /\ job'[Rev(q)] = job[Rev(q)]
        /\ q \in refunded' <=> q \in refunded
  BY <1>1 DEF RemoteDelete, RemoteDeleteFails, RevokeCommits, JobDone, JobFailed
<1>8. \A q \in Orders \ {o} : KeepsPhase(q)
  BY <1>1, <1>7, OthersKeepPhase
<1> QED BY <1>1, <1>4, <1>5, <1>6, <1>8, PromiseMoves

(* Claiming a job moves jobs between running and queued only. *)
LEMMA ClaimKeepsPhases ==
  ASSUME NEW w \in Workers, NEW j \in Jobs, Claim(w, j)
  PROVE  (\A q \in Orders : KeepsPhase(q)) /\ remote' = remote
<1>1. \A k \in Jobs : Reclaimed[k] = IF job[k] = "running" /\ k \in stale THEN "pending" ELSE job[k]
  BY DEF Reclaimed
<1>2. DOMAIN Reclaimed = Jobs
  BY DEF Reclaimed
<1>3. job' = [Reclaimed EXCEPT ![j] = "running"] /\ Reclaimed[j] = "pending"
  BY DEF Claim
<1>4. \A k \in Jobs : job'[k] = IF k = j THEN "running" ELSE Reclaimed[k]
  BY <1>2, <1>3
<1>5. ASSUME NEW k \in Jobs
      PROVE  \/ job'[k] = job[k]
             \/ job[k] \in {"running", "pending"} /\ job'[k] \in {"running", "pending"}
  BY <1>1, <1>3, <1>4
<1>6. UNCHANGED <<sub, key, refunded, remote>>
  BY DEF Claim
<1>7. ASSUME NEW q \in Orders PROVE Prov(q) \in Jobs /\ Rev(q) \in Jobs
  BY JobRows
<1>8. ASSUME NEW q \in Orders PROVE KeepsPhase(q)
  BY <1>5, <1>6, <1>7 DEF KeepsPhase, IsClosed, RevokeOwed
<1> QED BY <1>6, <1>8

(* Every step of paid access is a step of the promise or none. *)
LEMMA PromiseStep ==
  ASSUME PromiseInv, ~CleanupFails, [AccessNext]_accessVars
  PROVE  [Promised!Next]_Promised!accessState
<1> DEFINE Stays == (\A q \in Orders : KeepsPhase(q)) /\ remote' = remote
<1> USE JobRows DEF PromiseInv, AccessInv, TypeInv, AccessTypeOK, HeldJob
<1>1. ASSUME UNCHANGED <<sub, key, job, refunded, remote>> PROVE Stays
  BY <1>1 DEF KeepsPhase, IsClosed, RevokeOwed
<1>2. ASSUME NEW w \in Workers, NEW j \in Jobs, Claim(w, j) PROVE Stays
  BY <1>2, ClaimKeepsPhases
<1>3. ASSUME NEW w \in Workers, RevokeEnds(w) PROVE Stays
  <2>1. UNCHANGED <<sub, key, refunded, remote>>
    BY <1>3 DEF RevokeEnds
  <2>2. /\ OrderOf(w) \in Orders /\ task[w] = Rev(OrderOf(w)) /\ key[OrderOf(w)] # "active"
        /\ job' = [job EXCEPT ![Rev(OrderOf(w))] = "done"]
    BY <1>3 DEF RevokeEnds, JobDone, Holds, OrderOf
  <2> QED BY <2>1, <2>2 DEF KeepsPhase, IsClosed, RevokeOwed
<1>4. ASSUME NEW w \in Workers, RevokeFails(w) PROVE Stays
  <2>1. UNCHANGED <<sub, key, refunded, remote>>
    BY <1>4 DEF RevokeFails
  <2>2. /\ OrderOf(w) \in Orders /\ task[w] = Rev(OrderOf(w)) /\ job[task[w]] = "running"
    BY <1>4 DEF RevokeFails, OrderOf, HeldIsRunning
  <2>3. \E s \in {"failed", "pending"} : job' = [job EXCEPT ![Rev(OrderOf(w))] = s]
    BY <1>4, <2>2 DEF RevokeFails, JobFailed
  <2> QED BY <2>1, <2>2, <2>3 DEF KeepsPhase, IsClosed, RevokeOwed
<1>5. ASSUME NEW j \in Jobs, RetryJob(j) PROVE Stays
  <2>1. UNCHANGED <<sub, key, refunded, remote>> /\ job[j] = "failed"
        /\ job' = [job EXCEPT ![j] = "pending"]
    BY <1>5 DEF RetryJob
  <2> QED BY <2>1 DEF KeepsPhase, IsClosed, RevokeOwed
<1>6. ASSUME NEW w \in Workers,
             \/ ProvisionBegins(w) \/ Cleanup(w) \/ RevokeBegins(w) \/ WorkerCrash(w)
      PROVE  Stays
  BY <1>1, <1>6 DEF ProvisionBegins, Cleanup, CleanupDone, CleanupRaises, RevokeBegins, WorkerCrash
<1>7. ASSUME (\E o \in Orders : BecomesDue(o)) \/ (\E j \in Jobs : LockAges(j)) PROVE Stays
  BY <1>1, <1>7 DEF BecomesDue, LockAges
<1>8. CASE UNCHANGED accessVars
  BY <1>1, <1>8, PromiseStutters DEF accessVars
<1>9. ASSUME NEW w \in Workers, WorkerStep(w) PROVE [Promised!Next]_Promised!accessState
  BY <1>3, <1>4, <1>6, <1>9, ProvisionMoves, RevokeMoves, PromiseStutters DEF WorkerStep
<1> HIDE DEF Stays
<1>10. Stays => [Promised!Next]_Promised!accessState
  BY PromiseStutters DEF Stays
<1> QED
  BY <1>2, <1>5, <1>6, <1>7, <1>8, <1>9, <1>10, OrderSideMoves DEF AccessNext, PassNext, AroundNext

(* Initially nothing is promised. *)
LEMMA PromiseInit == AccessInit => Promised!Init /\ SubHasKey
BY DEF AccessInit, Promised!Init, PhaseOf, IsClosed, SubHasKey

(* The worker implements the promise of paid access, for any number of orders,
   failures, crashes and retries: a key is given once and works until the order
   is closed, and only a closed order ends without its key. *)
THEOREM AccessKeepsPromise ==
  ASSUME OneWorker, ~CleanupFails
  PROVE  AccessSpec => KeepsPromise
<1>1. AccessInit => PromiseInv /\ Promised!Init
  BY AccessInitInv, PromiseInit DEF PromiseInv
<1>2. PromiseInv /\ [AccessNext]_accessVars => PromiseInv'
  BY AccessStep, SubHasKeyStep DEF PromiseInv, AccessInv
<1>3. PromiseInv /\ [AccessNext]_accessVars => [Promised!Next]_Promised!accessState
  BY PromiseStep
<1> QED
  BY <1>1, <1>2, <1>3, PTL DEF AccessSpec, KeepsPromise, Promised!Spec
=============================================================================
