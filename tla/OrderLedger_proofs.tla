-------------------------- MODULE OrderLedger_proofs --------------------------
(***************************************************************************)
(* Proofs about OrderLedger composed with PaidAccess, on either database,  *)
(* with any number of workers, for every set of customers, orders, prices, *)
(* receipts and references.                                                *)
(***************************************************************************)
EXTENDS OrderLedger, PaidAccess_proofs

-----------------------------------------------------------------------------
(* Open orders *)

(* Customers never hold two open orders because only the thread that uploads a
   receipt opens orders, and opens none while it uploads; sweeps only close,
   and a refunded order does not open again. *)
OrdersInv ==
  /\ status \in [Orders -> OrderStatus]
  /\ upload \in (Orders \X Images) \cup {NoUpload}
  /\ sweep \in [kind : {"none", "expire", "release"}, rows : SUBSET Orders]
  /\ \A o \in Orders \cap refunded : status[o] \notin Open \cup {"none"}
  /\ ~Ready =>
       /\ upload[1] \notin refunded
       /\ \A p \in Orders : IsOpen(p) /\ Owner[p] = Owner[upload[1]]
                               => p = upload[1]
  /\ aged \subseteq Orders /\ holdAged \subseteq Orders
  /\ OneOpenOrder

(* Nothing the workers, time or an operator do refunds an order. *)
LEMMA WorkersDoNotRefund == PassNext \/ AroundNext => refunded' = refunded
<1>1. ASSUME NEW w \in Workers, WorkerStep(w) PROVE refunded' = refunded
  BY <1>1 DEF WorkerStep, ProvisionEnds, ProvisionBegins, RemoteCreate,
      RemoteCreateFails, ProvisionCommits, ProvisionFails, Cleanup,
      CleanupDone, CleanupRaises, Undo, RevokeEnds, RevokeBegins, RemoteDelete,
      RemoteDeleteFails, RevokeCommits, RevokeFails
<1>2. ASSUME NEW w \in Workers, NEW j \in Jobs, Claim(w, j)
      PROVE  refunded' = refunded
  BY <1>2 DEF Claim
<1>3. ASSUME NEW o \in Orders, Expire(o) \/ EnforceQuota(o) \/ BecomesDue(o)
      PROVE  refunded' = refunded
  BY <1>3 DEF Expire, EnforceQuota, BecomesDue
<1>4. ASSUME NEW j \in Jobs, LockAges(j) \/ RetryJob(j)
      PROVE  refunded' = refunded
  BY <1>4 DEF LockAges, RetryJob
<1>5. ASSUME NEW w \in Workers, WorkerCrash(w) PROVE refunded' = refunded
  BY <1>5 DEF WorkerCrash
<1> QED
  BY <1>1, <1>2, <1>3, <1>4, <1>5 DEF PassNext, AroundNext

(* It holds of the empty tables. *)
LEMMA OrdersInit == Init => OrdersInv
BY LedgerAssumption
   DEF Init, AccessInit, OrdersInv, OrderStatus, Open, Ready, OneOpenOrder,
       IsOpen, NoSweep

(* Every step of the system keeps it. *)
LEMMA OrdersStep == OrdersInv /\ [Next]_vars => OrdersInv'
<1> SUFFICES ASSUME OrdersInv, [Next]_vars PROVE OrdersInv'
  OBVIOUS
<1> USE DEF OrdersInv, OrderStatus, Open, IsOpen, Ready, OneOpenOrder,
            SetStatus, OpenOrders, accessVars, ledgerVars, orderVars, aroundVars
<1>1. ASSUME NEW o \in Orders, CreateOrder(o)
     PROVE  OrdersInv'
  BY <1>1 DEF CreateOrder, Insert
<1>2. ASSUME NEW o \in Orders, CreateWalletTopup(o)
     PROVE  OrdersInv'
  BY <1>2 DEF CreateWalletTopup, Insert
<1>3. ASSUME NEW old \in Orders, NEW new \in Orders, ReplaceOpenOrder(old, new)
     PROVE  OrdersInv'
  <2>1. /\ status' = [status EXCEPT ![old] = "cancelled",
                                    ![new] = "awaiting_payment"]
        /\ UNCHANGED <<refunded, upload, sweep, aged, holdAged>>
        /\ upload = NoUpload /\ old # new /\ Owner[new] = Owner[old]
        /\ status[new] = "none" /\ status[old] \in Open /\ new \notin refunded
    BY <1>3 DEF ReplaceOpenOrder
  <2>2. \A p \in Orders : IsOpen(p)' =>
          p = new \/ (IsOpen(p) /\ p # old)
    BY <2>1
  <2>3. OneOpenOrder'
    BY <2>1, <2>2
  <2> QED
    BY <2>1, <2>3
<1>4. ASSUME NEW o \in Orders, CancelOrder(o)
     PROVE  OrdersInv'
  BY <1>4 DEF CancelOrder
<1>5. ASSUME NEW o \in Orders, NEW r \in Refs, SubmitPayment(o, r)
     PROVE  OrdersInv'
  BY <1>5 DEF SubmitPayment
<1>6. ASSUME NEW o \in Orders, PayWithWallet(o)
     PROVE  OrdersInv'
  BY <1>6 DEF PayWithWallet
<1>7. ASSUME NEW o \in Orders, NEW i \in Images, SubmitReceipt(o, i)
     PROVE  OrdersInv'
  BY <1>7 DEF SubmitReceipt, ReceiptAccepted
<1>8. ASSUME NEW o \in Orders, NEW i \in Images, RetryUpload(o, i)
     PROVE  OrdersInv'
  BY <1>8 DEF RetryUpload, ReceiptAccepted
<1>9. ASSUME NEW o \in Orders, NEW i \in Images, RecoverReceipt(o, i)
     PROVE  OrdersInv'
  BY <1>9 DEF RecoverReceipt, ReceiptAccepted
<1>10. ASSUME UploadDone
     PROVE  OrdersInv'
  BY <1>10 DEF UploadDone
<1>11. ASSUME UploadFails
     PROVE  OrdersInv'
  BY <1>11 DEF UploadFails
<1>12. ASSUME NEW o \in Orders, NEW i \in Images, NEW r \in Refs, NEW x \in Surplus,
             VerifyReceipt(o, i, r, Price[o] + x)
     PROVE  OrdersInv'
  BY <1>12 DEF VerifyReceipt
<1>13. ASSUME NEW o \in Orders, NEW i \in Images, RejectReceipt(o, i)
     PROVE  OrdersInv'
  BY <1>13 DEF RejectReceipt, Marked
<1>14. ASSUME NEW o \in Orders, ApproveTopup(o)
     PROVE  OrdersInv'
  BY <1>14 DEF ApproveTopup, CanApprove, Post, OpenAccess
<1>15. ASSUME NEW o \in Orders, ApproveTransfer(o)
     PROVE  OrdersInv'
  BY <1>15 DEF ApproveTransfer, CanApprove, OpenAccess
<1>16. ASSUME NEW o \in Orders, ApproveWallet(o)
     PROVE  OrdersInv'
  BY <1>16 DEF ApproveWallet, CanApprove, OpenAccess
<1>17. ASSUME NEW o \in Orders, RejectOrder(o)
     PROVE  OrdersInv'
  BY <1>17 DEF RejectOrder, Marked, Post
<1>18. ASSUME NEW o \in Orders, RefundOrder(o)
     PROVE  OrdersInv'
  BY <1>18 DEF RefundOrder, Marked, Post, CloseAccess
<1>19. ASSUME NEW o \in Orders, SweepExpired(o)
     PROVE  OrdersInv'
  BY <1>19 DEF SweepExpired, ExpireOrder, ExpireRows, NoSweep
<1>20. ASSUME NEW o \in Orders, SweepHold(o)
     PROVE  OrdersInv'
  BY <1>20 DEF SweepHold, ReleaseHold, ReleaseRows, Post, NoSweep
<1>21. ASSUME NEW k \in {"expire", "release"}, SweepSelect(k)
      PROVE  OrdersInv'
  <2>1. UNCHANGED <<status, refunded, upload, aged, holdAged>>
    BY <1>21 DEF SweepSelect
  <2>2. sweep' \in [kind : {"none", "expire", "release"}, rows : SUBSET Orders]
    <3>1. ExpireRows \subseteq Orders /\ ReleaseRows \subseteq Orders
      BY DEF ExpireRows, ReleaseRows
    <3> QED
      BY <1>21, <3>1 DEF SweepSelect
  <2> QED
    BY <2>1, <2>2
<1>22. ASSUME NEW o \in Orders, SweepWrite(o)
      PROVE  OrdersInv'
  <2>1. /\ status' \in {[status EXCEPT ![o] = "cancelled"], status}
        /\ UNCHANGED <<refunded, upload, aged, holdAged>>
    BY <1>22 DEF SweepWrite, ExpireOrder, ReleaseHold
  <2>2. sweep' \in [kind : {"none", "expire", "release"}, rows : SUBSET Orders]
    BY <1>22 DEF SweepWrite, NoSweep
  <2> QED
    BY <2>1, <2>2
<1>23. ASSUME NEW o \in Orders, OrderAges(o)
     PROVE  OrdersInv'
  BY <1>23 DEF OrderAges
<1>24. ASSUME NEW o \in Orders, HoldAges(o)
     PROVE  OrdersInv'
  BY <1>24 DEF HoldAges
<1>25. ASSUME NEW u \in PromoUsers, PromoChanges(u)
     PROVE  OrdersInv'
  BY <1>25 DEF PromoChanges
<1>26. ASSUME Restart
     PROVE  OrdersInv'
  BY <1>26 DEF Restart, WorkerCrash, NoSweep
<1>27. ASSUME WorkerNext
     PROVE  OrdersInv'
  BY <1>27, WorkersDoNotRefund DEF WorkerNext
<1>28. ASSUME AroundWorkers
     PROVE  OrdersInv'
  BY <1>28, WorkersDoNotRefund DEF AroundWorkers
<1>29. CASE UNCHANGED vars
  BY <1>29 DEF vars
<1> QED
  BY <1>1, <1>2, <1>3, <1>4, <1>5, <1>6, <1>7, <1>8, <1>9, <1>10, <1>11, <1>12, <1>13, <1>14, <1>15, <1>16, <1>17, <1>18, <1>19, <1>20, <1>21, <1>22, <1>23, <1>24, <1>25, <1>26, <1>27, <1>28, <1>29
  DEF Next, LedgerNext, CustomerNext, StaffNext, SweepNext, TimeNext

(* At most one open order per customer, on either database. *)
THEOREM OneOpenOrderSafety == Spec => []OneOpenOrder
<1>1. OrdersInv => OneOpenOrder
  BY DEF OrdersInv
<1> QED
  BY <1>1, OrdersInit, OrdersStep, PTL DEF Spec

-----------------------------------------------------------------------------
(* The system implements paid access *)

(* Approvals open access, refunds close it, and everything else the order side
   does leaves it alone. *)
LEMMA StepIsAccessStep ==
  OrdersInv /\ [Next]_vars => [AccessNext]_accessVars
<1> SUFFICES ASSUME OrdersInv, [Next]_vars PROVE [AccessNext]_accessVars
  OBVIOUS
<1>1. CASE CustomerNext
  BY <1>1 DEF CustomerNext, CreateOrder, CreateWalletTopup, Insert,
      ReplaceOpenOrder, CancelOrder, SubmitPayment, PayWithWallet,
      SubmitReceipt, RetryUpload, RecoverReceipt, UploadDone, UploadFails
<1>2. CASE StaffNext
  <2>1. ASSUME NEW o \in Orders, ApproveTransfer(o) \/ ApproveWallet(o)
        PROVE  AccessNext
    <3>1. o \notin refunded
      BY <2>1 DEF OrdersInv, ApproveTransfer, ApproveWallet, CanApprove, Open
    <3>2. OpenAccess(o)
      BY <2>1 DEF ApproveTransfer, ApproveWallet
    <3> QED
      BY <3>1, <3>2 DEF AccessNext
  <2>2. ASSUME NEW o \in Orders, RefundOrder(o)
        PROVE  AccessNext
    BY <2>2 DEF RefundOrder, AccessNext
  <2>3. ASSUME NEW o \in Orders, ApproveTopup(o) \/ RejectOrder(o)
        PROVE  UNCHANGED accessVars
    BY <2>3 DEF ApproveTopup, RejectOrder
  <2>4. ASSUME NEW o \in Orders, NEW i \in Images, RejectReceipt(o, i)
        PROVE  UNCHANGED accessVars
    BY <2>4 DEF RejectReceipt
  <2>5. ASSUME NEW o \in Orders, NEW i \in Images, NEW r \in Refs,
               NEW x \in Surplus, VerifyReceipt(o, i, r, Price[o] + x)
        PROVE  UNCHANGED accessVars
    BY <2>5 DEF VerifyReceipt
  <2> QED
    BY <1>2, <2>1, <2>2, <2>3, <2>4, <2>5 DEF StaffNext
<1>3. CASE SweepNext
  BY <1>3 DEF SweepNext, SweepExpired, SweepHold, SweepSelect, SweepWrite,
      ExpireOrder, ReleaseHold
<1>4. CASE TimeNext
  BY <1>4 DEF TimeNext, OrderAges, HoldAges, PromoChanges, Restart,
      AccessNext, AroundNext
<1>5. CASE WorkerNext \/ AroundWorkers
  BY <1>5 DEF WorkerNext, AroundWorkers, AccessNext
<1>6. CASE UNCHANGED vars
  BY <1>6 DEF vars
<1> QED
  BY <1>1, <1>2, <1>3, <1>4, <1>5, <1>6 DEF Next, LedgerNext

(* The composed system implements the specification of paid access, so what is
   proved of access holds of the system. *)
THEOREM SystemImplementsAccess == Spec => AccessSpec
<1>1. Init => AccessInit
  BY DEF Init
<1> QED
  BY <1>1, OrdersInit, OrdersStep, StepIsAccessStep, PTL DEF Spec, AccessSpec

(* A refund, an expiry or a quota never leaves a customer with a live key that
   nobody is going to revoke, in the whole system. *)
THEOREM SystemClosesAccess ==
  ASSUME OneWorker, ~CleanupFails
  PROVE  Spec => [](ClosedKeyIsBeingRevoked /\ IssuedKeyExists /\ RevokedKeyIsGone)
BY SystemImplementsAccess, ClosedKeySafety, IssuedKeySafety, RevokedKeySafety, PTL

(* In the whole system, access is what was promised: a key is given once and
   works until its order is refunded, expires or runs out of quota, and only
   such an order ends without one. *)
THEOREM SystemKeepsPromise ==
  ASSUME OneWorker, ~CleanupFails
  PROVE  Spec => KeepsPromise
BY SystemImplementsAccess, AccessKeepsPromise, PTL

-----------------------------------------------------------------------------
(* Access is paid for *)

Accessed(o) == \/ sub[o] # "none" \/ key[o] # "none" \/ o \in remote
               \/ job[Prov(o)] # "none" \/ job[Rev(o)] # "none"

(* A worker holds only jobs that exist. *)
HeldExists == \A w \in Workers : step[w] # "idle" => job[task[w]] # "none"

PaidInv ==
  /\ TypeInv
  /\ HeldExists
  /\ ledger \in [Orders -> [Events -> Nat]]
  /\ verified \in [Orders -> Nat]
  /\ AccessIsPaid

(* Workers, time and operators open nothing for an order that had nothing. *)
LEMMA WorkersOpenNothing ==
  ASSUME TypeInv, HeldExists, PassNext \/ AroundNext
  PROVE  HeldExists' /\ \A o \in Orders : Accessed(o)' => Accessed(o)
<1> USE JobRows
    DEF TypeInv, AccessTypeOK, HeldJob, HeldExists, Accessed, OrderOf
<1> DEFINE Goal == HeldExists' /\ \A o \in Orders : Accessed(o)' => Accessed(o)
<1>1. ASSUME NEW p \in Orders, Expire(p) PROVE Goal
  BY <1>1 DEF Expire, QueueRevoke, workVars
<1>2. ASSUME NEW p \in Orders, EnforceQuota(p) PROVE Goal
  BY <1>2 DEF EnforceQuota, QueueRevoke, workVars
<1>3. ASSUME NEW p \in Orders, BecomesDue(p) PROVE Goal
  BY <1>3 DEF BecomesDue, workVars
<1>4. ASSUME NEW j \in Jobs, LockAges(j) PROVE Goal
  BY <1>4 DEF LockAges, workVars
<1>5. ASSUME NEW j \in Jobs, RetryJob(j) PROVE Goal
  BY <1>5 DEF RetryJob, workVars
<1>6. ASSUME NEW w \in Workers, WorkerCrash(w) PROVE Goal
  BY <1>6 DEF WorkerCrash, Rest, workVars
<1>7. ASSUME NEW w \in Workers, NEW j \in Jobs, Claim(w, j) PROVE Goal
  BY <1>7 DEF Claim, Reclaimed, workVars
<1>8. ASSUME NEW w \in Workers, ProvisionEnds(w) PROVE Goal
  BY <1>8 DEF ProvisionEnds, JobDone, Rest, Holds, workVars
<1>9. ASSUME NEW w \in Workers, ProvisionBegins(w) PROVE Goal
  BY <1>9 DEF ProvisionBegins, Advance, Holds, workVars
<1>10. ASSUME NEW w \in Workers, RemoteCreate(w) PROVE Goal
  BY <1>10 DEF RemoteCreate, Advance, workVars
<1>11. ASSUME NEW w \in Workers, RemoteCreateFails(w) PROVE Goal
  BY <1>11 DEF RemoteCreateFails, JobFailed, Rest, workVars
<1>12. ASSUME NEW w \in Workers, ProvisionCommits(w) PROVE Goal
  BY <1>12 DEF ProvisionCommits, Advance, workVars
<1>13. ASSUME NEW w \in Workers, ProvisionFails(w) PROVE Goal
  BY <1>13 DEF ProvisionFails, Undo, JobFailed, Rest, workVars
<1>14. ASSUME NEW w \in Workers, step[w] = "cleanup", CleanupDone(w) PROVE Goal
  BY <1>14 DEF CleanupDone, Rest, workVars
<1>15. ASSUME NEW w \in Workers, step[w] = "cleanup", CleanupRaises(w) PROVE Goal
  BY <1>15 DEF CleanupRaises, Undo, JobFailed, Rest, workVars
<1>16. ASSUME NEW w \in Workers, RevokeEnds(w) PROVE Goal
  BY <1>16 DEF RevokeEnds, JobDone, Rest, Holds, workVars
<1>17. ASSUME NEW w \in Workers, RevokeBegins(w) PROVE Goal
  BY <1>17 DEF RevokeBegins, Advance, Holds, workVars
<1>18. ASSUME NEW w \in Workers, RemoteDelete(w) PROVE Goal
  BY <1>18 DEF RemoteDelete, Advance, workVars
<1>19. ASSUME NEW w \in Workers, RemoteDeleteFails(w) PROVE Goal
  BY <1>19 DEF RemoteDeleteFails, JobFailed, Rest, workVars
<1>20. ASSUME NEW w \in Workers, RevokeCommits(w) PROVE Goal
  BY <1>20 DEF RevokeCommits, JobDone, Rest, workVars
<1>21. ASSUME NEW w \in Workers, RevokeFails(w) PROVE Goal
  BY <1>21 DEF RevokeFails, JobFailed, Rest, workVars
<1> QED
  BY <1>1, <1>2, <1>3, <1>4, <1>5, <1>6, <1>7, <1>8, <1>9, <1>10, <1>11, <1>12, <1>13, <1>14, <1>15, <1>16, <1>17, <1>18, <1>19, <1>20, <1>21
  DEF PassNext, AroundNext, WorkerStep, Cleanup

(* The worker's invariant holds when the bot starts: there is nothing to serve. *)
LEMMA PaidInit == Init => PaidInv
<1> SUFFICES ASSUME Init PROVE PaidInv
  OBVIOUS
<1>1. TypeInv
  BY TypeInit DEF Init
<1>2. ledger \in [Orders -> [Events -> Nat]] /\ verified \in [Orders -> Nat]
  BY DEF Init
<1>3. AccessIsPaid /\ HeldExists
  BY JobRows DEF Init, AccessInit, AccessIsPaid, HeldExists
<1> QED
  BY <1>1, <1>2, <1>3 DEF PaidInv

(* Posting another event does not touch what was captured. *)
LEMMA PostKeepsCapture ==
  ASSUME ledger \in [Orders -> [Events -> Nat]],
         NEW o \in Orders, NEW e \in Events \ {"capture"}, NEW amount \in Nat,
         Post(o, e, amount)
  PROVE  /\ ledger' \in [Orders -> [Events -> Nat]]
         /\ \A p \in Orders : ledger'[p]["capture"] = ledger[p]["capture"]
BY DEF Post, Events

(* A captured price stays captured, and nothing else is ever captured. *)
LEMMA CaptureIsKept ==
  ASSUME PaidInv, [Next]_vars
  PROVE  /\ ledger' \in [Orders -> [Events -> Nat]]
         /\ verified' \in [Orders -> Nat]
         /\ \A p \in Orders : \/ ledger'[p]["capture"] = ledger[p]["capture"]
                             \/ ledger'[p]["capture"] = Price[p]
<1> DEFINE Kept ==
      /\ ledger' \in [Orders -> [Events -> Nat]]
      /\ verified' \in [Orders -> Nat]
      /\ \A p \in Orders : \/ ledger'[p]["capture"] = ledger[p]["capture"]
                          \/ ledger'[p]["capture"] = Price[p]
<1> USE LedgerAssumption DEF PaidInv
<1>0. ASSUME UNCHANGED <<ledger, verified>> PROVE Kept
  BY <1>0
<1>1. ASSUME NEW o \in Orders, PayWithWallet(o) PROVE Kept
  BY <1>1 DEF PayWithWallet, Events, proofVars
<1>2. CASE CustomerNext
  <2>1. UNCHANGED <<ledger, verified>> \/ \E o \in Orders : PayWithWallet(o)
    BY <1>2 DEF CustomerNext, CreateOrder, CreateWalletTopup, Insert,
        ReplaceOpenOrder, CancelOrder, SubmitPayment, SubmitReceipt, RetryUpload,
        RecoverReceipt, UploadDone, UploadFails, proofVars, moneyVars
  <2> QED
    BY <1>0, <1>1, <2>1
<1>3. CASE StaffNext
  <2>1. ASSUME NEW o \in Orders, NEW i \in Images, NEW r \in Refs,
               NEW x \in Surplus, VerifyReceipt(o, i, r, Price[o] + x)
        PROVE  Kept
    BY <2>1 DEF VerifyReceipt, moneyVars
  <2>2. ASSUME NEW o \in Orders, NEW i \in Images, RejectReceipt(o, i)
        PROVE  Kept
    BY <2>2 DEF RejectReceipt, moneyVars
  <2>3. ASSUME NEW o \in Orders, ApproveTopup(o) PROVE Kept
    BY <2>3, PostKeepsCapture DEF ApproveTopup, proofVars, Events
  <2>4. ASSUME NEW o \in Orders, ApproveTransfer(o) PROVE Kept
    <3>1. verified' = verified
      BY <2>4 DEF ApproveTransfer, proofVars
    <3>2. PICK c \in Nat, d \in Nat :
            ledger' = [ledger EXCEPT ![o]["credit"] = @ + c,
                                     ![o]["reserve"] = @ + d,
                                     ![o]["capture"] = Price[o]]
      BY <2>4 DEF ApproveTransfer
    <3> QED
      BY <3>1, <3>2 DEF Events
  <2>5. ASSUME NEW o \in Orders, ApproveWallet(o) PROVE Kept
    BY <2>5 DEF ApproveWallet, proofVars, Events
  <2>6. ASSUME NEW o \in Orders, RejectOrder(o) PROVE Kept
    BY <2>6, PostKeepsCapture DEF RejectOrder, moneyVars, Events
  <2>7. ASSUME NEW o \in Orders, RefundOrder(o) PROVE Kept
    BY <2>7, PostKeepsCapture DEF RefundOrder, proofVars, Events
  <2> QED
    BY <1>3, <2>1, <2>2, <2>3, <2>4, <2>5, <2>6, <2>7 DEF StaffNext
<1>4. CASE SweepNext
  <2>1. ASSUME NEW o \in Orders, ReleaseHold(o) PROVE Kept
    BY <2>1, PostKeepsCapture DEF ReleaseHold, proofVars, Events
  <2>2. ASSUME NEW o \in Orders, ExpireOrder(o) PROVE Kept
    BY <2>2 DEF ExpireOrder, proofVars, moneyVars
  <2>3. ASSUME NEW k \in {"expire", "release"}, SweepSelect(k) PROVE Kept
    BY <2>3 DEF SweepSelect, orderVars, proofVars, moneyVars
  <2> QED
    BY <1>4, <2>1, <2>2, <2>3 DEF SweepNext, SweepExpired, SweepHold, SweepWrite
<1>5. CASE TimeNext \/ WorkerNext \/ AroundWorkers \/ UNCHANGED vars
  BY <1>0, <1>5 DEF TimeNext, OrderAges, HoldAges, PromoChanges, Restart,
      WorkerNext, AroundWorkers, vars, ledgerVars, orderVars, proofVars, moneyVars
<1> QED
  BY <1>2, <1>3, <1>4, <1>5 DEF Next, LedgerNext

(* Every step keeps access paid. *)
LEMMA PaidStep == OrdersInv /\ PaidInv /\ [Next]_vars => PaidInv'
<1> SUFFICES ASSUME OrdersInv, PaidInv, [Next]_vars PROVE PaidInv'
  OBVIOUS
<1>1. TypeInv'
  BY StepIsAccessStep, TypeStep DEF PaidInv
<1>2. /\ ledger' \in [Orders -> [Events -> Nat]]
      /\ verified' \in [Orders -> Nat]
      /\ \A p \in Orders : \/ ledger'[p]["capture"] = ledger[p]["capture"]
                          \/ ledger'[p]["capture"] = Price[p]
  BY CaptureIsKept
<1>3. ASSUME HeldExists', \A p \in Orders : Accessed(p)' => Accessed(p)
      PROVE  PaidInv'
  BY <1>1, <1>2, <1>3 DEF PaidInv, AccessIsPaid, Accessed
<1>4. ASSUME UNCHANGED accessVars PROVE PaidInv'
  BY <1>3, <1>4 DEF PaidInv, HeldExists, Accessed, accessVars, workVars
<1>5. ASSUME NEW o \in Orders, ApproveTransfer(o) \/ ApproveWallet(o)
      PROVE  PaidInv'
  <2>1. /\ OpenAccess(o) /\ o \notin Topups
        /\ ledger'[o]["capture"] = Price[o]
    BY <1>5 DEF ApproveTransfer, ApproveWallet, PaidInv, Events
  <2>2. HeldExists' /\ \A p \in Orders : Accessed(p)' => p = o \/ Accessed(p)
    BY <2>1, JobRows DEF OpenAccess, HeldExists, Accessed, workVars, PaidInv,
       TypeInv, AccessTypeOK, HeldJob
  <2> QED
    BY <1>1, <1>2, <2>1, <2>2 DEF PaidInv, AccessIsPaid, Accessed
<1>6. ASSUME NEW o \in Orders, RefundOrder(o) PROVE PaidInv'
  <2>1. CloseAccess(o)
    BY <1>6 DEF RefundOrder
  <2>2. HeldExists' /\ \A p \in Orders : Accessed(p)' => Accessed(p)
    BY <2>1, JobRows DEF CloseAccess, QueueRevoke, HeldExists, Accessed,
       workVars, PaidInv, TypeInv, AccessTypeOK, HeldJob
  <2> QED
    BY <1>3, <2>2
<1>7. CASE PassNext \/ AroundNext
  BY <1>3, <1>7, WorkersOpenNothing DEF PaidInv
<1>8. \/ UNCHANGED accessVars
      \/ PassNext \/ AroundNext
      \/ \E o \in Orders : ApproveTransfer(o) \/ ApproveWallet(o) \/ RefundOrder(o)
  <2>1. CASE CustomerNext
    BY <2>1 DEF CustomerNext, CreateOrder, CreateWalletTopup, Insert,
        ReplaceOpenOrder, CancelOrder, SubmitPayment, PayWithWallet,
        SubmitReceipt, RetryUpload, RecoverReceipt, UploadDone, UploadFails
  <2>2. CASE StaffNext
    BY <2>2 DEF StaffNext, VerifyReceipt, RejectReceipt, ApproveTopup, RejectOrder
  <2>3. CASE SweepNext
    BY <2>3 DEF SweepNext, SweepExpired, SweepHold, SweepSelect, SweepWrite,
        ExpireOrder, ReleaseHold
  <2>4. CASE TimeNext
    BY <2>4 DEF TimeNext, OrderAges, HoldAges, PromoChanges, Restart, AroundNext
  <2>5. CASE WorkerNext \/ AroundWorkers \/ UNCHANGED vars
    BY <2>5 DEF WorkerNext, AroundWorkers, vars
  <2> QED
    BY <2>1, <2>2, <2>3, <2>4, <2>5 DEF Next, LedgerNext
<1> QED
  BY <1>4, <1>5, <1>6, <1>7, <1>8

(* No key, subscription or job exists for an order whose price was not
   captured: with any number of workers, failed cleanups and crashes. *)
THEOREM AccessIsPaidSafety == Spec => []AccessIsPaid
<1>1. Init => OrdersInv /\ PaidInv
  BY OrdersInit, PaidInit
<1>2. OrdersInv /\ PaidInv /\ [Next]_vars => (OrdersInv /\ PaidInv)'
  BY OrdersStep, PaidStep
<1>3. PaidInv => AccessIsPaid
  BY DEF PaidInv
<1> QED
  BY <1>1, <1>2, <1>3, PTL DEF Spec
=============================================================================
