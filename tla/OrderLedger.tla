----------------------------- MODULE OrderLedger -----------------------------
(***************************************************************************)
(* Orders, payments, receipts and wallet money (commerce_service.py), over *)
(* the paid access an approval opens and a refund closes (PaidAccess).     *)
(*                                                                         *)
(* Two threads act.  The Telegram thread runs one handler at a time; each  *)
(* is one transaction and one step, except that submitting a receipt is a  *)
(* transaction, an upload and a second transaction.  The maintenance       *)
(* thread sweeps orders and holds past their 24 hours.  On SQLite a sweep  *)
(* is one transaction that excludes every other writer; on PostgreSQL its  *)
(* rows are selected without a lock and written later, so a handler can    *)
(* commit in between.  A sweep's rows are independent and are written one  *)
(* per step.                                                               *)
(***************************************************************************)
EXTENDS PaidAccess, Sequences, FiniteSetsExt

CONSTANTS
  Users,              \* customers
  Owner,              \* orders.telegram_id
  Topups,             \* orders whose plan_code is 'wallet_topup'
  Price,              \* orders.amount_minor
  Opening,            \* wallet balance each customer starts with
  PromoUsers,         \* customers who may win a promo key
  Images,             \* receipt images, identified by their hash
  Refs,               \* (provider, normalized reference) pairs
  Surplus,            \* by how much a verified amount may exceed the price
  Backend,            \* "sqlite" or "postgres"
  StorageConfigured,  \* receipt_storage.configured
  StorageRequired,    \* receipt_storage_required
  AllowText,          \* text references submitted and approvable
  RejectUnstored      \* staff also turn down receipts the review queue hides

ASSUME LedgerAssumption ==
  /\ Owner \in [Orders -> Users]
  /\ Topups \subseteq Orders
  /\ IsFiniteSet(Orders)
  /\ Price \in [Orders -> Nat \ {0}]
  /\ Opening \in [Users -> Nat]
  /\ PromoUsers \subseteq Users
  /\ Surplus \subseteq Nat
  /\ Backend \in {"sqlite", "postgres"}
  /\ {StorageConfigured, StorageRequired, AllowText, RejectUnstored}
       \subseteq BOOLEAN

VARIABLES
  status,     \* orders.status, "none" before the order exists
  payments,   \* rows of payments per order, oldest first
  newest,     \* image of the order's newest receipt, or NoImage
  storage,    \* payment_evidence.storage_status, "absent" without a row
  review,     \* payment_evidence.review_status
  verified,   \* amount of the order's verified receipt, 0 without one
  hold,       \* wallet_reservations.status, "none" without a row
  ledger,     \* amount of each wallet_ledger event of an order, 0 without one
  balance,    \* wallets.balance_minor
  promo,      \* customers with an active promo key
  aged,       \* orders created more than 24 hours ago
  holdAged,   \* orders whose hold was made more than 24 hours ago
  upload,     \* the receipt the Telegram thread is uploading, or NoUpload
  sweep       \* rows a PostgreSQL sweep selected and has not written yet

moneyVars  == <<hold, ledger, balance>>
proofVars  == <<newest, storage, review, verified>>
orderVars  == <<status, payments, proofVars, moneyVars>>
aroundVars == <<promo, aged, holdAged, upload, sweep>>
ledgerVars == <<orderVars, aroundVars>>
vars       == <<accessVars, ledgerVars>>

NoImage  == "no image"
NoUpload == <<"no order", NoImage>>
NoSweep  == [kind |-> "none", rows |-> {}]

ASSUME ImageAssumption == NoImage \notin Images   \* a hash is never that

Open        == {"awaiting_payment", "payment_submitted"}
OrderStatus == Open \cup {"none", "approved", "rejected", "cancelled"}
PayStatus   == {"submitted", "verified", "rejected", "refunded"}
WalletRef   == "wallet reference"   \* wallet:<order id>, never another row's
Payment     == [wallet : BOOLEAN, ref : Refs \cup {WalletRef}, status : PayStatus]
Events      == {"credit", "reserve", "capture", "release", "reversal"}

LedgerTypeOK ==
  /\ status \in [Orders -> OrderStatus]
  /\ payments \in [Orders -> Seq(Payment)]
  /\ newest \in [Orders -> Images \cup {NoImage}]
  /\ storage \in [Orders -> [Images ->
       {"absent", "not_configured", "pending", "stored", "failed"}]]
  /\ review \in [Orders -> [Images -> {"pending", "verified", "rejected"}]]
  /\ verified \in [Orders -> Nat]
  /\ hold \in [Orders -> {"none", "reserved", "captured", "released"}]
  /\ ledger \in [Orders -> [Events -> Nat]]
  /\ balance \in [Users -> Nat]
  /\ promo \subseteq Users
  /\ aged \subseteq Orders
  /\ holdAged \subseteq Orders
  /\ upload \in (Orders \X Images) \cup {NoUpload}
  /\ sweep \in [kind : {"none", "expire", "release"}, rows : SUBSET Orders]

TypeOK == AccessTypeOK /\ LedgerTypeOK

Init ==
  /\ AccessInit
  /\ status = [o \in Orders |-> "none"]
  /\ payments = [o \in Orders |-> <<>>]
  /\ newest = [o \in Orders |-> NoImage]
  /\ storage = [o \in Orders |-> [i \in Images |-> "absent"]]
  /\ review = [o \in Orders |-> [i \in Images |-> "pending"]]
  /\ verified = [o \in Orders |-> 0]
  /\ hold = [o \in Orders |-> "none"]
  /\ ledger = [o \in Orders |-> [e \in Events |-> 0]]
  /\ balance = Opening
  /\ promo = {}
  /\ aged = {}
  /\ holdAged = {}
  /\ upload = NoUpload
  /\ sweep = NoSweep

-----------------------------------------------------------------------------
(* Reading the tables *)

Ready == upload = NoUpload          \* the Telegram thread can take an update

IsOpen(o) == status[o] \in Open
OpenOrders_Awaiting(u) ==      \* mutant: a submitted payment hides the order
  {o \in Orders : Owner[o] = u /\ status[o] = "awaiting_payment"}
OpenOrders(u) == {o \in Orders : Owner[o] = u /\ IsOpen(o) /\ o \notin refunded}

(* No payment row and no receipt: the order was never touched. *)
Untouched(o) == payments[o] = <<>> /\ newest[o] = NoImage

Live(o) == {n \in DOMAIN payments[o] :
              payments[o][n].status \in {"submitted", "verified"}}
LatestLive(o) == CHOOSE n \in Live(o) : \A k \in Live(o) : k <= n

HasReceipt(o) == newest[o] # NoImage
NewestReview(o) == review[o][newest[o]]

NoReceiptPending_Unread(o) ==      \* mutant: an unread receipt is not in the way
  HasReceipt(o) => NewestReview(o) # "verified"

(* The customer's newest receipt, if any, was turned down. *)
NoReceiptPending(o) == HasReceipt(o) => NewestReview(o) = "rejected"

(* UNIQUE (provider, reference): no row but o's n-th carries r. *)
RefFree(o, n, r) ==
  \A p \in Orders : \A k \in DOMAIN payments[p] :
    payments[p][k].ref = r => p = o /\ k = n

(* _assert_no_active_promo, for anything but a top-up *)
NoPromo(o) == o \in Topups \/ Owner[o] \notin promo

(* UPDATE payments SET status = to WHERE order and status IN from *)
Marked(rows, from, to) ==
  [n \in DOMAIN rows |-> IF rows[n].status \in from
                           THEN [rows[n] EXCEPT !.status = to] ELSE rows[n]]

SetStatus(o, s) == status' = [status EXCEPT ![o] = s]

Post_Again(o, e, amount) ==        \* mutant: the wallet is credited regardless
  /\ balance' = [balance EXCEPT ![Owner[o]] = @ + amount]
  /\ ledger' = [ledger EXCEPT ![o][e] = IF @ = 0 THEN amount ELSE @]

(* Add amount to the customer's wallet under event e of the order, unless the
   ledger already has that event: its idempotency key is kind and order (for a
   credit, kind and payment; one payment of an order is ever credited). *)
Post(o, e, amount) ==
  IF ledger[o][e] = 0
    THEN /\ balance' = [balance EXCEPT ![Owner[o]] = @ + amount]
         /\ ledger' = [ledger EXCEPT ![o][e] = amount]
    ELSE UNCHANGED <<balance, ledger>>

-----------------------------------------------------------------------------
(* Opening and closing orders *)

Insert(o) ==
  /\ Ready
  /\ status[o] = "none"
  /\ OpenOrders(Owner[o]) = {}
  /\ SetStatus(o, "awaiting_payment")
  /\ UNCHANGED <<accessVars, payments, proofVars, moneyVars, aroundVars>>

(* create_order; with an open order it returns that one instead *)
CreateOrder(o) == o \notin Topups /\ Owner[o] \notin promo /\ Insert(o)

(* create_wallet_topup *)
CreateWalletTopup(o) == o \in Topups /\ Insert(o)

(* replace_open_order, with a plan other than the open order's *)
ReplaceOpenOrder(old, new) ==
  /\ Ready
  /\ new \notin Topups
  /\ Owner[new] = Owner[old]
  /\ Owner[old] \notin promo
  /\ status[new] = "none"
  /\ old \in OpenOrders(Owner[old])
  /\ Untouched(old)
  /\ status' = [status EXCEPT ![old] = "cancelled", ![new] = "awaiting_payment"]
  /\ UNCHANGED <<accessVars, payments, proofVars, moneyVars, aroundVars>>

CancelOrder_Touched(o) ==          \* mutant: payments and receipts are not looked at
  /\ Ready
  /\ IsOpen(o)
  /\ SetStatus(o, "cancelled")
  /\ UNCHANGED <<accessVars, payments, proofVars, moneyVars, aroundVars>>

(* cancel_order *)
CancelOrder(o) ==
  /\ Ready
  /\ IsOpen(o)
  /\ Untouched(o)
  /\ SetStatus(o, "cancelled")
  /\ UNCHANGED <<accessVars, payments, proofVars, moneyVars, aroundVars>>

-----------------------------------------------------------------------------
(* Paying *)

(* submit_payment: a text reference, only as the order's first payment *)
SubmitPayment(o, r) ==
  /\ Ready
  /\ AllowText
  /\ NoPromo(o)
  /\ IsOpen(o)
  /\ payments[o] = <<>>
  /\ RefFree(o, 1, r)
  /\ payments' = [payments EXCEPT ![o] =
       Append(@, [wallet |-> FALSE, ref |-> r, status |-> "submitted"])]
  /\ SetStatus(o, "payment_submitted")
  /\ UNCHANGED <<accessVars, proofVars, moneyVars, aroundVars>>

(* pay_order_with_wallet *)
PayWithWallet(o) ==
  /\ Ready
  /\ o \notin Topups
  /\ NoPromo(o)
  /\ IsOpen(o)
  /\ NoReceiptPending(o)
  /\ \A n \in Live(o) : payments[o][n].wallet
  /\ ledger[o]["reserve"] = 0
  /\ balance[Owner[o]] >= Price[o]
  /\ balance' = [balance EXCEPT ![Owner[o]] = @ - Price[o]]
  /\ ledger' = [ledger EXCEPT ![o]["reserve"] = Price[o]]
  /\ hold' = [hold EXCEPT ![o] = "reserved"]
  /\ payments' = [payments EXCEPT ![o] =
       Append(@, [wallet |-> TRUE, ref |-> WalletRef, status |-> "submitted"])]
  /\ SetStatus(o, "payment_submitted")
  /\ UNCHANGED <<accessVars, proofVars, aroundVars>>

-----------------------------------------------------------------------------
(* submit_receipt *)

(* What every submission checks first. *)
ReceiptAccepted(o, i) ==
  /\ Ready
  /\ StorageRequired => StorageConfigured
  /\ NoPromo(o)
  /\ IsOpen(o)
  /\ \A p \in Orders \ {o} : storage[p][i] = "absent"

StorageReady(s) == s = "stored" \/ (~StorageConfigured /\ s = "not_configured")

(* First transaction, for an image the order has not seen. *)
SubmitReceipt(o, i) ==
  /\ ReceiptAccepted(o, i)
  /\ storage[o][i] = "absent"
  /\ NoReceiptPending(o)
  /\ \A n \in DOMAIN payments[o] :
       ~payments[o][n].wallet /\ payments[o][n].status = "rejected"
  /\ storage' = [storage EXCEPT ![o][i] =
                   IF StorageConfigured THEN "pending" ELSE "not_configured"]
  /\ newest' = [newest EXCEPT ![o] = i]
  /\ upload' = <<o, i>>
  /\ UNCHANGED <<accessVars, status, payments, review, verified, moneyVars,
                 promo, aged, holdAged, sweep>>

(* The same image again, after its upload failed or was cut short. *)
RetryUpload(o, i) ==
  /\ ReceiptAccepted(o, i)
  /\ storage[o][i] # "absent"
  /\ ~StorageReady(storage[o][i])
  /\ storage' = [storage EXCEPT ![o][i] = "pending"]
  /\ upload' = <<o, i>>
  /\ UNCHANGED <<accessVars, status, payments, newest, review, verified,
                 moneyVars, promo, aged, holdAged, sweep>>

(* The same image again although it is stored: the order catches up. *)
RecoverReceipt(o, i) ==
  /\ ReceiptAccepted(o, i)
  /\ StorageReady(storage[o][i])
  /\ status[o] = "awaiting_payment"
  /\ SetStatus(o, "payment_submitted")
  /\ UNCHANGED <<accessVars, payments, proofVars, moneyVars, aroundVars>>

(* Second transaction: it looks at nothing it read before the upload. *)
UploadDone ==
  /\ ~Ready
  /\ LET o == upload[1]
         i == upload[2]
     IN  /\ storage' = [storage EXCEPT ![o][i] =
                          IF StorageConfigured THEN "stored" ELSE @]
         /\ SetStatus(o, "payment_submitted")
  /\ upload' = NoUpload
  /\ UNCHANGED <<accessVars, payments, newest, review, verified, moneyVars,
                 promo, aged, holdAged, sweep>>

(* The upload, or a write after it, raises. *)
UploadFails ==
  /\ ~Ready
  /\ LET o == upload[1]
         i == upload[2]
     IN  \E s \in {storage[o][i]} \cup (IF StorageConfigured THEN {"failed"} ELSE {}) :
           storage' = [storage EXCEPT ![o][i] = s]
  /\ upload' = NoUpload
  /\ UNCHANGED <<accessVars, status, payments, newest, review, verified,
                 moneyVars, promo, aged, holdAged, sweep>>

-----------------------------------------------------------------------------
(* Staff review *)

(* verify_receipt: staff saw v for reference r on the receiving account *)
VerifyReceipt(o, i, r, v) ==
  /\ Ready
  /\ storage[o][i] # "absent"
  /\ StorageRequired => storage[o][i] = "stored"
  /\ review[o][i] = "pending"
  /\ IsOpen(o)
  /\ v >= Price[o]
  /\ o \in Topups => v = Price[o]
  /\ LET n == IF Live(o) # {} THEN LatestLive(o) ELSE Len(payments[o]) + 1
         row == [wallet |-> FALSE, ref |-> r, status |-> "verified"]
     IN  /\ RefFree(o, n, r)
         /\ payments' = [payments EXCEPT ![o] =
              IF Live(o) # {} THEN [@ EXCEPT ![n] = row] ELSE Append(@, row)]
  /\ review' = [review EXCEPT ![o][i] = "verified"]
  /\ verified' = [verified EXCEPT ![o] = v]
  /\ SetStatus(o, "payment_submitted")
  /\ UNCHANGED <<accessVars, newest, storage, moneyVars, aroundVars>>

InReviewQueue_All(o, i) == storage[o][i] # "absent"   \* mutant: failed uploads too

(* list_pending_receipts: only receipts whose file staff can open *)
InReviewQueue(o, i) == storage[o][i] \in {"stored", "not_configured"}

RejectReceipt_Decided(o, i) ==     \* mutant: a verified receipt can be turned down
  /\ Ready
  /\ storage[o][i] # "absent"
  /\ RejectUnstored \/ InReviewQueue(o, i)
  /\ review[o][i] # "rejected"
  /\ review' = [review EXCEPT ![o][i] = "rejected"]
  /\ payments' = [payments EXCEPT ![o] = Marked(@, {"submitted"}, "rejected")]
  /\ UNCHANGED <<accessVars, status, newest, storage, verified, moneyVars,
                 aroundVars>>

(* reject_receipt: the order stays open for another one.  The code takes any
   receipt, and the order's own panel offers those the queue hides. *)
RejectReceipt(o, i) ==
  /\ Ready
  /\ storage[o][i] # "absent"
  /\ RejectUnstored \/ InReviewQueue(o, i)
  /\ review[o][i] = "pending"
  /\ review' = [review EXCEPT ![o][i] = "rejected"]
  /\ payments' = [payments EXCEPT ![o] = Marked(@, {"submitted"}, "rejected")]
  /\ UNCHANGED <<accessVars, status, newest, storage, verified, moneyVars,
                 aroundVars>>

(* approve_order's checks, in the order the code makes them *)
CanApprove(o) ==
  /\ NoPromo(o)
  /\ status[o] = "payment_submitted"
  /\ HasReceipt(o) => NewestReview(o) = "verified" \/ hold[o] = "reserved"
  /\ HasReceipt(o) /\ StorageRequired => storage[o][newest[o]] = "stored"
  /\ Live(o) # {}
  /\ LET row == payments[o][LatestLive(o)]
     IN  /\ HasReceipt(o) => row.status = "verified"
         /\ row.wallet => hold[o] = "reserved"
         /\ HasReceipt(o) \/ row.wallet \/ AllowText
         /\ ~(HasReceipt(o) /\ row.wallet)

ApproveTopup_NoCredit(o) ==        \* mutant: approved, not credited
  /\ Ready
  /\ o \in Topups
  /\ CanApprove(o)
  /\ SetStatus(o, "approved")
  /\ UNCHANGED <<accessVars, payments, proofVars, moneyVars, aroundVars>>

ApproveTopup_FallsThrough(o) ==    \* mutant: no early return for a top-up
  /\ Ready
  /\ o \in Topups
  /\ CanApprove(o)
  /\ Post(o, "credit", Price[o])
  /\ SetStatus(o, "approved")
  /\ OpenAccess(o)
  /\ UNCHANGED <<payments, proofVars, hold, aroundVars>>

(* A top-up credits the wallet and opens no access. *)
ApproveTopup(o) ==
  /\ Ready
  /\ o \in Topups
  /\ CanApprove(o)
  /\ HasReceipt(o) /\ NewestReview(o) = "verified"
  /\ verified[o] = Price[o]
  /\ Post(o, "credit", Price[o])
  /\ SetStatus(o, "approved")
  /\ UNCHANGED <<accessVars, payments, proofVars, hold, aroundVars>>

(* A plan paid by transfer: the verified amount is credited, the price is
   reserved and captured; what was paid too much stays in the wallet. *)
ApproveTransfer(o) ==
  /\ Ready
  /\ o \notin Topups
  /\ CanApprove(o)
  /\ ~payments[o][LatestLive(o)].wallet
  /\ LET paid    == IF HasReceipt(o) THEN verified[o] ELSE Price[o]
         credit  == IF ledger[o]["credit"] = 0 THEN paid ELSE 0
         reserve == IF ledger[o]["reserve"] = 0 THEN Price[o] ELSE 0
     IN  /\ balance[Owner[o]] + credit >= reserve
         /\ balance' = [balance EXCEPT ![Owner[o]] = @ + credit - reserve]
         /\ ledger' = [ledger EXCEPT ![o]["credit"] = @ + credit,
                                     ![o]["reserve"] = @ + reserve,
                                     ![o]["capture"] = Price[o]]
  /\ hold' = [hold EXCEPT ![o] = "captured"]
  /\ payments' = [payments EXCEPT ![o][LatestLive(o)].status = "verified"]
  /\ SetStatus(o, "approved")
  /\ OpenAccess(o)
  /\ UNCHANGED <<proofVars, aroundVars>>

(* A plan paid from the wallet: the hold is captured. *)
ApproveWallet(o) ==
  /\ Ready
  /\ o \notin Topups
  /\ CanApprove(o)
  /\ payments[o][LatestLive(o)].wallet
  /\ ledger' = [ledger EXCEPT ![o]["capture"] = Price[o]]
  /\ hold' = [hold EXCEPT ![o] = "captured"]
  /\ payments' = [payments EXCEPT ![o][LatestLive(o)].status = "verified"]
  /\ SetStatus(o, "approved")
  /\ OpenAccess(o)
  /\ UNCHANGED <<proofVars, balance, aroundVars>>

RejectOrder_AnyPayment(o) ==       \* mutant: releases although nothing was reserved
  /\ Ready
  /\ status[o] \in Open \cup {"cancelled"}
  /\ \A n \in DOMAIN payments[o] : payments[o][n].status # "verified"
  /\ \A i \in Images : review[o][i] # "verified"
  /\ SetStatus(o, "rejected")
  /\ payments' = [payments EXCEPT ![o] = Marked(@, {"submitted"}, "rejected")]
  /\ IF payments[o] # <<>>
       THEN Post(o, "release", Price[o]) /\ hold' = [hold EXCEPT ![o] = "released"]
       ELSE UNCHANGED moneyVars
  /\ review' = [review EXCEPT ![o] =
       [i \in Images |-> IF storage[o][i] # "absent" /\ @[i] = "pending"
                           THEN "rejected" ELSE @[i]]]
  /\ UNCHANGED <<accessVars, newest, storage, verified, aroundVars>>

(* reject_order *)
RejectOrder(o) ==
  /\ Ready
  /\ status[o] \in Open \cup {"cancelled"}
  /\ \A n \in DOMAIN payments[o] : payments[o][n].status # "verified"
  /\ \A i \in Images : review[o][i] # "verified"
  /\ SetStatus(o, "rejected")
  /\ payments' = [payments EXCEPT ![o] = Marked(@, {"submitted"}, "rejected")]
  /\ IF payments[o] # <<>> /\ payments[o][Len(payments[o])].wallet
           /\ ledger[o]["release"] = 0
       THEN Post(o, "release", Price[o]) /\ hold' = [hold EXCEPT ![o] = "released"]
       ELSE UNCHANGED moneyVars
  /\ review' = [review EXCEPT ![o] =
       [i \in Images |-> IF storage[o][i] # "absent" /\ @[i] = "pending"
                           THEN "rejected" ELSE @[i]]]
  /\ UNCHANGED <<accessVars, newest, storage, verified, aroundVars>>

(* refund_order: what was paid comes back as wallet credit *)
RefundOrder(o) ==
  /\ Ready
  /\ o \notin Topups
  /\ Live(o) # {}
  /\ LET row == payments[o][LatestLive(o)]
         amount == IF ~row.wallet /\ verified[o] > Price[o]
                     THEN verified[o] ELSE Price[o]
     IN  row.status = "verified" /\ Post(o, "reversal", amount)
  /\ payments' = [payments EXCEPT ![o] =
                    Marked(@, {"submitted", "verified"}, "refunded")]
  /\ SetStatus(o, IF status[o] = "approved" THEN "approved" ELSE "rejected")
  /\ CloseAccess(o)
  /\ UNCHANGED <<proofVars, hold, aroundVars>>

-----------------------------------------------------------------------------
(* Sweeps *)

ExpireRows_IgnoreReceipts ==       \* mutant: only payments are looked at
  {o \in aged : status[o] = "awaiting_payment" /\ payments[o] = <<>>}

ExpireRows_Touched ==              \* mutant: EXISTS for NOT EXISTS
  {o \in aged : status[o] = "awaiting_payment" /\ ~Untouched(o)}

(* expire_open_orders: what it selects, and what it does to a selected row *)
ExpireRows == {o \in aged : status[o] = "awaiting_payment" /\ Untouched(o)}

ExpireOrder_OwnStatus(o) ==        \* mutant: a status the schema does not know
  /\ SetStatus(o, "expired")
  /\ UNCHANGED <<accessVars, payments, proofVars, moneyVars, promo, aged,
                 holdAged, upload>>

ExpireOrder(o) ==
  /\ SetStatus(o, "cancelled")
  /\ UNCHANGED <<accessVars, payments, proofVars, moneyVars, promo, aged,
                 holdAged, upload>>

ReleaseRows_Any == holdAged        \* mutant: whatever became of the hold

ReleaseRows_Awaiting ==            \* mutant: the wrong order status
  {o \in holdAged : hold[o] = "reserved" /\ status[o] = "awaiting_payment"}

(* release_expired_wallet_reservations *)
ReleaseRows == {o \in holdAged : hold[o] = "reserved"
                                   /\ status[o] = "payment_submitted"}

ReleaseHold(o) ==
  /\ Post(o, "release", Price[o])
  /\ hold' = [hold EXCEPT ![o] = "released"]
  /\ payments' = [payments EXCEPT ![o] =
       [n \in DOMAIN @ |-> IF @[n].wallet /\ @[n].status = "submitted"
                             THEN [@[n] EXCEPT !.status = "rejected"] ELSE @[n]]]
  /\ SetStatus(o, IF status[o] = "payment_submitted" THEN "cancelled"
                                                     ELSE status[o])
  /\ UNCHANGED <<accessVars, proofVars, promo, aged, holdAged, upload>>

(* On SQLite selecting and writing exclude every other writer. *)
SweepExpired(o) ==
  /\ Backend = "sqlite"
  /\ Resting
  /\ o \in ExpireRows
  /\ ExpireOrder(o)
  /\ UNCHANGED sweep

SweepHold(o) ==
  /\ Backend = "sqlite"
  /\ Resting
  /\ o \in ReleaseRows
  /\ ReleaseHold(o)
  /\ UNCHANGED sweep

(* On PostgreSQL (READ COMMITTED, no row lock) they are two moments. *)
SweepSelect(k) ==
  /\ Backend = "postgres"
  /\ Resting
  /\ sweep = NoSweep
  /\ LET rows == IF k = "expire" THEN ExpireRows ELSE ReleaseRows
     IN  rows # {} /\ sweep' = [kind |-> k, rows |-> rows]
  /\ UNCHANGED <<accessVars, orderVars, promo, aged, holdAged, upload>>

SweepWrite(o) ==
  /\ o \in sweep.rows
  /\ IF sweep.kind = "expire" THEN ExpireOrder(o) ELSE ReleaseHold(o)
  /\ sweep' = IF sweep.rows = {o} THEN NoSweep
                                  ELSE [sweep EXCEPT !.rows = @ \ {o}]

-----------------------------------------------------------------------------
(* Around them: time, promo campaigns (entitlements.py) and the process *)

OrderAges(o) ==
  /\ status[o] = "awaiting_payment"
  /\ o \notin aged
  /\ aged' = aged \cup {o}
  /\ UNCHANGED <<accessVars, orderVars, promo, holdAged, upload, sweep>>

HoldAges(o) ==
  /\ hold[o] = "reserved"
  /\ o \notin holdAged
  /\ holdAged' = holdAged \cup {o}
  /\ UNCHANGED <<accessVars, orderVars, promo, aged, upload, sweep>>

PromoChanges(u) ==
  /\ promo' \in {promo \cup {u}, promo \ {u}}
  /\ promo' # promo
  /\ UNCHANGED <<accessVars, orderVars, aged, holdAged, upload, sweep>>

(* The process restarts: an upload and an uncommitted sweep are lost, and so
   is the job its worker had in hand. *)
Restart ==
  /\ ~Ready \/ sweep # NoSweep
  /\ \E w \in Workers : WorkerCrash(w)
  /\ upload' = NoUpload
  /\ sweep' = NoSweep
  /\ UNCHANGED <<orderVars, promo, aged, holdAged>>

CustomerNext ==
  \/ \E o \in Orders : CreateOrder(o)
  \/ \E o \in Orders : CreateWalletTopup(o)
  \/ \E old, new \in Orders : ReplaceOpenOrder(old, new)
  \/ \E o \in Orders : CancelOrder(o)
  \/ \E o \in Orders, r \in Refs : SubmitPayment(o, r)
  \/ \E o \in Orders : PayWithWallet(o)
  \/ \E o \in Orders, i \in Images : SubmitReceipt(o, i)
  \/ \E o \in Orders, i \in Images : RetryUpload(o, i)
  \/ \E o \in Orders, i \in Images : RecoverReceipt(o, i)
  \/ UploadDone
  \/ UploadFails

StaffNext ==
  \/ \E o \in Orders, i \in Images, r \in Refs, x \in Surplus :
       VerifyReceipt(o, i, r, Price[o] + x)
  \/ \E o \in Orders, i \in Images : RejectReceipt(o, i)
  \/ \E o \in Orders : ApproveTopup(o)
  \/ \E o \in Orders : ApproveTransfer(o)
  \/ \E o \in Orders : ApproveWallet(o)
  \/ \E o \in Orders : RejectOrder(o)
  \/ \E o \in Orders : RefundOrder(o)

SweepNext ==
  \/ \E o \in Orders : SweepExpired(o)
  \/ \E o \in Orders : SweepHold(o)
  \/ \E k \in {"expire", "release"} : SweepSelect(k)
  \/ \E o \in Orders : SweepWrite(o)

TimeNext ==
  \/ \E o \in Orders : OrderAges(o)
  \/ \E o \in Orders : HoldAges(o)
  \/ \E u \in PromoUsers : PromoChanges(u)
  \/ Restart

LedgerNext == CustomerNext \/ StaffNext \/ SweepNext \/ TimeNext

(* The worker and the sweeps are one thread: no job while a sweep is open. *)
WorkerNext ==
  /\ sweep = NoSweep
  /\ PassNext
  /\ UNCHANGED ledgerVars

AroundWorkers == AroundNext /\ UNCHANGED ledgerVars

Next == LedgerNext \/ WorkerNext \/ AroundWorkers

Spec == Init /\ [][Next]_vars

(* Orders and money alone: what the workers do is left out. *)
LedgerSpec == Init /\ [][LedgerNext]_vars

(* The maintenance pass runs every interval, so time passes and the sweep of
   a due row happens; nothing is assumed of customers or staff. *)
SweepFairness ==
  \A o \in Orders :
    /\ WF_vars(OrderAges(o)) /\ WF_vars(HoldAges(o))
    /\ WF_vars(SweepExpired(o)) /\ WF_vars(SweepHold(o))

FairLedgerSpec == LedgerSpec /\ SweepFairness

-----------------------------------------------------------------------------
(* Properties *)

(* A customer never has two open orders, through creation, replacement,
   receipts, rejections and sweeps (README: repeated requests return the open
   order). *)
OneOpenOrder ==
  \A o, p \in Orders :
    IsOpen(o) /\ IsOpen(p) /\ Owner[o] = Owner[p] => o = p

(* The wallet shows exactly what the ledger says: what consistency_report
   looks for as wallet_balance_mismatches never happens. *)
Gain(o) == ledger[o]["credit"] + ledger[o]["release"] + ledger[o]["reversal"]
Spent(o) == ledger[o]["reserve"]
WalletMatchesLedger ==
  \A u \in Users :
    LET mine == {o \in Orders : Owner[o] = u}
    IN  balance[u] + MapThenSumSet(Spent, mine)
          = Opening[u] + MapThenSumSet(Gain, mine)

(* Wallet money put on hold is settled at most once and its reservation row
   says how: a capture or a release, of exactly what was reserved. *)
HoldSettlesOnce ==
  \A o \in Orders :
    /\ ledger[o]["capture"] = 0 \/ ledger[o]["release"] = 0
    /\ ledger[o]["capture"] + ledger[o]["release"]
         = IF hold[o] \in {"captured", "released"} THEN ledger[o]["reserve"] ELSE 0
    /\ hold[o] = "captured" <=> ledger[o]["capture"] > 0
    /\ hold[o] = "released" <=> ledger[o]["release"] > 0
    /\ hold[o] # "none"     <=> ledger[o]["reserve"] > 0

(* Money on hold always belongs to an order staff can still decide, with the
   wallet payment that goes with it and no receipt competing with it. *)
HoldIsUnderReview ==
  \A o \in Orders : hold[o] = "reserved" =>
    /\ status[o] = "payment_submitted"
    /\ \E n \in Live(o) : payments[o][n].wallet
    /\ NoReceiptPending(o)

(* An approved order was paid for: a plan by a captured reservation and its
   subscription opened, a top-up by its exact credit and no subscription. *)
ApprovedIsFunded ==
  \A o \in Orders : status[o] = "approved" =>
    IF o \in Topups
      THEN ledger[o]["credit"] = Price[o] /\ sub[o] = "none" /\ hold[o] = "none"
      ELSE ledger[o]["capture"] = Price[o] /\ sub[o] # "none"

(* Access exists only for plans that were paid: no subscription, no key, local
   or on the server, and no job for any order whose price was not captured. *)
AccessIsPaid ==
  \A o \in Orders :
    sub[o] # "none" \/ key[o] # "none" \/ o \in remote
      \/ job[Prov(o)] # "none" \/ job[Rev(o)] # "none"
        => o \notin Topups /\ ledger[o]["capture"] = Price[o]

(* Money a customer sent for the order, as verified by staff. *)
Paid(o) == IF verified[o] > 0 THEN verified[o]
           ELSE IF \E n \in DOMAIN payments[o] :
                     /\ ~payments[o][n].wallet
                     /\ payments[o][n].status \in {"verified", "refunded"}
             THEN Price[o] ELSE 0

(* What the customer holds for the order: the plan, while bought. *)
Goods(o) == IF status[o] = "approved" /\ o \notin Topups /\ o \notin refunded
              THEN Price[o] ELSE 0

(* Refund "reverses wallet value exactly once": wallet movements and goods of
   an order together are never worth more than was paid for it. *)
NoFreeValue ==
  \A o \in Orders : Gain(o) + Goods(o) <= Paid(o) + Spent(o)

(* The same while no order was both overpaid and refunded. *)
NoFreeValueUnlessOverpaid ==
  \A o \in Orders :
    ~(o \in refunded /\ verified[o] > Price[o])
      => Gain(o) + Goods(o) <= Paid(o) + Spent(o)

(* What a late sweep gave back of a price that was also captured, and what a
   refund returned although approval had left it in the wallet. *)
SettledTwice(o) == IF ledger[o]["capture"] > 0 /\ ledger[o]["release"] > 0
                     THEN Price[o] ELSE 0
Overpaid(o) == IF o \in refunded /\ verified[o] > Price[o]
                 THEN verified[o] - Price[o] ELSE 0

(* consistency_report looks for wallets that do not add up: an order is worth
   more than was paid for it in no other way than these two, each at most once,
   on either database and whatever is retried, rejected or refunded. *)
LossIsBounded ==
  \A o \in Orders :
    Gain(o) + Goods(o) <= Paid(o) + Spent(o) + SettledTwice(o) + Overpaid(o)

(* Only the newest receipt of an order can be awaiting review or verified, and
   no image serves two orders. *)
OneReceiptCounts ==
  \A o \in Orders, i \in Images : storage[o][i] # "absent" =>
    /\ review[o][i] # "rejected" => newest[o] = i
    /\ \A p \in Orders \ {o} : storage[p][i] = "absent"

(* "Orders with payment activity remain protected for staff review": a step
   cancels such an order only by giving its expired hold back. *)
ActivityIsProtected ==
  [][\A o \in Orders :
       ~Untouched(o) /\ status[o] # "cancelled" /\ status'[o] = "cancelled"
         => hold[o] = "reserved" /\ hold'[o] = "released"]_vars

(* What was decided stands: staff's answers to a receipt and to an order, the
   amount they verified and every wallet movement on record are never rewritten,
   however often a tap is repeated or an upload ends late.  A sweep may only
   overtake the decision about a row it has selected. *)
DecisionsStand ==
  [][\A o \in Orders :
       /\ \A e \in Events : ledger[o][e] > 0 => ledger'[o][e] = ledger[o][e]
       /\ \A i \in Images : review[o][i] # "pending" => review'[o][i] = review[o][i]
       /\ verified[o] > 0 => verified'[o] = verified[o]
       /\ status[o] \in {"approved", "rejected"} /\ o \notin sweep.rows
            => status'[o] = status[o]]_vars

(* "Approval requires verified evidence or an already reserved wallet
   payment": an order that waits on a hold can be approved. *)
ReservedWalletIsApprovable ==
  \A o \in Orders : hold[o] = "reserved" /\ NoPromo(o) => CanApprove(o)

(* The order service keeps the promise of OrderLifecycle. *)
StageOf(o) ==
  IF o \in refunded THEN "refunded"
  ELSE CASE status[o] = "none"                      -> "none"
         [] status[o] = "approved"                  -> "fulfilled"
         [] status[o] \in {"rejected", "cancelled"} -> "closed"
         [] IsOpen(o) /\ hold[o] = "reserved"       -> "held"
         [] OTHER                                   -> "open"

Lifecycle == INSTANCE OrderLifecycle WITH stage <- [o \in Orders |-> StageOf(o)]

KeepsLifecycle == Lifecycle!Spec

(* A hold never lasts: staff decide, or the sweep gives it back. *)
HoldsEnd == \A o \in Orders : hold[o] = "reserved" ~> hold[o] # "reserved"

(* An order nobody touches does not stay open. *)
UntouchedOrdersEnd ==
  \A o \in Orders :
    (status[o] = "awaiting_payment" /\ Untouched(o))
      ~> ~(status[o] = "awaiting_payment" /\ Untouched(o))
=============================================================================
