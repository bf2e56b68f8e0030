--------------------------- MODULE OrderMoney_proofs ---------------------------
(***************************************************************************)
(* Proofs about receipts, payments and wallet money of OrderLedger, for    *)
(* every set of customers, orders, prices, receipts and references.  What  *)
(* depends on a sweep excluding every other writer is proved for SQLite,   *)
(* the rest on either database; the hypothesis says which.                 *)
(***************************************************************************)
EXTENDS OrderLedger_proofs, SequenceTheorems, FiniteSetTheorems, WellFoundedInduction

-----------------------------------------------------------------------------
(* Rows and money are well typed *)

(* The natural numbers below another, as pairs. *)
Below == {pair \in Nat \X Nat : pair[1] < pair[2]}

(* A set of numbers has a least one. *)
LEMMA LeastNumber ==
  ASSUME NEW U, U \subseteq Nat, U # {}
  PROVE  \E u \in U : \A v \in U : u <= v
<1>1. IsWellFoundedOn(Below, Nat)
  BY NatLessThanWellFounded DEF OpToRel, Below
<1>2. PICK u \in U : \A v \in U : ~(<<v, u>> \in Below)
  <2>1. \E u \in U : \A v \in U : ~(<<v, u>> \in Below)
    BY <1>1, WFMin
  <2> QED BY <2>1
<1>3. ASSUME NEW v \in U PROVE u <= v
  <2>1. u \in Nat /\ v \in Nat
    OBVIOUS
  <2>2. ~(<<v, u>> \in Below)
    BY <1>2
  <2>3. <<v, u>> \in Below <=> v < u
    BY <2>1 DEF Below
  <2> QED BY <2>1, <2>2, <2>3
<1> QED BY <1>3

(* A set of positions in a list has a last one. *)
LEMMA LastPosition ==
  ASSUME NEW n \in Nat, NEW T, T \subseteq 1..n, T # {}
  PROVE  \E x \in T : \A y \in T : y <= x
<1> DEFINE U == {n - y : y \in T}
<1>1. U \subseteq Nat /\ U # {}
  <2>1. \A y \in T : n - y \in Nat
    OBVIOUS
  <2> QED BY <2>1
<1>2. \E u \in U : \A v \in U : u <= v
  <2> HIDE DEF U
  <2> QED BY <1>1, LeastNumber
<1>3. PICK x \in T : \A y \in T : n - x <= n - y
  BY <1>2
<1> QED BY <1>3

(* The row approve_order and refund_order read is the order's last live one. *)
LEMMA LatestIsLive ==
  ASSUME payments \in [Orders -> Seq(Payment)], NEW o \in Orders, Live(o) # {}
  PROVE  LatestLive(o) \in Live(o) /\ \A k \in Live(o) : k <= LatestLive(o)
<1>1. Len(payments[o]) \in Nat /\ Live(o) \subseteq 1..Len(payments[o])
  BY LenProperties DEF Live
<1>2. \E n \in Live(o) : \A k \in Live(o) : k <= n
  BY <1>1, LastPosition
<1> QED BY <1>2 DEF LatestLive

(* Marking rows changes their status and nothing else. *)
LEMMA MarkedRows ==
  ASSUME NEW rows \in Seq(Payment), NEW from, NEW to \in PayStatus
  PROVE  /\ Marked(rows, from, to) \in Seq(Payment)
         /\ Len(Marked(rows, from, to)) = Len(rows)
         /\ DOMAIN Marked(rows, from, to) = DOMAIN rows
         /\ \A n \in DOMAIN rows :
              /\ rows[n] \in Payment
              /\ Marked(rows, from, to)[n].wallet = rows[n].wallet
              /\ Marked(rows, from, to)[n].status =
                   IF rows[n].status \in from THEN to ELSE rows[n].status
<1>1. Len(rows) \in Nat /\ DOMAIN rows = 1..Len(rows)
  BY LenProperties
<1>2. \A n \in 1..Len(rows) : rows[n] \in Payment
  BY ElementOfSeq
<1>3. \A p \in Payment : /\ [p EXCEPT !.status = to] \in Payment
                         /\ [p EXCEPT !.status = to].wallet = p.wallet
                         /\ [p EXCEPT !.status = to].status = to
  BY DEF Payment
<1> DEFINE m == [n \in 1..Len(rows) |-> IF rows[n].status \in from
                   THEN [rows[n] EXCEPT !.status = to] ELSE rows[n]]
<1>4. Marked(rows, from, to) = m
  BY <1>1 DEF Marked
<1>5. m \in [1..Len(rows) -> Payment]
  BY <1>2, <1>3
<1>6. m \in Seq(Payment) /\ Len(m) = Len(rows)
  BY <1>1, <1>5, SeqDef
<1> QED BY <1>1, <1>2, <1>3, <1>4, <1>6

(* Rows are numbered from 1. *)
LEMMA RowsOf ==
  ASSUME payments \in [Orders -> Seq(Payment)], NEW o \in Orders
  PROVE  /\ payments[o] \in Seq(Payment) /\ Len(payments[o]) \in Nat
         /\ DOMAIN payments[o] = 1..Len(payments[o])
         /\ payments[o] # <<>> => Len(payments[o]) > 0
         /\ \A n \in DOMAIN payments[o] : payments[o][n] \in Payment
BY LenProperties, ElementOfSeq, EmptySeq

(* A posted event and the balance stay numbers. *)
LEMMA PostTypes ==
  ASSUME ledger \in [Orders -> [Events -> Nat]], balance \in [Users -> Nat],
         NEW o \in Orders, NEW e \in Events, NEW amount \in Nat, Post(o, e, amount)
  PROVE  ledger' \in [Orders -> [Events -> Nat]] /\ balance' \in [Users -> Nat]
<1>1. CASE ledger[o][e] = 0
  <2>1. ledger' = [ledger EXCEPT ![o][e] = amount]
    BY <1>1 DEF Post
  <2>2. balance' = [balance EXCEPT ![Owner[o]] = @ + amount] /\ Owner[o] \in Users
    BY <1>1, LedgerAssumption DEF Post
  <2> QED BY <2>1, <2>2
<1>2. CASE ledger[o][e] # 0
  BY <1>2 DEF Post
<1> QED BY <1>1, <1>2

(* Replacing a row by a payment leaves rows of payments. *)
LEMMA RowReplaced ==
  ASSUME NEW rows \in Seq(Payment), NEW n, NEW p \in Payment
  PROVE  [rows EXCEPT ![n] = p] \in Seq(Payment)
<1>1. rows \in [1..Len(rows) -> Payment] /\ Len(rows) \in Nat
  BY LenProperties
<1>2. [rows EXCEPT ![n] = p] \in [1..Len(rows) -> Payment]
  BY <1>1
<1> QED BY <1>1, <1>2, SeqDef

(* So does giving one a new status. *)
LEMMA RowMarked ==
  ASSUME NEW rows \in Seq(Payment), NEW n, NEW to \in PayStatus
  PROVE  [rows EXCEPT ![n].status = to] \in Seq(Payment)
<1>1. rows \in [1..Len(rows) -> Payment] /\ Len(rows) \in Nat
  BY LenProperties
<1>2. \A p \in Payment : [p EXCEPT !.status = to] \in Payment
  BY DEF Payment
<1>3. [rows EXCEPT ![n].status = to] \in [1..Len(rows) -> Payment]
  BY <1>1, <1>2
<1> QED BY <1>1, <1>3, SeqDef

(* An approval sets three amounts of an order's row of events. *)
LEMMA ThreeEvents ==
  ASSUME NEW row \in [Events -> Nat], NEW c \in Nat, NEW d \in Nat, NEW a \in Nat
  PROVE  [row EXCEPT !["credit"] = @ + c, !["reserve"] = @ + d, !["capture"] = a]
           \in [Events -> Nat]
<1>1. row["credit"] + c \in Nat /\ row["reserve"] + d \in Nat
  BY DEF Events
<1> QED BY <1>1

(* Upload statuses. *)
StorageStatus == {"absent", "not_configured", "pending", "stored", "failed"}

(* Recording one receipt's storage keeps the table well typed. *)
LEMMA StorageSet ==
  ASSUME storage \in [Orders -> [Images -> StorageStatus]],
         NEW o \in Orders, NEW i \in Images,
         storage' = storage \/ \E s \in StorageStatus :
                                  storage' = [storage EXCEPT ![o][i] = s]
  PROVE  storage' \in [Orders -> [Images -> StorageStatus]]
OBVIOUS

(* A receipt on its way is one order's. *)
LEMMA UploadOf ==
  ASSUME upload \in (Orders \X Images) \cup {NoUpload}, ~Ready
  PROVE  upload[1] \in Orders /\ upload[2] \in Images
BY DEF Ready

(* The ledger's tables start empty. *)
LEMMA LedgerTypeInit == Init => LedgerTypeOK
<1> SUFFICES ASSUME Init PROVE LedgerTypeOK
  OBVIOUS
<1>1. payments \in [Orders -> Seq(Payment)]
  BY EmptySeq DEF Init
<1> QED BY <1>1, LedgerAssumption DEF Init, LedgerTypeOK, OrderStatus, NoSweep

(* Every step of the order side keeps its tables well typed. *)
LEMMA LedgerTypeStep == LedgerTypeOK /\ [Next]_vars => LedgerTypeOK'
<1> SUFFICES ASSUME LedgerTypeOK, [Next]_vars PROVE LedgerTypeOK'
  OBVIOUS
<1>a. \A o \in Orders, x \in Surplus : Price[o] + x \in Nat
  BY LedgerAssumption
<1> USE LedgerAssumption
    DEF LedgerTypeOK, OrderStatus, Open, SetStatus, accessVars, moneyVars, proofVars,
        orderVars, aroundVars, ledgerVars
<1>0. /\ \A o \in Orders : payments[o] \in Seq(Payment)
      /\ \A r \in Refs \cup {WalletRef}, s \in PayStatus, b \in BOOLEAN :
           [wallet |-> b, ref |-> r, status |-> s] \in Payment
      /\ {"submitted", "verified", "rejected", "refunded"} \subseteq PayStatus
  BY DEF Payment, PayStatus
<1>1. ASSUME NEW o \in Orders, CreateOrder(o) \/ CreateWalletTopup(o)
      PROVE  LedgerTypeOK'
  BY <1>1 DEF CreateOrder, CreateWalletTopup, Insert
<1>2. ASSUME NEW old \in Orders, NEW new \in Orders, ReplaceOpenOrder(old, new)
      PROVE  LedgerTypeOK'
  BY <1>2 DEF ReplaceOpenOrder
<1>3. ASSUME NEW o \in Orders, CancelOrder(o) PROVE LedgerTypeOK'
  BY <1>3 DEF CancelOrder
<1>4. ASSUME NEW o \in Orders, NEW r \in Refs, SubmitPayment(o, r)
      PROVE  LedgerTypeOK'
  <2>1. payments' \in [Orders -> Seq(Payment)]
    BY <1>0, <1>4, AppendProperties DEF SubmitPayment
  <2> QED BY <1>4, <2>1 DEF SubmitPayment
<1>5. ASSUME NEW o \in Orders, PayWithWallet(o) PROVE LedgerTypeOK'
  <2>1. payments' \in [Orders -> Seq(Payment)]
    BY <1>0, <1>5, AppendProperties DEF PayWithWallet
  <2>2. balance' \in [Users -> Nat] /\ ledger' \in [Orders -> [Events -> Nat]]
    BY <1>5 DEF PayWithWallet, Events
  <2> QED BY <1>5, <2>1, <2>2 DEF PayWithWallet
<1>6. ASSUME NEW o \in Orders, NEW i \in Images,
             SubmitReceipt(o, i) \/ RetryUpload(o, i) \/ RecoverReceipt(o, i)
      PROVE  LedgerTypeOK'
  <2>1. /\ storage' = storage \/ \E s \in StorageStatus :
                                   storage' = [storage EXCEPT ![o][i] = s]
        /\ newest' \in {newest, [newest EXCEPT ![o] = i]}
        /\ status' \in {status, [status EXCEPT ![o] = "payment_submitted"]}
        /\ upload' \in {upload, <<o, i>>}
        /\ UNCHANGED <<payments, review, verified, moneyVars, promo, aged, holdAged, sweep>>
    BY <1>6 DEF SubmitReceipt, RetryUpload, RecoverReceipt, StorageStatus
  <2>2. storage' \in [Orders -> [Images -> StorageStatus]]
    <3>1. storage \in [Orders -> [Images -> StorageStatus]]
      BY DEF StorageStatus
    <3> QED BY <2>1, <3>1, StorageSet
  <2>3. newest' \in [Orders -> Images \cup {NoImage}]
    <3>1. newest' \in {newest, [newest EXCEPT ![o] = i]}
      BY <2>1
    <3> QED BY <3>1
  <2>4. status' \in [Orders -> OrderStatus]
    <3>1. status' \in {status, [status EXCEPT ![o] = "payment_submitted"]}
      BY <2>1
    <3> QED BY <3>1
  <2>5. /\ upload' \in (Orders \X Images) \cup {NoUpload}
        /\ UNCHANGED <<payments, review, verified, moneyVars, promo, aged, holdAged, sweep>>
    BY <2>1
  <2> QED BY <2>2, <2>3, <2>4, <2>5 DEF StorageStatus
<1>7. CASE UploadDone \/ UploadFails
  <2> DEFINE o == upload[1]
             i == upload[2]
  <2>1. o \in Orders /\ i \in Images
    BY <1>7, UploadOf DEF UploadDone, UploadFails
  <2> HIDE DEF o, i
  <2>2. storage \in [Orders -> [Images -> StorageStatus]]
    BY DEF StorageStatus
  <2>3. storage[o][i] \in StorageStatus
    BY <2>1, <2>2
  <2>4. /\ \E s \in StorageStatus : storage' = [storage EXCEPT ![o][i] = s]
        /\ status' \in {status, [status EXCEPT ![o] = "payment_submitted"]}
        /\ upload' = NoUpload
        /\ UNCHANGED <<payments, newest, review, verified, moneyVars, promo, aged, holdAged, sweep>>
    <3>1. CASE UploadDone
      BY <2>1, <2>3, <3>1 DEF UploadDone, StorageStatus, o, i
    <3>2. CASE UploadFails
      <4>1. PICK s \in {storage[o][i], "failed"} :
              storage' = [storage EXCEPT ![o][i] = s]
        BY <3>2 DEF UploadFails, o, i
      <4>2. s \in StorageStatus
        BY <2>3 DEF StorageStatus
      <4> QED BY <3>2, <4>1, <4>2 DEF UploadFails
    <3> QED BY <1>7, <3>1, <3>2
  <2>5. storage' \in [Orders -> [Images -> StorageStatus]]
    BY <2>1, <2>2, <2>4, StorageSet
  <2> QED BY <2>1, <2>4, <2>5 DEF StorageStatus
<1>8. ASSUME NEW o \in Orders, NEW i \in Images, NEW r \in Refs, NEW x \in Surplus,
             VerifyReceipt(o, i, r, Price[o] + x)
      PROVE  LedgerTypeOK'
  <2>1. [wallet |-> FALSE, ref |-> r, status |-> "verified"] \in Payment
    BY <1>0
  <2>2. \A n : [payments[o] EXCEPT ![n] = [wallet |-> FALSE, ref |-> r, status |-> "verified"]]
                 \in Seq(Payment)
    BY <1>0, <2>1, RowReplaced
  <2>3. payments' \in [Orders -> Seq(Payment)]
    BY <1>0, <1>8, <2>1, <2>2, AppendProperties DEF VerifyReceipt
  <2>4. review' \in [Orders -> [Images -> {"pending", "verified", "rejected"}]]
    BY <1>8 DEF VerifyReceipt
  <2>5. Price[o] + x \in Nat
    BY <1>a
  <2> QED BY <1>8, <2>3, <2>4, <2>5 DEF VerifyReceipt
<1>9. ASSUME NEW o \in Orders, NEW i \in Images, RejectReceipt(o, i)
      PROVE  LedgerTypeOK'
  <2>1. payments' \in [Orders -> Seq(Payment)]
    BY <1>0, <1>9, MarkedRows DEF RejectReceipt
  <2> QED BY <1>9, <2>1 DEF RejectReceipt
<1>10. ASSUME NEW o \in Orders, ApproveTopup(o) PROVE LedgerTypeOK'
  BY <1>10, PostTypes DEF ApproveTopup, Events
<1>11. ASSUME NEW o \in Orders, ApproveTransfer(o) \/ ApproveWallet(o)
       PROVE  LedgerTypeOK'
  <2>1. payments' \in [Orders -> Seq(Payment)]
    <3>1. payments' = [payments EXCEPT ![o][LatestLive(o)].status = "verified"]
      BY <1>11 DEF ApproveTransfer, ApproveWallet
    <3>2. [payments[o] EXCEPT ![LatestLive(o)].status = "verified"] \in Seq(Payment)
      BY <1>0, RowMarked
    <3> QED BY <3>1, <3>2
  <2>2. CASE ApproveTransfer(o)
    <3>1. PICK c \in Nat, d \in Nat :
            /\ ledger' = [ledger EXCEPT ![o]["credit"] = @ + c,
                                        ![o]["reserve"] = @ + d,
                                        ![o]["capture"] = Price[o]]
            /\ balance[Owner[o]] + c >= d
            /\ balance' = [balance EXCEPT ![Owner[o]] = @ + c - d]
      BY <2>2 DEF ApproveTransfer
    <3>2. ledger' \in [Orders -> [Events -> Nat]]
      <4>1. ledger[o] \in [Events -> Nat] /\ Price[o] \in Nat
        OBVIOUS
      <4>2. [ledger[o] EXCEPT !["credit"] = @ + c, !["reserve"] = @ + d,
                              !["capture"] = Price[o]] \in [Events -> Nat]
        BY <4>1, ThreeEvents
      <4>3. ledger' = [ledger EXCEPT ![o] =
              [ledger[o] EXCEPT !["credit"] = @ + c, !["reserve"] = @ + d,
                                !["capture"] = Price[o]]]
        BY <3>1
      <4> QED BY <4>2, <4>3
    <3>3. balance' \in [Users -> Nat]
      BY <3>1
    <3> QED BY <2>1, <2>2, <3>2, <3>3 DEF ApproveTransfer
  <2>3. CASE ApproveWallet(o)
    BY <2>1, <2>3 DEF ApproveWallet, Events
  <2> QED BY <1>11, <2>2, <2>3
<1>12. ASSUME NEW o \in Orders, RejectOrder(o) PROVE LedgerTypeOK'
  <2>1. payments' \in [Orders -> Seq(Payment)]
    BY <1>0, <1>12, MarkedRows DEF RejectOrder
  <2>2. /\ ledger' \in [Orders -> [Events -> Nat]] /\ balance' \in [Users -> Nat]
        /\ hold' \in [Orders -> {"none", "reserved", "captured", "released"}]
    BY <1>12, PostTypes DEF RejectOrder, Events
  <2>3. review' \in [Orders -> [Images -> {"pending", "verified", "rejected"}]]
    BY <1>12 DEF RejectOrder
  <2> QED BY <1>12, <2>1, <2>2, <2>3 DEF RejectOrder
<1>13. ASSUME NEW o \in Orders, RefundOrder(o) PROVE LedgerTypeOK'
  <2>1. payments' \in [Orders -> Seq(Payment)]
    BY <1>0, <1>13, MarkedRows DEF RefundOrder
  <2>2. PICK amount \in Nat : Post(o, "reversal", amount)
    BY <1>13 DEF RefundOrder
  <2>3. ledger' \in [Orders -> [Events -> Nat]] /\ balance' \in [Users -> Nat]
    BY <2>2, PostTypes DEF Events
  <2> QED BY <1>13, <2>1, <2>3 DEF RefundOrder
<1>14. ASSUME NEW o \in Orders, ReleaseHold(o)
       PROVE  /\ payments' \in [Orders -> Seq(Payment)]
              /\ status' \in [Orders -> OrderStatus]
              /\ hold' \in [Orders -> {"none", "reserved", "captured", "released"}]
              /\ ledger' \in [Orders -> [Events -> Nat]] /\ balance' \in [Users -> Nat]
              /\ UNCHANGED <<proofVars, promo, aged, holdAged, upload>>
  <2>1. payments' \in [Orders -> Seq(Payment)]
    <3> DEFINE m == [n \in DOMAIN payments[o] |->
                       IF payments[o][n].wallet /\ payments[o][n].status = "submitted"
                       THEN [payments[o][n] EXCEPT !.status = "rejected"]
                       ELSE payments[o][n]]
    <3>1. payments' = [payments EXCEPT ![o] = m]
      BY <1>14 DEF ReleaseHold
    <3>2. /\ Len(payments[o]) \in Nat /\ DOMAIN payments[o] = 1..Len(payments[o])
          /\ \A n \in DOMAIN payments[o] : payments[o][n] \in Payment
      BY RowsOf
    <3>3. \A p \in Payment : [p EXCEPT !.status = "rejected"] \in Payment
      BY <1>0 DEF Payment
    <3>4. m \in [1..Len(payments[o]) -> Payment]
      BY <3>2, <3>3
    <3>5. m \in Seq(Payment)
      BY <3>2, <3>4, SeqDef
    <3> QED BY <3>1, <3>5
  <2>2. ledger' \in [Orders -> [Events -> Nat]] /\ balance' \in [Users -> Nat]
    BY <1>14, PostTypes DEF ReleaseHold, Events
  <2> QED BY <1>14, <2>1, <2>2 DEF ReleaseHold
<1>15. ASSUME NEW o \in Orders, SweepExpired(o) PROVE LedgerTypeOK'
  BY <1>15 DEF SweepExpired, ExpireOrder
<1>16. ASSUME NEW o \in Orders, SweepHold(o) PROVE LedgerTypeOK'
  BY <1>14, <1>16 DEF SweepHold
<1>17. ASSUME NEW k \in {"expire", "release"}, SweepSelect(k) PROVE LedgerTypeOK'
  <2>1. ExpireRows \subseteq Orders /\ ReleaseRows \subseteq Orders
    BY DEF ExpireRows, ReleaseRows
  <2> QED BY <1>17, <2>1 DEF SweepSelect
<1>18. ASSUME NEW o \in Orders, SweepWrite(o) PROVE LedgerTypeOK'
  <2>1. sweep' \in [kind : {"none", "expire", "release"}, rows : SUBSET Orders]
    BY <1>18 DEF SweepWrite, NoSweep
  <2>2. CASE sweep.kind = "expire"
    BY <1>18, <2>1, <2>2 DEF SweepWrite, ExpireOrder
  <2>3. CASE sweep.kind # "expire"
    BY <1>14, <1>18, <2>1, <2>3 DEF SweepWrite
  <2> QED BY <2>2, <2>3
<1>19. CASE TimeNext
  BY <1>19 DEF TimeNext, OrderAges, HoldAges, PromoChanges, Restart, NoSweep
<1>20. CASE WorkerNext \/ AroundWorkers \/ UNCHANGED vars
  BY <1>20 DEF WorkerNext, AroundWorkers, vars
<1> QED
  BY <1>1, <1>2, <1>3, <1>4, <1>5, <1>6, <1>7, <1>8, <1>9, <1>10, <1>11, <1>12, <1>13,
     <1>15, <1>16, <1>17, <1>18, <1>19, <1>20
  DEF Next, LedgerNext, CustomerNext, StaffNext, SweepNext

(* Orders, payments, receipts, money and access keep their types, on either
   database, whatever its sweeps and workers do. *)
THEOREM SystemTypeCorrect == Spec => []TypeOK
<1>1. Spec => []AccessTypeOK
  BY SystemImplementsAccess, TypeCorrect, PTL
<1>2. Spec => []LedgerTypeOK
  BY LedgerTypeInit, LedgerTypeStep, PTL DEF Spec
<1> QED BY <1>1, <1>2, PTL DEF TypeOK

-----------------------------------------------------------------------------
(* Receipts *)

(* A receipt that is not turned down is the newest, and a verified one left its
   amount on record. *)
ReceiptFacts(o) ==
  /\ HasReceipt(o) => storage[o][newest[o]] # "absent"
  /\ \A i \in Images :
       storage[o][i] # "absent" /\ review[o][i] # "rejected" => newest[o] = i
  /\ \A i \in Images : review[o][i] = "verified" => verified[o] >= Price[o]

(* An upload under way is of a receipt on record, for an undecided order. *)
UploadIsKnown ==
  ~Ready => storage[upload[1]][upload[2]] # "absent" /\ status[upload[1]] # "approved"

ImagesServeOne ==
  \A o, p \in Orders : \A i \in Images :
    storage[o][i] # "absent" /\ storage[p][i] # "absent" => o = p

ReceiptInv ==
  /\ LedgerTypeOK
  /\ \A o \in Orders : ReceiptFacts(o)
  /\ UploadIsKnown
  /\ ImagesServeOne

(* What a step may do to receipts: it submits, uploads, verifies or turns down
   one, or leaves them alone. *)
LEMMA ReceiptStepKinds ==
  ASSUME LedgerTypeOK, [Next]_vars
  PROVE  \/ \E o \in Orders, i \in Images : SubmitReceipt(o, i) \/ RetryUpload(o, i)
         \/ UploadDone \/ UploadFails
         \/ \E o \in Orders, i \in Images, r \in Refs, x \in Surplus :
              VerifyReceipt(o, i, r, Price[o] + x)
         \/ \E o \in Orders, i \in Images : RejectReceipt(o, i)
         \/ \E o \in Orders : RejectOrder(o)
         \/ /\ UNCHANGED proofVars
            /\ \/ upload' = NoUpload
               \/ /\ upload' = upload
                  /\ \A p \in Orders : status'[p] \in {status[p], "cancelled"}
<1>0. LedgerTypeOK /\ LedgerTypeOK'
  BY LedgerTypeStep
<1>1. status \in [Orders -> OrderStatus]
  BY DEF LedgerTypeOK
<1> DEFINE Calm == /\ UNCHANGED proofVars
                   /\ \/ upload' = NoUpload
                      \/ /\ upload' = upload
                         /\ \A p \in Orders : status'[p] \in {status[p], "cancelled"}
<1>2. ASSUME Ready, UNCHANGED <<proofVars, upload>> PROVE Calm
  BY <1>2 DEF Ready
<1>3. ASSUME UNCHANGED <<status, proofVars, upload>> PROVE Calm
  BY <1>3
<1>4. ASSUME NEW o \in Orders, ExpireOrder(o) \/ ReleaseHold(o) PROVE Calm
  BY <1>1, <1>4 DEF ExpireOrder, ReleaseHold, SetStatus
<1>5. CASE CustomerNext
  BY <1>2, <1>5 DEF CustomerNext, CreateOrder, CreateWalletTopup, Insert,
     ReplaceOpenOrder, CancelOrder, SubmitPayment, PayWithWallet, RecoverReceipt,
     ReceiptAccepted, aroundVars
<1>6. CASE StaffNext
  BY <1>2, <1>6 DEF StaffNext, ApproveTopup, ApproveTransfer, ApproveWallet,
     RefundOrder, aroundVars
<1>7. CASE SweepNext
  BY <1>3, <1>4, <1>7 DEF SweepNext, SweepExpired, SweepHold, SweepWrite, SweepSelect, orderVars
<1>8. CASE TimeNext \/ WorkerNext \/ AroundWorkers \/ UNCHANGED vars
  BY <1>3, <1>8 DEF TimeNext, OrderAges, HoldAges, PromoChanges, Restart,
     WorkerNext, AroundWorkers, vars, ledgerVars, orderVars, aroundVars
<1> QED BY <1>5, <1>6, <1>7, <1>8 DEF Next, LedgerNext

(* There is no receipt at first. *)
LEMMA ReceiptInit == Init => ReceiptInv
<1> SUFFICES ASSUME Init PROVE ReceiptInv
  OBVIOUS
<1>1. LedgerTypeOK
  BY LedgerTypeInit
<1>2. Ready /\ ImagesServeOne /\ \A o \in Orders : ReceiptFacts(o)
  BY DEF Init, Ready, ImagesServeOne, ReceiptFacts, HasReceipt
<1> QED BY <1>1, <1>2 DEF ReceiptInv, UploadIsKnown

(* Every step keeps one receipt per order in play, and each image to one order. *)
LEMMA ReceiptStep == ReceiptInv /\ [Next]_vars => ReceiptInv'
<1> SUFFICES ASSUME ReceiptInv, [Next]_vars PROVE ReceiptInv'
  OBVIOUS
<1>0. LedgerTypeOK /\ LedgerTypeOK'
  BY LedgerTypeStep DEF ReceiptInv
<1> DEFINE Types ==
      /\ newest \in [Orders -> Images \cup {NoImage}]
      /\ storage \in [Orders -> [Images -> StorageStatus]]
      /\ review \in [Orders -> [Images -> {"pending", "verified", "rejected"}]]
      /\ verified \in [Orders -> Nat]
      /\ status \in [Orders -> OrderStatus]
<1>a. Types
  BY <1>0 DEF LedgerTypeOK, StorageStatus
<1>1. ASSUME \A p \in Orders, j \in Images :
               storage'[p][j] = "absent" <=> storage[p][j] = "absent",
             UNCHANGED <<newest, review, verified>>,
             \/ upload' = NoUpload
             \/ \E o \in Orders, i \in Images :
                  /\ upload' = <<o, i>>
                  /\ storage[o][i] # "absent"
                  /\ status'[o] # "approved"
      PROVE  ReceiptInv'
  <2>1. \A p \in Orders : ReceiptFacts(p)'
    BY <1>1, <1>a DEF ReceiptInv, ReceiptFacts, HasReceipt
  <2>2. ImagesServeOne'
    BY <1>1 DEF ReceiptInv, ImagesServeOne
  <2>3. UploadIsKnown'
    BY <1>1 DEF UploadIsKnown, Ready
  <2> QED BY <1>0, <2>1, <2>2, <2>3 DEF ReceiptInv
<1>2. ASSUME NEW o \in Orders, NEW i \in Images, SubmitReceipt(o, i)
      PROVE  ReceiptInv'
  <2>1. /\ storage' = [storage EXCEPT ![o][i] =
                         IF StorageConfigured THEN "pending" ELSE "not_configured"]
        /\ newest' = [newest EXCEPT ![o] = i]
        /\ upload' = <<o, i>>
        /\ UNCHANGED <<review, verified, status>>
        /\ status[o] \in Open
        /\ \A p \in Orders \ {o} : storage[p][i] = "absent"
        /\ NoReceiptPending(o)
    BY <1>2 DEF SubmitReceipt, ReceiptAccepted, IsOpen
  <2>2. /\ storage'[o][i] # "absent"
        /\ \A j \in Images \ {i} : storage'[o][j] = storage[o][j]
        /\ \A p \in Orders \ {o} : storage'[p] = storage[p]
    BY <1>a, <2>1
  <2>3. \A j \in Images : storage[o][j] # "absent" => review[o][j] = "rejected"
    BY <1>a, <2>1, ImageAssumption DEF ReceiptInv, ReceiptFacts, NoReceiptPending, HasReceipt, NewestReview
  <2>4. newest'[o] = i /\ \A p \in Orders \ {o} : newest'[p] = newest[p]
    BY <1>a, <2>1
  <2>5. ReceiptFacts(o)'
    BY <2>1, <2>2, <2>3, <2>4 DEF ReceiptInv, ReceiptFacts, HasReceipt
  <2>6. \A p \in Orders \ {o} : ReceiptFacts(p)'
    BY <2>1, <2>2, <2>4 DEF ReceiptInv, ReceiptFacts, HasReceipt
  <2>7. ImagesServeOne'
    BY <2>1, <2>2 DEF ReceiptInv, ImagesServeOne
  <2>8. UploadIsKnown'
    BY <2>1, <2>2 DEF UploadIsKnown, Open
  <2> QED BY <1>0, <2>5, <2>6, <2>7, <2>8 DEF ReceiptInv
<1>3. ASSUME NEW o \in Orders, NEW i \in Images, RetryUpload(o, i)
      PROVE  ReceiptInv'
  <2>1. /\ storage' = [storage EXCEPT ![o][i] = "pending"]
        /\ storage[o][i] # "absent"
        /\ upload' = <<o, i>>
        /\ UNCHANGED <<newest, review, verified, status>>
        /\ status[o] \in Open
    BY <1>3 DEF RetryUpload, ReceiptAccepted, IsOpen
  <2>2. \A p \in Orders, j \in Images :
          storage'[p][j] = "absent" <=> storage[p][j] = "absent"
    BY <1>a, <2>1
  <2>3. status'[o] # "approved"
    BY <2>1 DEF Open
  <2> QED BY <1>1, <2>1, <2>2, <2>3
<1>4. CASE UploadDone \/ UploadFails
  <2>1. ~Ready
    BY <1>4 DEF UploadDone, UploadFails
  <2>2. PICK o \in Orders, i \in Images : o = upload[1] /\ i = upload[2]
    BY <1>0, <2>1, UploadOf DEF LedgerTypeOK
  <2>3. storage[o][i] # "absent"
    BY <2>1, <2>2 DEF ReceiptInv, UploadIsKnown
  <2>4. PICK s \in {storage[o][i], "stored", "failed"} :
          storage' = [storage EXCEPT ![o][i] = s]
    BY <1>4, <2>2 DEF UploadDone, UploadFails
  <2>5. \A p \in Orders, j \in Images :
          storage'[p][j] = "absent" <=> storage[p][j] = "absent"
    BY <1>a, <2>3, <2>4
  <2>6. upload' = NoUpload /\ UNCHANGED <<newest, review, verified>>
    BY <1>4 DEF UploadDone, UploadFails
  <2> QED BY <1>1, <2>5, <2>6
<1>5. ASSUME NEW o \in Orders, NEW review1 \in [Images -> {"pending", "verified", "rejected"}],
             review' = [review EXCEPT ![o] = review1],
             UNCHANGED <<newest, storage, upload>>, Ready,
             \A p \in Orders \ {o} : verified'[p] = verified[p],
             \A j \in Images : review1[j] = "verified" => verified'[o] >= Price[o],
             \A j \in Images : storage[o][j] # "absent" /\ review1[j] # "rejected"
                                 => review[o][j] # "rejected"
      PROVE  ReceiptInv'
  <2>1. /\ review'[o] = review1
        /\ \A p \in Orders \ {o} : review'[p] = review[p]
    BY <1>a, <1>5
  <2>2. \A p \in Orders : ReceiptFacts(p)'
    BY <1>5, <2>1 DEF ReceiptInv, ReceiptFacts, HasReceipt
  <2>3. ImagesServeOne' /\ UploadIsKnown'
    BY <1>5 DEF ReceiptInv, ImagesServeOne, UploadIsKnown, Ready
  <2> QED BY <1>0, <2>2, <2>3 DEF ReceiptInv
<1>6. ASSUME NEW o \in Orders, NEW i \in Images, NEW r \in Refs, NEW x \in Surplus,
             VerifyReceipt(o, i, r, Price[o] + x)
      PROVE  ReceiptInv'
  <2>1. /\ review' = [review EXCEPT ![o] = [review[o] EXCEPT ![i] = "verified"]]
        /\ review[o][i] = "pending"
        /\ verified' = [verified EXCEPT ![o] = Price[o] + x]
        /\ Price[o] + x >= Price[o]
        /\ UNCHANGED <<newest, storage, upload>> /\ Ready
    BY <1>6 DEF VerifyReceipt, aroundVars
  <2> DEFINE review1 == [review[o] EXCEPT ![i] = "verified"]
  <2>2. review1 \in [Images -> {"pending", "verified", "rejected"}]
    BY <1>a
  <2>3. verified'[o] = Price[o] + x /\ \A p \in Orders \ {o} : verified'[p] = verified[p]
    BY <1>a, <2>1
  <2>4. \A j \in Images : review1[j] # "rejected" => review[o][j] # "rejected"
    BY <1>a, <2>1
  <2>5. review' = [review EXCEPT ![o] = review1]
    BY <2>1
  <2>6. \A j \in Images : review1[j] = "verified" => verified'[o] >= Price[o]
    BY <2>1, <2>3
  <2> HIDE DEF review1
  <2> QED BY <1>5, <2>1, <2>2, <2>3, <2>4, <2>5, <2>6
<1>7. ASSUME NEW o \in Orders, (\E i \in Images : RejectReceipt(o, i)) \/ RejectOrder(o)
      PROVE  ReceiptInv'
  <2>1. PICK review1 \in [Images -> {"pending", "verified", "rejected"}] :
          /\ review' = [review EXCEPT ![o] = review1]
          /\ \A j \in Images : review1[j] \in {review[o][j], "rejected"}
    <3>1. ASSUME NEW i \in Images, RejectReceipt(o, i)
          PROVE  review' = [review EXCEPT ![o] = [review[o] EXCEPT ![i] = "rejected"]]
      BY <3>1 DEF RejectReceipt
    <3>2. CASE RejectOrder(o)
      <4> DEFINE mark == [i \in Images |-> IF storage[o][i] # "absent" /\ review[o][i] = "pending"
                                     THEN "rejected" ELSE review[o][i]]
      <4>1. review' = [review EXCEPT ![o] = mark]
        BY <3>2 DEF RejectOrder
      <4>2. mark \in [Images -> {"pending", "verified", "rejected"}]
        BY <1>a
      <4>3. \A j \in Images : mark[j] \in {review[o][j], "rejected"}
        OBVIOUS
      <4> HIDE DEF mark
      <4> QED BY <4>1, <4>2, <4>3
    <3>3. ASSUME NEW i \in Images
          PROVE  /\ [review[o] EXCEPT ![i] = "rejected"] \in [Images -> {"pending", "verified", "rejected"}]
                 /\ \A j \in Images : [review[o] EXCEPT ![i] = "rejected"][j] \in {review[o][j], "rejected"}
      BY <1>a
    <3> QED BY <1>7, <3>1, <3>2, <3>3
  <2>2. UNCHANGED <<newest, storage, upload, verified>> /\ Ready
    BY <1>7 DEF RejectReceipt, RejectOrder, aroundVars
  <2>3. \A j \in Images : review1[j] = "verified" => verified'[o] >= Price[o]
    BY <2>1, <2>2 DEF ReceiptInv, ReceiptFacts
  <2> QED BY <1>5, <2>1, <2>2, <2>3
<1>8. CASE /\ UNCHANGED proofVars
           /\ \/ upload' = NoUpload
              \/ /\ upload' = upload
                 /\ \A p \in Orders : status'[p] \in {status[p], "cancelled"}
  <2>1. UNCHANGED <<newest, storage, review, verified>>
    BY <1>8 DEF proofVars
  <2>2. CASE upload' = NoUpload
    BY <1>1, <2>1, <2>2
  <2>3. CASE upload' # NoUpload
    <3>1. ~Ready /\ upload' = upload
      BY <1>8, <2>3 DEF Ready
    <3>2. PICK o \in Orders, i \in Images : upload = <<o, i>>
      BY <1>0, <3>1 DEF LedgerTypeOK, Ready
    <3>3. storage[o][i] # "absent" /\ status[o] # "approved"
      BY <3>1, <3>2 DEF ReceiptInv, UploadIsKnown
    <3>4. status'[o] # "approved"
      BY <1>8, <2>3, <3>3
    <3> QED BY <1>1, <2>1, <3>1, <3>2, <3>3, <3>4
  <2> QED BY <2>2, <2>3
<1> QED BY <1>0, <1>2, <1>3, <1>4, <1>6, <1>7, <1>8, ReceiptStepKinds

(* Only the newest receipt of an order awaits review or is verified, and no
   image serves two orders, on either database: through retried uploads,
   restarts between the two transactions, rejections and resubmissions. *)
THEOREM OneReceiptSafety == Spec => []OneReceiptCounts
<1>1. ReceiptInv => OneReceiptCounts
  BY DEF ReceiptInv, ReceiptFacts, ImagesServeOne, OneReceiptCounts
<1> QED BY <1>1, ReceiptInit, ReceiptStep, PTL DEF Spec

-----------------------------------------------------------------------------
(* What a step does to one order: every action of OrderLedger read as what it
   asks and changes of the rows of order p. *)

ProofRow(p)   == <<newest[p], storage[p], review[p], verified[p]>>
MoneyRow(p)   == <<hold[p], ledger[p]>>
NotRefunded(p) == p \in refunded' <=> p \in refunded

Untold(p) == UNCHANGED <<status[p], payments[p], ProofRow(p), MoneyRow(p)>>

StatusOnly(p, s) ==
  /\ status'[p] = s
  /\ UNCHANGED <<payments[p], ProofRow(p), MoneyRow(p)>>

Opened(p) == status[p] = "none" /\ StatusOnly(p, "awaiting_payment")

Closed(p) ==
  /\ \/ IsOpen(p) /\ Untouched(p)
     \/ sweep.kind = "expire" /\ p \in sweep.rows
  /\ StatusOnly(p, "cancelled")

TextPaid(p) ==
  /\ IsOpen(p) /\ payments[p] = <<>>
  /\ \E r \in Refs : payments'[p] =
       Append(payments[p], [wallet |-> FALSE, ref |-> r, status |-> "submitted"])
  /\ status'[p] = "payment_submitted"
  /\ UNCHANGED <<ProofRow(p), MoneyRow(p)>>

WalletPaid(p) ==
  /\ p \notin Topups /\ IsOpen(p) /\ NoReceiptPending(p)
  /\ \A n \in Live(p) : payments[p][n].wallet
  /\ ledger[p]["reserve"] = 0
  /\ payments'[p] =
       Append(payments[p], [wallet |-> TRUE, ref |-> WalletRef, status |-> "submitted"])
  /\ status'[p] = "payment_submitted"
  /\ hold'[p] = "reserved"
  /\ ledger'[p] = [ledger[p] EXCEPT !["reserve"] = Price[p]]
  /\ UNCHANGED ProofRow(p)

ReceiptSent(p) ==
  /\ IsOpen(p) /\ NoReceiptPending(p)
  /\ \A n \in DOMAIN payments[p] :
       ~payments[p][n].wallet /\ payments[p][n].status = "rejected"
  /\ \E i \in Images : /\ storage[p][i] = "absent" /\ storage'[p][i] # "absent"
                       /\ \A j \in Images \ {i} : storage'[p][j] = storage[p][j]
                       /\ newest'[p] = i
  /\ UNCHANGED <<status[p], payments[p], review[p], verified[p], MoneyRow(p)>>

ReceiptMoved(p) ==
  /\ \A i \in Images : storage'[p][i] = "absent" <=> storage[p][i] = "absent"
  /\ status'[p] # status[p] =>
       /\ status[p] # "approved" /\ status'[p] = "payment_submitted"
       /\ \E i \in Images : storage[p][i] # "absent"
       /\ IsOpen(p) \/ (~Ready /\ upload[1] = p)
  /\ UNCHANGED <<payments[p], newest[p], review[p], verified[p], MoneyRow(p)>>

Verified(p) ==
  /\ IsOpen(p)
  /\ \E i \in Images : /\ storage[p][i] # "absent" /\ review[p][i] = "pending"
                       /\ review'[p] = [review[p] EXCEPT ![i] = "verified"]
  /\ verified'[p] >= Price[p]
  /\ p \in Topups => verified'[p] = Price[p]
  /\ \E r \in Refs :
       LET row == [wallet |-> FALSE, ref |-> r, status |-> "verified"]
       IN  payments'[p] = IF Live(p) # {} THEN [payments[p] EXCEPT ![LatestLive(p)] = row]
                                          ELSE Append(payments[p], row)
  /\ status'[p] = "payment_submitted"
  /\ UNCHANGED <<newest[p], storage[p], MoneyRow(p)>>

TurnedDown(p) ==
  /\ \E i \in Images : /\ storage[p][i] # "absent" /\ review[p][i] = "pending"
                       /\ RejectUnstored \/ InReviewQueue(p, i)
                       /\ review'[p] = [review[p] EXCEPT ![i] = "rejected"]
  /\ payments'[p] = Marked(payments[p], {"submitted"}, "rejected")
  /\ UNCHANGED <<status[p], newest[p], storage[p], verified[p], MoneyRow(p)>>

Posted(p, e, amount) ==
  ledger'[p] = IF ledger[p][e] = 0 THEN [ledger[p] EXCEPT ![e] = amount] ELSE ledger[p]

Credited(p) ==
  /\ p \in Topups /\ CanApprove(p) /\ HasReceipt(p) /\ verified[p] = Price[p]
  /\ Posted(p, "credit", Price[p])
  /\ status'[p] = "approved"
  /\ UNCHANGED <<payments[p], ProofRow(p), hold[p]>>

Captured(p) ==
  /\ p \notin Topups /\ CanApprove(p)
  /\ payments'[p] = [payments[p] EXCEPT ![LatestLive(p)].status = "verified"]
  /\ hold'[p] = "captured"
  /\ status'[p] = "approved"
  /\ OpenAccess(p)
  /\ UNCHANGED ProofRow(p)

Transferred(p) ==
  /\ Captured(p)
  /\ ~payments[p][LatestLive(p)].wallet
  /\ \E c, d \in Nat :
       /\ c = IF ledger[p]["credit"] # 0 THEN 0
              ELSE IF HasReceipt(p) THEN verified[p] ELSE Price[p]
       /\ d = IF ledger[p]["reserve"] = 0 THEN Price[p] ELSE 0
       /\ ledger'[p] = [ledger[p] EXCEPT !["credit"] = @ + c, !["reserve"] = @ + d,
                                         !["capture"] = Price[p]]

TakenFromHold(p) ==
  /\ Captured(p)
  /\ payments[p][LatestLive(p)].wallet
  /\ ledger'[p] = [ledger[p] EXCEPT !["capture"] = Price[p]]

Rejected(p) ==
  /\ status[p] \in Open \cup {"cancelled"}
  /\ \A n \in DOMAIN payments[p] : payments[p][n].status # "verified"
  /\ \A i \in Images : review[p][i] # "verified"
  /\ payments'[p] = Marked(payments[p], {"submitted"}, "rejected")
  /\ status'[p] = "rejected"
  /\ \A i \in Images :
       review'[p][i] = IF storage[p][i] # "absent" /\ review[p][i] = "pending"
                         THEN "rejected" ELSE review[p][i]
  /\ IF payments[p] # <<>> /\ payments[p][Len(payments[p])].wallet
          /\ ledger[p]["release"] = 0
       THEN Posted(p, "release", Price[p]) /\ hold'[p] = "released"
       ELSE UNCHANGED MoneyRow(p)
  /\ UNCHANGED <<newest[p], storage[p], verified[p]>>

Refunded(p) ==
  /\ p \notin Topups /\ Live(p) # {}
  /\ payments[p][LatestLive(p)].status = "verified"
  /\ Posted(p, "reversal", IF ~payments[p][LatestLive(p)].wallet /\ verified[p] > Price[p]
                             THEN verified[p] ELSE Price[p])
  /\ payments'[p] = Marked(payments[p], {"submitted", "verified"}, "refunded")
  /\ status'[p] = IF status[p] = "approved" THEN "approved" ELSE "rejected"
  /\ p \notin refunded /\ p \in refunded'
  /\ UNCHANGED <<ProofRow(p), hold[p]>>

Released(p) ==
  /\ p \in ReleaseRows \/ (sweep.kind # "expire" /\ p \in sweep.rows)
  /\ Posted(p, "release", Price[p])
  /\ hold'[p] = "released"
  /\ payments'[p] = [n \in DOMAIN payments[p] |->
       IF payments[p][n].wallet /\ payments[p][n].status = "submitted"
         THEN [payments[p][n] EXCEPT !.status = "rejected"] ELSE payments[p][n]]
  /\ status'[p] = IF status[p] = "payment_submitted" THEN "cancelled" ELSE status[p]
  /\ UNCHANGED ProofRow(p)

OrderStep(p) ==
  \/ /\ NotRefunded(p)
     /\ \/ Untold(p) \/ Opened(p) \/ Closed(p) \/ TextPaid(p) \/ WalletPaid(p)
        \/ ReceiptSent(p) \/ ReceiptMoved(p) \/ Verified(p) \/ TurnedDown(p)
        \/ Credited(p) \/ Transferred(p) \/ TakenFromHold(p) \/ Rejected(p) \/ Released(p)
  \/ Refunded(p)

(* A table whose o-th row was set has that row and its other rows. *)
LEMMA RowSet ==
  ASSUME NEW S, NEW T, NEW f \in [S -> T], NEW g, NEW x \in S, NEW v, g = [f EXCEPT ![x] = v]
  PROVE  g[x] = v /\ \A y \in S \ {x} : g[y] = f[y]
OBVIOUS

(* A posted event is the order's own. *)
LEMMA PostRow ==
  ASSUME ledger \in [Orders -> [Events -> Nat]], NEW o \in Orders,
         NEW e \in Events, NEW amount, Post(o, e, amount)
  PROVE  Posted(o, e, amount) /\ \A p \in Orders \ {o} : ledger'[p] = ledger[p]
BY DEF Post, Posted

(* Every step is, to every order, one of those above. *)
LEMMA StepIsOrderStep ==
  ASSUME ReceiptInv, [Next]_vars, NEW p \in Orders
  PROVE  OrderStep(p)
<1>0. LedgerTypeOK
  BY DEF ReceiptInv
<1>a. /\ status \in [Orders -> OrderStatus]
      /\ payments \in [Orders -> Seq(Payment)]
      /\ newest \in [Orders -> Images \cup {NoImage}]
      /\ storage \in [Orders -> [Images -> StorageStatus]]
      /\ review \in [Orders -> [Images -> {"pending", "verified", "rejected"}]]
      /\ verified \in [Orders -> Nat]
      /\ hold \in [Orders -> {"none", "reserved", "captured", "released"}]
      /\ ledger \in [Orders -> [Events -> Nat]]
  BY <1>0 DEF LedgerTypeOK, StorageStatus
<1> USE DEF SetStatus, ProofRow, MoneyRow, NotRefunded, Untold, StatusOnly
<1>1. ASSUME UNCHANGED <<orderVars, refunded>> PROVE OrderStep(p)
  BY <1>1 DEF OrderStep, orderVars, proofVars, moneyVars
<1>2. ASSUME NEW o \in Orders, CreateOrder(o) \/ CreateWalletTopup(o) PROVE OrderStep(p)
  <2>1. /\ status[o] = "none" /\ status' = [status EXCEPT ![o] = "awaiting_payment"]
        /\ UNCHANGED <<refunded, payments, proofVars, moneyVars>>
    BY <1>2 DEF CreateOrder, CreateWalletTopup, Insert, accessVars
  <2> QED BY <1>a, <2>1 DEF OrderStep, Opened, proofVars, moneyVars
<1>3. ASSUME NEW old \in Orders, NEW new \in Orders, ReplaceOpenOrder(old, new)
      PROVE  OrderStep(p)
  <2>1. /\ status[new] = "none" /\ IsOpen(old) /\ Untouched(old)
        /\ status' = [status EXCEPT ![old] = "cancelled", ![new] = "awaiting_payment"]
        /\ UNCHANGED <<refunded, payments, proofVars, moneyVars>>
    BY <1>3 DEF ReplaceOpenOrder, OpenOrders, accessVars
  <2>2. old # new
    BY <2>1 DEF IsOpen, Open
  <2>3. status'[old] = "cancelled" /\ status'[new] = "awaiting_payment"
        /\ \A q \in Orders \ {old, new} : status'[q] = status[q]
    BY <1>a, <2>1, <2>2
  <2> QED BY <2>1, <2>3 DEF OrderStep, Opened, Closed, proofVars, moneyVars
<1>4. ASSUME NEW o \in Orders, CancelOrder(o) PROVE OrderStep(p)
  <2>1. /\ IsOpen(o) /\ Untouched(o)
        /\ status' = [status EXCEPT ![o] = "cancelled"]
        /\ UNCHANGED <<refunded, payments, proofVars, moneyVars>>
    BY <1>4 DEF CancelOrder, accessVars
  <2> QED BY <1>a, <2>1 DEF OrderStep, Closed, proofVars, moneyVars
<1>5. ASSUME NEW o \in Orders, NEW r \in Refs, SubmitPayment(o, r) PROVE OrderStep(p)
  <2>1. /\ IsOpen(o) /\ payments[o] = <<>>
        /\ status' = [status EXCEPT ![o] = "payment_submitted"]
        /\ payments' = [payments EXCEPT ![o] =
             Append(payments[o], [wallet |-> FALSE, ref |-> r, status |-> "submitted"])]
        /\ UNCHANGED <<refunded, proofVars, moneyVars>>
    BY <1>5 DEF SubmitPayment, accessVars
  <2> QED BY <1>a, <2>1, RowSet DEF OrderStep, TextPaid, proofVars, moneyVars
<1>6. ASSUME NEW o \in Orders, PayWithWallet(o) PROVE OrderStep(p)
  <2>1. /\ o \notin Topups /\ IsOpen(o) /\ NoReceiptPending(o)
        /\ \A n \in Live(o) : payments[o][n].wallet
        /\ ledger[o]["reserve"] = 0
        /\ status' = [status EXCEPT ![o] = "payment_submitted"]
        /\ hold' = [hold EXCEPT ![o] = "reserved"]
        /\ ledger' = [ledger EXCEPT ![o] = [ledger[o] EXCEPT !["reserve"] = Price[o]]]
        /\ payments' = [payments EXCEPT ![o] =
             Append(payments[o], [wallet |-> TRUE, ref |-> WalletRef, status |-> "submitted"])]
        /\ UNCHANGED <<refunded, proofVars>>
    BY <1>6 DEF PayWithWallet, accessVars
  <2>2. CASE p = o
    BY <1>a, <2>1, <2>2, RowSet DEF OrderStep, WalletPaid, proofVars
  <2>3. CASE p # o
    BY <1>a, <2>1, <2>3, RowSet DEF OrderStep, proofVars
  <2> QED BY <2>2, <2>3
<1>7. ASSUME NEW o \in Orders, NEW i \in Images, SubmitReceipt(o, i) PROVE OrderStep(p)
  <2>1. /\ IsOpen(o) /\ NoReceiptPending(o) /\ storage[o][i] = "absent"
        /\ \A n \in DOMAIN payments[o] :
             ~payments[o][n].wallet /\ payments[o][n].status = "rejected"
        /\ storage' = [storage EXCEPT ![o] = [storage[o] EXCEPT ![i] =
                         IF StorageConfigured THEN "pending" ELSE "not_configured"]]
        /\ newest' = [newest EXCEPT ![o] = i]
        /\ UNCHANGED <<refunded, status, payments, review, verified, moneyVars>>
    BY <1>7 DEF SubmitReceipt, ReceiptAccepted, accessVars
  <2>2. CASE p = o
    BY <1>a, <2>1, <2>2 DEF OrderStep, ReceiptSent, moneyVars
  <2>3. CASE p # o
    BY <1>a, <2>1, <2>3 DEF OrderStep, moneyVars
  <2> QED BY <2>2, <2>3
<1>8. ASSUME NEW o \in Orders, NEW i \in Images, storage[o][i] # "absent",
             \/ UNCHANGED storage
             \/ \E s \in StorageStatus : /\ s # "absent"
                                        /\ storage' = [storage EXCEPT ![o][i] = s],
             \/ UNCHANGED status
             \/ /\ status' = [status EXCEPT ![o] = "payment_submitted"]
                /\ status[o] # "approved"
                /\ IsOpen(o) \/ (~Ready /\ upload[1] = o),
             UNCHANGED <<refunded, payments, newest, review, verified, moneyVars>>
      PROVE  OrderStep(p)
  <2>1. \A q \in Orders : \A j \in Images :
          storage'[q][j] = "absent" <=> storage[q][j] = "absent"
    <3>1. CASE UNCHANGED storage
      BY <3>1
    <3>2. ASSUME NEW s \in StorageStatus, s # "absent",
                 storage' = [storage EXCEPT ![o][i] = s]
          PROVE  \A q \in Orders : \A j \in Images :
                   storage'[q][j] = "absent" <=> storage[q][j] = "absent"
      BY <1>a, <1>8, <3>2
    <3> QED BY <1>8, <3>1, <3>2
  <2>2. status'[p] = status[p] \/
        (p = o /\ status[o] # "approved" /\ status'[o] = "payment_submitted"
           /\ (IsOpen(o) \/ (~Ready /\ upload[1] = o)))
    BY <1>a, <1>8
  <2> QED BY <1>8, <2>1, <2>2 DEF OrderStep, ReceiptMoved, moneyVars
<1>9. ASSUME NEW o \in Orders, NEW i \in Images, RetryUpload(o, i) \/ RecoverReceipt(o, i)
      PROVE  OrderStep(p)
  <2>1. CASE RetryUpload(o, i)
    BY <1>8, <2>1 DEF RetryUpload, accessVars, StorageStatus
  <2>2. CASE RecoverReceipt(o, i)
    <3>1. storage[o][i] # "absent" /\ IsOpen(o) /\ status[o] # "approved"
      BY <2>2 DEF RecoverReceipt, StorageReady, ReceiptAccepted, IsOpen
    <3>2. /\ status' = [status EXCEPT ![o] = "payment_submitted"]
          /\ UNCHANGED storage
          /\ UNCHANGED <<refunded, payments, newest, review, verified, moneyVars>>
      BY <2>2 DEF RecoverReceipt, accessVars, proofVars
    <3>3. \/ UNCHANGED status
          \/ /\ status' = [status EXCEPT ![o] = "payment_submitted"]
             /\ status[o] # "approved"
             /\ IsOpen(o) \/ (~Ready /\ upload[1] = o)
      BY <3>1, <3>2
    <3>4. \/ UNCHANGED storage
          \/ \E s \in StorageStatus : /\ s # "absent"
                                     /\ storage' = [storage EXCEPT ![o][i] = s]
      BY <3>2
    <3> QED BY <1>8, <3>1, <3>2, <3>3, <3>4
  <2> QED BY <1>9, <2>1, <2>2
<1>10. CASE UploadDone \/ UploadFails
  <2>1. ~Ready
    BY <1>10 DEF UploadDone, UploadFails
  <2>2. PICK o \in Orders, i \in Images : o = upload[1] /\ i = upload[2]
    BY <1>0, <2>1, UploadOf DEF LedgerTypeOK
  <2>3. storage[o][i] # "absent" /\ status[o] # "approved"
    BY <2>1, <2>2 DEF ReceiptInv, UploadIsKnown
  <2>4. PICK s \in {storage[o][i], "stored", "failed"} :
          storage' = [storage EXCEPT ![o][i] = s]
    BY <1>10, <2>2 DEF UploadDone, UploadFails
  <2>5. s \in StorageStatus /\ s # "absent"
    <3>1. storage[o][i] \in StorageStatus
      BY <1>a
    <3>2. {"stored", "failed"} \subseteq StorageStatus
      BY DEF StorageStatus
    <3> QED BY <2>3, <2>4, <3>1, <3>2
  <2>6. /\ UNCHANGED status \/ status' = [status EXCEPT ![o] = "payment_submitted"]
        /\ UNCHANGED <<refunded, payments, newest, review, verified, moneyVars>>
    BY <1>10, <2>2 DEF UploadDone, UploadFails, accessVars
  <2> QED BY <1>8, <2>1, <2>2, <2>3, <2>4, <2>5, <2>6
<1>11. ASSUME NEW o \in Orders, NEW i \in Images, NEW r \in Refs, NEW x \in Surplus,
              VerifyReceipt(o, i, r, Price[o] + x)
       PROVE  OrderStep(p)
  <2> DEFINE row == [wallet |-> FALSE, ref |-> r, status |-> "verified"]
             rows == IF Live(o) # {} THEN [payments[o] EXCEPT ![LatestLive(o)] = row]
                                     ELSE Append(payments[o], row)
  <2>1. /\ IsOpen(o) /\ storage[o][i] # "absent" /\ review[o][i] = "pending"
        /\ Price[o] + x >= Price[o] /\ (o \in Topups => Price[o] + x = Price[o])
        /\ review' = [review EXCEPT ![o] = [review[o] EXCEPT ![i] = "verified"]]
        /\ verified' = [verified EXCEPT ![o] = Price[o] + x]
        /\ status' = [status EXCEPT ![o] = "payment_submitted"]
        /\ UNCHANGED <<refunded, newest, storage, moneyVars>>
    BY <1>11 DEF VerifyReceipt, accessVars
  <2>2. payments' = [payments EXCEPT ![o] = rows]
    BY <1>11 DEF VerifyReceipt
  <2> HIDE DEF rows
  <2>3. CASE p = o
    <3>1. /\ payments'[p] = rows /\ verified'[p] = Price[o] + x
          /\ status'[p] = "payment_submitted"
          /\ review'[p] = [review[o] EXCEPT ![i] = "verified"]
      BY <1>a, <2>1, <2>2, <2>3, RowSet
    <3>2. Verified(p)
      BY <2>1, <2>3, <3>1 DEF Verified, rows, moneyVars
    <3> QED BY <2>1, <3>2 DEF OrderStep
  <2>4. CASE p # o
    BY <1>a, <2>1, <2>2, <2>4, RowSet DEF OrderStep, moneyVars
  <2> QED BY <2>3, <2>4
<1>12. ASSUME NEW o \in Orders, NEW i \in Images, RejectReceipt(o, i) PROVE OrderStep(p)
  <2>1. /\ storage[o][i] # "absent" /\ review[o][i] = "pending"
        /\ RejectUnstored \/ InReviewQueue(o, i)
        /\ review' = [review EXCEPT ![o] = [review[o] EXCEPT ![i] = "rejected"]]
        /\ payments' = [payments EXCEPT ![o] = Marked(payments[o], {"submitted"}, "rejected")]
        /\ UNCHANGED <<refunded, status, newest, storage, verified, moneyVars>>
    BY <1>12 DEF RejectReceipt, accessVars
  <2> QED BY <1>a, <2>1, RowSet DEF OrderStep, TurnedDown, moneyVars
<1>13. ASSUME NEW o \in Orders, ApproveTopup(o) PROVE OrderStep(p)
  <2>1. /\ o \in Topups /\ CanApprove(o) /\ HasReceipt(o) /\ verified[o] = Price[o]
        /\ Post(o, "credit", Price[o])
        /\ status' = [status EXCEPT ![o] = "approved"]
        /\ UNCHANGED <<refunded, payments, proofVars, hold>>
    BY <1>13 DEF ApproveTopup, accessVars
  <2>2. Posted(o, "credit", Price[o]) /\ \A q \in Orders \ {o} : ledger'[q] = ledger[q]
    BY <1>a, <2>1, PostRow DEF Events
  <2> QED BY <1>a, <2>1, <2>2, RowSet DEF OrderStep, Credited, proofVars
<1>14. ASSUME NEW o \in Orders, ApproveTransfer(o) \/ ApproveWallet(o) PROVE OrderStep(p)
  <2>1. /\ o \notin Topups /\ CanApprove(o)
        /\ payments' = [payments EXCEPT ![o] =
                          [payments[o] EXCEPT ![LatestLive(o)].status = "verified"]]
        /\ hold' = [hold EXCEPT ![o] = "captured"]
        /\ status' = [status EXCEPT ![o] = "approved"]
        /\ OpenAccess(o)
        /\ UNCHANGED proofVars
    BY <1>14 DEF ApproveTransfer, ApproveWallet
  <2>2. refunded' = refunded
    BY <2>1 DEF OpenAccess
  <2>3. PICK row : /\ ledger' = [ledger EXCEPT ![o] = row]
                   /\ \/ /\ ApproveTransfer(o)
                         /\ \E c, d \in Nat :
                              /\ c = IF ledger[o]["credit"] # 0 THEN 0
                                     ELSE IF HasReceipt(o) THEN verified[o] ELSE Price[o]
                              /\ d = IF ledger[o]["reserve"] = 0 THEN Price[o] ELSE 0
                              /\ row = [ledger[o] EXCEPT !["credit"] = @ + c,
                                                         !["reserve"] = @ + d,
                                                         !["capture"] = Price[o]]
                      \/ /\ ApproveWallet(o)
                         /\ row = [ledger[o] EXCEPT !["capture"] = Price[o]]
    <3>1. CASE ApproveTransfer(o)
      <4> DEFINE c == IF ledger[o]["credit"] # 0 THEN 0
                      ELSE IF HasReceipt(o) THEN verified[o] ELSE Price[o]
                 d == IF ledger[o]["reserve"] = 0 THEN Price[o] ELSE 0
      <4>1. c \in Nat /\ d \in Nat
        BY <1>a, LedgerAssumption
      <4>2. ledger' = [ledger EXCEPT ![o] =
              [ledger[o] EXCEPT !["credit"] = @ + c, !["reserve"] = @ + d,
                                !["capture"] = Price[o]]]
        BY <3>1 DEF ApproveTransfer
      <4> HIDE DEF c, d
      <4> QED BY <3>1, <4>1, <4>2 DEF c, d
    <3>2. CASE ApproveWallet(o)
      BY <3>2 DEF ApproveWallet
    <3> QED BY <1>14, <3>1, <3>2
  <2>4. CASE p # o
    BY <1>a, <2>1, <2>2, <2>3, <2>4, RowSet DEF OrderStep, proofVars
  <2>5. CASE p = o
    <3>1. ledger'[p] = row
      BY <1>a, <2>3, <2>5, RowSet
    <3>2. Captured(p)
      BY <1>a, <2>1, <2>2, <2>5, RowSet DEF Captured, proofVars
    <3> QED BY <2>2, <2>3, <2>5, <3>1, <3>2 DEF OrderStep, Transferred, TakenFromHold, ApproveTransfer, ApproveWallet
  <2> QED BY <2>4, <2>5
<1>15. ASSUME NEW o \in Orders, RejectOrder(o) PROVE OrderStep(p)
  <2> DEFINE mark == [i \in Images |-> IF storage[o][i] # "absent" /\ review[o][i] = "pending"
                                       THEN "rejected" ELSE review[o][i]]
             Walleted == /\ payments[o] # <<>> /\ payments[o][Len(payments[o])].wallet
                         /\ ledger[o]["release"] = 0
  <2>1. /\ status[o] \in Open \cup {"cancelled"}
        /\ \A n \in DOMAIN payments[o] : payments[o][n].status # "verified"
        /\ \A i \in Images : review[o][i] # "verified"
        /\ status' = [status EXCEPT ![o] = "rejected"]
        /\ payments' = [payments EXCEPT ![o] = Marked(payments[o], {"submitted"}, "rejected")]
        /\ review' = [review EXCEPT ![o] = mark]
        /\ UNCHANGED <<refunded, newest, storage, verified>>
    BY <1>15 DEF RejectOrder, accessVars
  <2> HIDE DEF mark
  <2>2. \/ /\ Walleted
           /\ Posted(o, "release", Price[o]) /\ \A q \in Orders \ {o} : ledger'[q] = ledger[q]
           /\ hold' = [hold EXCEPT ![o] = "released"]
        \/ ~Walleted /\ UNCHANGED moneyVars
    BY <1>a, <1>15, PostRow DEF RejectOrder, Events
  <2>3. CASE p # o
    BY <1>a, <2>1, <2>2, <2>3, RowSet DEF OrderStep, moneyVars
  <2>4. CASE p = o
    <3>1. /\ status'[p] = "rejected" /\ review'[p] = mark
          /\ payments'[p] = Marked(payments[o], {"submitted"}, "rejected")
      BY <1>a, <2>1, <2>4, RowSet
    <3>2. IF Walleted THEN Posted(p, "release", Price[p]) /\ hold'[p] = "released"
                      ELSE UNCHANGED MoneyRow(p)
      BY <1>a, <2>2, <2>4, RowSet DEF moneyVars
    <3>3. Rejected(p)
      BY <2>1, <2>4, <3>1, <3>2 DEF Rejected, mark
    <3> QED BY <2>1, <3>3 DEF OrderStep
  <2> QED BY <2>3, <2>4
<1>16. ASSUME NEW o \in Orders, RefundOrder(o) PROVE OrderStep(p)
  <2> DEFINE amount == IF ~payments[o][LatestLive(o)].wallet /\ verified[o] > Price[o]
                         THEN verified[o] ELSE Price[o]
             to == IF status[o] = "approved" THEN "approved" ELSE "rejected"
  <2>1. /\ o \notin Topups /\ Live(o) # {} /\ payments[o][LatestLive(o)].status = "verified"
        /\ Post(o, "reversal", amount)
        /\ payments' = [payments EXCEPT ![o] =
                          Marked(payments[o], {"submitted", "verified"}, "refunded")]
        /\ status' = [status EXCEPT ![o] = to]
        /\ CloseAccess(o)
        /\ UNCHANGED <<proofVars, hold>>
    BY <1>16 DEF RefundOrder
  <2>2. o \notin refunded /\ refunded' = refunded \cup {o}
    BY <2>1 DEF CloseAccess
  <2>3. Posted(o, "reversal", amount) /\ \A q \in Orders \ {o} : ledger'[q] = ledger[q]
    BY <1>a, <2>1, PostRow DEF Events
  <2> HIDE DEF amount, to
  <2>4. CASE p # o
    BY <1>a, <2>1, <2>2, <2>3, <2>4, RowSet DEF OrderStep, proofVars
  <2>5. CASE p = o
    <3>1. /\ status'[p] = to
          /\ payments'[p] = Marked(payments[o], {"submitted", "verified"}, "refunded")
      BY <1>a, <2>1, <2>5, RowSet
    <3> QED BY <2>1, <2>2, <2>3, <2>5, <3>1 DEF OrderStep, Refunded, proofVars, amount, to
  <2> QED BY <2>4, <2>5
<1>17. ASSUME NEW o \in Orders, ExpireOrder(o),
              (IsOpen(o) /\ Untouched(o)) \/ (sweep.kind = "expire" /\ o \in sweep.rows)
       PROVE  OrderStep(p)
  <2>1. /\ status' = [status EXCEPT ![o] = "cancelled"]
        /\ UNCHANGED <<refunded, payments, proofVars, moneyVars>>
    BY <1>17 DEF ExpireOrder, accessVars
  <2> QED BY <1>a, <1>17, <2>1, RowSet DEF OrderStep, Closed, proofVars, moneyVars
<1>18. ASSUME NEW o \in Orders, ReleaseHold(o),
              o \in ReleaseRows \/ (sweep.kind # "expire" /\ o \in sweep.rows)
       PROVE  OrderStep(p)
  <2> DEFINE rows == [n \in DOMAIN payments[o] |->
               IF payments[o][n].wallet /\ payments[o][n].status = "submitted"
                 THEN [payments[o][n] EXCEPT !.status = "rejected"] ELSE payments[o][n]]
             to == IF status[o] = "payment_submitted" THEN "cancelled" ELSE status[o]
  <2>1. /\ status' = [status EXCEPT ![o] = to]
        /\ payments' = [payments EXCEPT ![o] = rows]
        /\ hold' = [hold EXCEPT ![o] = "released"]
        /\ Post(o, "release", Price[o])
        /\ UNCHANGED <<refunded, proofVars>>
    BY <1>18 DEF ReleaseHold, accessVars
  <2>2. Posted(o, "release", Price[o]) /\ \A q \in Orders \ {o} : ledger'[q] = ledger[q]
    BY <1>a, <2>1, PostRow DEF Events
  <2> HIDE DEF rows, to
  <2>3. CASE p # o
    BY <1>a, <2>1, <2>2, <2>3, RowSet DEF OrderStep, proofVars
  <2>4. CASE p = o
    <3>1. status'[p] = to /\ payments'[p] = rows /\ hold'[p] = "released"
      BY <1>a, <2>1, <2>4, RowSet
    <3> QED BY <1>18, <2>1, <2>2, <2>4, <3>1 DEF OrderStep, Released, proofVars, rows, to
  <2> QED BY <2>3, <2>4
<1>19. ASSUME NEW o \in Orders, SweepExpired(o) PROVE OrderStep(p)
  BY <1>17, <1>19 DEF SweepExpired, ExpireRows, IsOpen, Open
<1>20. ASSUME NEW o \in Orders, SweepHold(o) PROVE OrderStep(p)
  BY <1>18, <1>20 DEF SweepHold
<1>21. ASSUME NEW o \in Orders, SweepWrite(o) PROVE OrderStep(p)
  BY <1>17, <1>18, <1>21 DEF SweepWrite
<1>22. CASE \/ \E k \in {"expire", "release"} : SweepSelect(k)
            \/ TimeNext \/ WorkerNext \/ AroundWorkers \/ UNCHANGED vars
  <2>1. UNCHANGED orderVars
    BY <1>22 DEF SweepSelect, TimeNext, OrderAges, HoldAges, PromoChanges, Restart,
       WorkerNext, AroundWorkers, vars, ledgerVars
  <2>2. refunded' = refunded
    BY <1>22, WorkersDoNotRefund DEF SweepSelect, TimeNext, OrderAges, HoldAges,
       PromoChanges, Restart, WorkerCrash, WorkerNext, AroundWorkers, vars, accessVars
  <2> QED BY <1>1, <2>1, <2>2
<1> QED
  BY <1>2, <1>3, <1>4, <1>5, <1>6, <1>7, <1>9, <1>10, <1>11, <1>12, <1>13, <1>14,
     <1>15, <1>16, <1>19, <1>20, <1>21, <1>22
  DEF Next, LedgerNext, CustomerNext, StaffNext, SweepNext

-----------------------------------------------------------------------------
(* Payments *)

LastRow(o)  == payments[o][Len(payments[o])]
Walleted(o) == payments[o] # <<>> /\ LastRow(o).wallet

(* A wallet payment is the order's last row; with one, no transfer is under
   review, every receipt was turned down and the price is reserved. *)
PaymentFacts(o) ==
  /\ \A n \in DOMAIN payments[o] : payments[o][n].wallet => n = Len(payments[o])
  /\ Walleted(o) =>
       /\ \A n \in Live(o) : payments[o][n].wallet
       /\ \A i \in Images : storage[o][i] # "absent" => review[o][i] = "rejected"
       /\ ledger[o]["reserve"] = Price[o]
       /\ o \notin Topups

PaymentInv == ReceiptInv /\ \A o \in Orders : PaymentFacts(o)

(* Without a wallet payment at its end an order has none. *)
LEMMA NoWalletRow ==
  ASSUME PaymentInv, NEW o \in Orders, ~Walleted(o)
  PROVE  \A n \in DOMAIN payments[o] : ~payments[o][n].wallet
<1>1. payments \in [Orders -> Seq(Payment)]
  BY DEF PaymentInv, ReceiptInv, LedgerTypeOK
<1>2. ASSUME NEW n \in DOMAIN payments[o], payments[o][n].wallet PROVE FALSE
  <2>1. n = Len(payments[o])
    BY <1>2 DEF PaymentInv, PaymentFacts
  <2>2. payments[o] # <<>>
    BY <1>1, RowsOf, EmptySeq
  <2> QED BY <1>2, <2>1, <2>2 DEF Walleted, LastRow
<1> QED BY <1>2

(* An order's payments stay in order when no row is added, none comes back to
   life and no receipt either. *)
LEMMA RowsKeepFacts ==
  ASSUME NEW o \in Orders, PaymentFacts(o), payments \in [Orders -> Seq(Payment)],
         Len(payments'[o]) = Len(payments[o]), DOMAIN payments'[o] = DOMAIN payments[o],
         payments'[o] = <<>> <=> payments[o] = <<>>,
         \A n \in DOMAIN payments[o] :
           /\ payments'[o][n].wallet = payments[o][n].wallet
           /\ payments'[o][n].status \in {"submitted", "verified"}
                => payments[o][n].status \in {"submitted", "verified"},
         Walleted(o) =>
           /\ \A i \in Images : storage'[o][i] # "absent" => review'[o][i] = "rejected"
           /\ ledger'[o]["reserve"] = ledger[o]["reserve"]
  PROVE  PaymentFacts(o)'
<1>1. payments[o] # <<>> => Len(payments[o]) \in DOMAIN payments[o]
  BY RowsOf
<1>2. Walleted(o)' <=> Walleted(o)
  BY <1>1 DEF Walleted, LastRow
<1>3. Live(o)' \subseteq Live(o)
  BY DEF Live
<1>4. \A n \in Live(o)' : payments'[o][n].wallet = payments[o][n].wallet
  BY DEF Live
<1> QED BY <1>2, <1>3, <1>4 DEF PaymentFacts

(* Rows without a wallet payment have their facts. *)
LEMMA TransfersHaveFacts ==
  ASSUME NEW o \in Orders, payments' \in [Orders -> Seq(Payment)],
         \A n \in DOMAIN payments'[o] : ~payments'[o][n].wallet
  PROVE  PaymentFacts(o)'
<1>1. payments'[o] # <<>> => Len(payments'[o]) \in DOMAIN payments'[o]
  BY LenProperties, EmptySeq
<1> QED BY <1>1 DEF PaymentFacts, Walleted, LastRow

(* Posting an event leaves the others of the order alone. *)
LEMMA PostedKeeps ==
  ASSUME NEW o \in Orders, ledger \in [Orders -> [Events -> Nat]],
         NEW e \in Events, NEW amount \in Nat, Posted(o, e, amount)
  PROVE  /\ \A f \in Events \ {e} : ledger'[o][f] = ledger[o][f]
         /\ ledger'[o][e] = IF ledger[o][e] = 0 THEN amount ELSE ledger[o][e]
<1>1. ledger[o] \in [Events -> Nat]
  OBVIOUS
<1> QED BY <1>1 DEF Posted

(* There are no payments at first. *)
LEMMA PaymentInit == Init => PaymentInv
<1> SUFFICES ASSUME Init PROVE PaymentInv
  OBVIOUS
<1>1. \A o \in Orders : payments[o] = <<>>
  BY DEF Init
<1>2. \A o \in Orders : PaymentFacts(o)
  BY <1>1 DEF PaymentFacts, Walleted
<1> QED BY <1>2, ReceiptInit DEF PaymentInv

(* Every step keeps the payments of every order in order. *)
LEMMA PaymentStep == PaymentInv /\ [Next]_vars => PaymentInv'
<1> SUFFICES ASSUME PaymentInv, [Next]_vars, NEW p \in Orders
             PROVE  PaymentFacts(p)'
  BY ReceiptStep DEF PaymentInv
<1>1. ReceiptInv /\ ReceiptInv'
  BY ReceiptStep DEF PaymentInv
<1>2. /\ payments \in [Orders -> Seq(Payment)] /\ payments' \in [Orders -> Seq(Payment)]
      /\ ledger \in [Orders -> [Events -> Nat]]
      /\ newest \in [Orders -> Images \cup {NoImage}]
      /\ review \in [Orders -> [Images -> {"pending", "verified", "rejected"}]]
  BY <1>1 DEF ReceiptInv, LedgerTypeOK
<1>3. /\ payments[p] \in Seq(Payment) /\ Len(payments[p]) \in Nat
      /\ DOMAIN payments[p] = 1..Len(payments[p])
      /\ payments[p] # <<>> => Len(payments[p]) > 0
      /\ \A n \in DOMAIN payments[p] : payments[p][n] \in Payment
  BY <1>2, RowsOf
<1>4. /\ PaymentFacts(p)
      /\ \A i \in Images : storage[p][i] # "absent" /\ review[p][i] # "rejected" => ~Walleted(p)
  BY DEF PaymentInv, PaymentFacts
<1>5. ~Walleted(p) => \A n \in DOMAIN payments[p] : ~payments[p][n].wallet
  BY NoWalletRow
<1>6. {"submitted", "verified", "rejected", "refunded"} \subseteq PayStatus
  BY DEF PayStatus
<1>7. Price[p] \in Nat \ {0}
  BY LedgerAssumption
<1>8. ASSUME NEW from, NEW to \in PayStatus, payments'[p] = Marked(payments[p], from, to),
             to \notin {"submitted", "verified"},
             Walleted(p) =>
               /\ \A i \in Images : storage'[p][i] # "absent" => review'[p][i] = "rejected"
               /\ ledger'[p]["reserve"] = ledger[p]["reserve"]
      PROVE  PaymentFacts(p)'
  <2>1. /\ Len(payments'[p]) = Len(payments[p]) /\ DOMAIN payments'[p] = DOMAIN payments[p]
        /\ \A n \in DOMAIN payments[p] :
             /\ payments'[p][n].wallet = payments[p][n].wallet
             /\ payments'[p][n].status = IF payments[p][n].status \in from
                                           THEN to ELSE payments[p][n].status
    BY <1>3, <1>8, MarkedRows
  <2>2. payments'[p] = <<>> <=> payments[p] = <<>>
    BY <1>2, <1>3, <2>1, EmptySeq, LenProperties
  <2> QED BY <1>2, <1>4, <1>8, <2>1, <2>2, RowsKeepFacts
<1>9. ASSUME UNCHANGED payments[p],
             Walleted(p) =>
               /\ \A i \in Images : storage'[p][i] # "absent" => review'[p][i] = "rejected"
               /\ ledger'[p]["reserve"] = ledger[p]["reserve"]
      PROVE  PaymentFacts(p)'
  BY <1>2, <1>4, <1>9, RowsKeepFacts
<1>10. CASE Untold(p) \/ Opened(p) \/ Closed(p)
  BY <1>4, <1>9, <1>10 DEF Untold, Opened, Closed, StatusOnly, ProofRow, MoneyRow, PaymentFacts
<1>11. CASE TextPaid(p)
  <2>1. PICK r \in Refs : payments'[p] =
          Append(payments[p], [wallet |-> FALSE, ref |-> r, status |-> "submitted"])
    BY <1>11 DEF TextPaid
  <2>2. \A n \in DOMAIN payments'[p] : ~payments'[p][n].wallet
    <3>1. payments[p] = <<>>
      BY <1>11 DEF TextPaid
    <3>2. payments'[p] = <<[wallet |-> FALSE, ref |-> r, status |-> "submitted"]>>
      BY <2>1, <3>1
    <3> QED BY <3>2
  <2> QED BY <1>2, <2>2, TransfersHaveFacts
<1>12. CASE WalletPaid(p)
  <2> DEFINE row == [wallet |-> TRUE, ref |-> WalletRef, status |-> "submitted"]
  <2>1. ~Walleted(p)
    BY <1>4, <1>7, <1>12 DEF WalletPaid, PaymentFacts
  <2>2. row \in Payment /\ payments'[p] = Append(payments[p], row)
    BY <1>6, <1>12 DEF WalletPaid, Payment
  <2>3. /\ Len(payments'[p]) = Len(payments[p]) + 1
        /\ DOMAIN payments'[p] = 1..(Len(payments[p]) + 1)
        /\ payments'[p][Len(payments[p]) + 1] = row
        /\ \A n \in 1..Len(payments[p]) : payments'[p][n] = payments[p][n]
    BY <1>3, <2>2, AppendProperties, LenProperties
  <2>4. \A n \in 1..Len(payments[p]) : ~payments[p][n].wallet
    BY <1>3, <1>5, <2>1
  <2>5. \A n \in 1..Len(payments[p]) : payments[p][n].status \notin {"submitted", "verified"}
    BY <1>3, <1>12, <2>4 DEF WalletPaid, Live
  <2>6. \A n \in DOMAIN payments'[p] : payments'[p][n].wallet => n = Len(payments'[p])
    BY <1>3, <2>3, <2>4
  <2>7. \A n \in Live(p)' : payments'[p][n].wallet
    BY <1>3, <2>3, <2>5 DEF Live
  <2>8. \A i \in Images : storage[p][i] # "absent" => review[p][i] = "rejected"
    BY <1>1, <1>2, <1>12, ImageAssumption
    DEF WalletPaid, ReceiptInv, ReceiptFacts, NoReceiptPending, HasReceipt, NewestReview
  <2>9. UNCHANGED <<storage[p], review[p]>> /\ p \notin Topups
    BY <1>12 DEF WalletPaid, ProofRow
  <2>10. ledger'[p]["reserve"] = Price[p]
    BY <1>2, <1>12 DEF WalletPaid, Events
  <2> QED BY <2>6, <2>7, <2>8, <2>9, <2>10 DEF PaymentFacts
<1>13. CASE ReceiptSent(p)
  <2>1. payments'[p] = payments[p] /\ \A n \in DOMAIN payments[p] : ~payments[p][n].wallet
    BY <1>13 DEF ReceiptSent
  <2> QED BY <1>2, <2>1, TransfersHaveFacts
<1>14. CASE ReceiptMoved(p)
  BY <1>4, <1>9, <1>14 DEF ReceiptMoved, MoneyRow, PaymentFacts
<1>15. CASE Verified(p)
  <2>1. ~Walleted(p)
    BY <1>4, <1>15 DEF Verified
  <2>2. PICK r \in Refs : payments'[p] =
          IF Live(p) # {}
            THEN [payments[p] EXCEPT ![LatestLive(p)] =
                    [wallet |-> FALSE, ref |-> r, status |-> "verified"]]
            ELSE Append(payments[p], [wallet |-> FALSE, ref |-> r, status |-> "verified"])
    BY <1>15 DEF Verified
  <2> DEFINE row == [wallet |-> FALSE, ref |-> r, status |-> "verified"]
  <2>3. row \in Payment
    BY <1>6 DEF Payment
  <2>4. \A n \in 1..Len(payments[p]) : ~payments[p][n].wallet
    BY <1>3, <1>5, <2>1
  <2>5. \A n \in DOMAIN payments'[p] : ~payments'[p][n].wallet
    <3>1. CASE Live(p) # {}
      <4>1. payments'[p] = [payments[p] EXCEPT ![LatestLive(p)] = row]
        BY <2>2, <3>1
      <4>2. row.wallet = FALSE
        OBVIOUS
      <4> HIDE DEF row
      <4> QED BY <1>3, <2>4, <4>1, <4>2
    <3>2. CASE Live(p) = {}
      <4>1. payments'[p] = Append(payments[p], row)
        BY <2>2, <3>2
      <4>2. row.wallet = FALSE
        OBVIOUS
      <4> HIDE DEF row
      <4>3. /\ DOMAIN payments'[p] = 1..(Len(payments[p]) + 1)
            /\ payments'[p][Len(payments[p]) + 1] = row
            /\ \A n \in 1..Len(payments[p]) : payments'[p][n] = payments[p][n]
        BY <1>3, <2>3, <4>1, AppendProperties, LenProperties
      <4> QED BY <1>3, <2>4, <4>2, <4>3
    <3> QED BY <3>1, <3>2
  <2> QED BY <1>2, <2>5, TransfersHaveFacts
<1>16. CASE TurnedDown(p)
  BY <1>4, <1>6, <1>8, <1>16 DEF TurnedDown
<1>17. CASE Credited(p)
  <2>1. ~Walleted(p) /\ payments'[p] = payments[p]
    BY <1>4, <1>17 DEF Credited, PaymentFacts
  <2> QED BY <1>9, <2>1
<1>18. CASE Captured(p) /\ (Walleted(p) => ledger'[p]["reserve"] = ledger[p]["reserve"])
  <2> DEFINE m == LatestLive(p)
  <2>1. m \in Live(p)
    BY <1>2, <1>18, LatestIsLive DEF Captured, CanApprove
  <2>2. m \in DOMAIN payments[p] /\ payments[p][m].status \in {"submitted", "verified"}
    BY <2>1 DEF Live
  <2>3. payments'[p] = [payments[p] EXCEPT ![m] = [payments[p][m] EXCEPT !.status = "verified"]]
    BY <1>18 DEF Captured
  <2> HIDE DEF m
  <2>4. payments[p] \in [1..Len(payments[p]) -> Payment]
    BY <1>3, LenProperties
  <2>5. /\ [payments[p][m] EXCEPT !.status = "verified"].wallet = payments[p][m].wallet
        /\ [payments[p][m] EXCEPT !.status = "verified"].status = "verified"
    BY <1>3, <2>2 DEF Payment
  <2>6. /\ payments'[p][m].wallet = payments[p][m].wallet
        /\ \A n \in DOMAIN payments[p] \ {m} : payments'[p][n] = payments[p][n]
        /\ DOMAIN payments'[p] = DOMAIN payments[p]
    BY <2>2, <2>3, <2>4, <2>5
  <2>7. \A n \in DOMAIN payments[p] :
          /\ payments'[p][n].wallet = payments[p][n].wallet
          /\ payments'[p][n].status \in {"submitted", "verified"}
               => payments[p][n].status \in {"submitted", "verified"}
    BY <2>2, <2>6
  <2>8. Len(payments'[p]) = Len(payments[p]) /\ (payments'[p] = <<>> <=> payments[p] = <<>>)
    BY <1>2, <1>3, <2>2, <2>6, LenProperties, EmptySeq
  <2>9. Walleted(p) =>
           /\ \A i \in Images : storage'[p][i] # "absent" => review'[p][i] = "rejected"
           /\ ledger'[p]["reserve"] = ledger[p]["reserve"]
    BY <1>4, <1>18 DEF Captured, ProofRow, PaymentFacts
  <2> QED BY <1>2, <1>4, <2>6, <2>7, <2>8, <2>9, RowsKeepFacts
<1>19. CASE Transferred(p)
  <2>1. ~Walleted(p)
    BY <1>2, <1>4, <1>19, LatestIsLive DEF Transferred, Captured, CanApprove, PaymentFacts
  <2> QED BY <1>18, <1>19, <2>1 DEF Transferred
<1>20. CASE TakenFromHold(p)
  BY <1>2, <1>18, <1>20 DEF TakenFromHold, Events
<1>21. CASE Rejected(p)
  <2>1. Walleted(p) => \A i \in Images : storage'[p][i] # "absent" => review'[p][i] = "rejected"
    BY <1>4, <1>21 DEF Rejected, PaymentFacts
  <2>2. ledger'[p]["reserve"] = ledger[p]["reserve"]
    BY <1>2, <1>7, <1>21, PostedKeeps DEF Rejected, MoneyRow, Events
  <2> QED BY <1>6, <1>8, <1>21, <2>1, <2>2 DEF Rejected
<1>22. CASE Refunded(p)
  <2>1. Walleted(p) => \A i \in Images : storage'[p][i] # "absent" => review'[p][i] = "rejected"
    BY <1>4, <1>22 DEF Refunded, ProofRow, PaymentFacts
  <2>2. verified[p] \in Nat
    BY <1>1 DEF ReceiptInv, LedgerTypeOK
  <2>3. ledger'[p]["reserve"] = ledger[p]["reserve"]
    BY <1>2, <1>7, <1>22, <2>2, PostedKeeps DEF Refunded, Events
  <2> QED BY <1>6, <1>8, <1>22, <2>1, <2>3 DEF Refunded
<1>23. CASE Released(p)
  <2>1. payments'[p] = [n \in DOMAIN payments[p] |->
          IF payments[p][n].wallet /\ payments[p][n].status = "submitted"
            THEN [payments[p][n] EXCEPT !.status = "rejected"] ELSE payments[p][n]]
    BY <1>23 DEF Released
  <2>2. DOMAIN payments'[p] = DOMAIN payments[p]
    BY <2>1
  <2>3. ASSUME NEW n \in DOMAIN payments[p]
        PROVE  /\ payments'[p][n].wallet = payments[p][n].wallet
               /\ payments'[p][n].status \in {"submitted", "verified"}
                    => payments[p][n].status \in {"submitted", "verified"}
    <3>1. /\ [payments[p][n] EXCEPT !.status = "rejected"].wallet = payments[p][n].wallet
          /\ [payments[p][n] EXCEPT !.status = "rejected"].status = "rejected"
      BY <1>3 DEF Payment
    <3>2. payments'[p][n] \in {payments[p][n], [payments[p][n] EXCEPT !.status = "rejected"]}
      BY <2>1
    <3> QED BY <3>1, <3>2
  <2>4. Len(payments'[p]) = Len(payments[p]) /\ (payments'[p] = <<>> <=> payments[p] = <<>>)
    BY <1>2, <1>3, <2>2, LenProperties, EmptySeq
  <2>5. Walleted(p) =>
           /\ \A i \in Images : storage'[p][i] # "absent" => review'[p][i] = "rejected"
           /\ ledger'[p]["reserve"] = ledger[p]["reserve"]
    <3>1. ledger'[p]["reserve"] = ledger[p]["reserve"]
      BY <1>2, <1>7, <1>23, PostedKeeps DEF Released, Events
    <3>2. UNCHANGED <<storage[p], review[p]>>
      BY <1>23 DEF Released, ProofRow
    <3> QED BY <1>4, <3>1, <3>2 DEF PaymentFacts
  <2> QED BY <1>2, <1>4, <2>2, <2>3, <2>4, <2>5, RowsKeepFacts
<1> QED
  BY <1>1, <1>10, <1>11, <1>12, <1>13, <1>14, <1>15, <1>16, <1>17, <1>19, <1>20, <1>21,
     <1>22, <1>23, StepIsOrderStep DEF OrderStep

-----------------------------------------------------------------------------
(* Money on hold, on SQLite *)

(* The ledger shows an order's hold as its reservation row does; money on hold
   belongs to a submitted wallet payment of an order under review; a plan is
   approved only with its price captured. *)
HoldFacts(o) ==
  /\ ledger[o]["reserve"] = IF hold[o] = "none" THEN 0 ELSE Price[o]
  /\ ledger[o]["capture"] = IF hold[o] = "captured" THEN Price[o] ELSE 0
  /\ ledger[o]["release"] = IF hold[o] = "released" THEN Price[o] ELSE 0
  /\ hold[o] = "reserved" => /\ status[o] = "payment_submitted"
                             /\ Walleted(o) /\ LastRow(o).status = "submitted"
  /\ hold[o] = "captured" => status[o] = "approved"
  /\ hold[o] = "released" => Walleted(o)
  /\ Walleted(o) /\ LastRow(o).status = "submitted" => hold[o] = "reserved"
  /\ Walleted(o) /\ LastRow(o).status = "verified" => hold[o] = "captured"
  /\ status[o] = "approved" /\ o \notin Topups => hold[o] = "captured"

HoldInv ==
  /\ PaymentInv
  /\ sweep = NoSweep
  /\ \A o \in Orders : HoldFacts(o)

(* On SQLite no sweep is ever between selecting and writing. *)
LEMMA NoOpenSweep ==
  ASSUME Backend = "sqlite", sweep = NoSweep, [Next]_vars
  PROVE  sweep' = NoSweep
<1>1. CASE CustomerNext
  BY <1>1 DEF CustomerNext, CreateOrder, CreateWalletTopup, Insert, ReplaceOpenOrder,
     CancelOrder, SubmitPayment, PayWithWallet, SubmitReceipt, RetryUpload,
     RecoverReceipt, UploadDone, UploadFails, aroundVars
<1>2. CASE StaffNext
  BY <1>2 DEF StaffNext, VerifyReceipt, RejectReceipt, ApproveTopup, ApproveTransfer,
     ApproveWallet, RejectOrder, RefundOrder, aroundVars
<1>3. CASE SweepNext
  BY <1>3 DEF SweepNext, SweepExpired, SweepHold, SweepSelect, SweepWrite, NoSweep
<1>4. CASE TimeNext \/ WorkerNext \/ AroundWorkers \/ UNCHANGED vars
  BY <1>4 DEF TimeNext, OrderAges, HoldAges, PromoChanges, Restart,
     WorkerNext, AroundWorkers, vars, ledgerVars, aroundVars
<1> QED BY <1>1, <1>2, <1>3, <1>4 DEF Next, LedgerNext

(* The last row after marking. *)
LEMMA LastMarked ==
  ASSUME payments \in [Orders -> Seq(Payment)], payments' \in [Orders -> Seq(Payment)],
         NEW o \in Orders, NEW from, NEW to \in PayStatus,
         payments'[o] = Marked(payments[o], from, to)
  PROVE  /\ Walleted(o)' <=> Walleted(o)
         /\ Walleted(o) => LastRow(o)'.status = IF LastRow(o).status \in from
                                                  THEN to ELSE LastRow(o).status
<1>1. /\ payments[o] \in Seq(Payment) /\ Len(payments[o]) \in Nat
      /\ DOMAIN payments[o] = 1..Len(payments[o])
      /\ payments[o] # <<>> => Len(payments[o]) > 0
  BY RowsOf
<1>2. /\ Len(payments'[o]) = Len(payments[o])
      /\ \A n \in DOMAIN payments[o] :
           /\ payments'[o][n].wallet = payments[o][n].wallet
           /\ payments'[o][n].status = IF payments[o][n].status \in from
                                         THEN to ELSE payments[o][n].status
  BY <1>1, MarkedRows
<1>3. payments'[o] # <<>> <=> payments[o] # <<>>
  BY <1>1, <1>2, EmptySeq, LenProperties
<1>4. payments[o] # <<>> => Len(payments[o]) \in DOMAIN payments[o]
  BY <1>1
<1> QED BY <1>2, <1>3, <1>4 DEF Walleted, LastRow

(* With a wallet payment the live row is the last one. *)
LEMMA LiveIsLast ==
  ASSUME PaymentInv, NEW o \in Orders, Live(o) # {}
  PROVE  /\ LatestLive(o) \in Live(o)
         /\ payments[o][LatestLive(o)].wallet <=> Walleted(o)
         /\ Walleted(o) => LatestLive(o) = Len(payments[o])
<1>1. payments \in [Orders -> Seq(Payment)] /\ PaymentFacts(o)
  BY DEF PaymentInv, ReceiptInv, LedgerTypeOK
<1>2. LatestLive(o) \in Live(o) /\ LatestLive(o) \in DOMAIN payments[o]
  BY <1>1, LatestIsLive DEF Live
<1>3. ~Walleted(o) => ~payments[o][LatestLive(o)].wallet
  BY <1>2, NoWalletRow
<1>4. Walleted(o) => payments[o][LatestLive(o)].wallet
  BY <1>1, <1>2 DEF PaymentFacts
<1> QED BY <1>1, <1>2, <1>3, <1>4 DEF PaymentFacts

(* No money moved at first. *)
LEMMA HoldInit == Init => HoldInv
<1> SUFFICES ASSUME Init PROVE HoldInv
  OBVIOUS
<1>1. ASSUME NEW o \in Orders PROVE HoldFacts(o)
  <2>1. payments[o] = <<>> /\ hold[o] = "none" /\ status[o] = "none"
        /\ \A e \in Events : ledger[o][e] = 0
    BY DEF Init
  <2> QED BY <2>1 DEF HoldFacts, Walleted, Events
<1> QED BY <1>1, PaymentInit DEF HoldInv, Init

(* Every step on SQLite keeps holds and the ledger in agreement. *)
LEMMA HoldStep ==
  ASSUME Backend = "sqlite"
  PROVE  HoldInv /\ [Next]_vars => HoldInv'
<1> SUFFICES ASSUME HoldInv, [Next]_vars, NEW p \in Orders PROVE HoldFacts(p)'
  BY PaymentStep, NoOpenSweep DEF HoldInv
<1>1. PaymentInv /\ PaymentInv' /\ ReceiptInv
  BY PaymentStep DEF HoldInv, PaymentInv
<1>2. /\ payments \in [Orders -> Seq(Payment)] /\ payments' \in [Orders -> Seq(Payment)]
      /\ ledger \in [Orders -> [Events -> Nat]]
      /\ verified \in [Orders -> Nat]
      /\ hold \in [Orders -> {"none", "reserved", "captured", "released"}]
  BY <1>1 DEF PaymentInv, ReceiptInv, LedgerTypeOK
<1>3. Price[p] \in Nat /\ Price[p] > 0
  BY LedgerAssumption
<1>4. HoldFacts(p) /\ PaymentFacts(p) /\ PaymentFacts(p)'
  BY <1>1 DEF HoldInv, PaymentInv
<1>5. /\ \A i \in Images : storage[p][i] # "absent" /\ review[p][i] # "rejected" => ~Walleted(p)
      /\ Walleted(p) => ledger[p]["reserve"] = Price[p]
      /\ Walleted(p) => p \notin Topups
  BY <1>4 DEF PaymentFacts
<1>6. {"submitted", "verified", "rejected", "refunded"} \subseteq PayStatus
  BY DEF PayStatus
<1>7. hold[p] \in {"none", "reserved", "captured", "released"} /\ ledger[p] \in [Events -> Nat]
  BY <1>2
<1>8. ASSUME UNCHANGED <<status[p], payments[p], hold[p], ledger[p]>> PROVE HoldFacts(p)'
  BY <1>4, <1>8 DEF HoldFacts, Walleted, LastRow
<1>9. CASE Untold(p) \/ ReceiptSent(p)
  BY <1>8, <1>9 DEF Untold, ReceiptSent, MoneyRow
<1>10. CASE Opened(p)
  BY <1>4, <1>10 DEF Opened, StatusOnly, MoneyRow, HoldFacts, Walleted, LastRow
<1>11. CASE Closed(p)
  <2>1. /\ IsOpen(p) /\ payments[p] = <<>> /\ UNCHANGED <<payments[p], hold[p], ledger[p]>>
        /\ status'[p] = "cancelled"
    BY <1>11 DEF Closed, HoldInv, NoSweep, StatusOnly, Untouched, MoneyRow
  <2> QED BY <1>4, <2>1 DEF HoldFacts, Walleted, LastRow, IsOpen, Open
<1>12. CASE ReceiptMoved(p)
  BY <1>4, <1>12 DEF ReceiptMoved, MoneyRow, HoldFacts, Walleted, LastRow
<1>13. CASE Verified(p) \/ TextPaid(p)
  <2>1. ~Walleted(p) /\ IsOpen(p)
    BY <1>5, <1>13 DEF Verified, TextPaid, Walleted
  <2>2. hold[p] = "none"
    BY <1>4, <1>7, <2>1 DEF HoldFacts, IsOpen, Open
  <2>3. UNCHANGED <<hold[p], ledger[p]>> /\ status'[p] = "payment_submitted"
    BY <1>13 DEF Verified, TextPaid, MoneyRow
  <2>4. ~Walleted(p)'
    BY <1>3, <1>4, <2>2, <2>3 DEF PaymentFacts, HoldFacts
  <2> QED BY <1>4, <2>2, <2>3, <2>4 DEF HoldFacts
<1>14. CASE WalletPaid(p)
  <2> DEFINE row == [wallet |-> TRUE, ref |-> WalletRef, status |-> "submitted"]
  <2>1. hold[p] = "none"
    BY <1>3, <1>4, <1>14 DEF WalletPaid, HoldFacts
  <2>2. /\ hold'[p] = "reserved" /\ status'[p] = "payment_submitted"
        /\ ledger'[p] = [ledger[p] EXCEPT !["reserve"] = Price[p]]
        /\ payments'[p] = Append(payments[p], row)
    BY <1>14 DEF WalletPaid
  <2>3. row \in Payment /\ row.wallet /\ row.status = "submitted"
    BY <1>6 DEF Payment
  <2> HIDE DEF row
  <2>4. /\ Len(payments'[p]) = Len(payments[p]) + 1
        /\ payments'[p][Len(payments[p]) + 1] = row
        /\ payments'[p] # <<>>
    <3>1. payments[p] \in Seq(Payment) /\ Len(payments[p]) \in Nat
      BY <1>2, LenProperties
    <3> QED BY <2>2, <2>3, <3>1, AppendProperties
  <2>5. Walleted(p)' /\ LastRow(p)'.status = "submitted"
    BY <2>3, <2>4 DEF Walleted, LastRow
  <2>6. /\ ledger'[p]["reserve"] = Price[p] /\ ledger'[p]["capture"] = 0
        /\ ledger'[p]["release"] = 0
    BY <1>4, <1>7, <2>1, <2>2 DEF HoldFacts, Events
  <2> QED BY <2>2, <2>5, <2>6 DEF HoldFacts
<1>15. CASE TurnedDown(p)
  <2>1. ~Walleted(p) /\ UNCHANGED <<hold[p], ledger[p], status[p]>>
    BY <1>5, <1>15 DEF TurnedDown, MoneyRow
  <2>2. ~Walleted(p)'
    BY <1>2, <1>6, <1>15, <2>1, LastMarked DEF TurnedDown
  <2> QED BY <1>4, <2>1, <2>2 DEF HoldFacts
<1>16. CASE Credited(p)
  <2>1. ~Walleted(p) /\ status[p] = "payment_submitted" /\ p \in Topups
    BY <1>5, <1>16 DEF Credited, CanApprove
  <2>2. /\ UNCHANGED <<hold[p], payments[p]>> /\ status'[p] = "approved"
        /\ \A e \in Events \ {"credit"} : ledger'[p][e] = ledger[p][e]
    BY <1>2, <1>3, <1>16, PostedKeeps DEF Credited, Events
  <2>3. /\ ledger'[p]["reserve"] = ledger[p]["reserve"]
        /\ ledger'[p]["capture"] = ledger[p]["capture"]
        /\ ledger'[p]["release"] = ledger[p]["release"]
    BY <2>2 DEF Events
  <2>4. ~Walleted(p)'
    BY <2>1, <2>2 DEF Walleted, LastRow
  <2>5. hold[p] = "none"
    BY <1>4, <1>7, <2>1 DEF HoldFacts
  <2> QED BY <1>4, <2>1, <2>2, <2>3, <2>4, <2>5 DEF HoldFacts
<1>17. ASSUME Captured(p),
              ledger'[p]["capture"] = Price[p], ledger'[p]["reserve"] = Price[p],
              ledger'[p]["release"] = ledger[p]["release"],
              Walleted(p) => hold[p] = "reserved"
       PROVE  HoldFacts(p)'
  <2>1. LatestLive(p) \in Live(p)
    BY <1>1, <1>17, LiveIsLast DEF Captured, CanApprove
  <2>2. ledger[p]["release"] = 0
    BY <1>4, <1>17 DEF HoldFacts
  <2>3. hold'[p] = "captured" /\ status'[p] = "approved"
    BY <1>17 DEF Captured
  <2>4. ~(Walleted(p)' /\ LastRow(p)'.status = "submitted")
    <3> DEFINE m == LatestLive(p)
    <3>1. payments'[p] = [payments[p] EXCEPT ![m] = [payments[p][m] EXCEPT !.status = "verified"]]
      BY <1>17 DEF Captured
    <3>2. /\ m \in DOMAIN payments[p]
          /\ payments[p] \in [1..Len(payments[p]) -> Payment]
          /\ DOMAIN payments[p] = 1..Len(payments[p]) /\ Len(payments[p]) \in Nat
      BY <1>2, <2>1, RowsOf, LenProperties DEF Live
    <3>3. Walleted(p) <=> payments[p][m].wallet
      BY <1>1, <1>17, LiveIsLast DEF Captured, CanApprove
    <3>4. Walleted(p) => m = Len(payments[p])
      BY <1>1, <1>17, LiveIsLast DEF Captured, CanApprove
    <3> HIDE DEF m
    <3>5. DOMAIN payments'[p] = DOMAIN payments[p] /\ Len(payments'[p]) = Len(payments[p])
      BY <1>2, <3>1, <3>2, LenProperties
    <3>6. /\ [payments[p][m] EXCEPT !.status = "verified"].wallet = payments[p][m].wallet
          /\ [payments[p][m] EXCEPT !.status = "verified"].status = "verified"
      BY <3>2 DEF Payment
    <3>7. CASE Walleted(p)
      <4>1. LastRow(p)'.status = "verified"
        BY <3>1, <3>2, <3>4, <3>5, <3>6, <3>7 DEF LastRow
      <4> QED BY <4>1
    <3>8. CASE ~Walleted(p)
      <4>1. Len(payments[p]) \in DOMAIN payments[p]
        BY <3>2
      <4>2. ~payments[p][Len(payments[p])].wallet
        BY <1>1, <3>8, <4>1, NoWalletRow
      <4>3. ~payments'[p][Len(payments[p])].wallet
        BY <3>1, <3>2, <3>3, <3>6, <3>8, <4>1, <4>2
      <4> QED BY <3>5, <4>3 DEF Walleted, LastRow
    <3> QED BY <3>7, <3>8
  <2> QED BY <1>3, <1>17, <2>2, <2>3, <2>4 DEF HoldFacts
<1>18. CASE Transferred(p)
  <2>1. ~Walleted(p) /\ status[p] = "payment_submitted"
    BY <1>1, <1>18, LiveIsLast DEF Transferred, Captured, CanApprove
  <2>2. hold[p] = "none"
    BY <1>4, <1>7, <2>1 DEF HoldFacts
  <2>3. ledger[p]["reserve"] = 0 /\ ledger[p]["release"] = 0
    BY <1>4, <2>2 DEF HoldFacts
  <2>4. PICK c \in Nat, d \in Nat :
          /\ d = Price[p]
          /\ ledger'[p] = [ledger[p] EXCEPT !["credit"] = @ + c, !["reserve"] = @ + d,
                                            !["capture"] = Price[p]]
    BY <1>18, <2>3 DEF Transferred
  <2>5. /\ ledger'[p]["capture"] = Price[p] /\ ledger'[p]["reserve"] = Price[p]
        /\ ledger'[p]["release"] = ledger[p]["release"]
    BY <1>3, <1>7, <2>3, <2>4 DEF Events
  <2> QED BY <1>17, <1>18, <2>1, <2>5 DEF Transferred
<1>19. CASE TakenFromHold(p)
  <2>1. hold[p] = "reserved"
    BY <1>19 DEF TakenFromHold, Captured, CanApprove
  <2>2. ledger[p]["reserve"] = Price[p]
    BY <1>4, <2>1 DEF HoldFacts
  <2>3. ledger'[p] = [ledger[p] EXCEPT !["capture"] = Price[p]]
    BY <1>19 DEF TakenFromHold
  <2>4. /\ ledger'[p]["capture"] = Price[p] /\ ledger'[p]["reserve"] = Price[p]
        /\ ledger'[p]["release"] = ledger[p]["release"]
    BY <1>7, <2>2, <2>3 DEF Events
  <2> QED BY <1>17, <1>19, <2>1, <2>4 DEF TakenFromHold
<1>20. CASE Rejected(p)
  <2>1. /\ Walleted(p)' <=> Walleted(p)
        /\ Walleted(p) => LastRow(p)'.status = IF LastRow(p).status = "submitted"
                                                 THEN "rejected" ELSE LastRow(p).status
    BY <1>2, <1>6, <1>20, LastMarked DEF Rejected
  <2>2. status[p] # "approved" /\ status'[p] = "rejected"
    BY <1>20 DEF Rejected, Open
  <2>3. hold[p] # "captured"
    BY <1>4, <2>2 DEF HoldFacts
  <2>4. Walleted(p)' => LastRow(p)'.status \notin {"submitted", "verified"}
    BY <1>4, <2>1, <2>3 DEF HoldFacts
  <2>5. CASE Walleted(p) /\ ledger[p]["release"] = 0
    <3>1. Posted(p, "release", Price[p]) /\ hold'[p] = "released"
      BY <1>20, <2>5 DEF Rejected, Walleted, LastRow
    <3>2. /\ ledger'[p]["release"] = Price[p]
          /\ ledger'[p]["reserve"] = ledger[p]["reserve"]
          /\ ledger'[p]["capture"] = ledger[p]["capture"]
      BY <1>2, <1>3, <2>5, <3>1, PostedKeeps DEF Events
    <3>3. ledger[p]["capture"] = 0
      BY <1>4, <2>3 DEF HoldFacts
    <3> QED BY <1>5, <2>1, <2>2, <2>4, <2>5, <3>1, <3>2, <3>3 DEF HoldFacts
  <2>6. CASE ~(Walleted(p) /\ ledger[p]["release"] = 0)
    <3>1. UNCHANGED <<hold[p], ledger[p]>>
      BY <1>20, <2>6 DEF Rejected, Walleted, LastRow, MoneyRow
    <3>2. hold[p] # "reserved"
      BY <1>4, <2>6 DEF HoldFacts
    <3> QED BY <1>4, <2>1, <2>2, <2>3, <2>4, <3>1, <3>2 DEF HoldFacts
  <2> QED BY <2>5, <2>6
<1>21. CASE Refunded(p)
  <2>1. /\ Walleted(p)' <=> Walleted(p)
        /\ Walleted(p) => LastRow(p)'.status = IF LastRow(p).status \in {"submitted", "verified"}
                                                 THEN "refunded" ELSE LastRow(p).status
    BY <1>2, <1>6, <1>21, LastMarked DEF Refunded
  <2>2. hold[p] # "reserved"
    <3>1. Walleted(p) => LastRow(p).status = "verified"
      BY <1>1, <1>21, LiveIsLast DEF Refunded, LastRow
    <3> QED BY <1>4, <3>1 DEF HoldFacts
  <2>3. \A e \in Events \ {"reversal"} : ledger'[p][e] = ledger[p][e]
    <3>1. verified[p] \in Nat
      BY <1>2
    <3> QED BY <1>2, <1>3, <1>21, <3>1, PostedKeeps DEF Refunded, Events
  <2>4. /\ ledger'[p]["reserve"] = ledger[p]["reserve"]
        /\ ledger'[p]["capture"] = ledger[p]["capture"]
        /\ ledger'[p]["release"] = ledger[p]["release"]
    BY <2>3 DEF Events
  <2>5. /\ hold'[p] = hold[p]
        /\ status'[p] = IF status[p] = "approved" THEN "approved" ELSE "rejected"
    BY <1>21 DEF Refunded
  <2>6. Walleted(p)' => LastRow(p)'.status \notin {"submitted", "verified"}
    BY <2>1
  <2> QED BY <1>4, <2>1, <2>2, <2>4, <2>5, <2>6 DEF HoldFacts
<1>22. CASE Released(p)
  <2>1. hold[p] = "reserved" /\ status[p] = "payment_submitted"
    BY <1>22 DEF Released, ReleaseRows, HoldInv, NoSweep
  <2>2. Walleted(p) /\ LastRow(p).status = "submitted"
    BY <1>4, <2>1 DEF HoldFacts
  <2>3. /\ ledger[p]["release"] = 0 /\ ledger[p]["capture"] = 0
        /\ ledger[p]["reserve"] = Price[p]
    BY <1>4, <2>1 DEF HoldFacts
  <2>4. /\ ledger'[p]["release"] = Price[p]
        /\ ledger'[p]["reserve"] = Price[p] /\ ledger'[p]["capture"] = 0
    BY <1>2, <1>3, <1>22, <2>3, PostedKeeps DEF Released, Events
  <2>5. hold'[p] = "released" /\ status'[p] = "cancelled"
    BY <1>22, <2>1 DEF Released
  <2>6. Walleted(p)' /\ LastRow(p)'.status = "rejected"
    <3>1. payments'[p] = [n \in DOMAIN payments[p] |->
            IF payments[p][n].wallet /\ payments[p][n].status = "submitted"
              THEN [payments[p][n] EXCEPT !.status = "rejected"] ELSE payments[p][n]]
      BY <1>22 DEF Released
    <3>2. /\ Len(payments[p]) \in Nat /\ DOMAIN payments[p] = 1..Len(payments[p])
          /\ Len(payments[p]) > 0
          /\ \A n \in DOMAIN payments[p] : payments[p][n] \in Payment
      BY <1>2, <2>2, RowsOf DEF Walleted
    <3>3. DOMAIN payments'[p] = DOMAIN payments[p]
      BY <3>1
    <3>4. Len(payments'[p]) = Len(payments[p]) /\ payments'[p] # <<>>
      BY <1>2, <3>2, <3>3, LenProperties, EmptySeq
    <3>5. payments'[p][Len(payments[p])] = [LastRow(p) EXCEPT !.status = "rejected"]
      BY <2>2, <3>1, <3>2 DEF Walleted, LastRow
    <3>6. /\ [LastRow(p) EXCEPT !.status = "rejected"].wallet
          /\ [LastRow(p) EXCEPT !.status = "rejected"].status = "rejected"
      BY <2>2, <3>2 DEF Walleted, LastRow, Payment
    <3> QED BY <3>4, <3>5, <3>6 DEF Walleted, LastRow
  <2> QED BY <1>3, <2>4, <2>5, <2>6 DEF HoldFacts
<1> QED
  BY <1>1, <1>9, <1>10, <1>11, <1>12, <1>13, <1>14, <1>15, <1>16, <1>18, <1>19, <1>20,
     <1>21, <1>22, StepIsOrderStep DEF OrderStep

(* Money on hold is captured or released once, for exactly what was reserved,
   and the reservation row says which: through approvals, rejections, refunds
   and the sweep of expired holds, on SQLite. *)
THEOREM HoldSettlesOnceSafety ==
  ASSUME Backend = "sqlite"
  PROVE  Spec => []HoldSettlesOnce
<1>1. HoldInv => HoldSettlesOnce
  <2> SUFFICES ASSUME HoldInv, NEW o \in Orders
               PROVE  /\ ledger[o]["capture"] = 0 \/ ledger[o]["release"] = 0
                      /\ ledger[o]["capture"] + ledger[o]["release"]
                           = IF hold[o] \in {"captured", "released"}
                               THEN ledger[o]["reserve"] ELSE 0
                      /\ hold[o] = "captured" <=> ledger[o]["capture"] > 0
                      /\ hold[o] = "released" <=> ledger[o]["release"] > 0
                      /\ hold[o] # "none"     <=> ledger[o]["reserve"] > 0
    BY DEF HoldSettlesOnce
  <2>1. Price[o] \in Nat /\ Price[o] > 0
    BY LedgerAssumption
  <2> QED BY <2>1 DEF HoldInv, HoldFacts
<1> QED BY <1>1, HoldInit, HoldStep, PTL DEF Spec

(* Money on hold always belongs to an order staff can still decide, with its
   wallet payment live and no receipt competing with it, on SQLite. *)
THEOREM HoldIsUnderReviewSafety ==
  ASSUME Backend = "sqlite"
  PROVE  Spec => []HoldIsUnderReview
<1>1. HoldInv => HoldIsUnderReview
  <2> SUFFICES ASSUME HoldInv, NEW o \in Orders, hold[o] = "reserved"
               PROVE  /\ status[o] = "payment_submitted"
                      /\ \E n \in Live(o) : payments[o][n].wallet
                      /\ NoReceiptPending(o)
    BY DEF HoldIsUnderReview
  <2>1. /\ status[o] = "payment_submitted" /\ Walleted(o)
        /\ LastRow(o).status = "submitted"
    BY DEF HoldInv, HoldFacts
  <2>2. LedgerTypeOK /\ ReceiptFacts(o) /\ PaymentFacts(o)
    BY DEF HoldInv, PaymentInv, ReceiptInv
  <2>3. Len(payments[o]) \in DOMAIN payments[o]
    BY <2>1, <2>2, RowsOf DEF LedgerTypeOK, Walleted
  <2>4. Len(payments[o]) \in Live(o) /\ payments[o][Len(payments[o])].wallet
    BY <2>1, <2>3 DEF Live, LastRow, Walleted
  <2>5. NoReceiptPending(o)
    BY <2>1, <2>2 DEF LedgerTypeOK, PaymentFacts, ReceiptFacts, NoReceiptPending,
       HasReceipt, NewestReview
  <2> QED BY <2>1, <2>4, <2>5
<1> QED BY <1>1, HoldInit, HoldStep, PTL DEF Spec

(* A step cancels an order with payments or receipts only by giving its expired
   hold back, on SQLite. *)
THEOREM ActivityIsProtectedSafety ==
  ASSUME Backend = "sqlite"
  PROVE  Spec => ActivityIsProtected
<1>1. ASSUME HoldInv, [Next]_vars, NEW p \in Orders,
             ~Untouched(p), status[p] # "cancelled", status'[p] = "cancelled"
      PROVE  hold[p] = "reserved" /\ hold'[p] = "released"
  <2>1. OrderStep(p)
    BY <1>1, StepIsOrderStep DEF HoldInv, PaymentInv
  <2>2. Closed(p) \/ Released(p)
    BY <1>1, <2>1 DEF OrderStep, Untold, Opened, StatusOnly, TextPaid, WalletPaid,
       ReceiptSent, ReceiptMoved, Verified, TurnedDown, Credited, Transferred,
       TakenFromHold, Captured, Rejected, Refunded
  <2>3. Released(p)
    BY <1>1, <2>2 DEF Closed, HoldInv, NoSweep
  <2> QED BY <1>1, <2>3 DEF Released, ReleaseRows, HoldInv, NoSweep
<1>2. HoldInv /\ [Next]_vars =>
        [\A o \in Orders :
           ~Untouched(o) /\ status[o] # "cancelled" /\ status'[o] = "cancelled"
             => hold[o] = "reserved" /\ hold'[o] = "released"]_vars
  BY <1>1
<1> QED BY <1>2, HoldInit, HoldStep, PTL DEF Spec, ActivityIsProtected

-----------------------------------------------------------------------------
(* What was decided stands, on either database *)

(* A verified amount has its verified receipt, and only the price is captured. *)
VerdictFacts(o) ==
  /\ verified[o] > 0 =>
       \E i \in Images : storage[o][i] # "absent" /\ review[o][i] = "verified"
  /\ ledger[o]["capture"] \in {0, Price[o]}

UploadIsUndecided == ~Ready => status[upload[1]] \notin {"approved", "rejected"}

DecisionInv ==
  /\ ReceiptInv
  /\ UploadIsUndecided
  /\ \A o \in Orders : VerdictFacts(o)

(* Nothing is decided at first. *)
LEMMA DecisionInit == Init => DecisionInv
<1> SUFFICES ASSUME Init PROVE DecisionInv
  OBVIOUS
<1>1. ReceiptInv
  BY ReceiptInit
<1>2. Ready /\ \A o \in Orders : VerdictFacts(o)
  BY DEF Init, Ready, VerdictFacts, Events
<1> QED BY <1>1, <1>2 DEF DecisionInv, UploadIsUndecided

(* A posted event keeps what is on record. *)
LEMMA PostedStands ==
  ASSUME NEW p \in Orders, ledger[p] \in [Events -> Nat], NEW e \in Events, NEW amount,
         Posted(p, e, amount)
  PROVE  /\ \A d \in Events : ledger[p][d] > 0 => ledger'[p][d] = ledger[p][d]
         /\ \A d \in Events \ {e} : ledger'[p][d] = ledger[p][d]
BY DEF Posted

(* A step leaves the movements on record alone, and captures the price. *)
LEMMA LedgerStands ==
  ASSUME DecisionInv, NEW p \in Orders, OrderStep(p)
  PROVE  /\ \A e \in Events : ledger[p][e] > 0 => ledger'[p][e] = ledger[p][e]
         /\ ledger'[p]["capture"] \in {0, Price[p]}
<1>1. /\ ledger[p] \in [Events -> Nat] /\ ledger[p]["capture"] \in {0, Price[p]}
      /\ Price[p] \in Nat /\ verified[p] \in Nat
  BY LedgerAssumption DEF DecisionInv, ReceiptInv, LedgerTypeOK, VerdictFacts
<1> DEFINE Stands == /\ \A e \in Events : ledger[p][e] > 0 => ledger'[p][e] = ledger[p][e]
                     /\ ledger'[p]["capture"] \in {0, Price[p]}
<1>2. ASSUME ledger'[p] = ledger[p] PROVE Stands
  BY <1>1, <1>2
<1>3. ASSUME NEW e \in Events \ {"capture"}, NEW amount, Posted(p, e, amount) PROVE Stands
  BY <1>1, <1>3, PostedStands DEF Events
<1>4. CASE WalletPaid(p)
  BY <1>1, <1>4 DEF WalletPaid, Events
<1>5. CASE Transferred(p)
  <2>1. PICK c \in Nat, d \in Nat :
          /\ ledger[p]["credit"] # 0 => c = 0
          /\ ledger[p]["reserve"] # 0 => d = 0
          /\ ledger'[p] = [ledger[p] EXCEPT !["credit"] = @ + c, !["reserve"] = @ + d,
                                            !["capture"] = Price[p]]
    BY <1>5 DEF Transferred
  <2> QED BY <1>1, <2>1 DEF Events
<1>6. CASE TakenFromHold(p)
  BY <1>1, <1>6 DEF TakenFromHold, Events
<1>7. CASE Credited(p) \/ Rejected(p) \/ Refunded(p) \/ Released(p)
  BY <1>2, <1>3, <1>7 DEF Credited, Rejected, Refunded, Released, MoneyRow, Events
<1> QED
  BY <1>2, <1>4, <1>5, <1>6, <1>7
  DEF OrderStep, Untold, Opened, Closed, StatusOnly, TextPaid, ReceiptSent, ReceiptMoved,
      Verified, TurnedDown, MoneyRow

(* A step leaves answered receipts and the verified amount alone: a second
   receipt is verified only after the first was turned down. *)
LEMMA ReviewStands ==
  ASSUME DecisionInv, NEW p \in Orders, OrderStep(p)
  PROVE  /\ \A i \in Images : review[p][i] # "pending" => review'[p][i] = review[p][i]
         /\ verified[p] > 0 => verified'[p] = verified[p]
         /\ \A i \in Images : storage[p][i] # "absent" => storage'[p][i] # "absent"
         /\ verified'[p] # verified[p] =>
              \E i \in Images : storage'[p][i] # "absent" /\ review'[p][i] = "verified"
<1>1. /\ review[p] \in [Images -> {"pending", "verified", "rejected"}]
      /\ ReceiptFacts(p) /\ VerdictFacts(p)
  BY DEF DecisionInv, ReceiptInv, LedgerTypeOK
<1>2. CASE Verified(p)
  <2>1. PICK i \in Images :
          /\ storage[p][i] # "absent" /\ review[p][i] = "pending"
          /\ review'[p] = [review[p] EXCEPT ![i] = "verified"]
    BY <1>2 DEF Verified
  <2>2. storage'[p] = storage[p]
    BY <1>2 DEF Verified
  <2>3. \A j \in Images : storage[p][j] # "absent" => review[p][j] # "verified"
    BY <1>1, <2>1 DEF ReceiptFacts
  <2>4. ~(verified[p] > 0)
    BY <1>1, <2>3 DEF VerdictFacts
  <2> QED BY <1>1, <2>1, <2>2, <2>4
<1>3. CASE TurnedDown(p)
  BY <1>1, <1>3 DEF TurnedDown
<1>4. CASE Rejected(p)
  BY <1>1, <1>4 DEF Rejected
<1>5. CASE ReceiptSent(p)
  BY <1>5 DEF ReceiptSent
<1>6. CASE ReceiptMoved(p)
  BY <1>6 DEF ReceiptMoved
<1>7. CASE UNCHANGED ProofRow(p)
  BY <1>7 DEF ProofRow
<1> QED
  BY <1>2, <1>3, <1>4, <1>5, <1>6, <1>7
  DEF OrderStep, Untold, Opened, Closed, StatusOnly, TextPaid, WalletPaid, Credited,
      Transferred, TakenFromHold, Captured, Released, Refunded

(* Only the sweep that selected it changes a decided order. *)
LEMMA StatusStands ==
  ASSUME DecisionInv, NEW p \in Orders, OrderStep(p),
         status[p] \in {"approved", "rejected"}, p \notin sweep.rows
  PROVE  status'[p] = status[p]
<1>1. ~IsOpen(p) /\ status[p] # "none" /\ status[p] # "payment_submitted"
  BY DEF IsOpen, Open
<1>2. ~CanApprove(p)
  BY <1>1 DEF CanApprove
<1>3. ~(~Ready /\ upload[1] = p)
  BY DEF DecisionInv, UploadIsUndecided
<1>4. p \notin ReleaseRows
  BY <1>1 DEF ReleaseRows
<1> QED
  BY <1>1, <1>2, <1>3, <1>4
  DEF OrderStep, Untold, Opened, Closed, StatusOnly, TextPaid, WalletPaid, ReceiptSent,
      ReceiptMoved, Verified, TurnedDown, Credited, Transferred, TakenFromHold, Captured,
      Rejected, Refunded, Released, Open

(* Every step keeps the decisions' invariant. *)
LEMMA DecisionStep == DecisionInv /\ [Next]_vars => DecisionInv'
<1> SUFFICES ASSUME DecisionInv, [Next]_vars PROVE DecisionInv'
  OBVIOUS
<1>1. LedgerTypeOK /\ ReceiptInv /\ ReceiptInv'
  BY ReceiptStep DEF DecisionInv, ReceiptInv
<1>2. ASSUME NEW p \in Orders PROVE VerdictFacts(p)'
  <2>1. OrderStep(p)
    BY <1>1, StepIsOrderStep
  <2>2. VerdictFacts(p)
    BY DEF DecisionInv
  <2>3. ledger'[p]["capture"] \in {0, Price[p]}
    BY <2>1, LedgerStands
  <2>4. verified'[p] > 0 =>
          \E i \in Images : storage'[p][i] # "absent" /\ review'[p][i] = "verified"
    BY <2>1, <2>2, ReviewStands DEF VerdictFacts
  <2> QED BY <2>3, <2>4 DEF VerdictFacts
<1>3. UploadIsUndecided'
  <2>1. ASSUME NEW o \in Orders, NEW i \in Images, SubmitReceipt(o, i) \/ RetryUpload(o, i)
        PROVE  UploadIsUndecided'
    BY <2>1 DEF SubmitReceipt, RetryUpload, ReceiptAccepted, IsOpen, Open, UploadIsUndecided
  <2>2. CASE upload' = NoUpload
    BY <2>2 DEF UploadIsUndecided, Ready
  <2>3. CASE Ready /\ upload' = upload
    BY <2>3 DEF UploadIsUndecided, Ready
  <2>4. CASE /\ upload' = upload
             /\ \A p \in Orders : status'[p] \in {status[p], "cancelled"}
    <3>1. ~Ready => upload[1] \in Orders
      BY <1>1, UploadOf DEF LedgerTypeOK
    <3> QED BY <2>4, <3>1 DEF DecisionInv, UploadIsUndecided, Ready
  <2> QED
    BY <1>1, <2>1, <2>2, <2>3, <2>4, ReceiptStepKinds
    DEF UploadDone, UploadFails, VerifyReceipt, RejectReceipt, RejectOrder, aroundVars
<1> QED BY <1>1, <1>2, <1>3 DEF DecisionInv

(* On either database and for any orders, receipts and amounts, what staff
   answered, what they verified and what the wallet recorded is never rewritten,
   and only a sweep changes an order after it was approved or rejected. *)
THEOREM DecisionsStandSafety == Spec => DecisionsStand
<1>1. ASSUME DecisionInv, [Next]_vars, NEW o \in Orders
      PROVE  /\ \A e \in Events : ledger[o][e] > 0 => ledger'[o][e] = ledger[o][e]
             /\ \A i \in Images : review[o][i] # "pending" => review'[o][i] = review[o][i]
             /\ verified[o] > 0 => verified'[o] = verified[o]
             /\ status[o] \in {"approved", "rejected"} /\ o \notin sweep.rows
                  => status'[o] = status[o]
  <2>1. OrderStep(o)
    BY <1>1, StepIsOrderStep DEF DecisionInv
  <2> QED BY <1>1, <2>1, LedgerStands, ReviewStands, StatusStands
<1>2. DecisionInv /\ [Next]_vars =>
        [\A o \in Orders :
           /\ \A e \in Events : ledger[o][e] > 0 => ledger'[o][e] = ledger[o][e]
           /\ \A i \in Images : review[o][i] # "pending" => review'[o][i] = review[o][i]
           /\ verified[o] > 0 => verified'[o] = verified[o]
           /\ status[o] \in {"approved", "rejected"} /\ o \notin sweep.rows
                => status'[o] = status[o]]_vars
  BY <1>1
<1> QED BY <1>2, DecisionInit, DecisionStep, PTL DEF Spec, DecisionsStand

-----------------------------------------------------------------------------
(* What was paid, gained and spent, on SQLite *)

(* A transfer staff verified, refunded or not. *)
HasTransfer(o) ==
  \E n \in DOMAIN payments[o] : /\ ~payments[o][n].wallet
                                /\ payments[o][n].status \in {"verified", "refunded"}

(* A verified transfer stays on record: it is at most marked refunded. *)
LEMMA TransferStays ==
  ASSUME PaymentInv, NEW p \in Orders, OrderStep(p)
  PROVE  /\ HasTransfer(p) => HasTransfer(p)'
         /\ Transferred(p) => HasTransfer(p)'
<1>1. /\ payments \in [Orders -> Seq(Payment)]
      /\ payments[p] \in [1..Len(payments[p]) -> Payment] /\ Len(payments[p]) \in Nat
      /\ DOMAIN payments[p] = 1..Len(payments[p])
  BY RowsOf, LenProperties DEF PaymentInv, ReceiptInv, LedgerTypeOK
<1>2. {"submitted", "verified", "rejected", "refunded"} \subseteq PayStatus
  BY DEF PayStatus
<1>3. ASSUME UNCHANGED payments[p] PROVE HasTransfer(p) => HasTransfer(p)'
  BY <1>3 DEF HasTransfer
<1>4. ASSUME NEW from, NEW to \in {"rejected", "refunded"},
             payments'[p] = Marked(payments[p], from, to),
             "verified" \in from => to = "refunded", "refunded" \notin from
      PROVE  HasTransfer(p) => HasTransfer(p)'
  <2>1. /\ DOMAIN payments'[p] = DOMAIN payments[p]
        /\ \A n \in DOMAIN payments[p] :
             /\ payments'[p][n].wallet = payments[p][n].wallet
             /\ payments'[p][n].status = IF payments[p][n].status \in from
                                           THEN to ELSE payments[p][n].status
    BY <1>1, <1>2, <1>4, RowsOf, MarkedRows
  <2> QED BY <1>4, <2>1 DEF HasTransfer
<1>5. ASSUME NEW row \in Payment, payments'[p] = Append(payments[p], row)
      PROVE  HasTransfer(p) => HasTransfer(p)'
  <2>1. payments[p] \in Seq(Payment)
    BY <1>1
  <2>2. payments'[p] \in Seq(Payment) /\ Len(payments'[p]) = Len(payments[p]) + 1
        /\ \A n \in 1..Len(payments[p]) : payments'[p][n] = payments[p][n]
    BY <1>5, <2>1, AppendProperties
  <2>3. DOMAIN payments'[p] = 1..(Len(payments[p]) + 1)
    BY <2>2, LenProperties
  <2> QED BY <1>1, <2>2, <2>3 DEF HasTransfer
<1>6. ASSUME Live(p) # {}, NEW row, payments'[p] = [payments[p] EXCEPT ![LatestLive(p)] = row],
             ~payments[p][LatestLive(p)].wallet => ~row.wallet, row.status = "verified"
      PROVE  /\ HasTransfer(p) => HasTransfer(p)'
             /\ ~row.wallet => HasTransfer(p)'
  <2>1. LatestLive(p) \in DOMAIN payments[p]
    BY <1>6, LiveIsLast DEF Live
  <2>2. /\ DOMAIN payments'[p] = DOMAIN payments[p]
        /\ payments'[p][LatestLive(p)] = row
        /\ \A n \in DOMAIN payments[p] \ {LatestLive(p)} : payments'[p][n] = payments[p][n]
    BY <1>1, <1>6, <2>1
  <2> QED BY <1>6, <2>1, <2>2 DEF HasTransfer
<1>7. CASE TextPaid(p) \/ WalletPaid(p)
  <2>1. \A r \in Refs : [wallet |-> FALSE, ref |-> r, status |-> "submitted"] \in Payment
    BY <1>2 DEF Payment
  <2>2. [wallet |-> TRUE, ref |-> WalletRef, status |-> "submitted"] \in Payment
    BY <1>2 DEF Payment
  <2>3. ~Transferred(p)
    BY <1>7 DEF TextPaid, WalletPaid, Transferred, Captured
  <2> QED BY <1>5, <1>7, <2>1, <2>2, <2>3 DEF TextPaid, WalletPaid
<1>8. CASE Verified(p)
  <2>1. PICK r \in Refs :
          payments'[p] = IF Live(p) # {}
            THEN [payments[p] EXCEPT ![LatestLive(p)] =
                    [wallet |-> FALSE, ref |-> r, status |-> "verified"]]
            ELSE Append(payments[p], [wallet |-> FALSE, ref |-> r, status |-> "verified"])
    BY <1>8 DEF Verified
  <2>2. [wallet |-> FALSE, ref |-> r, status |-> "verified"] \in Payment
    BY <1>2 DEF Payment
  <2>3. ~Transferred(p)
    BY <1>8 DEF Verified, Transferred, Captured
  <2> QED BY <1>5, <1>6, <2>1, <2>2, <2>3
<1>9. CASE Captured(p)
  <2>1. Live(p) # {} /\ payments[p][LatestLive(p)] \in Payment
    BY <1>1, <1>9, LiveIsLast DEF Captured, CanApprove, Live
  <2> DEFINE row == [payments[p][LatestLive(p)] EXCEPT !.status = "verified"]
  <2>2. row.wallet = payments[p][LatestLive(p)].wallet /\ row.status = "verified"
    BY <2>1 DEF Payment
  <2>3. payments'[p] = [payments[p] EXCEPT ![LatestLive(p)] = row]
    BY <1>9 DEF Captured
  <2> HIDE DEF row
  <2> QED BY <1>6, <2>1, <2>2, <2>3 DEF Transferred
<1>10. CASE TurnedDown(p) \/ Rejected(p) \/ Refunded(p)
  <2>1. HasTransfer(p) => HasTransfer(p)'
    BY <1>4, <1>10 DEF TurnedDown, Rejected, Refunded
  <2> QED BY <1>9, <2>1 DEF Transferred
<1>11. CASE Released(p)
  <2>1. payments'[p] = [n \in DOMAIN payments[p] |->
          IF payments[p][n].wallet /\ payments[p][n].status = "submitted"
            THEN [payments[p][n] EXCEPT !.status = "rejected"] ELSE payments[p][n]]
    BY <1>11 DEF Released
  <2>2. HasTransfer(p) => HasTransfer(p)'
    BY <2>1 DEF HasTransfer
  <2> QED BY <1>9, <2>2 DEF Transferred
<1> QED
  BY <1>3, <1>7, <1>8, <1>9, <1>10, <1>11
  DEF OrderStep, Untold, Opened, Closed, StatusOnly, ReceiptSent, ReceiptMoved, Credited,
      Transferred, TakenFromHold

(* The wallet was credited at most what was paid and only by an approval; it
   got a refund's value back only for a refunded order, at most its price
   unless more was paid; an order refunded before its approval was paid. *)
ValueFacts(o) ==
  /\ verified[o] = 0 \/ verified[o] >= Price[o]
  /\ ledger[o]["credit"] > 0 => status[o] = "approved"
  /\ ledger[o]["credit"] <= Paid(o)
  /\ o \notin refunded => ledger[o]["reversal"] = 0
  /\ o \in refunded =>
       /\ o \notin Topups
       /\ status[o] \in {"approved", "rejected"}
       /\ verified[o] <= Price[o] => ledger[o]["reversal"] = Price[o]
       /\ status[o] = "rejected" => Paid(o) >= Price[o]

ValueInv == OrdersInv /\ HoldInv /\ \A o \in Orders : ValueFacts(o)

(* What was paid is a number, the verified amount first. *)
LEMMA PaidIs ==
  ASSUME NEW o \in Orders, verified \in [Orders -> Nat]
  PROVE  /\ Paid(o) \in Nat
         /\ verified[o] > 0 => Paid(o) = verified[o]
         /\ verified[o] = 0 /\ HasTransfer(o) => Paid(o) = Price[o]
         /\ verified[o] = 0 /\ ~HasTransfer(o) => Paid(o) = 0
BY LedgerAssumption DEF Paid, HasTransfer

(* What was paid does not shrink while transfers stay verified or refunded. *)
LEMMA PaidGrows ==
  ASSUME NEW o \in Orders, verified \in [Orders -> Nat], verified' \in [Orders -> Nat],
         verified'[o] = verified[o], HasTransfer(o) => HasTransfer(o)'
  PROVE  /\ Paid(o) \in Nat /\ Paid(o)' \in Nat /\ Paid(o)' >= Paid(o)
         /\ HasTransfer(o)' /\ verified[o] = 0 => Paid(o)' = Price[o]
         /\ verified[o] > 0 => Paid(o)' = verified[o]
<1>1. Paid(o)' = IF verified'[o] > 0 THEN verified'[o]
                 ELSE IF HasTransfer(o)' THEN Price[o] ELSE 0
  BY DEF Paid, HasTransfer
<1>2. verified[o] \in Nat /\ Price[o] \in Nat
  BY LedgerAssumption
<1> QED BY <1>1, <1>2, PaidIs

(* Nothing was paid or gained at first. *)
LEMMA ValueInit == Init => ValueInv
<1> SUFFICES ASSUME Init PROVE ValueInv
  OBVIOUS
<1>1. ASSUME NEW o \in Orders PROVE ValueFacts(o)
  <2>1. /\ verified \in [Orders -> Nat] /\ verified[o] = 0 /\ o \notin refunded
        /\ ledger[o]["credit"] = 0 /\ ledger[o]["reversal"] = 0
    BY DEF Init, Events, AccessInit
  <2>2. Paid(o) \in Nat
    BY <2>1, PaidIs
  <2> QED BY <2>1, <2>2 DEF ValueFacts
<1> QED BY <1>1, HoldInit, OrdersInit DEF ValueInv

(* Every step on SQLite keeps credits and refunds within what was paid. *)
LEMMA ValueStep ==
  ASSUME Backend = "sqlite"
  PROVE  ValueInv /\ [Next]_vars => ValueInv'
<1> SUFFICES ASSUME ValueInv, [Next]_vars, NEW p \in Orders PROVE ValueFacts(p)'
  BY HoldStep, OrdersStep DEF ValueInv
<1>1. /\ HoldInv /\ PaymentInv /\ ReceiptInv /\ OrdersInv
      /\ HoldInv'
  BY HoldStep DEF ValueInv, HoldInv, PaymentInv
<1>2. /\ payments \in [Orders -> Seq(Payment)] /\ payments' \in [Orders -> Seq(Payment)]
      /\ ledger \in [Orders -> [Events -> Nat]] /\ ledger' \in [Orders -> [Events -> Nat]]
      /\ verified \in [Orders -> Nat] /\ verified' \in [Orders -> Nat]
      /\ newest \in [Orders -> Images \cup {NoImage}]
  BY <1>1 DEF HoldInv, PaymentInv, ReceiptInv, LedgerTypeOK
<1>3. Price[p] \in Nat /\ Price[p] > 0 /\ verified[p] \in Nat /\ verified'[p] \in Nat
  BY <1>2, LedgerAssumption
<1>4. ValueFacts(p) /\ HoldFacts(p) /\ PaymentFacts(p) /\ ReceiptFacts(p)
  BY <1>1 DEF ValueInv, HoldInv, PaymentInv, ReceiptInv
<1>5. /\ ledger[p]["credit"] \in Nat /\ ledger[p]["reversal"] \in Nat
      /\ ledger[p] \in [Events -> Nat]
  BY <1>2 DEF Events
<1>6. {"submitted", "verified", "rejected", "refunded"} \subseteq PayStatus
  BY DEF PayStatus
<1>7. ASSUME verified'[p] = verified[p], HasTransfer(p) => HasTransfer(p)',
             ledger'[p]["credit"] = ledger[p]["credit"],
             ledger'[p]["reversal"] = ledger[p]["reversal"],
             NotRefunded(p),
             \/ status'[p] = status[p]
             \/ status[p] # "approved" /\ p \notin refunded
      PROVE  ValueFacts(p)'
  <2>1. Paid(p) \in Nat /\ Paid(p)' \in Nat /\ Paid(p)' >= Paid(p)
    BY <1>2, <1>7, PaidGrows
  <2>2. p \in refunded' <=> p \in refunded
    BY <1>7 DEF NotRefunded
  <2> QED BY <1>3, <1>4, <1>5, <1>7, <2>1, <2>2 DEF ValueFacts
<1>8. IsOpen(p) => p \notin refunded /\ status[p] # "approved"
  BY <1>4 DEF ValueFacts, IsOpen, Open
<1>9. OrderStep(p) /\ (HasTransfer(p) => HasTransfer(p)')
  BY <1>1, StepIsOrderStep, TransferStays
<1>12. CASE NotRefunded(p) /\ (Untold(p) \/ ReceiptSent(p))
  BY <1>7, <1>9, <1>12 DEF Untold, ReceiptSent, ProofRow, MoneyRow
<1>13. CASE NotRefunded(p) /\ (Opened(p) \/ Closed(p))
  <2>1. status[p] # "approved" /\ p \notin refunded
    BY <1>4, <1>8, <1>13 DEF Opened, Closed, ValueInv, HoldInv, NoSweep, ValueFacts
  <2> QED BY <1>1, <1>7, <1>9, <1>13, <2>1 DEF Opened, Closed, StatusOnly, ProofRow, MoneyRow
<1>14. CASE NotRefunded(p) /\ ReceiptMoved(p)
  <2>1. status'[p] = status[p] \/ (status[p] # "approved" /\ p \notin refunded)
    BY <1>1, <1>8, <1>14 DEF ReceiptMoved, OrdersInv
  <2> QED BY <1>7, <1>9, <1>14, <2>1 DEF ReceiptMoved, MoneyRow
<1>15. CASE NotRefunded(p) /\ (TextPaid(p) \/ WalletPaid(p))
  <2>2. /\ ledger'[p]["credit"] = ledger[p]["credit"]
        /\ ledger'[p]["reversal"] = ledger[p]["reversal"]
    BY <1>5, <1>15 DEF TextPaid, WalletPaid, MoneyRow, Events
  <2> QED BY <1>7, <1>8, <1>9, <1>15, <2>2 DEF TextPaid, WalletPaid, ProofRow
<1>16. CASE NotRefunded(p) /\ Verified(p)
  <2>1. /\ p \notin refunded /\ p \notin refunded'
        /\ ledger[p]["credit"] = 0 /\ ledger[p]["reversal"] = 0
    BY <1>4, <1>5, <1>8, <1>16 DEF Verified, ValueFacts, NotRefunded
  <2>2. ledger'[p] = ledger[p] /\ verified'[p] >= Price[p]
    BY <1>16 DEF Verified, MoneyRow
  <2>3. Paid(p)' \in Nat
    BY <1>2, <1>3 DEF Paid
  <2> QED BY <2>1, <2>2, <2>3 DEF ValueFacts
<1>17. CASE NotRefunded(p) /\ TurnedDown(p)
  BY <1>7, <1>9, <1>17 DEF TurnedDown, MoneyRow
<1>18. CASE NotRefunded(p) /\ Credited(p)
  <2>1. p \notin refunded /\ p \notin refunded' /\ ledger[p]["reversal"] = 0
        /\ ledger[p]["credit"] = 0
    BY <1>4, <1>5, <1>18 DEF Credited, CanApprove, ValueFacts, NotRefunded
  <2>2. ledger'[p]["credit"] = Price[p] /\ ledger'[p]["reversal"] = 0
    BY <1>2, <1>3, <1>18, <2>1, PostedKeeps DEF Credited, Events
  <2>3. verified[p] = Price[p] /\ verified'[p] = verified[p] /\ status'[p] = "approved"
        /\ payments'[p] = payments[p]
    BY <1>18 DEF Credited, ProofRow
  <2>4. Paid(p)' = Price[p]
    BY <1>2, <1>3, <1>9, <2>3, PaidGrows
  <2> QED BY <1>3, <2>1, <2>2, <2>3, <2>4 DEF ValueFacts
<1>19. ASSUME Captured(p)
       PROVE  p \notin refunded /\ ledger[p]["reversal"] = 0 /\ ledger[p]["credit"] = 0
  BY <1>4, <1>5, <1>19 DEF Captured, CanApprove, ValueFacts
<1>20. CASE NotRefunded(p) /\ Transferred(p)
  <2>1. /\ p \notin refunded /\ p \notin refunded' /\ ledger[p]["reversal"] = 0
        /\ ledger[p]["credit"] = 0 /\ HasTransfer(p)'
    BY <1>1, <1>9, <1>19, <1>20, TransferStays DEF Transferred, NotRefunded
  <2>2. verified'[p] = verified[p] /\ status'[p] = "approved"
    BY <1>20 DEF Transferred, Captured, ProofRow
  <2>3. PICK c \in Nat, d \in Nat :
          /\ c = IF HasReceipt(p) THEN verified[p] ELSE Price[p]
          /\ ledger'[p] = [ledger[p] EXCEPT !["credit"] = @ + c, !["reserve"] = @ + d,
                                            !["capture"] = Price[p]]
    BY <1>20, <2>1 DEF Transferred
  <2>4. ledger'[p]["credit"] = c /\ ledger'[p]["reversal"] = 0
    BY <1>5, <2>1, <2>3 DEF Events
  <2>5. Paid(p)' = IF verified[p] > 0 THEN verified[p] ELSE Price[p]
    <3>1. /\ verified[p] = 0 => Paid(p)' = Price[p]
          /\ verified[p] > 0 => Paid(p)' = verified[p]
      BY <1>2, <2>1, <2>2, PaidGrows
    <3> QED BY <1>3, <3>1
  <2>6. c <= Paid(p)'
    <3>1. verified[p] = 0 \/ verified[p] >= Price[p]
      BY <1>4 DEF ValueFacts
    <3>2. HasReceipt(p) => verified[p] <= Paid(p)'
      BY <1>3, <2>5, <3>1
    <3>3. Price[p] <= Paid(p)'
      BY <1>3, <2>5, <3>1
    <3> QED BY <2>3, <3>2, <3>3
  <2> QED BY <1>4, <2>1, <2>2, <2>4, <2>6 DEF ValueFacts
<1>21. CASE NotRefunded(p) /\ TakenFromHold(p)
  <2>1. /\ p \notin refunded /\ p \notin refunded' /\ ledger[p]["reversal"] = 0
        /\ ledger[p]["credit"] = 0 /\ (HasTransfer(p) => HasTransfer(p)')
    BY <1>9, <1>19, <1>21 DEF TakenFromHold, NotRefunded
  <2>2. verified'[p] = verified[p] /\ status'[p] = "approved"
    BY <1>21 DEF TakenFromHold, Captured, ProofRow
  <2>3. ledger'[p]["credit"] = 0 /\ ledger'[p]["reversal"] = 0
    BY <1>5, <1>21, <2>1 DEF TakenFromHold, Events
  <2>4. Paid(p)' \in Nat
    BY <1>2, <2>1, <2>2, PaidGrows
  <2> QED BY <1>4, <2>1, <2>2, <2>3, <2>4 DEF ValueFacts
<1>22. CASE NotRefunded(p) /\ Rejected(p)
  <2>1. status[p] # "approved" /\ p \notin refunded
    BY <1>4, <1>22 DEF Rejected, Open, ValueFacts
  <2>3. /\ ledger'[p]["credit"] = ledger[p]["credit"]
        /\ ledger'[p]["reversal"] = ledger[p]["reversal"]
    BY <1>2, <1>3, <1>22, PostedKeeps DEF Rejected, MoneyRow, Events
  <2> QED BY <1>7, <1>9, <1>22, <2>1, <2>3 DEF Rejected
<1>23. CASE NotRefunded(p) /\ Released(p)
  <2>1. status[p] = "payment_submitted"
    BY <1>1, <1>23 DEF Released, ReleaseRows, HoldInv, NoSweep
  <2>2. status[p] # "approved" /\ p \notin refunded
    BY <1>4, <2>1 DEF ValueFacts
  <2>4. /\ ledger'[p]["credit"] = ledger[p]["credit"]
        /\ ledger'[p]["reversal"] = ledger[p]["reversal"]
    BY <1>2, <1>3, <1>23, PostedKeeps DEF Released, Events
  <2>5. verified'[p] = verified[p]
    BY <1>23 DEF Released, ProofRow
  <2> QED BY <1>7, <1>9, <1>23, <2>2, <2>4, <2>5
<1>24. CASE Refunded(p)
  <2> DEFINE amount == IF ~payments[p][LatestLive(p)].wallet /\ verified[p] > Price[p]
                         THEN verified[p] ELSE Price[p]
  <2>1. /\ p \notin refunded /\ p \in refunded' /\ p \notin Topups
        /\ Posted(p, "reversal", amount)
        /\ status'[p] = IF status[p] = "approved" THEN "approved" ELSE "rejected"
        /\ verified'[p] = verified[p]
    BY <1>24 DEF Refunded, ProofRow
  <2>2. ledger[p]["reversal"] = 0 /\ amount \in Nat
    BY <1>3, <1>4, <2>1 DEF ValueFacts
  <2>3. verified[p] <= Price[p] => amount = Price[p]
    BY <1>3
  <2> HIDE DEF amount
  <2>4. ledger'[p]["reversal"] = amount /\ ledger'[p]["credit"] = ledger[p]["credit"]
    BY <1>2, <2>1, <2>2, PostedKeeps DEF Events
  <2>6. Paid(p) \in Nat /\ Paid(p)' \in Nat /\ Paid(p)' >= Paid(p)
    BY <1>2, <1>9, <2>1, PaidGrows
  <2>7. ASSUME status[p] # "approved" PROVE Paid(p)' >= Price[p]
    <3>1. LatestLive(p) \in DOMAIN payments[p] /\ payments[p][LatestLive(p)].status = "verified"
      BY <1>1, <1>24, LiveIsLast DEF Refunded, Live
    <3>2. ~Walleted(p)
      BY <1>1, <1>4, <1>24, <2>7, <3>1, LiveIsLast DEF Refunded, HoldFacts, LastRow
    <3>3. ~payments[p][LatestLive(p)].wallet
      BY <1>1, <1>24, <3>2, LiveIsLast DEF Refunded
    <3>4. HasTransfer(p)'
      BY <1>9, <3>1, <3>3 DEF HasTransfer
    <3>5. /\ verified[p] = 0 => Paid(p)' = Price[p]
          /\ verified[p] > 0 => Paid(p)' = verified[p]
      BY <1>2, <2>1, <3>4, PaidGrows
    <3> QED BY <1>3, <1>4, <3>5 DEF ValueFacts
  <2> QED BY <1>3, <1>4, <1>5, <2>1, <2>3, <2>4, <2>6, <2>7 DEF ValueFacts
<1> QED
  BY <1>1, <1>12, <1>13, <1>14, <1>15, <1>16, <1>17, <1>18, <1>20, <1>21, <1>22, <1>23,
     <1>24, <1>9 DEF OrderStep

(* What a customer gained for an order, in wallet money and in the plan bought,
   never exceeds what was paid and spent for it, unless the order was overpaid
   and refunded, on SQLite. *)
THEOREM NoFreeValueSafety ==
  ASSUME Backend = "sqlite"
  PROVE  Spec => []NoFreeValueUnlessOverpaid
<1>1. ValueInv => NoFreeValueUnlessOverpaid
  <2> SUFFICES ASSUME ValueInv, NEW o \in Orders, ~(o \in refunded /\ verified[o] > Price[o])
               PROVE  Gain(o) + Goods(o) <= Paid(o) + Spent(o)
    BY DEF NoFreeValueUnlessOverpaid
  <2>1. /\ ledger \in [Orders -> [Events -> Nat]] /\ verified \in [Orders -> Nat]
        /\ hold \in [Orders -> {"none", "reserved", "captured", "released"}]
    BY DEF ValueInv, HoldInv, PaymentInv, ReceiptInv, LedgerTypeOK
  <2>2. /\ ledger[o]["credit"] \in Nat /\ ledger[o]["release"] \in Nat
        /\ ledger[o]["reversal"] \in Nat /\ ledger[o]["reserve"] \in Nat
        /\ Price[o] \in Nat /\ verified[o] \in Nat
    BY <2>1, LedgerAssumption DEF Events
  <2>3. Paid(o) \in Nat
    BY <2>1, PaidIs
  <2>4. HoldFacts(o) /\ ValueFacts(o)
    BY DEF ValueInv, HoldInv
  <2>5. hold[o] \in {"none", "reserved", "captured", "released"}
    BY <2>1
  <2>6. ledger[o]["release"] + Goods(o) <= ledger[o]["reserve"]
    BY <2>2, <2>4, <2>5 DEF HoldFacts, Goods
  <2>7. CASE o \notin refunded
    <3>1. ledger[o]["reversal"] = 0 /\ ledger[o]["credit"] <= Paid(o)
      BY <2>4, <2>7 DEF ValueFacts
    <3>2. Goods(o) \in Nat
      BY <2>2 DEF Goods
    <3> QED BY <2>2, <2>3, <2>6, <3>1, <3>2 DEF Gain, Spent
  <2>8. CASE o \in refunded
    <3>1. Goods(o) = 0 /\ ledger[o]["reversal"] = Price[o] /\ o \notin Topups
      BY <2>2, <2>4, <2>8 DEF Goods, ValueFacts
    <3>2. CASE status[o] = "approved"
      <4>1. ledger[o]["release"] = 0 /\ ledger[o]["reserve"] = Price[o]
        BY <2>4, <3>1, <3>2 DEF HoldFacts
      <4>2. ledger[o]["credit"] <= Paid(o)
        BY <2>4 DEF ValueFacts
      <4> QED BY <2>2, <2>3, <3>1, <4>1, <4>2 DEF Gain, Spent
    <3>3. CASE status[o] # "approved"
      <4>1. ledger[o]["credit"] = 0 /\ Paid(o) >= Price[o]
        BY <2>2, <2>4, <2>8, <3>3 DEF ValueFacts
      <4> QED BY <2>2, <2>3, <2>6, <3>1, <4>1 DEF Gain, Spent
    <3> QED BY <3>2, <3>3
  <2> QED BY <2>7, <2>8
<1> QED BY <1>1, ValueInit, ValueStep, PTL DEF Spec

-----------------------------------------------------------------------------
(* Approved orders are funded, on either database *)

(* Top-ups never touch holds and are credited their price or nothing; an
   approval leaves a credited top-up, or a captured price and a subscription. *)
FundFacts(o) ==
  /\ o \in Topups => hold[o] = "none" /\ ledger[o]["credit"] \in {0, Price[o]}
  /\ status[o] = "approved" =>
       IF o \in Topups THEN ledger[o]["credit"] = Price[o]
                       ELSE ledger[o]["capture"] = Price[o] /\ sub[o] # "none"

FundInv ==
  /\ OrdersInv
  /\ PaidInv
  /\ PaymentInv
  /\ sweep.kind # "expire" => sweep.rows \cap Topups = {}
  /\ \A o \in Orders : FundFacts(o)

(* No job, sweep or refund makes a subscription disappear. *)
LEMMA SubscriptionIsKept ==
  ASSUME TypeInv, [AccessNext]_accessVars, NEW o \in Orders, sub[o] # "none"
  PROVE  sub'[o] # "none"
<1> USE DEF TypeInv, AccessTypeOK, SubStatus
<1>1. ASSUME NEW p \in Orders,
             OpenAccess(p) \/ CloseAccess(p) \/ Expire(p) \/ EnforceQuota(p) \/ BecomesDue(p)
      PROVE  sub'[o] # "none"
  BY <1>1 DEF OpenAccess, CloseAccess, Expire, EnforceQuota, BecomesDue
<1>2. ASSUME NEW j \in Jobs, LockAges(j) \/ RetryJob(j) \/ \E w \in Workers : Claim(w, j)
      PROVE  sub'[o] # "none"
  BY <1>2 DEF LockAges, RetryJob, Claim
<1>3. ASSUME NEW w \in Workers,
             \/ ProvisionEnds(w) \/ ProvisionBegins(w) \/ RemoteCreate(w)
             \/ RemoteCreateFails(w) \/ ProvisionFails(w) \/ ProvisionCommits(w)
             \/ WorkerCrash(w)
      PROVE  sub'[o] # "none"
  BY <1>3 DEF ProvisionEnds, ProvisionBegins, RemoteCreate, RemoteCreateFails,
     ProvisionFails, ProvisionCommits, WorkerCrash, Undo, JobDone, JobFailed, Rest, Advance
<1>4. ASSUME NEW w \in Workers,
             \/ Cleanup(w) \/ RevokeEnds(w) \/ RevokeBegins(w) \/ RemoteDelete(w)
             \/ RemoteDeleteFails(w) \/ RevokeCommits(w) \/ RevokeFails(w)
      PROVE  sub'[o] # "none"
  BY <1>4 DEF Cleanup, CleanupDone, CleanupRaises, RevokeEnds, RevokeBegins, RemoteDelete,
     RemoteDeleteFails, RevokeCommits, RevokeFails, Undo, JobDone, JobFailed, Rest, Advance
<1>5. CASE UNCHANGED accessVars
  BY <1>5 DEF accessVars
<1> QED
  BY <1>1, <1>2, <1>3, <1>4, <1>5 DEF AccessNext, PassNext, AroundNext, WorkerStep

(* Where the sweep stands after a step. *)
LEMMA SweepMoves ==
  ASSUME [Next]_vars
  PROVE  \/ sweep' \in {sweep, NoSweep}
         \/ \E k \in {"expire", "release"} : SweepSelect(k)
         \/ \E o \in Orders : SweepWrite(o)
<1>1. CASE CustomerNext
  BY <1>1 DEF CustomerNext, CreateOrder, CreateWalletTopup, Insert, ReplaceOpenOrder,
     CancelOrder, SubmitPayment, PayWithWallet, SubmitReceipt, RetryUpload,
     RecoverReceipt, UploadDone, UploadFails, aroundVars
<1>2. CASE StaffNext
  BY <1>2 DEF StaffNext, VerifyReceipt, RejectReceipt, ApproveTopup, ApproveTransfer,
     ApproveWallet, RejectOrder, RefundOrder, aroundVars
<1>3. CASE SweepNext
  BY <1>3 DEF SweepNext, SweepExpired, SweepHold
<1>4. CASE TimeNext \/ WorkerNext \/ AroundWorkers \/ UNCHANGED vars
  BY <1>4 DEF TimeNext, OrderAges, HoldAges, PromoChanges, Restart,
     WorkerNext, AroundWorkers, vars, ledgerVars, aroundVars
<1> QED BY <1>1, <1>2, <1>3, <1>4 DEF Next, LedgerNext

(* No order is approved at first. *)
LEMMA FundInit == Init => FundInv
<1> SUFFICES ASSUME Init PROVE FundInv
  OBVIOUS
<1>1. \A o \in Orders : FundFacts(o)
  BY DEF Init, FundFacts, Events
<1>2. sweep.rows \cap Topups = {}
  BY DEF Init, NoSweep
<1> QED BY <1>1, <1>2, OrdersInit, PaidInit, PaymentInit DEF FundInv

(* Every step keeps approved orders funded. *)
LEMMA FundStep == FundInv /\ [Next]_vars => FundInv'
<1> SUFFICES ASSUME FundInv, [Next]_vars PROVE FundInv'
  OBVIOUS
<1>1. /\ OrdersInv' /\ PaidInv' /\ PaymentInv' /\ ReceiptInv
      /\ LedgerTypeOK /\ LedgerTypeOK'
  BY OrdersStep, PaidStep, PaymentStep DEF FundInv, PaymentInv, ReceiptInv
<1>2. sweep'.kind # "expire" => sweep'.rows \cap Topups = {}
  <2>1. ASSUME NEW k \in {"expire", "release"}, SweepSelect(k)
        PROVE  sweep'.kind # "expire" => sweep'.rows \cap Topups = {}
    <3>1. ReleaseRows \cap Topups = {}
      BY <1>1 DEF ReleaseRows, FundInv, FundFacts, LedgerTypeOK
    <3>2. CASE k = "expire"
      BY <2>1, <3>2 DEF SweepSelect
    <3>3. CASE k # "expire"
      BY <2>1, <3>1, <3>3 DEF SweepSelect
    <3> QED BY <3>2, <3>3
  <2>2. ASSUME NEW o \in Orders, SweepWrite(o)
        PROVE  sweep'.kind # "expire" => sweep'.rows \cap Topups = {}
    BY <1>1, <2>2 DEF SweepWrite, NoSweep, FundInv, LedgerTypeOK
  <2>3. ASSUME sweep' \in {sweep, NoSweep}
        PROVE  sweep'.kind # "expire" => sweep'.rows \cap Topups = {}
    BY <2>3 DEF NoSweep, FundInv
  <2> QED BY <2>1, <2>2, <2>3, SweepMoves
<1>3. ASSUME NEW p \in Orders PROVE FundFacts(p)'
  <2>1. OrderStep(p) /\ FundFacts(p) /\ PaymentFacts(p)
    BY <1>1, StepIsOrderStep DEF FundInv, PaymentInv
  <2>2. /\ ledger \in [Orders -> [Events -> Nat]]
        /\ Price[p] \in Nat /\ Price[p] > 0 /\ verified[p] \in Nat
    BY <1>1, LedgerAssumption DEF LedgerTypeOK
  <2>3. Walleted(p) => p \notin Topups
    BY <2>1 DEF PaymentFacts
  <2>4. sub[p] # "none" => sub'[p] # "none"
    BY StepIsAccessStep, SubscriptionIsKept DEF FundInv, PaidInv
  <2>5. ASSUME ledger'[p]["capture"] = ledger[p]["capture"],
               ledger'[p]["credit"] = ledger[p]["credit"],
               status'[p] = "approved" => status[p] = "approved",
               p \in Topups => hold'[p] = hold[p]
        PROVE  FundFacts(p)'
    BY <2>1, <2>4, <2>5 DEF FundFacts
  <2>6. CASE \/ Untold(p) \/ Opened(p) \/ Closed(p) \/ TextPaid(p) \/ ReceiptSent(p)
             \/ ReceiptMoved(p) \/ Verified(p) \/ TurnedDown(p)
    BY <2>5, <2>6 DEF Untold, Opened, Closed, StatusOnly, TextPaid, ReceiptSent,
       ReceiptMoved, Verified, TurnedDown, MoneyRow
  <2>7. CASE WalletPaid(p)
    BY <2>2, <2>5, <2>7 DEF WalletPaid, Events
  <2>8. CASE Credited(p)
    <3>1. /\ ledger'[p]["credit"] = IF ledger[p]["credit"] = 0 THEN Price[p]
                                                             ELSE ledger[p]["credit"]
          /\ hold'[p] = hold[p] /\ p \in Topups
      BY <2>2, <2>8, PostedKeeps DEF Credited, Events
    <3> QED BY <2>1, <2>2, <3>1 DEF FundFacts
  <2>9. CASE Transferred(p) \/ TakenFromHold(p)
    <3>1. ledger'[p]["capture"] = Price[p] /\ p \notin Topups /\ OpenAccess(p)
      BY <2>2, <2>9 DEF Transferred, TakenFromHold, Captured, Events
    <3>2. sub'[p] # "none"
      BY <3>1 DEF OpenAccess, FundInv, PaidInv, TypeInv, AccessTypeOK
    <3> QED BY <3>1, <3>2 DEF FundFacts
  <2>10. CASE Rejected(p)
    <3>1. /\ ledger'[p]["capture"] = ledger[p]["capture"]
          /\ ledger'[p]["credit"] = ledger[p]["credit"]
      BY <2>2, <2>10, PostedKeeps DEF Rejected, MoneyRow, Events
    <3>2. status'[p] # "approved" /\ (p \in Topups => hold'[p] = hold[p])
      BY <2>3, <2>10 DEF Rejected, MoneyRow, Walleted, LastRow
    <3> QED BY <2>5, <3>1, <3>2
  <2>11. CASE Refunded(p)
    <3>1. /\ ledger'[p]["capture"] = ledger[p]["capture"]
          /\ ledger'[p]["credit"] = ledger[p]["credit"]
      BY <2>2, <2>11, PostedKeeps DEF Refunded, Events
    <3>2. (status'[p] = "approved" => status[p] = "approved") /\ hold'[p] = hold[p]
      BY <2>11 DEF Refunded
    <3> QED BY <2>5, <3>1, <3>2
  <2>12. CASE Released(p)
    <3>1. /\ ledger'[p]["capture"] = ledger[p]["capture"]
          /\ ledger'[p]["credit"] = ledger[p]["credit"]
      BY <2>2, <2>12, PostedKeeps DEF Released, Events
    <3>2. p \notin Topups
      BY <2>1, <2>12 DEF Released, ReleaseRows, FundInv, FundFacts
    <3>3. status'[p] = "approved" => status[p] = "approved"
      BY <2>12 DEF Released
    <3> QED BY <2>5, <3>1, <3>2, <3>3
  <2> QED BY <2>1, <2>6, <2>7, <2>8, <2>9, <2>10, <2>11, <2>12 DEF OrderStep
<1> QED BY <1>1, <1>2, <1>3 DEF FundInv

(* An approved order was paid for: a plan by a captured price, with its
   subscription opened; a top-up by exactly its credit, with no subscription and
   no hold.  On either database, stale sweeps included. *)
THEOREM ApprovedIsFundedSafety == Spec => []ApprovedIsFunded
<1>1. FundInv => ApprovedIsFunded
  BY DEF FundInv, FundFacts, PaidInv, AccessIsPaid, ApprovedIsFunded
<1> QED BY <1>1, FundInit, FundStep, PTL DEF Spec

-----------------------------------------------------------------------------
(* What an order can give beyond what was paid, on either database *)

(* A wallet payment is verified only by the capture of its price. *)
LEMMA WalletIsCaptured ==
  ASSUME PaymentInv, PaymentInv', NEW p \in Orders, OrderStep(p),
         Walleted(p)', LastRow(p)'.status = "verified"
  PROVE  \/ Walleted(p) /\ LastRow(p).status = "verified"
         \/ ledger'[p]["capture"] = Price[p]
<1>1. /\ payments \in [Orders -> Seq(Payment)] /\ payments' \in [Orders -> Seq(Payment)]
      /\ ledger \in [Orders -> [Events -> Nat]] /\ PaymentFacts(p) /\ PaymentFacts(p)'
  BY DEF PaymentInv, ReceiptInv, LedgerTypeOK
<1>2. /\ payments[p] \in [1..Len(payments[p]) -> Payment] /\ Len(payments[p]) \in Nat
      /\ DOMAIN payments[p] = 1..Len(payments[p]) /\ payments[p] \in Seq(Payment)
  BY <1>1, RowsOf, LenProperties
<1>3. {"submitted", "verified", "rejected", "refunded"} \subseteq PayStatus
  BY DEF PayStatus
<1>4. ASSUME UNCHANGED payments[p] PROVE Walleted(p) /\ LastRow(p).status = "verified"
  BY <1>4 DEF Walleted, LastRow
<1>5. ASSUME NEW row \in Payment, payments'[p] = Append(payments[p], row)
      PROVE  row.wallet /\ row.status = "verified"
  <2>1. LastRow(p)' = row
    BY <1>2, <1>5, AppendProperties DEF LastRow
  <2> QED BY <2>1 DEF Walleted
<1>6. CASE TextPaid(p) \/ WalletPaid(p)
  <2>1. \A r \in Refs : [wallet |-> FALSE, ref |-> r, status |-> "submitted"] \in Payment
    BY <1>3 DEF Payment
  <2>2. [wallet |-> TRUE, ref |-> WalletRef, status |-> "submitted"] \in Payment
    BY <1>3 DEF Payment
  <2> QED BY <1>5, <1>6, <2>1, <2>2 DEF TextPaid, WalletPaid
<1>7. CASE Verified(p)
  <2>1. PICK i \in Images : storage[p][i] # "absent" /\ review[p][i] = "pending"
    BY <1>7 DEF Verified
  <2>2. ~Walleted(p)
    BY <1>1, <2>1 DEF PaymentFacts
  <2>3. \A n \in DOMAIN payments[p] : ~payments[p][n].wallet
    BY <2>2, NoWalletRow
  <2>4. PICK r \in Refs :
          payments'[p] = IF Live(p) # {}
            THEN [payments[p] EXCEPT ![LatestLive(p)] =
                    [wallet |-> FALSE, ref |-> r, status |-> "verified"]]
            ELSE Append(payments[p], [wallet |-> FALSE, ref |-> r, status |-> "verified"])
    BY <1>7 DEF Verified
  <2>5. [wallet |-> FALSE, ref |-> r, status |-> "verified"] \in Payment
    BY <1>3 DEF Payment
  <2>6. CASE Live(p) # {}
    <3>1. /\ DOMAIN payments'[p] = DOMAIN payments[p]
          /\ \A n \in DOMAIN payments[p] : ~payments'[p][n].wallet
      BY <1>2, <2>3, <2>4, <2>6
    <3>2. Len(payments'[p]) \in DOMAIN payments'[p]
      BY <1>1, RowsOf DEF Walleted
    <3> QED BY <3>1, <3>2 DEF Walleted, LastRow
  <2>7. CASE Live(p) = {}
    BY <1>5, <2>4, <2>5, <2>7
  <2> QED BY <2>6, <2>7
<1>8. CASE Transferred(p) \/ TakenFromHold(p)
  BY <1>1, <1>8 DEF Transferred, TakenFromHold, Events
<1>9. ASSUME NEW from, NEW to \in {"rejected", "refunded"},
             payments'[p] = Marked(payments[p], from, to)
      PROVE  Walleted(p) /\ LastRow(p).status = "verified"
  BY <1>1, <1>3, <1>9, LastMarked
<1>10. CASE TurnedDown(p) \/ Rejected(p) \/ Refunded(p)
  BY <1>9, <1>10 DEF TurnedDown, Rejected, Refunded
<1>11. CASE Released(p)
  <2>1. payments'[p] = [n \in DOMAIN payments[p] |->
          IF payments[p][n].wallet /\ payments[p][n].status = "submitted"
            THEN [payments[p][n] EXCEPT !.status = "rejected"] ELSE payments[p][n]]
    BY <1>11 DEF Released
  <2>2. DOMAIN payments'[p] = DOMAIN payments[p]
    BY <2>1
  <2>3. Len(payments'[p]) = Len(payments[p]) /\ payments[p] # <<>>
        /\ Len(payments[p]) \in DOMAIN payments[p]
    <3>1. /\ payments'[p] # <<>> /\ Len(payments'[p]) \in DOMAIN payments'[p]
          /\ DOMAIN payments'[p] = 1..Len(payments'[p]) /\ Len(payments'[p]) \in Nat
      BY <1>1, RowsOf DEF Walleted
    <3>2. Len(payments'[p]) = Len(payments[p])
      BY <1>2, <2>2, <3>1
    <3> QED BY <2>2, <3>1, <3>2, EmptySeq
  <2>4. payments[p][Len(payments[p])] \in Payment
    BY <1>2, <2>3
  <2> DEFINE row == payments[p][Len(payments[p])]
  <2>5. LastRow(p)' = IF row.wallet /\ row.status = "submitted"
                        THEN [row EXCEPT !.status = "rejected"] ELSE row
    BY <2>1, <2>3 DEF LastRow
  <2>6. row \in Payment => [row EXCEPT !.status = "rejected"].status = "rejected"
    BY DEF Payment
  <2>7. LastRow(p)' = row
    BY <2>4, <2>5, <2>6
  <2> QED BY <2>3, <2>7 DEF Walleted, LastRow
<1> QED
  BY <1>4, <1>6, <1>7, <1>8, <1>10, <1>11
  DEF OrderStep, Untold, Opened, Closed, StatusOnly, ReceiptSent, ReceiptMoved, Credited

(* What is held, given back or captured was reserved; what was credited was
   paid, and for a plan captured; a wallet payment is verified with its capture;
   a refund returns the price, or what was verified if that is more, of an order
   whose price was captured or paid. *)
LossFacts(o) ==
  /\ verified[o] = 0 \/ verified[o] >= Price[o]
  /\ ledger[o]["reserve"] \in {0, Price[o]} /\ ledger[o]["release"] \in {0, Price[o]}
  /\ ledger[o]["release"] > 0 \/ ledger[o]["capture"] > 0 \/ hold[o] = "reserved"
       => ledger[o]["reserve"] = Price[o]
  /\ ledger[o]["credit"] <= Paid(o)
  /\ o \notin Topups /\ ledger[o]["credit"] > 0 => ledger[o]["capture"] = Price[o]
  /\ Walleted(o) /\ LastRow(o).status = "verified" => ledger[o]["capture"] = Price[o]
  /\ o \notin refunded => ledger[o]["reversal"] = 0
  /\ o \in refunded =>
       /\ o \notin Topups
       /\ ledger[o]["reversal"] <= Price[o] \/ ledger[o]["reversal"] <= verified[o]
       /\ ledger[o]["capture"] = 0 => Paid(o) >= Price[o]

(* A hold that a sweep has selected was reserved. *)
SweptIsReserved ==
  sweep.kind # "expire" => \A o \in sweep.rows : ledger[o]["reserve"] = Price[o]

LossInv ==
  /\ FundInv
  /\ DecisionInv
  /\ SweptIsReserved
  /\ \A o \in Orders : LossFacts(o)

(* Nothing was lost at first. *)
LEMMA LossInit == Init => LossInv
<1> SUFFICES ASSUME Init PROVE LossInv
  OBVIOUS
<1>1. ASSUME NEW o \in Orders PROVE LossFacts(o)
  <2>1. /\ verified \in [Orders -> Nat] /\ verified[o] = 0 /\ o \notin refunded
        /\ \A e \in Events : ledger[o][e] = 0
        /\ payments[o] = <<>> /\ hold[o] = "none"
    BY DEF Init, Events, AccessInit
  <2>2. Paid(o) \in Nat
    BY <2>1, PaidIs
  <2> QED BY <2>1, <2>2 DEF LossFacts, Walleted, Events
<1>2. SweptIsReserved
  BY DEF Init, NoSweep, SweptIsReserved
<1> QED BY <1>1, <1>2, FundInit, DecisionInit DEF LossInv

(* What was paid does not shrink. *)
LEMMA PaidStays ==
  ASSUME LossInv, verified' \in [Orders -> Nat], NEW p \in Orders, OrderStep(p)
  PROVE  /\ Paid(p) \in Nat /\ Paid(p)' \in Nat /\ Paid(p)' >= Paid(p)
         /\ verified'[p] >= verified[p]
         /\ verified'[p] = 0 \/ verified'[p] >= Price[p]
         /\ Transferred(p) => Paid(p)' >= Price[p]
         /\ verified'[p] > 0 => Paid(p)' = verified'[p]
<1>1. /\ verified \in [Orders -> Nat] /\ verified[p] \in Nat /\ verified'[p] \in Nat
      /\ Price[p] \in Nat /\ Price[p] > 0
      /\ PaymentInv /\ DecisionInv /\ LossFacts(p)
  BY LedgerAssumption DEF LossInv, FundInv, DecisionInv, ReceiptInv, LedgerTypeOK
<1>2. (verified[p] > 0 => verified'[p] = verified[p]) /\ (HasTransfer(p) => HasTransfer(p)')
  BY <1>1, ReviewStands, TransferStays
<1>3. CASE verified'[p] = verified[p]
  <2>1. /\ Paid(p) \in Nat /\ Paid(p)' \in Nat /\ Paid(p)' >= Paid(p)
        /\ HasTransfer(p)' /\ verified[p] = 0 => Paid(p)' = Price[p]
        /\ verified[p] > 0 => Paid(p)' = verified[p]
    BY <1>1, <1>2, <1>3, PaidGrows
  <2>2. verified[p] = 0 \/ verified[p] >= Price[p]
    BY <1>1 DEF LossFacts
  <2>3. Transferred(p) => HasTransfer(p)'
    BY <1>1, TransferStays
  <2> QED BY <1>1, <1>3, <2>1, <2>2, <2>3
<1>4. CASE verified'[p] # verified[p]
  <2>1. Verified(p)
    BY <1>4 DEF OrderStep, Untold, Opened, Closed, StatusOnly, TextPaid, WalletPaid,
       ReceiptSent, ReceiptMoved, TurnedDown, Credited, Transferred, TakenFromHold,
       Captured, Rejected, Refunded, Released, ProofRow
  <2>2. verified'[p] >= Price[p] /\ verified[p] = 0 /\ ~Transferred(p)
    BY <1>1, <1>2, <1>4, <2>1 DEF Verified, Transferred, Captured, ProofRow
  <2>3. Paid(p) \in Nat /\ Paid(p) <= Price[p]
    BY <1>1, <2>2, PaidIs
  <2>4. Paid(p)' = verified'[p]
    BY <1>1, <2>2 DEF Paid
  <2> QED BY <1>1, <2>2, <2>3, <2>4
<1> QED BY <1>3, <1>4

(* Every step keeps the facts of every order. *)
LEMMA LossFactsStep ==
  ASSUME LossInv, [Next]_vars, PaymentInv', NEW p \in Orders
  PROVE  LossFacts(p)'
<1>1. /\ PaymentInv /\ ReceiptInv /\ DecisionInv /\ OrdersInv
      /\ ledger \in [Orders -> [Events -> Nat]] /\ ledger' \in [Orders -> [Events -> Nat]]
      /\ verified \in [Orders -> Nat] /\ verified' \in [Orders -> Nat]
  BY DEF LossInv, FundInv, PaymentInv, ReceiptInv, LedgerTypeOK
<1>2. OrderStep(p) /\ LossFacts(p) /\ PaymentFacts(p)
  BY <1>1, StepIsOrderStep DEF LossInv, PaymentInv
<1>3. /\ \A e \in Events : ledger[p][e] \in Nat /\ ledger'[p][e] \in Nat
      /\ ledger[p] \in [Events -> Nat]
      /\ Price[p] \in Nat /\ Price[p] > 0 /\ verified[p] \in Nat /\ verified'[p] \in Nat
  BY <1>1, LedgerAssumption DEF LossInv, DecisionInv, ReceiptInv, LedgerTypeOK
<1>4. /\ Paid(p) \in Nat /\ Paid(p)' \in Nat /\ Paid(p)' >= Paid(p)
      /\ verified'[p] >= verified[p]
      /\ verified'[p] = 0 \/ verified'[p] >= Price[p]
      /\ Transferred(p) => Paid(p)' >= Price[p]
      /\ verified'[p] > 0 => Paid(p)' = verified'[p]
  BY <1>1, <1>2, PaidStays
<1>5. Walleted(p)' /\ LastRow(p)'.status = "verified" => ledger'[p]["capture"] = Price[p]
  <2>1. ledger[p]["capture"] = Price[p] => ledger'[p]["capture"] = Price[p]
    BY <1>1, <1>2, <1>3, LedgerStands DEF Events
  <2> QED BY <1>1, <1>2, <2>1, WalletIsCaptured DEF LossFacts
<1>6. IsOpen(p) \/ CanApprove(p) => p \notin refunded
  BY <1>1 DEF OrdersInv, IsOpen, CanApprove, Open
<1>7. ASSUME NotRefunded(p), ledger'[p] = ledger[p], hold'[p] = "reserved" => hold[p] = "reserved"
      PROVE  LossFacts(p)'
  BY <1>2, <1>3, <1>4, <1>5, <1>7 DEF LossFacts, NotRefunded, Events
<1>8. CASE /\ NotRefunded(p)
           /\ \/ Untold(p) \/ Opened(p) \/ Closed(p) \/ TextPaid(p) \/ ReceiptSent(p)
              \/ ReceiptMoved(p) \/ Verified(p) \/ TurnedDown(p)
  BY <1>7, <1>8 DEF Untold, Opened, Closed, StatusOnly, TextPaid, ReceiptSent,
     ReceiptMoved, Verified, TurnedDown, MoneyRow
<1>9. CASE NotRefunded(p) /\ WalletPaid(p)
  <2>1. /\ ledger'[p]["reserve"] = Price[p]
        /\ \A e \in Events \ {"reserve"} : ledger'[p][e] = ledger[p][e]
    BY <1>1, <1>9 DEF WalletPaid, Events
  <2> QED BY <1>2, <1>3, <1>4, <1>5, <1>9, <2>1 DEF LossFacts, NotRefunded, Events
<1>10. CASE NotRefunded(p) /\ Credited(p)
  <2>1. /\ ledger'[p]["credit"] = IF ledger[p]["credit"] = 0 THEN Price[p]
                                                           ELSE ledger[p]["credit"]
        /\ \A e \in Events \ {"credit"} : ledger'[p][e] = ledger[p][e]
    BY <1>1, <1>3, <1>10, PostedKeeps DEF Credited, Events
  <2>2. p \in Topups /\ p \notin refunded' /\ verified'[p] = Price[p] /\ hold'[p] = hold[p]
    BY <1>6, <1>10 DEF Credited, NotRefunded, ProofRow
  <2>3. ledger'[p]["credit"] <= Paid(p)'
    BY <1>2, <1>3, <1>4, <2>1, <2>2 DEF LossFacts, Events
  <2> QED BY <1>2, <1>3, <1>4, <1>5, <1>10, <2>1, <2>2, <2>3 DEF LossFacts, NotRefunded, Events
<1>11. CASE NotRefunded(p) /\ Transferred(p)
  <2>1. PICK c \in Nat, d \in Nat :
          /\ c = IF ledger[p]["credit"] # 0 THEN 0
                 ELSE IF HasReceipt(p) THEN verified[p] ELSE Price[p]
          /\ d = IF ledger[p]["reserve"] = 0 THEN Price[p] ELSE 0
          /\ ledger'[p] = [ledger[p] EXCEPT !["credit"] = @ + c, !["reserve"] = @ + d,
                                            !["capture"] = Price[p]]
    BY <1>11 DEF Transferred
  <2>2. /\ ledger'[p]["credit"] = ledger[p]["credit"] + c
        /\ ledger'[p]["reserve"] = ledger[p]["reserve"] + d
        /\ ledger'[p]["capture"] = Price[p]
        /\ ledger'[p]["release"] = ledger[p]["release"]
        /\ ledger'[p]["reversal"] = ledger[p]["reversal"]
    BY <1>3, <2>1 DEF Events
  <2>3. ledger'[p]["reserve"] = Price[p]
    BY <1>2, <1>3, <2>1, <2>2 DEF LossFacts
  <2>4. ledger'[p]["credit"] <= Paid(p)'
    <3>1. CASE ledger[p]["credit"] # 0
      BY <1>2, <1>3, <1>4, <2>1, <2>2, <3>1 DEF LossFacts, Events
    <3>2. CASE ledger[p]["credit"] = 0
      <4>1. verified[p] <= Paid(p)' /\ Price[p] <= Paid(p)'
        BY <1>3, <1>4, <1>11
      <4> QED BY <1>3, <2>1, <2>2, <3>2, <4>1
    <3> QED BY <3>1, <3>2
  <2>5. p \notin refunded /\ p \notin refunded' /\ p \notin Topups
    BY <1>6, <1>11 DEF Transferred, Captured, NotRefunded
  <2> QED BY <1>2, <1>3, <1>4, <1>5, <2>2, <2>3, <2>4, <2>5 DEF LossFacts
<1>12. CASE NotRefunded(p) /\ TakenFromHold(p)
  <2>1. /\ ledger'[p]["capture"] = Price[p]
        /\ \A e \in Events \ {"capture"} : ledger'[p][e] = ledger[p][e]
    BY <1>3, <1>12 DEF TakenFromHold, Events
  <2>2. ledger[p]["reserve"] = Price[p]
    <3>1. Walleted(p)
      BY <1>1, <1>12, LiveIsLast DEF TakenFromHold, Captured, CanApprove
    <3> QED BY <1>2, <3>1 DEF PaymentFacts
  <2>3. p \notin refunded /\ p \notin refunded' /\ p \notin Topups
    BY <1>6, <1>12 DEF TakenFromHold, Captured, NotRefunded
  <2> QED BY <1>2, <1>3, <1>4, <1>5, <2>1, <2>2, <2>3 DEF LossFacts, Events
<1>13. ASSUME NotRefunded(p), Posted(p, "release", Price[p]), ledger[p]["reserve"] = Price[p]
       PROVE  LossFacts(p)'
  <2>1. /\ ledger'[p]["release"] = IF ledger[p]["release"] = 0 THEN Price[p]
                                                             ELSE ledger[p]["release"]
        /\ \A e \in Events \ {"release"} : ledger'[p][e] = ledger[p][e]
    BY <1>1, <1>3, <1>13, PostedKeeps DEF Events
  <2> QED BY <1>2, <1>3, <1>4, <1>5, <1>13, <2>1 DEF LossFacts, NotRefunded, Events
<1>14. CASE NotRefunded(p) /\ Rejected(p)
  <2>1. CASE Walleted(p) /\ ledger[p]["release"] = 0
    <3>1. ledger[p]["reserve"] = Price[p]
      BY <1>2, <2>1 DEF PaymentFacts
    <3> QED BY <1>13, <1>14, <2>1, <3>1 DEF Rejected, Walleted, LastRow
  <2>2. CASE ~(Walleted(p) /\ ledger[p]["release"] = 0)
    BY <1>7, <1>14, <2>2 DEF Rejected, Walleted, LastRow, MoneyRow
  <2> QED BY <2>1, <2>2
<1>15. CASE NotRefunded(p) /\ Released(p)
  <2>1. ledger[p]["reserve"] = Price[p]
    BY <1>2, <1>15 DEF Released, ReleaseRows, LossInv, SweptIsReserved, LossFacts
  <2> QED BY <1>13, <1>15, <2>1 DEF Released
<1>16. CASE Refunded(p)
  <2> DEFINE amount == IF ~payments[p][LatestLive(p)].wallet /\ verified[p] > Price[p]
                         THEN verified[p] ELSE Price[p]
  <2>1. /\ p \notin refunded /\ p \in refunded' /\ p \notin Topups
        /\ Posted(p, "reversal", amount) /\ hold'[p] = hold[p]
    BY <1>16 DEF Refunded
  <2>2. amount \in Nat /\ (amount <= Price[p] \/ amount <= verified[p])
    BY <1>3
  <2> HIDE DEF amount
  <2>3. ledger[p]["reversal"] = 0
    BY <1>2, <2>1 DEF LossFacts
  <2>4. /\ ledger'[p]["reversal"] = amount
        /\ \A e \in Events \ {"reversal"} : ledger'[p][e] = ledger[p][e]
    BY <1>1, <2>1, <2>2, <2>3, PostedKeeps DEF Events
  <2>5. ledger[p]["capture"] = 0 => Paid(p)' >= Price[p]
    <3>1. /\ LatestLive(p) \in DOMAIN payments[p] /\ payments[p][LatestLive(p)].status = "verified"
          /\ payments[p][LatestLive(p)].wallet <=> Walleted(p)
          /\ Walleted(p) => LatestLive(p) = Len(payments[p])
      BY <1>1, <1>16, LiveIsLast DEF Refunded, Live
    <3>2. ledger[p]["capture"] = 0 => ~Walleted(p)
      BY <1>2, <1>3, <3>1 DEF LossFacts, LastRow
    <3>3. ~Walleted(p) => HasTransfer(p)
      BY <3>1 DEF HasTransfer
    <3>4. HasTransfer(p) => Paid(p) >= Price[p]
      BY <1>1, <1>2, <1>3, PaidIs DEF LossFacts
    <3> QED BY <1>3, <1>4, <3>2, <3>3, <3>4
  <2> QED BY <1>2, <1>3, <1>4, <1>5, <2>1, <2>2, <2>4, <2>5 DEF LossFacts, Events
<1> QED
  BY <1>2, <1>8, <1>9, <1>10, <1>11, <1>12, <1>14, <1>15, <1>16 DEF OrderStep

(* Every step keeps the invariant. *)
LEMMA LossStep == LossInv /\ [Next]_vars => LossInv'
<1> SUFFICES ASSUME LossInv, [Next]_vars PROVE LossInv'
  OBVIOUS
<1>1. FundInv' /\ DecisionInv' /\ PaymentInv' /\ ReceiptInv
  BY FundStep, DecisionStep DEF LossInv, FundInv, DecisionInv
<1>2. \A p \in Orders : LossFacts(p)'
  BY <1>1, LossFactsStep
<1>3. \A p \in Orders : ledger[p]["reserve"] = Price[p] => ledger'[p]["reserve"] = Price[p]
  BY <1>1, StepIsOrderStep, LedgerStands, LedgerAssumption DEF LossInv, Events
<1>4. SweptIsReserved'
  <2>1. ASSUME sweep' \in {sweep, NoSweep} PROVE SweptIsReserved'
    BY <1>3, <2>1 DEF LossInv, FundInv, OrdersInv, SweptIsReserved, NoSweep
  <2>2. ASSUME NEW k \in {"expire", "release"}, SweepSelect(k) PROVE SweptIsReserved'
    <3>1. \A o \in ReleaseRows : o \in Orders /\ ledger[o]["reserve"] = Price[o]
      BY <1>1 DEF ReleaseRows, LossInv, LossFacts, ReceiptInv, LedgerTypeOK
    <3>2. ledger' = ledger
      BY <2>2 DEF SweepSelect, orderVars, moneyVars
    <3> QED BY <2>2, <3>1, <3>2 DEF SweepSelect, SweptIsReserved
  <2>3. ASSUME NEW o \in Orders, SweepWrite(o) PROVE SweptIsReserved'
    BY <1>3, <2>3 DEF SweepWrite, LossInv, FundInv, OrdersInv, SweptIsReserved, NoSweep
  <2> QED BY <2>1, <2>2, <2>3, SweepMoves
<1> QED BY <1>1, <1>2, <1>4 DEF LossInv

(* On either database, an order's wallet movements and goods exceed what was
   paid and spent for it at most by a price both captured and given back by a
   sweep, and by the surplus of an overpaid order that was refunded. *)
THEOREM LossIsBoundedSafety == Spec => []LossIsBounded
<1>1. LossInv => LossIsBounded
  <2> SUFFICES ASSUME LossInv, NEW o \in Orders
               PROVE  Gain(o) + Goods(o) <= Paid(o) + Spent(o) + SettledTwice(o) + Overpaid(o)
    BY DEF LossIsBounded
  <2>1. /\ \A e \in Events : ledger[o][e] \in Nat
        /\ Price[o] \in Nat /\ Price[o] > 0 /\ verified[o] \in Nat
        /\ verified \in [Orders -> Nat]
    BY LedgerAssumption DEF LossInv, DecisionInv, ReceiptInv, LedgerTypeOK
  <2>2. Paid(o) \in Nat
    BY <2>1, PaidIs
  <2>3. /\ LossFacts(o) /\ FundFacts(o) /\ ledger[o]["capture"] \in {0, Price[o]}
    BY DEF LossInv, FundInv, DecisionInv, VerdictFacts
  <2>4. /\ ledger[o]["credit"] <= Paid(o)
        /\ ledger[o]["release"] <= ledger[o]["reserve"]
        /\ ledger[o]["reversal"] <= Price[o] + Overpaid(o) /\ Overpaid(o) \in Nat
        /\ SettledTwice(o) \in Nat
    BY <2>1, <2>3 DEF LossFacts, Overpaid, SettledTwice, Events
  <2>5. CASE o \notin refunded
    <3>1. ledger[o]["release"] + Goods(o) <= ledger[o]["reserve"] + SettledTwice(o)
      <4>1. CASE Goods(o) = 0
        BY <2>1, <2>4, <4>1 DEF Events
      <4>2. CASE Goods(o) # 0
        <5>1. Goods(o) = Price[o] /\ ledger[o]["capture"] = Price[o]
          BY <2>3, <4>2 DEF Goods, FundFacts
        <5>2. ledger[o]["reserve"] = Price[o]
          BY <2>1, <2>3, <5>1 DEF LossFacts
        <5>3. ledger[o]["release"] = 0 \/ SettledTwice(o) = ledger[o]["release"]
          BY <2>1, <2>3, <5>1 DEF SettledTwice, LossFacts
        <5> QED BY <2>1, <2>4, <5>1, <5>2, <5>3 DEF Events
      <4> QED BY <4>1, <4>2
    <3>2. ledger[o]["reversal"] = 0 /\ Goods(o) \in Nat
      BY <2>1, <2>3, <2>5 DEF LossFacts, Goods
    <3> QED BY <2>1, <2>2, <2>4, <3>1, <3>2 DEF Gain, Spent, Events
  <2>6. CASE o \in refunded
    <3>1. Goods(o) = 0 /\ o \notin Topups
      BY <2>3, <2>6 DEF Goods, LossFacts
    <3>2. ledger[o]["credit"] + ledger[o]["release"] + Price[o]
            <= Paid(o) + ledger[o]["reserve"] + SettledTwice(o)
      <4>1. CASE ledger[o]["capture"] = 0
        <5>1. ledger[o]["credit"] = 0 /\ Paid(o) >= Price[o]
          BY <2>1, <2>3, <2>6, <3>1, <4>1 DEF LossFacts, Events
        <5> QED BY <2>1, <2>2, <2>4, <5>1 DEF Events
      <4>2. CASE ledger[o]["capture"] # 0
        <5>1. ledger[o]["capture"] > 0 /\ ledger[o]["reserve"] = Price[o]
          BY <2>1, <2>3, <4>2 DEF LossFacts
        <5>2. ledger[o]["release"] <= SettledTwice(o)
          BY <2>1, <2>3, <5>1 DEF SettledTwice, LossFacts
        <5> QED BY <2>1, <2>2, <2>4, <5>1, <5>2 DEF Events
      <4> QED BY <4>1, <4>2
    <3> QED BY <2>1, <2>2, <2>4, <3>1, <3>2 DEF Gain, Spent, Events
  <2> QED BY <2>5, <2>6
<1> QED BY <1>1, LossInit, LossStep, PTL DEF Spec

-----------------------------------------------------------------------------
(* The order service implements OrderLifecycle, on SQLite, while staff turn down
   only receipts the review queue shows *)

(* An order with a verified payment is not closed; a receipt turned down while
   its order is open has reached storage, so it is never uploaded again; only
   receipts on record are reviewed. *)
DecisionFacts(o) ==
  /\ (\E n \in DOMAIN payments[o] : payments[o][n].status = "verified")
       => status[o] \in {"payment_submitted", "approved"}
  /\ status[o] \in Open \cup {"none"} => \A i \in Images :
       storage[o][i] # "absent" /\ review[o][i] = "rejected" => StorageReady(storage[o][i])
  /\ \A i \in Images : storage[o][i] = "absent" => review[o][i] = "pending"

(* An upload is of an open order and a receipt not turned down. *)
UploadIsOpen ==
  ~Ready => IsOpen(upload[1]) /\ review[upload[1]][upload[2]] # "rejected"

(* A storage that is configured configures every receipt. *)
StorageFacts ==
  StorageConfigured =>
    \A o \in Orders, i \in Images : storage[o][i] # "not_configured"

LifeInv ==
  /\ ValueInv
  /\ StorageFacts
  /\ UploadIsOpen
  /\ \A o \in Orders : DecisionFacts(o)

(* Storage of one receipt per step, and what else receipts steps say. *)
LEMMA StorageStep ==
  ASSUME LifeInv, [Next]_vars
  PROVE  /\ StorageFacts'
         /\ \A o \in Orders : storage'[o] # storage[o] =>
              \/ \E i \in Images : SubmitReceipt(o, i) \/ RetryUpload(o, i)
              \/ /\ upload[1] = o /\ ~Ready
                 /\ \A j \in Images \ {upload[2]} : storage'[o][j] = storage[o][j]
                 /\ UNCHANGED review
<1>0. LedgerTypeOK /\ ReceiptInv
  BY DEF LifeInv, ValueInv, HoldInv, PaymentInv, ReceiptInv
<1>a. storage \in [Orders -> [Images -> StorageStatus]]
  BY <1>0 DEF LedgerTypeOK, StorageStatus
<1>b. BOOLEAN = {TRUE, FALSE} /\ StorageConfigured \in BOOLEAN
  BY LedgerAssumption
<1> DEFINE Kinds == \A o \in Orders : storage'[o] # storage[o] =>
              \/ \E i \in Images : SubmitReceipt(o, i) \/ RetryUpload(o, i)
              \/ /\ upload[1] = o /\ ~Ready
                 /\ \A j \in Images \ {upload[2]} : storage'[o][j] = storage[o][j]
                 /\ UNCHANGED review
<1>1. ASSUME NEW o \in Orders, NEW i \in Images, SubmitReceipt(o, i) \/ RetryUpload(o, i)
      PROVE  StorageFacts' /\ Kinds
  <2>1. PICK s \in StorageStatus :
          /\ storage' = [storage EXCEPT ![o][i] = s]
          /\ s = "not_configured" => ~StorageConfigured
    BY <1>1, <1>b DEF SubmitReceipt, RetryUpload, StorageStatus
  <2>2. StorageFacts'
    BY <1>a, <2>1 DEF StorageFacts, LifeInv
  <2>3. Kinds
    BY <1>1, <1>a, <2>1
  <2> QED BY <2>2, <2>3
<1>2. CASE UploadDone \/ UploadFails
  <2>1. ~Ready /\ UNCHANGED review
    BY <1>2 DEF UploadDone, UploadFails
  <2>2. PICK o \in Orders, i \in Images : o = upload[1] /\ i = upload[2]
    BY <1>0, <2>1, UploadOf DEF LedgerTypeOK
  <2>3. PICK s \in {storage[o][i], "stored", "failed"} :
          storage' = [storage EXCEPT ![o][i] = s]
    BY <1>2, <2>2 DEF UploadDone, UploadFails
  <2>4. StorageFacts'
    BY <1>a, <2>3 DEF StorageFacts, LifeInv
  <2>5. Kinds
    BY <1>a, <2>1, <2>2, <2>3
  <2> QED BY <2>4, <2>5
<1>3. CASE UNCHANGED storage
  BY <1>3 DEF StorageFacts, LifeInv
<1> QED
  BY <1>0, <1>1, <1>2, <1>3, ReceiptStepKinds DEF VerifyReceipt, RejectReceipt, RejectOrder, proofVars

(* Nothing is decided at first. *)
LEMMA LifeInit == Init => LifeInv
<1> SUFFICES ASSUME Init PROVE LifeInv
  OBVIOUS
<1>1. \A o \in Orders : DecisionFacts(o)
  BY DEF Init, DecisionFacts
<1>2. StorageFacts
  BY DEF Init, StorageFacts
<1>3. Ready
  BY DEF Init, Ready
<1> QED BY <1>1, <1>2, <1>3, ValueInit DEF LifeInv, UploadIsOpen

(* Every step keeps decided orders decided. *)
LEMMA LifeStep ==
  ASSUME Backend = "sqlite", ~RejectUnstored
  PROVE  LifeInv /\ [Next]_vars => LifeInv'
<1> SUFFICES ASSUME LifeInv, [Next]_vars PROVE LifeInv'
  OBVIOUS
<1>1. /\ ValueInv /\ HoldInv /\ PaymentInv /\ ReceiptInv /\ LedgerTypeOK
      /\ ValueInv' /\ HoldInv' /\ LedgerTypeOK' /\ StorageFacts'
  BY ValueStep, StorageStep DEF LifeInv, ValueInv, HoldInv, PaymentInv, ReceiptInv
<1>2. /\ payments \in [Orders -> Seq(Payment)] /\ payments' \in [Orders -> Seq(Payment)]
      /\ storage \in [Orders -> [Images -> StorageStatus]]
      /\ review \in [Orders -> [Images -> {"pending", "verified", "rejected"}]]
      /\ status \in [Orders -> OrderStatus] /\ status' \in [Orders -> OrderStatus]
      /\ newest \in [Orders -> Images \cup {NoImage}]
  BY <1>1 DEF LedgerTypeOK, StorageStatus
<1>3. ASSUME NEW p \in Orders PROVE OrderStep(p) /\ DecisionFacts(p) /\ HoldFacts(p) /\ PaymentFacts(p)
  BY <1>1, StepIsOrderStep DEF LifeInv, HoldInv, PaymentInv
<1>6. {"submitted", "verified", "rejected", "refunded"} \subseteq PayStatus
  BY DEF PayStatus
<1>4. ASSUME NEW p \in Orders
      PROVE  (\E n \in DOMAIN payments'[p] : payments'[p][n].status = "verified")
               => status'[p] \in {"payment_submitted", "approved"}
  <2> DEFINE Settled == \E n \in DOMAIN payments[p] : payments[p][n].status = "verified"
             Goal == (\E n \in DOMAIN payments'[p] : payments'[p][n].status = "verified")
                       => status'[p] \in {"payment_submitted", "approved"}
  <2>1. Settled => status[p] \in {"payment_submitted", "approved"}
    BY <1>3 DEF DecisionFacts
  <2>2. ASSUME UNCHANGED <<payments[p], status[p]>> PROVE Goal
    BY <2>1, <2>2
  <2>3. ASSUME status'[p] \in {"payment_submitted", "approved"} PROVE Goal
    BY <2>3
  <2>4. CASE Untold(p) \/ ReceiptSent(p)
    BY <2>2, <2>4 DEF Untold, ReceiptSent
  <2>5. CASE Opened(p)
    BY <2>1, <2>5 DEF Opened, StatusOnly
  <2>6. CASE Closed(p)
    BY <1>1, <2>6 DEF Closed, StatusOnly, Untouched, HoldInv, NoSweep
  <2>7. CASE ReceiptMoved(p)
    BY <2>2, <2>3, <2>7 DEF ReceiptMoved
  <2>8. CASE \/ TextPaid(p) \/ WalletPaid(p) \/ Verified(p) \/ Credited(p)
             \/ Transferred(p) \/ TakenFromHold(p)
    BY <2>3, <2>8 DEF TextPaid, WalletPaid, Verified, Credited, Transferred,
       TakenFromHold, Captured
  <2>9. ASSUME NEW from, NEW to \in {"rejected", "refunded"},
               payments'[p] = Marked(payments[p], from, to)
        PROVE  \A n \in DOMAIN payments'[p] : payments'[p][n].status = "verified" =>
                 /\ n \in DOMAIN payments[p]
                 /\ payments[p][n].status = "verified" /\ "verified" \notin from
    <3>1. to \in PayStatus /\ to # "verified"
      BY <1>6
    <3>2. /\ DOMAIN payments'[p] = DOMAIN payments[p]
          /\ \A n \in DOMAIN payments[p] :
               payments'[p][n].status = IF payments[p][n].status \in from
                                          THEN to ELSE payments[p][n].status
      BY <1>2, <2>9, <3>1, RowsOf, MarkedRows
    <3> QED BY <3>1, <3>2
  <2>10. CASE TurnedDown(p)
    BY <2>1, <2>9, <2>10 DEF TurnedDown
  <2>11. CASE Rejected(p)
    BY <2>9, <2>11 DEF Rejected
  <2>12. CASE Refunded(p)
    BY <2>9, <2>12 DEF Refunded
  <2>13. CASE Released(p)
    <3>1. /\ Walleted(p) /\ LastRow(p).status = "submitted"
      BY <1>1, <1>3, <2>13 DEF Released, ReleaseRows, HoldInv, NoSweep, HoldFacts
    <3>2. \A n \in DOMAIN payments[p] : payments[p][n].status # "verified"
      BY <1>3, <3>1 DEF PaymentFacts, Live, LastRow
    <3>3. \A n \in DOMAIN payments[p] : payments[p][n] \in Payment
      BY <1>2, RowsOf
    <3>4. \A r \in Payment : [r EXCEPT !.status = "rejected"].status = "rejected"
      BY DEF Payment
    <3>5. payments'[p] = [n \in DOMAIN payments[p] |->
            IF payments[p][n].wallet /\ payments[p][n].status = "submitted"
              THEN [payments[p][n] EXCEPT !.status = "rejected"] ELSE payments[p][n]]
      BY <2>13 DEF Released
    <3>6. ASSUME NEW n \in DOMAIN payments[p] PROVE payments'[p][n].status # "verified"
      BY <3>2, <3>3, <3>4, <3>5
    <3> QED BY <3>5, <3>6
  <2> QED
    BY <1>3, <2>4, <2>5, <2>6, <2>7, <2>8, <2>10, <2>11, <2>12, <2>13 DEF OrderStep
<1>5. ASSUME NEW p \in Orders, status'[p] \in Open \cup {"none"}, NEW i \in Images,
             storage'[p][i] # "absent", review'[p][i] = "rejected"
      PROVE  StorageReady(storage'[p][i])
  <2>1. status[p] \in Open \cup {"none"}
    <3>1. CASE ReceiptMoved(p)
      BY <1>5, <3>1 DEF ReceiptMoved, LifeInv, UploadIsOpen, IsOpen
    <3>2. CASE Released(p)
      BY <1>5, <3>2 DEF Released, Open
    <3> QED
      BY <1>3, <1>5, <3>1, <3>2 DEF OrderStep, Untold, Opened, Closed, StatusOnly, TextPaid,
         WalletPaid, ReceiptSent, Verified, TurnedDown, Credited, Transferred, TakenFromHold,
         Captured, Rejected, Refunded, IsOpen, Open
  <2>2. ASSUME storage[p][i] # "absent", review[p][i] = "rejected",
               storage'[p][i] = storage[p][i]
        PROVE  StorageReady(storage'[p][i])
    BY <1>3, <2>1, <2>2 DEF DecisionFacts
  <2>3. CASE storage'[p] = storage[p] /\ review'[p] # review[p]
    <3>1. TurnedDown(p) \/ Verified(p)
      BY <1>3, <1>5, <2>3 DEF OrderStep, Untold, Opened, Closed, StatusOnly, TextPaid,
         WalletPaid, ReceiptSent, ReceiptMoved, Credited, Transferred, TakenFromHold, Captured,
         Rejected, Refunded, Released, ProofRow, Open
    <3>2. CASE TurnedDown(p)
      <4>1. PICK j \in Images : InReviewQueue(p, j) /\ review'[p] = [review[p] EXCEPT ![j] = "rejected"]
        BY <3>2 DEF TurnedDown
      <4>2. CASE i = j
        BY <1>1, <2>3, <4>1, <4>2 DEF InReviewQueue, StorageReady, LifeInv, StorageFacts
      <4>3. CASE i # j
        <5>1. review[p][i] = "rejected"
          BY <1>2, <1>5, <4>1, <4>3
        <5> QED BY <1>5, <2>2, <2>3, <5>1
      <4> QED BY <4>2, <4>3
    <3>3. CASE Verified(p)
      <4>1. PICK j \in Images : review'[p] = [review[p] EXCEPT ![j] = "verified"]
        BY <3>3 DEF Verified
      <4>2. review[p][i] = "rejected"
        BY <1>2, <1>5, <4>1
      <4> QED BY <1>5, <2>2, <2>3, <4>2
    <3> QED BY <3>1, <3>2, <3>3
  <2>4. CASE storage'[p] # storage[p]
    <3>1. ASSUME NEW j \in Images, SubmitReceipt(p, j) \/ RetryUpload(p, j)
          PROVE  StorageReady(storage'[p][i])
      <4>1. /\ UNCHANGED review
            /\ storage[p][j] = "absent" \/ ~StorageReady(storage[p][j])
            /\ \A k \in Images \ {j} : storage'[p][k] = storage[p][k]
        BY <1>2, <3>1 DEF SubmitReceipt, RetryUpload
      <4>2. review[p][j] # "rejected"
        BY <1>3, <2>1, <4>1 DEF DecisionFacts
      <4> QED BY <1>5, <2>2, <4>1, <4>2
    <3>2. CASE /\ upload[1] = p /\ ~Ready
               /\ \A j \in Images \ {upload[2]} : storage'[p][j] = storage[p][j]
               /\ UNCHANGED review
      BY <1>5, <2>2, <3>2 DEF LifeInv, UploadIsOpen
    <3> QED BY <2>4, <3>1, <3>2, StorageStep
  <2> QED BY <1>5, <2>2, <2>3, <2>4
<1>7. ASSUME NEW p \in Orders, NEW i \in Images, storage'[p][i] = "absent"
      PROVE  review'[p][i] = "pending"
  <2>1. storage[p][i] = "absent"
    BY <1>3, <1>7 DEF OrderStep, Untold, Opened, Closed, StatusOnly, TextPaid,
       WalletPaid, ReceiptSent, ReceiptMoved, Verified, TurnedDown, Credited, Transferred,
       TakenFromHold, Captured, Rejected, Refunded, Released, ProofRow
  <2>2. review[p][i] = "pending"
    BY <1>3, <2>1 DEF DecisionFacts
  <2>3. CASE Verified(p)
    BY <1>2, <2>1, <2>2, <2>3 DEF Verified
  <2>4. CASE TurnedDown(p)
    BY <1>2, <2>1, <2>2, <2>4 DEF TurnedDown
  <2>5. CASE Rejected(p)
    BY <2>1, <2>2, <2>5 DEF Rejected
  <2> QED
    BY <1>3, <2>2, <2>3, <2>4, <2>5 DEF OrderStep, Untold, Opened, Closed, StatusOnly, TextPaid,
       WalletPaid, ReceiptSent, ReceiptMoved, Credited, Transferred,
       TakenFromHold, Captured, Refunded, Released, ProofRow
<1>8. UploadIsOpen'
  <2>1. ASSUME NEW o \in Orders, NEW i \in Images, SubmitReceipt(o, i) \/ RetryUpload(o, i)
        PROVE  UploadIsOpen'
    <3>1. /\ upload' = <<o, i>> /\ IsOpen(o) /\ UNCHANGED <<status, review>>
          /\ storage[o][i] = "absent" \/ ~StorageReady(storage[o][i])
      BY <2>1 DEF SubmitReceipt, RetryUpload, ReceiptAccepted
    <3>2. review[o][i] # "rejected"
      BY <1>3, <3>1 DEF DecisionFacts, IsOpen
    <3> QED BY <3>1, <3>2 DEF UploadIsOpen, IsOpen
  <2>2. CASE upload' = NoUpload
    BY <2>2 DEF UploadIsOpen, Ready
  <2>3. CASE upload' = upload /\ ~Ready /\ UNCHANGED proofVars
    <3>1. PICK o \in Orders, i \in Images : upload = <<o, i>>
      BY <1>1, <2>3 DEF LedgerTypeOK, Ready
    <3>2. IsOpen(o) /\ review[o][i] # "rejected" /\ storage[o][i] # "absent"
      BY <1>1, <2>3, <3>1 DEF LifeInv, UploadIsOpen, ReceiptInv, UploadIsKnown
    <3>3. newest[o] = i
      BY <1>1, <3>2 DEF ReceiptInv, ReceiptFacts
    <3>4. ~Untouched(o)
      BY <3>1, <3>3, ImageAssumption DEF Untouched
    <3>5. hold[o] # "reserved"
      BY <1>3, <3>2 DEF HoldFacts, PaymentFacts
    <3>6. review'[o][i] # "rejected"
      BY <2>3, <3>2 DEF proofVars
    <3>7. IsOpen(o)'
      <4>1. status'[o] \in {status[o], "cancelled"}
        BY <1>1, <2>3, ReceiptStepKinds, UploadOf DEF VerifyReceipt, RejectReceipt, RejectOrder,
           SubmitReceipt, RetryUpload, ReceiptAccepted, UploadDone, UploadFails, Ready
      <4>2. ~Closed(o) /\ ~Released(o)
        BY <1>1, <3>4, <3>5 DEF Closed, Released, ReleaseRows, HoldInv, NoSweep
      <4>3. status'[o] = "cancelled" => status[o] = "cancelled"
        BY <1>3, <4>2 DEF OrderStep, Untold, Opened, StatusOnly, TextPaid, WalletPaid,
           ReceiptSent, ReceiptMoved, Verified, TurnedDown, Credited, Transferred,
           TakenFromHold, Captured, Rejected, Refunded
      <4> QED BY <3>2, <4>1, <4>3 DEF IsOpen
    <3> QED BY <2>3, <3>1, <3>6, <3>7 DEF UploadIsOpen
  <2>4. CASE Ready /\ upload' = upload
    BY <2>4 DEF UploadIsOpen, Ready
  <2> QED
    BY <1>1, <2>1, <2>2, <2>3, <2>4, ReceiptStepKinds
    DEF VerifyReceipt, RejectReceipt, RejectOrder, UploadDone, UploadFails, aroundVars
<1> QED BY <1>1, <1>4, <1>5, <1>7, <1>8 DEF LifeInv, DecisionFacts

(* Where a stage of OrderLifecycle comes from. *)
LEMMA StageIs ==
  ASSUME NEW o \in Orders
  PROVE  /\ o \in refunded => StageOf(o) = "refunded"
         /\ o \notin refunded =>
              /\ status[o] = "none" => StageOf(o) = "none"
              /\ status[o] = "approved" => StageOf(o) = "fulfilled"
              /\ status[o] \in {"rejected", "cancelled"} => StageOf(o) = "closed"
              /\ IsOpen(o) /\ hold[o] = "reserved" => StageOf(o) = "held"
              /\ IsOpen(o) /\ hold[o] # "reserved" => StageOf(o) = "open"
BY DEF StageOf, IsOpen, Open

(* The same after a step. *)
LEMMA StageIsNext ==
  ASSUME NEW o \in Orders
  PROVE  /\ o \in refunded' => StageOf(o)' = "refunded"
         /\ o \notin refunded' =>
              /\ status'[o] = "none" => StageOf(o)' = "none"
              /\ status'[o] = "approved" => StageOf(o)' = "fulfilled"
              /\ status'[o] \in {"rejected", "cancelled"} => StageOf(o)' = "closed"
              /\ IsOpen(o)' /\ hold'[o] = "reserved" => StageOf(o)' = "held"
              /\ IsOpen(o)' /\ hold'[o] # "reserved" => StageOf(o)' = "open"
BY DEF StageOf, IsOpen, Open

(* A stage depends on the order's status, hold and refund. *)
LEMMA StageKept ==
  ASSUME NEW o \in Orders, status'[o] = status[o], hold'[o] = hold[o],
         o \in refunded' <=> o \in refunded
  PROVE  StageOf(o)' = StageOf(o)
BY DEF StageOf, IsOpen, Open

(* The moves OrderLifecycle allows one order. *)
Moves(from, to) ==
  \/ from = to
  \/ from = "none" /\ to = "open"
  \/ from = "open" /\ to \in {"held", "fulfilled", "closed", "refunded"}
  \/ from = "held" /\ to \in {"fulfilled", "closed"}
  \/ from = "fulfilled" /\ to = "refunded"

(* What a step does to an order is a move of OrderLifecycle. *)
LEMMA OrderStepMoves ==
  ASSUME LifeInv, LifeInv', [Next]_vars, NEW p \in Orders
  PROVE  Moves(StageOf(p), StageOf(p)')
<1>1. /\ HoldInv /\ PaymentInv /\ ReceiptInv /\ HoldInv'
      /\ HoldFacts(p) /\ ValueFacts(p) /\ PaymentFacts(p) /\ DecisionFacts(p)
      /\ HoldFacts(p)' /\ ValueFacts(p)'
  BY DEF LifeInv, ValueInv, HoldInv, PaymentInv
<1>2. /\ status[p] \in OrderStatus
      /\ hold[p] \in {"none", "reserved", "captured", "released"}
      /\ payments \in [Orders -> Seq(Payment)]
  BY <1>1 DEF ReceiptInv, LedgerTypeOK
<1>3. /\ IsOpen(p) => p \notin refunded
      /\ status[p] = "none" => p \notin refunded /\ hold[p] # "reserved"
      /\ hold[p] = "reserved" => status[p] = "payment_submitted"
  BY <1>1 DEF ValueFacts, HoldFacts, IsOpen, Open
<1>4. CASE NotRefunded(p) /\ (Untold(p) \/ ReceiptSent(p) \/ TurnedDown(p))
  BY <1>4, StageKept DEF NotRefunded, Untold, ReceiptSent, TurnedDown, MoneyRow, Moves
<1>5. ASSUME NotRefunded(p), IsOpen(p), IsOpen(p)',
             hold'[p] = hold[p] \/ (hold[p] # "reserved" /\ hold'[p] = "reserved")
      PROVE  Moves(StageOf(p), StageOf(p)')
  BY <1>3, <1>5, StageIs, StageIsNext DEF NotRefunded, Moves
<1>6. CASE NotRefunded(p) /\ Opened(p)
  BY <1>3, <1>6, StageIs, StageIsNext DEF Opened, StatusOnly, NotRefunded, Moves, MoneyRow,
     IsOpen, Open
<1>7. CASE NotRefunded(p) /\ Closed(p)
  <2>1. IsOpen(p) /\ p \notin refunded' /\ status'[p] = "cancelled"
    BY <1>1, <1>3, <1>7 DEF Closed, StatusOnly, HoldInv, NoSweep, NotRefunded
  <2> QED BY <1>3, <2>1, StageIs, StageIsNext DEF Moves
<1>8. CASE NotRefunded(p) /\ (TextPaid(p) \/ Verified(p))
  <2>1. IsOpen(p) /\ IsOpen(p)' /\ hold'[p] = hold[p]
    BY <1>8 DEF TextPaid, Verified, MoneyRow, IsOpen, Open
  <2> QED BY <1>5, <1>8, <2>1
<1>9. CASE NotRefunded(p) /\ WalletPaid(p)
  <2>1. IsOpen(p) /\ IsOpen(p)' /\ hold'[p] = "reserved"
    BY <1>9 DEF WalletPaid, IsOpen, Open
  <2> QED BY <1>5, <1>9, <2>1
<1>10. CASE NotRefunded(p) /\ ReceiptMoved(p)
  <2>1. hold'[p] = hold[p]
    BY <1>10 DEF ReceiptMoved, MoneyRow
  <2>2. CASE status'[p] = status[p]
    BY <1>10, <2>1, <2>2, StageKept DEF NotRefunded, Moves
  <2>3. CASE status'[p] # status[p]
    <3>1. IsOpen(p) /\ IsOpen(p)'
      BY <1>10, <2>3 DEF ReceiptMoved, LifeInv, UploadIsOpen, IsOpen, Open
    <3> QED BY <1>5, <1>10, <2>1, <3>1
  <2> QED BY <2>2, <2>3
<1>11. CASE NotRefunded(p) /\ (Credited(p) \/ Transferred(p) \/ TakenFromHold(p))
  <2>1. status[p] = "payment_submitted" /\ status'[p] = "approved" /\ IsOpen(p)
    BY <1>11 DEF Credited, Transferred, TakenFromHold, Captured, CanApprove, IsOpen, Open
  <2>2. p \notin refunded /\ p \notin refunded'
    BY <1>3, <1>11, <2>1 DEF NotRefunded
  <2> QED BY <2>1, <2>2, StageIs, StageIsNext DEF Moves
<1>12. CASE NotRefunded(p) /\ Rejected(p)
  <2>1. /\ status[p] \in Open \cup {"cancelled"} /\ status'[p] = "rejected"
    BY <1>12 DEF Rejected
  <2>2. p \notin refunded /\ p \notin refunded'
    BY <1>1, <1>12, <2>1 DEF ValueFacts, Open, NotRefunded
  <2> QED BY <2>1, <2>2, StageIs, StageIsNext DEF Moves, IsOpen
<1>13. CASE NotRefunded(p) /\ Released(p)
  <2>1. hold[p] = "reserved" /\ status[p] = "payment_submitted" /\ status'[p] = "cancelled"
    BY <1>1, <1>13 DEF Released, ReleaseRows, HoldInv, NoSweep
  <2>2. p \notin refunded /\ p \notin refunded' /\ IsOpen(p)
    BY <1>3, <1>13, <2>1 DEF NotRefunded, IsOpen, Open
  <2> QED BY <2>1, <2>2, StageIs, StageIsNext DEF Moves
<1>14. CASE Refunded(p)
  <2>1. p \notin refunded /\ p \in refunded' /\ status'[p] # "none"
    BY <1>14 DEF Refunded
  <2>2. LatestLive(p) \in DOMAIN payments[p] /\ payments[p][LatestLive(p)].status = "verified"
    BY <1>1, <1>14, LiveIsLast DEF Refunded, Live
  <2>3. status[p] \in {"payment_submitted", "approved"}
    BY <1>1, <2>2 DEF DecisionFacts
  <2>4. hold[p] # "reserved"
    <3>1. Walleted(p) => LastRow(p).status = "verified"
      BY <1>1, <1>14, LiveIsLast DEF Refunded, LastRow
    <3> QED BY <1>1, <3>1 DEF HoldFacts
  <2> QED BY <2>1, <2>3, <2>4, StageIs, StageIsNext DEF Moves, IsOpen, Open
<1> QED
  BY <1>1, <1>4, <1>6, <1>7, <1>8, <1>9, <1>10, <1>11, <1>12, <1>13, <1>14, StepIsOrderStep
  DEF OrderStep

(* A step changes the stage of one order, or replaces one order by another. *)
LEMMA OneOrderMoves ==
  ASSUME LedgerTypeOK, [Next]_vars
  PROVE  \/ \E old, new \in Orders : ReplaceOpenOrder(old, new)
         \/ \E o \in Orders : \A p \in Orders \ {o} : StageOf(p)' = StageOf(p)
         \/ \A p \in Orders : StageOf(p)' = StageOf(p)
<1>1. status \in [Orders -> OrderStatus] /\ hold \in [Orders -> {"none", "reserved", "captured", "released"}]
  BY DEF LedgerTypeOK
<1>2. ASSUME NEW o \in Orders,
             \E s \in OrderStatus : status' \in {status, [status EXCEPT ![o] = s]},
             \E h : hold' \in {hold, [hold EXCEPT ![o] = h]},
             refunded' \in {refunded, refunded \cup {o}}
      PROVE  \A p \in Orders \ {o} : StageOf(p)' = StageOf(p)
  <2> SUFFICES ASSUME NEW p \in Orders \ {o} PROVE StageOf(p)' = StageOf(p)
    OBVIOUS
  <2>1. status'[p] = status[p] /\ hold'[p] = hold[p] /\ (p \in refunded' <=> p \in refunded)
    BY <1>1, <1>2
  <2> QED BY <2>1, StageKept
<1>3. ASSUME UNCHANGED <<status, hold, refunded>>
      PROVE  \A p \in Orders : StageOf(p)' = StageOf(p)
  BY <1>3, StageKept
<1> USE DEF SetStatus, OrderStatus, Open, moneyVars, accessVars, orderVars, ledgerVars
<1>4. CASE CustomerNext
  <2>1. ASSUME NEW o \in Orders, CreateOrder(o) \/ CreateWalletTopup(o) \/ CancelOrder(o)
        PROVE  \A p \in Orders \ {o} : StageOf(p)' = StageOf(p)
    BY <1>2, <2>1 DEF CreateOrder, CreateWalletTopup, Insert, CancelOrder
  <2>2. ASSUME NEW o \in Orders, PayWithWallet(o) \/ \E r \in Refs : SubmitPayment(o, r)
        PROVE  \A p \in Orders \ {o} : StageOf(p)' = StageOf(p)
    BY <1>2, <2>2 DEF PayWithWallet, SubmitPayment
  <2>3. ASSUME NEW o \in Orders, NEW i \in Images,
               SubmitReceipt(o, i) \/ RetryUpload(o, i) \/ RecoverReceipt(o, i)
        PROVE  \A p \in Orders \ {o} : StageOf(p)' = StageOf(p)
    BY <1>2, <2>3 DEF SubmitReceipt, RetryUpload, RecoverReceipt
  <2>4. CASE UploadDone \/ UploadFails
    <3>1. PICK o \in Orders : o = upload[1]
      BY <2>4, UploadOf DEF UploadDone, UploadFails, LedgerTypeOK
    <3>2. \A p \in Orders \ {o} : StageOf(p)' = StageOf(p)
      BY <1>2, <2>4, <3>1 DEF UploadDone, UploadFails
    <3> QED BY <3>2
  <2> QED BY <1>4, <2>1, <2>2, <2>3, <2>4 DEF CustomerNext
<1>5. CASE StaffNext
  <2>1. ASSUME NEW o \in Orders, NEW i \in Images, NEW r \in Refs, NEW x \in Surplus,
               VerifyReceipt(o, i, r, Price[o] + x)
        PROVE  \A p \in Orders \ {o} : StageOf(p)' = StageOf(p)
    BY <1>2, <2>1 DEF VerifyReceipt
  <2>2. ASSUME NEW o \in Orders, NEW i \in Images, RejectReceipt(o, i)
        PROVE  \A p \in Orders \ {o} : StageOf(p)' = StageOf(p)
    BY <1>3, <2>2 DEF RejectReceipt
  <2>3. ASSUME NEW o \in Orders, ApproveTopup(o) \/ ApproveTransfer(o) \/ ApproveWallet(o)
        PROVE  \A p \in Orders \ {o} : StageOf(p)' = StageOf(p)
    BY <1>2, <2>3 DEF ApproveTopup, ApproveTransfer, ApproveWallet, OpenAccess
  <2>4. ASSUME NEW o \in Orders, RejectOrder(o)
        PROVE  \A p \in Orders \ {o} : StageOf(p)' = StageOf(p)
    BY <1>2, <2>4 DEF RejectOrder
  <2>5. ASSUME NEW o \in Orders, RefundOrder(o)
        PROVE  \A p \in Orders \ {o} : StageOf(p)' = StageOf(p)
    <3>1. status' \in {[status EXCEPT ![o] = "approved"], [status EXCEPT ![o] = "rejected"]}
      BY <2>5 DEF RefundOrder
    <3> QED BY <1>2, <2>5, <3>1 DEF RefundOrder, CloseAccess
  <2> QED BY <1>5, <2>1, <2>2, <2>3, <2>4, <2>5 DEF StaffNext
<1>6. CASE SweepNext
  <2>1. ASSUME NEW o \in Orders, ExpireOrder(o)
        PROVE  \A p \in Orders \ {o} : StageOf(p)' = StageOf(p)
    BY <1>2, <2>1 DEF ExpireOrder
  <2>2. ASSUME NEW o \in Orders, ReleaseHold(o)
        PROVE  \A p \in Orders \ {o} : StageOf(p)' = StageOf(p)
    <3>1. PICK s \in OrderStatus : status' = [status EXCEPT ![o] = s]
      BY <1>1, <2>2 DEF ReleaseHold
    <3> QED BY <1>2, <2>2, <3>1 DEF ReleaseHold
  <2>3. ASSUME NEW k \in {"expire", "release"}, SweepSelect(k)
        PROVE  \A p \in Orders : StageOf(p)' = StageOf(p)
    BY <1>3, <2>3 DEF SweepSelect
  <2> QED BY <1>6, <2>1, <2>2, <2>3 DEF SweepNext, SweepExpired, SweepHold, SweepWrite
<1>7. CASE TimeNext \/ WorkerNext \/ AroundWorkers \/ UNCHANGED vars
  <2>1. UNCHANGED <<status, hold>>
    BY <1>7 DEF TimeNext, OrderAges, HoldAges, PromoChanges, Restart,
       WorkerNext, AroundWorkers, vars
  <2>2. refunded' = refunded
    BY <1>7, WorkersDoNotRefund DEF TimeNext, OrderAges, HoldAges, PromoChanges, Restart,
       WorkerCrash, WorkerNext, AroundWorkers, vars
  <2> QED BY <1>3, <2>1, <2>2
<1> QED BY <1>4, <1>5, <1>6, <1>7 DEF Next, LedgerNext

(* Every step of the system is a step of OrderLifecycle or leaves it alone. *)
LEMMA StepIsLifecycleStep ==
  ASSUME LifeInv, LifeInv', [Next]_vars
  PROVE  [Lifecycle!Next]_([o \in Orders |-> StageOf(o)])
<1> DEFINE stage == [o \in Orders |-> StageOf(o)]
<1>1. LedgerTypeOK
  BY DEF LifeInv, ValueInv, HoldInv, PaymentInv, ReceiptInv
<1>2. stage' = [o \in Orders |-> StageOf(o)']
  OBVIOUS
<1>3. ASSUME NEW o \in Orders, NEW s, s = StageOf(o)',
             \A p \in Orders \ {o} : StageOf(p)' = StageOf(p)
      PROVE  stage' = [stage EXCEPT ![o] = s]
  BY <1>2, <1>3
<1>4. CASE \A p \in Orders : StageOf(p)' = StageOf(p)
  BY <1>2, <1>4
<1>5. ASSUME NEW o \in Orders, \A p \in Orders \ {o} : StageOf(p)' = StageOf(p)
      PROVE  Lifecycle!Next \/ stage' = stage
  <2>1. PICK s : s = StageOf(o)' /\ stage' = [stage EXCEPT ![o] = s]
    BY <1>3, <1>5
  <2>2. Moves(StageOf(o), s)
    BY <2>1, OrderStepMoves
  <2>3. stage[o] = StageOf(o)
    OBVIOUS
  <2> HIDE DEF stage
  <2>4. CASE s = StageOf(o)
    BY <1>4, <1>5, <2>1, <2>4 DEF stage
  <2>5. CASE s # StageOf(o)
    <3>1. \/ Lifecycle!Open(o) \/ Lifecycle!Hold(o) \/ Lifecycle!Fulfil(o)
          \/ Lifecycle!Close(o) \/ Lifecycle!Refund(o)
      BY <2>1, <2>2, <2>3, <2>5
      DEF Moves, Lifecycle!Open, Lifecycle!Hold, Lifecycle!Fulfil, Lifecycle!Close,
          Lifecycle!Refund, Lifecycle!Move, stage
    <3> QED BY <3>1 DEF Lifecycle!Next
  <2> QED BY <2>4, <2>5
<1>6. ASSUME NEW old \in Orders, NEW new \in Orders, ReplaceOpenOrder(old, new)
      PROVE  Lifecycle!Next
  <2>1. /\ status[new] = "none" /\ IsOpen(old) /\ payments[old] = <<>> /\ old \notin refunded
        /\ status' = [status EXCEPT ![old] = "cancelled", ![new] = "awaiting_payment"]
        /\ UNCHANGED <<refunded, hold>>
    BY <1>6 DEF ReplaceOpenOrder, OpenOrders, accessVars, Untouched, moneyVars
  <2>2. old # new
    BY <2>1 DEF IsOpen, Open
  <2>3. /\ status'[old] = "cancelled" /\ status'[new] = "awaiting_payment"
        /\ \A q \in Orders \ {old, new} : status'[q] = status[q]
    BY <1>1, <2>1, <2>2 DEF LedgerTypeOK
  <2>4. hold[old] # "reserved" /\ hold[new] # "reserved" /\ new \notin refunded
    BY <2>1 DEF LifeInv, ValueInv, HoldInv, HoldFacts, Walleted, ValueFacts
  <2>5. StageOf(old) = "open" /\ StageOf(new) = "none"
    BY <2>1, <2>4, StageIs
  <2>6. StageOf(old)' = "closed" /\ StageOf(new)' = "open"
    BY <2>1, <2>3, <2>4, StageIsNext DEF IsOpen, Open
  <2>7. \A q \in Orders \ {old, new} : StageOf(q)' = StageOf(q)
    BY <2>1, <2>3, StageKept
  <2>8. stage' = [stage EXCEPT ![old] = "closed", ![new] = "open"]
    BY <1>2, <2>2, <2>6, <2>7
  <2>9. Lifecycle!Replace(old, new)
    BY <2>5, <2>8 DEF Lifecycle!Replace
  <2> QED BY <2>9 DEF Lifecycle!Next
<1> QED BY <1>1, <1>4, <1>5, <1>6, OneOrderMoves

(* The order service keeps the promise of OrderLifecycle: an order is opened
   once, a hold is settled once, what ended stays ended and a refund is the
   last thing that happens. *)
THEOREM LifecycleRefinement ==
  ASSUME Backend = "sqlite", ~RejectUnstored
  PROVE  Spec => KeepsLifecycle
<1>1. ASSUME Init
      PROVE  Lifecycle!Init
  <2>1. \A o \in Orders : status[o] = "none" /\ o \notin refunded
    BY <1>1 DEF Init, AccessInit
  <2>2. \A o \in Orders : StageOf(o) = "none"
    BY <2>1, StageIs
  <2> QED BY <2>2 DEF Lifecycle!Init
<1>2. LifeInv /\ [Next]_vars => LifeInv' /\ [Lifecycle!Next]_([o \in Orders |-> StageOf(o)])
  BY LifeStep, StepIsLifecycleStep
<1> QED
  BY <1>1, <1>2, LifeInit, PTL DEF Spec, KeepsLifecycle, Lifecycle!Spec

-----------------------------------------------------------------------------
(* The sums of the wallet *)

(* F adds f up over each set of D, taking out one element after the other. *)
Pick(s) == CHOOSE x \in s : TRUE
Sums(F, f, D) == \A s \in D : F[s] = IF s = {} THEN 0 ELSE f[Pick(s)] + F[s \ {Pick(s)}]

(* What is taken out of a set is in it. *)
LEMMA PickIn == ASSUME NEW s, s # {} PROVE Pick(s) \in s
BY DEF Pick

(* A smaller set. *)
LEMMA Without ==
  ASSUME NEW S, IsFiniteSet(S), NEW s \in SUBSET S, s # {}
  PROVE  /\ Pick(s) \in s /\ Pick(s) \in S /\ s \ {Pick(s)} \in SUBSET S
         /\ Cardinality(s) \in Nat /\ Cardinality(s \ {Pick(s)}) \in Nat
         /\ Cardinality(s \ {Pick(s)}) = Cardinality(s) - 1
<1>1. IsFiniteSet(s)
  BY FS_Subset
<1>2. Pick(s) \in s
  BY PickIn
<1>3. Cardinality(s \ {Pick(s)}) = Cardinality(s) - 1
  BY <1>1, <1>2, FS_RemoveElement
<1>4. IsFiniteSet(s \ {Pick(s)})
  BY <1>1, FS_Subset
<1> QED BY <1>1, <1>2, <1>3, <1>4, FS_CardinalityType

(* A finite set can be added up. *)
LEMMA SumExists ==
  ASSUME NEW S, IsFiniteSet(S), NEW f \in [S -> Nat]
  PROVE  \E F \in [SUBSET S -> Nat] : Sums(F, f, SUBSET S)
<1> DEFINE Small(n) == {s \in SUBSET S : Cardinality(s) <= n}
           Good(n)  == \E F \in [Small(n) -> Nat] : Sums(F, f, Small(n))
<1>a. \A s \in SUBSET S : IsFiniteSet(s) /\ Cardinality(s) \in Nat
                          /\ (Cardinality(s) = 0 <=> s = {})
  BY FS_Subset, FS_CardinalityType, FS_EmptySet
<1>1. Good(0)
  <2>1. \A s \in Small(0) : s = {}
    BY <1>a
  <2>2. [s \in Small(0) |-> 0] \in [Small(0) -> Nat]
    OBVIOUS
  <2> HIDE DEF Small
  <2>3. Sums([s \in Small(0) |-> 0], f, Small(0))
    BY <2>1 DEF Sums
  <2> QED BY <2>2, <2>3
<1>2. ASSUME NEW n \in Nat, Good(n) PROVE Good(n + 1)
  <2>1. PICK F \in [Small(n) -> Nat] : Sums(F, f, Small(n))
    BY <1>2
  <2> DEFINE G == [s \in Small(n + 1) |->
                     IF s = {} THEN 0 ELSE f[Pick(s)] + F[s \ {Pick(s)}]]
  <2>2. ASSUME NEW s \in Small(n + 1), s # {}
        PROVE  /\ s \ {Pick(s)} \in Small(n) /\ s \ {Pick(s)} \in Small(n + 1)
               /\ f[Pick(s)] \in Nat /\ F[s \ {Pick(s)}] \in Nat
    <3>1. /\ Pick(s) \in S /\ s \ {Pick(s)} \in SUBSET S
          /\ Cardinality(s) \in Nat /\ Cardinality(s \ {Pick(s)}) = Cardinality(s) - 1
      BY <2>2, Without
    <3>2. Cardinality(s \ {Pick(s)}) <= n /\ Cardinality(s \ {Pick(s)}) <= n + 1
      BY <3>1
    <3>3. s \ {Pick(s)} \in Small(n) /\ s \ {Pick(s)} \in Small(n + 1)
      BY <3>1, <3>2
    <3> HIDE DEF Small
    <3> QED BY <3>1, <3>3
  <2>3. \A s \in Small(n) : s \in Small(n + 1)
    BY <1>a
  <2> HIDE DEF Small
  <2>4. G \in [Small(n + 1) -> Nat]
    <3>1. ASSUME NEW s \in Small(n + 1)
          PROVE  (IF s = {} THEN 0 ELSE f[Pick(s)] + F[s \ {Pick(s)}]) \in Nat
      BY <2>2
    <3> QED BY <3>1
  <2>5. ASSUME NEW s \in Small(n) PROVE G[s] = F[s]
    BY <2>1, <2>3 DEF Sums
  <2>6. Sums(G, f, Small(n + 1))
    <3> SUFFICES ASSUME NEW s \in Small(n + 1)
                 PROVE  G[s] = IF s = {} THEN 0 ELSE f[Pick(s)] + G[s \ {Pick(s)}]
      BY DEF Sums
    <3>1. G[s] = IF s = {} THEN 0 ELSE f[Pick(s)] + F[s \ {Pick(s)}]
      OBVIOUS
    <3> HIDE DEF G
    <3> QED BY <2>2, <2>5, <3>1
  <2> HIDE DEF G
  <2> QED BY <2>4, <2>6
<1>3. \A n \in Nat : Good(n)
  <2> DEFINE Bad == {n \in Nat : ~Good(n)}
  <2> HIDE DEF Good
  <2>1. SUFFICES ASSUME Bad # {} PROVE FALSE
    OBVIOUS
  <2>2. PICK n \in Bad : \A m \in Bad : n <= m
    BY <2>1, LeastNumber
  <2>3. n \in Nat /\ n # 0 /\ n - 1 \in Nat /\ n - 1 \notin Bad
    BY <1>1, <2>2
  <2>4. Good(n - 1)
    BY <2>3
  <2>5. Good((n - 1) + 1)
    BY <1>2, <2>3, <2>4
  <2>6. (n - 1) + 1 = n
    BY <2>3
  <2> QED BY <2>5, <2>6
<1>4. Cardinality(S) \in Nat /\ Small(Cardinality(S)) = SUBSET S
  BY FS_CardinalityType, FS_Subset
<1> HIDE DEF Small
<1> QED BY <1>3, <1>4

SameBut(f, g, x, S) == \A y \in S \ {x} : g[y] = f[y]

(* Two sums of functions that differ at x only differ by what it adds. *)
LEMMA SumsDiffer ==
  ASSUME NEW S, IsFiniteSet(S), NEW f \in [S -> Nat], NEW g \in [S -> Nat], NEW x \in S,
         SameBut(f, g, x, S),
         NEW F \in [SUBSET S -> Nat], Sums(F, f, SUBSET S),
         NEW G \in [SUBSET S -> Nat], Sums(G, g, SUBSET S)
  PROVE  G[S] + f[x] = F[S] + g[x]
<1> DEFINE Fine(s) == IF x \in s THEN G[s] + f[x] = F[s] + g[x] ELSE G[s] = F[s]
           Bad == {n \in Nat : \E s \in SUBSET S : Cardinality(s) = n /\ ~Fine(s)}
<1>1. \A s \in SUBSET S : Cardinality(s) \in Nat
  BY FS_Subset, FS_CardinalityType
<1>2. ASSUME NEW s \in SUBSET S, ~Fine(s),
             \A t \in SUBSET S : Cardinality(t) < Cardinality(s) => Fine(t)
      PROVE  FALSE
  <2>1. CASE s = {}
    <3>1. G[s] = 0 /\ F[s] = 0
      BY <2>1 DEF Sums
    <3> QED BY <1>2, <2>1, <3>1
  <2>2. CASE s # {}
    <3> DEFINE p == Pick(s)
               t == s \ {p}
    <3>1. p \in s /\ p \in S /\ t \in SUBSET S /\ Cardinality(t) < Cardinality(s)
      BY <2>2, Without
    <3>2. G[s] = g[p] + G[t] /\ F[s] = f[p] + F[t]
      BY <2>2 DEF Sums
    <3>3. Fine(t)
      BY <1>2, <3>1
    <3>4. {G[t], F[t], f[p], g[p], f[x], g[x], G[s], F[s]} \subseteq Nat
      BY <3>1
    <3>5. p = x \/ g[p] = f[p]
      BY <3>1 DEF SameBut
    <3>6. x \in t <=> x \in s /\ p # x
      OBVIOUS
    <3> HIDE DEF p, t
    <3>7. CASE p = x
      BY <1>2, <3>1, <3>2, <3>3, <3>4, <3>6, <3>7
    <3>8. CASE p # x
      BY <1>2, <3>1, <3>2, <3>3, <3>4, <3>5, <3>6, <3>8
    <3> QED BY <3>7, <3>8
  <2> QED BY <2>1, <2>2
<1>3. Bad = {}
  <2> HIDE DEF Fine
  <2>1. SUFFICES ASSUME Bad # {} PROVE FALSE
    OBVIOUS
  <2>2. PICK n \in Bad : \A m \in Bad : n <= m
    BY <2>1, LeastNumber
  <2>3. PICK s \in SUBSET S : Cardinality(s) = n /\ ~Fine(s)
    BY <2>2
  <2>4. ASSUME NEW t \in SUBSET S, Cardinality(t) < Cardinality(s) PROVE Fine(t)
    <3>1. Cardinality(t) \notin Bad
      BY <1>1, <2>2, <2>3, <2>4
    <3> QED BY <1>1, <3>1
  <2> QED BY <1>2, <2>3, <2>4
<1>4. Fine(S)
  <2>1. S \in SUBSET S /\ Cardinality(S) \in Nat
    BY <1>1
  <2> HIDE DEF Fine
  <2> QED BY <1>3, <2>1
<1> QED BY <1>4

(* Two sums of one function agree. *)
LEMMA SumsAgree ==
  ASSUME NEW S, IsFiniteSet(S), NEW f \in [S -> Nat],
         NEW F \in [SUBSET S -> Nat], Sums(F, f, SUBSET S),
         NEW G \in [SUBSET S -> Nat], Sums(G, f, SUBSET S)
  PROVE  G[S] = F[S]
<1>1. CASE S = {}
  BY <1>1 DEF Sums
<1>2. CASE S # {}
  <2>1. PICK x \in S : TRUE
    BY <1>2
  <2>2. G[S] + f[x] = F[S] + f[x]
    BY SumsDiffer DEF SameBut
  <2>3. {G[S], F[S], f[x]} \subseteq Nat
    OBVIOUS
  <2> QED BY <2>2, <2>3
<1> QED BY <1>1, <1>2

(* Such a sum is a number on every set. *)
LEMMA SumsInNat ==
  ASSUME NEW S, IsFiniteSet(S), NEW f \in [S -> Nat], NEW F, DOMAIN F = SUBSET S,
         F = [s \in DOMAIN F |-> F[s]], Sums(F, f, SUBSET S)
  PROVE  F \in [SUBSET S -> Nat]
<1> DEFINE Bad == {n \in Nat : \E s \in SUBSET S : Cardinality(s) = n /\ F[s] \notin Nat}
<1>1. \A s \in SUBSET S : Cardinality(s) \in Nat
  BY FS_Subset, FS_CardinalityType
<1>2. Bad = {}
  <2>1. SUFFICES ASSUME Bad # {} PROVE FALSE
    OBVIOUS
  <2>2. PICK n \in Bad : \A m \in Bad : n <= m
    BY <2>1, LeastNumber
  <2>3. PICK s \in SUBSET S : Cardinality(s) = n /\ F[s] \notin Nat
    BY <2>2
  <2> HIDE DEF Bad
  <2>4. s # {}
    <3>1. F[s] = IF s = {} THEN 0 ELSE f[Pick(s)] + F[s \ {Pick(s)}]
      BY DEF Sums
    <3> QED BY <2>3, <3>1
  <2> DEFINE t == s \ {Pick(s)}
  <2>5. /\ Pick(s) \in S /\ t \in SUBSET S
        /\ Cardinality(t) \in Nat /\ Cardinality(t) < Cardinality(s)
    BY <2>4, Without
  <2>6. F[s] = f[Pick(s)] + F[t]
    BY <2>4 DEF Sums
  <2> HIDE DEF t
  <2>7. F[t] \notin Nat
    BY <2>3, <2>5, <2>6
  <2>8. Cardinality(t) \in Bad
    BY <2>5, <2>7 DEF Bad
  <2>9. n \in Nat
    BY DEF Bad
  <2> QED BY <2>2, <2>3, <2>5, <2>8, <2>9
<1>3. \A s \in SUBSET S : F[s] \in Nat
  BY <1>1, <1>2
<1> QED BY <1>3

(* What MapThenSumSet computes of the ledger are such sums. *)
IsSum(n, f, S) == \E F \in [SUBSET S -> Nat] : Sums(F, f, SUBSET S) /\ n = F[S]
SpentSums == \A S \in SUBSET Orders : IsSum(MapThenSumSet(Spent, S), [o \in S |-> Spent(o)], S)
GainSums  == \A S \in SUBSET Orders : IsSum(MapThenSumSet(Gain, S), [o \in S |-> Gain(o)], S)

(* What the orders of a set spend is such a sum: the recursive function behind
   MapThenSumSet exists, as some function with its equation does. *)
LEMMA SpentSum == LedgerTypeOK => SpentSums
<1> SUFFICES ASSUME LedgerTypeOK, NEW S \in SUBSET Orders
             PROVE  IsSum(MapThenSumSet(Spent, S), [o \in S |-> Spent(o)], S)
  BY DEF SpentSums
<1> DEFINE f == [o \in S |-> Spent(o)]
           iter[s \in SUBSET S] ==
             IF s = {} THEN 0
             ELSE Spent(CHOOSE x \in s : TRUE) + iter[s \ {CHOOSE x \in s : TRUE}]
<1>1. IsFiniteSet(S)
  BY LedgerAssumption, FS_Subset
<1>2. f \in [S -> Nat]
  BY DEF LedgerTypeOK, Events, Spent
<1>3. MapThenSumSet(Spent, S) = iter[S]
  BY DEF MapThenSumSet, MapThenFoldSet
<1>4. \A s \in SUBSET S : s # {} => f[Pick(s)] = Spent(CHOOSE x \in s : TRUE)
  BY PickIn DEF Pick
<1> HIDE DEF f
<1>5. PICK F \in [SUBSET S -> Nat] : Sums(F, f, SUBSET S)
  BY <1>1, <1>2, SumExists
<1>6. F = [s \in SUBSET S |-> IF s = {} THEN 0
             ELSE Spent(CHOOSE x \in s : TRUE) + F[s \ {CHOOSE x \in s : TRUE}]]
  BY <1>4, <1>5 DEF Sums, Pick
<1>7. iter = [s \in SUBSET S |-> IF s = {} THEN 0
             ELSE Spent(CHOOSE x \in s : TRUE) + iter[s \ {CHOOSE x \in s : TRUE}]]
  BY <1>6
<1> HIDE DEF iter
<1>8. Sums(iter, f, SUBSET S)
  BY <1>4, <1>7 DEF Sums, Pick
<1>9. iter \in [SUBSET S -> Nat]
  BY <1>1, <1>2, <1>5, <1>7, <1>8, SumsInNat
<1> QED BY <1>3, <1>8, <1>9 DEF IsSum, f

(* So is what they gain. *)
LEMMA GainSum == LedgerTypeOK => GainSums
<1> SUFFICES ASSUME LedgerTypeOK, NEW S \in SUBSET Orders
             PROVE  IsSum(MapThenSumSet(Gain, S), [o \in S |-> Gain(o)], S)
  BY DEF GainSums
<1> DEFINE f == [o \in S |-> Gain(o)]
           iter[s \in SUBSET S] ==
             IF s = {} THEN 0
             ELSE Gain(CHOOSE x \in s : TRUE) + iter[s \ {CHOOSE x \in s : TRUE}]
<1>1. IsFiniteSet(S)
  BY LedgerAssumption, FS_Subset
<1>2. f \in [S -> Nat]
  BY DEF LedgerTypeOK, Events, Gain
<1>3. MapThenSumSet(Gain, S) = iter[S]
  BY DEF MapThenSumSet, MapThenFoldSet
<1>4. \A s \in SUBSET S : s # {} => f[Pick(s)] = Gain(CHOOSE x \in s : TRUE)
  BY PickIn DEF Pick
<1> HIDE DEF f
<1>5. PICK F \in [SUBSET S -> Nat] : Sums(F, f, SUBSET S)
  BY <1>1, <1>2, SumExists
<1>6. F = [s \in SUBSET S |-> IF s = {} THEN 0
             ELSE Gain(CHOOSE x \in s : TRUE) + F[s \ {CHOOSE x \in s : TRUE}]]
  BY <1>4, <1>5 DEF Sums, Pick
<1>7. iter = [s \in SUBSET S |-> IF s = {} THEN 0
             ELSE Gain(CHOOSE x \in s : TRUE) + iter[s \ {CHOOSE x \in s : TRUE}]]
  BY <1>6
<1> HIDE DEF iter
<1>8. Sums(iter, f, SUBSET S)
  BY <1>4, <1>7 DEF Sums, Pick
<1>9. iter \in [SUBSET S -> Nat]
  BY <1>1, <1>2, <1>5, <1>7, <1>8, SumsInNat
<1> QED BY <1>3, <1>8, <1>9 DEF IsSum, f

(* What a step does to the wallets: nothing, or an order moves its customer's
   balance by what its own ledger events gain and spend. *)
Moved(o) ==
  /\ \A p \in Orders \ {o} : ledger'[p] = ledger[p]
  /\ \A u \in Users \ {Owner[o]} : balance'[u] = balance[u]
  /\ balance'[Owner[o]] + Spent(o)' + Gain(o) = balance[Owner[o]] + Gain(o)' + Spent(o)

(* Posting an event moves the wallet by it, or by nothing when it is there. *)
LEMMA PostMoves ==
  ASSUME LedgerTypeOK, NEW o \in Orders, NEW e \in {"credit", "release", "reversal"},
         NEW amount \in Nat, Post(o, e, amount)
  PROVE  Moved(o)
<1>1. Owner[o] \in Users
  BY LedgerAssumption
<1>2. ledger \in [Orders -> [Events -> Nat]] /\ balance \in [Users -> Nat]
  BY DEF LedgerTypeOK
<1>3. {balance[Owner[o]], ledger[o]["credit"], ledger[o]["release"], ledger[o]["reversal"],
       ledger[o]["reserve"]} \subseteq Nat
  BY <1>1, <1>2 DEF Events
<1>4. CASE ledger[o][e] = 0
  <2>1. /\ balance' = [balance EXCEPT ![Owner[o]] = @ + amount]
        /\ ledger' = [ledger EXCEPT ![o][e] = amount]
    BY <1>4 DEF Post
  <2>2. /\ balance'[Owner[o]] = balance[Owner[o]] + amount
        /\ \A u \in Users \ {Owner[o]} : balance'[u] = balance[u]
        /\ \A p \in Orders \ {o} : ledger'[p] = ledger[p]
    BY <1>1, <1>2, <2>1
  <2>3. \A d \in Events : ledger'[o][d] = IF d = e THEN amount ELSE ledger[o][d]
    BY <1>2, <2>1 DEF Events
  <2>4. Spent(o)' = Spent(o) /\ Gain(o)' = Gain(o) + amount
    BY <1>3, <1>4, <2>3 DEF Spent, Gain, Events
  <2>5. Spent(o) \in Nat /\ Gain(o) \in Nat
    BY <1>3 DEF Spent, Gain
  <2> QED BY <1>3, <2>2, <2>4, <2>5 DEF Moved
<1>5. CASE ledger[o][e] # 0
  <2>1. UNCHANGED <<balance, ledger>>
    BY <1>5 DEF Post
  <2> QED BY <1>3, <2>1 DEF Moved, Spent, Gain
<1> QED BY <1>4, <1>5

(* Every step is of that kind, on either database. *)
LEMMA MoneyMoves ==
  ASSUME LedgerTypeOK, [Next]_vars
  PROVE  UNCHANGED <<balance, ledger>> \/ \E o \in Orders : Moved(o)
<1>1. /\ ledger \in [Orders -> [Events -> Nat]] /\ balance \in [Users -> Nat]
      /\ verified \in [Orders -> Nat] /\ Price \in [Orders -> Nat]
  BY LedgerAssumption DEF LedgerTypeOK
<1>2. ASSUME NEW o \in Orders
      PROVE  {balance[Owner[o]], ledger[o]["credit"], ledger[o]["release"],
              ledger[o]["reversal"], ledger[o]["reserve"], Price[o], verified[o]} \subseteq Nat
             /\ Owner[o] \in Users
  BY <1>1, LedgerAssumption DEF Events
<1>3. ASSUME NEW o \in Orders, PayWithWallet(o) PROVE Moved(o)
  <2>1. /\ balance'[Owner[o]] = balance[Owner[o]] - Price[o]
        /\ \A u \in Users \ {Owner[o]} : balance'[u] = balance[u]
    BY <1>1, <1>2, <1>3 DEF PayWithWallet
  <2>2. /\ ledger[o]["reserve"] = 0
        /\ \A p \in Orders \ {o} : ledger'[p] = ledger[p]
        /\ \A d \in Events : ledger'[o][d] = IF d = "reserve" THEN Price[o] ELSE ledger[o][d]
    BY <1>1, <1>3 DEF PayWithWallet, Events
  <2>3. Spent(o) = 0 /\ Spent(o)' = Price[o] /\ Gain(o)' = Gain(o) /\ Gain(o) \in Nat
    BY <1>2, <2>2 DEF Spent, Gain, Events
  <2> QED BY <1>2, <2>1, <2>2, <2>3 DEF Moved
<1>4. ASSUME NEW o \in Orders, ApproveTransfer(o) PROVE Moved(o)
  <2> DEFINE paid    == IF HasReceipt(o) THEN verified[o] ELSE Price[o]
             credit  == IF ledger[o]["credit"] = 0 THEN paid ELSE 0
             reserve == IF ledger[o]["reserve"] = 0 THEN Price[o] ELSE 0
  <2>1. /\ balance' = [balance EXCEPT ![Owner[o]] = @ + credit - reserve]
        /\ ledger' = [ledger EXCEPT ![o]["credit"] = @ + credit,
                                    ![o]["reserve"] = @ + reserve,
                                    ![o]["capture"] = Price[o]]
    BY <1>4 DEF ApproveTransfer
  <2>2. credit \in Nat /\ reserve \in Nat
    BY <1>2
  <2> HIDE DEF credit, reserve
  <2>3. /\ balance'[Owner[o]] = balance[Owner[o]] + credit - reserve
        /\ \A u \in Users \ {Owner[o]} : balance'[u] = balance[u]
    BY <1>1, <1>2, <2>1
  <2>4. /\ \A p \in Orders \ {o} : ledger'[p] = ledger[p]
        /\ ledger'[o]["credit"] = ledger[o]["credit"] + credit
        /\ ledger'[o]["reserve"] = ledger[o]["reserve"] + reserve
        /\ ledger'[o]["release"] = ledger[o]["release"]
        /\ ledger'[o]["reversal"] = ledger[o]["reversal"]
    BY <1>1, <2>1 DEF Events
  <2>5. /\ Spent(o)' = Spent(o) + reserve /\ Gain(o)' = Gain(o) + credit
        /\ Spent(o) \in Nat /\ Gain(o) \in Nat
    BY <1>2, <2>2, <2>4 DEF Spent, Gain
  <2> QED BY <1>2, <2>2, <2>3, <2>4, <2>5 DEF Moved
<1>5. ASSUME NEW o \in Orders, ApproveWallet(o) PROVE Moved(o)
  <2>1. /\ UNCHANGED balance /\ \A p \in Orders \ {o} : ledger'[p] = ledger[p]
        /\ \A d \in Events \ {"capture"} : ledger'[o][d] = ledger[o][d]
    BY <1>1, <1>5 DEF ApproveWallet, Events
  <2>2. Spent(o)' = Spent(o) /\ Gain(o)' = Gain(o) /\ Spent(o) \in Nat /\ Gain(o) \in Nat
    BY <1>2, <2>1 DEF Spent, Gain, Events
  <2> QED BY <1>2, <2>1, <2>2 DEF Moved
<1>6. ASSUME NEW o \in Orders, ApproveTopup(o) PROVE Moved(o)
  BY <1>2, <1>6, PostMoves DEF ApproveTopup
<1>7. ASSUME NEW o \in Orders, RejectOrder(o) PROVE UNCHANGED <<balance, ledger>> \/ Moved(o)
  BY <1>2, <1>7, PostMoves DEF RejectOrder, moneyVars
<1>8. ASSUME NEW o \in Orders, RefundOrder(o) PROVE Moved(o)
  <2> DEFINE amount == IF ~payments[o][LatestLive(o)].wallet /\ verified[o] > Price[o]
                         THEN verified[o] ELSE Price[o]
  <2>1. Post(o, "reversal", amount) /\ amount \in Nat
    BY <1>2, <1>8 DEF RefundOrder
  <2> HIDE DEF amount
  <2> QED BY <2>1, PostMoves
<1>9. ASSUME NEW o \in Orders, ReleaseHold(o) PROVE Moved(o)
  BY <1>2, <1>9, PostMoves DEF ReleaseHold
<1>10. CASE CustomerNext
  BY <1>3, <1>10 DEF CustomerNext, CreateOrder, CreateWalletTopup, Insert, ReplaceOpenOrder,
     CancelOrder, SubmitPayment, SubmitReceipt, RetryUpload, RecoverReceipt, UploadDone,
     UploadFails, moneyVars
<1>11. CASE StaffNext
  BY <1>4, <1>5, <1>6, <1>7, <1>8, <1>11 DEF StaffNext, VerifyReceipt, RejectReceipt, moneyVars
<1>12. CASE SweepNext
  BY <1>9, <1>12 DEF SweepNext, SweepExpired, SweepHold, SweepSelect, SweepWrite, ExpireOrder,
     orderVars, moneyVars
<1>13. CASE TimeNext \/ WorkerNext \/ AroundWorkers \/ UNCHANGED vars
  BY <1>13 DEF TimeNext, OrderAges, HoldAges, PromoChanges, Restart, WorkerNext, AroundWorkers,
     vars, ledgerVars, orderVars, moneyVars
<1> QED BY <1>10, <1>11, <1>12, <1>13 DEF Next, LedgerNext

(* What one customer's orders spend and gain. *)
Mine(u) == {o \in Orders : Owner[o] = u}

(* A sum over orders none of which changed is what it was; with one that did, it
   changed by as much. *)
LEMMA SumMoves ==
  ASSUME NEW S, IsFiniteSet(S), NEW f \in [S -> Nat], NEW g \in [S -> Nat],
         NEW m, IsSum(m, f, S), NEW n, IsSum(n, g, S)
  PROVE  /\ m \in Nat /\ n \in Nat
         /\ g = f => n = m
         /\ \A o \in S : (\A p \in S \ {o} : g[p] = f[p]) => n + f[o] = m + g[o]
<1>1. PICK F \in [SUBSET S -> Nat] : Sums(F, f, SUBSET S) /\ m = F[S]
  BY DEF IsSum
<1>2. PICK G \in [SUBSET S -> Nat] : Sums(G, g, SUBSET S) /\ n = G[S]
  BY DEF IsSum
<1>3. m \in Nat /\ n \in Nat
  BY <1>1, <1>2
<1>4. ASSUME g = f PROVE n = m
  <2>1. Sums(G, f, SUBSET S)
    BY <1>2, <1>4
  <2>2. G[S] = F[S]
    <3>1. Sums(F, f, SUBSET S)
      BY <1>1
    <3> QED BY <2>1, <3>1, SumsAgree, ZenonT(30)
  <2> QED BY <1>1, <1>2, <2>2
<1>5. ASSUME NEW o \in S, \A p \in S \ {o} : g[p] = f[p]
      PROVE  n + f[o] = m + g[o]
  <2>1. G[S] + f[o] = F[S] + g[o]
    <3>1. Sums(F, f, SUBSET S) /\ Sums(G, g, SUBSET S)
      BY <1>1, <1>2
    <3>2. SameBut(f, g, o, S)
      BY <1>5 DEF SameBut
    <3> QED BY <3>1, <3>2, SumsDiffer
  <2> QED BY <1>1, <1>2, <2>1
<1> QED BY <1>3, <1>4, <1>5

(* A step keeps a customer's wallet in agreement with the ledger. *)
LEMMA WalletStep ==
  ASSUME LedgerTypeOK, LedgerTypeOK', SpentSums, SpentSums', GainSums, GainSums',
         [Next]_vars, WalletMatchesLedger
  PROVE  WalletMatchesLedger'
<1>1. SUFFICES ASSUME NEW u \in Users
               PROVE  balance'[u] + MapThenSumSet(Spent, Mine(u))'
                        = Opening[u] + MapThenSumSet(Gain, Mine(u))'
  BY DEF WalletMatchesLedger, Mine
<1> DEFINE S == Mine(u)
           spent == MapThenSumSet(Spent, S)
           gained == MapThenSumSet(Gain, S)
           a == [o \in S |-> Spent(o)]
           b == [o \in S |-> Gain(o)]
<1>2. S \in SUBSET Orders /\ IsFiniteSet(S)
  BY LedgerAssumption, FS_Subset DEF Mine
<1>3. /\ a \in [S -> Nat] /\ b \in [S -> Nat] /\ a' \in [S -> Nat] /\ b' \in [S -> Nat]
  <2>1. \A o \in Orders : Spent(o) \in Nat /\ Gain(o) \in Nat
    BY DEF LedgerTypeOK, Events, Spent, Gain
  <2>2. \A o \in Orders : Spent(o)' \in Nat /\ Gain(o)' \in Nat
    BY DEF LedgerTypeOK, Events, Spent, Gain
  <2>3. a' = [o \in S |-> Spent(o)'] /\ b' = [o \in S |-> Gain(o)']
    BY DEF Mine
  <2> QED BY <1>2, <2>1, <2>2, <2>3
<1>4. IsSum(spent, a, S) /\ IsSum(gained, b, S)
  BY <1>2 DEF SpentSums, GainSums
<1>5. IsSum(spent', a', S) /\ IsSum(gained', b', S)
  BY <1>2 DEF SpentSums, GainSums, IsSum, Mine
<1>6. balance[u] + spent = Opening[u] + gained
  BY DEF WalletMatchesLedger, Mine
<1>7. \A o \in S : /\ a[o] = Spent(o) /\ a'[o] = Spent(o)'
                   /\ b[o] = Gain(o) /\ b'[o] = Gain(o)'
  OBVIOUS
<1>8. /\ balance[u] \in Nat /\ balance'[u] \in Nat /\ Opening[u] \in Nat
  BY LedgerAssumption DEF LedgerTypeOK
<1>9. \A o \in S : ledger'[o] = ledger[o] => a'[o] = a[o] /\ b'[o] = b[o]
  BY <1>7 DEF Spent, Gain
<1>10. spent \in Nat /\ gained \in Nat /\ spent' \in Nat /\ gained' \in Nat
  <2> HIDE DEF a, b, spent, gained, S
  <2> QED BY <1>2, <1>3, <1>4, <1>5, SumMoves
<1>11. CASE \A o \in S : ledger'[o] = ledger[o]
  <2>1. a' = a /\ b' = b
    <3> HIDE DEF a, b
    <3> QED BY <1>3, <1>9, <1>11
  <2>2. spent' = spent /\ gained' = gained
    <3> HIDE DEF a, b, spent, gained, S
    <3>1. spent' = spent
      BY <1>2, <1>3, <1>4, <1>5, <2>1, SumMoves
    <3>2. gained' = gained
      BY <1>2, <1>3, <1>4, <1>5, <2>1, SumMoves
    <3> QED BY <3>1, <3>2
  <2>3. balance'[u] = balance[u]
    <3>1. CASE UNCHANGED <<balance, ledger>>
      BY <3>1
    <3>2. ASSUME NEW o \in Orders, Moved(o) PROVE balance'[u] = balance[u]
      <4>1. CASE Owner[o] = u
        <5>1. Spent(o)' = Spent(o) /\ Gain(o)' = Gain(o)
          BY <1>11, <4>1 DEF Mine, Spent, Gain
        <5>2. Spent(o) \in Nat /\ Gain(o) \in Nat
          BY DEF LedgerTypeOK, Events, Spent, Gain
        <5> QED BY <1>8, <3>2, <4>1, <5>1, <5>2 DEF Moved
      <4>2. CASE Owner[o] # u
        BY <3>2, <4>2 DEF Moved
      <4> QED BY <4>1, <4>2
    <3> QED BY <3>1, <3>2, MoneyMoves
  <2> HIDE DEF spent, gained
  <2> QED BY <1>6, <2>2, <2>3 DEF spent, gained
<1>12. CASE ~\A o \in S : ledger'[o] = ledger[o]
  <2>1. PICK o \in Orders : Moved(o)
    BY <1>2, <1>12, MoneyMoves
  <2>2. o \in S /\ Owner[o] = u
    BY <1>12, <2>1 DEF Moved, Mine
  <2>3. \A p \in S \ {o} : a'[p] = a[p] /\ b'[p] = b[p]
    BY <1>2, <1>9, <2>1 DEF Moved
  <2>4. spent' + a[o] = spent + a'[o] /\ gained' + b[o] = gained + b'[o]
    <3> HIDE DEF a, b, spent, gained, S
    <3> QED BY <1>2, <1>3, <1>4, <1>5, <2>2, <2>3, SumMoves
  <2>5. balance'[u] + a'[o] + b[o] = balance[u] + b'[o] + a[o]
    BY <1>7, <2>1, <2>2 DEF Moved
  <2>6. {a[o], b[o], a'[o], b'[o]} \subseteq Nat
    BY <1>3, <2>2
  <2>7. balance'[u] + spent' = Opening[u] + gained'
    <3> HIDE DEF a, b, spent, gained, S
    <3> QED BY <1>6, <1>8, <1>10, <2>4, <2>5, <2>6
  <2> QED BY <2>7
<1> QED BY <1>11, <1>12

(* The first balances are the opening ones and the ledger is empty. *)
LEMMA WalletInit ==
  ASSUME Init, LedgerTypeOK, SpentSums, GainSums
  PROVE  WalletMatchesLedger
<1> SUFFICES ASSUME NEW u \in Users
             PROVE  balance[u] + MapThenSumSet(Spent, Mine(u))
                      = Opening[u] + MapThenSumSet(Gain, Mine(u))
  BY DEF WalletMatchesLedger, Mine
<1> DEFINE S == Mine(u)
           a == [o \in S |-> Spent(o)]
           b == [o \in S |-> Gain(o)]
<1>1. S \in SUBSET Orders /\ IsFiniteSet(S)
  BY LedgerAssumption, FS_Subset DEF Mine
<1>2. a \in [S -> Nat] /\ b \in [S -> Nat]
  BY <1>1 DEF LedgerTypeOK, Events, Spent, Gain
<1>3. a = b
  BY <1>1 DEF Init, Events, Spent, Gain
<1>4. IsSum(MapThenSumSet(Spent, S), a, S) /\ IsSum(MapThenSumSet(Gain, S), b, S)
  BY <1>1 DEF SpentSums, GainSums
<1>5. MapThenSumSet(Spent, S) = MapThenSumSet(Gain, S)
  <2> HIDE DEF a, b, S
  <2> QED BY <1>1, <1>2, <1>3, <1>4, SumMoves
<1>6. balance[u] = Opening[u]
  BY DEF Init
<1> QED BY <1>5, <1>6

(* The wallet always shows what the ledger says, on either database: every handler,
   sweep and refund that moves the balance writes the event that explains it, once. *)
THEOREM WalletSafety == Spec => []WalletMatchesLedger
<1>1. LedgerTypeOK => SpentSums /\ GainSums
  BY SpentSum, GainSum
<1>2. LedgerTypeOK' => (SpentSums /\ GainSums)'
  BY <1>1, PTL
<1>3. Init => LedgerTypeOK /\ WalletMatchesLedger
  BY <1>1, LedgerTypeInit, WalletInit
<1>4. LedgerTypeOK /\ WalletMatchesLedger /\ [Next]_vars
        => (LedgerTypeOK /\ WalletMatchesLedger)'
  BY <1>1, <1>2, LedgerTypeStep, WalletStep
<1> QED BY <1>3, <1>4, PTL DEF Spec
=============================================================================
