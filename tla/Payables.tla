------------------------------ MODULE Payables ------------------------------
(***************************************************************************)
(* Supplier invoices and the payments made against them: creation, review  *)
(* and approval, by the API and by the admin panel's invoice wizard and    *)
(* review queue.                                                           *)
(*                                                                         *)
(* Creating and approving a payment lock its invoice FOR UPDATE; nothing   *)
(* else is locked.  Invoices and payments are read without a lock, decided *)
(* on, and written at commit.                                              *)
(***************************************************************************)
EXTENDS Integers, FiniteSets, FiniteSetsExt

CONSTANTS
    Invoices, Payouts,     \* the invoices and supplier payments there may be
    Accounts,              \* users with purchasing:manage
    Deciders, Directors,   \* those with purchasing:approve, and superusers
    Clients,               \* sessions in flight
    Nil,
    Bill,                  \* what each invoice bills: order, number, units, cost
    Transfer,              \* what each payment pays
    Orderer,               \* who made each purchase order
    Ordered                \* units each purchase order asks for

PoIds == DOMAIN Ordered

ASSUME PayablesAssumption ==
    /\ Deciders \subseteq Accounts /\ Directors \subseteq Accounts
    /\ Nil \notin Clients \cup Accounts \cup Invoices \cup Payouts
    /\ Invoices \cap Payouts = {}
    /\ Ordered \in [PoIds -> Nat] /\ Orderer \in [PoIds -> Accounts]
    /\ Bill \in [Invoices -> [po : PoIds, number : Nat, units : Nat, cost : Nat,
                              owner : Accounts]]
    /\ Transfer \in [Payouts -> [invoice : Invoices, amount : Nat, owner : Accounts]]
    /\ IsFiniteSet(Payouts) /\ IsFiniteSet(Invoices)

VARIABLES
    invoice,   \* status of each invoice, and whether its quantity is flagged
    payout,    \* status of each supplier payment
    paid,      \* SUM of the amounts of each invoice's approved payments
    arrived,   \* units received on each purchase order
    voided,    \* cancelled purchase orders
    unitCost,  \* the invoice that set the product's unit cost last
    lock,      \* which session holds each invoice FOR UPDATE
    desk,      \* what each session is doing
    overtaken, \* invoices some session has written from an outdated copy
    crossed    \* purchase orders with an invoice made from outdated sums

payVars == <<invoice, payout, paid, arrived, voided, unitCost, lock, desk, overtaken, crossed>>

DocStatuses == {"absent", "draft", "pending_review", "approved", "rejected"}

\* user is who approves or rejects doc, seen its status as read, to the new one;
\* creating an invoice, known are the order's invoices as read, billed the units
\* on those that stand, and received what had come in.
ClientState == [stage : {"idle", "deciding", "locking", "paying", "billing"},
                user : Accounts \cup {Nil}, doc : Invoices \cup Payouts \cup {Nil},
                seen : DocStatuses, to : DocStatuses,
                known : SUBSET Invoices, billed : Nat, received : Nat]

AtRest == [stage |-> "idle", user |-> Nil, doc |-> Nil, seen |-> "absent", to |-> "absent",
           known |-> {}, billed |-> 0, received |-> 0]

PayTypeOK ==
    /\ invoice \in [Invoices -> [status : DocStatuses, flagged : BOOLEAN]]
    /\ payout \in [Payouts -> DocStatuses]
    /\ paid \in [Invoices -> Int]
    /\ arrived \in [PoIds -> Nat] /\ voided \subseteq PoIds
    /\ unitCost \in Invoices \cup {Nil}
    /\ lock \in [Invoices -> Clients \cup {Nil}]
    /\ desk \in [Clients -> ClientState]
    /\ overtaken \subseteq Invoices
    /\ crossed \subseteq PoIds

PayInit ==
    /\ invoice = [i \in Invoices |-> [status |-> "absent", flagged |-> FALSE]]
    /\ payout = [k \in Payouts |-> "absent"]
    /\ paid = [i \in Invoices |-> 0]
    /\ arrived = [o \in PoIds |-> 0]
    /\ voided = {}
    /\ unitCost = Nil
    /\ lock = [i \in Invoices |-> Nil]
    /\ desk = [c \in Clients |-> AtRest]
    /\ overtaken = {}
    /\ crossed = {}

-----------------------------------------------------------------------------
(* Amounts *)

Total(i) == Bill[i].units * Bill[i].cost

\* What _attach_outstanding_amounts shows.
Outstanding(i) == Total(i) - paid[i]

InvoicesOf(o) == {i \in Invoices : Bill[i].po = o /\ invoice[i].status # "absent"}
Standing(o) == {i \in InvoicesOf(o) : invoice[i].status # "rejected"}
UnitsOf(S) == SumFunctionOnSet([i \in Invoices |-> Bill[i].units], S)
TotalOf(S) == SumFunctionOnSet([i \in Invoices |-> Total(i)], S)
PaidOn(S) == SumFunctionOnSet(paid, S)
Approved(S) == {i \in S : invoice[i].status = "approved"}

\* get_purchase_order_detail_data: approved invoices minus approved payments,
\* the payments of whatever invoice of the order.
OrderDetail(o) ==
    [invoiced    |-> UnitsOf(Standing(o)),
     billed      |-> TotalOf(Standing(o)),
     outstanding |-> TotalOf(Approved(InvoicesOf(o))) - PaidOn(InvoicesOf(o))]

\* get_supplier_ledger_data (all the orders here are one supplier's).
SupplierLedger ==
    LET made == {i \in Invoices : invoice[i].status # "absent"}
        waiting == {i \in made : invoice[i].status = "pending_review"}
    IN  [pending     |-> [count |-> Cardinality(waiting), amount |-> TotalOf(waiting)],
         invoiced    |-> TotalOf(Approved(made)),
         paid        |-> PaidOn(made),
         outstanding |-> TotalOf(Approved(made)) - PaidOn(made)]

-----------------------------------------------------------------------------
(* Invoices *)

SeesAll(u) == u \in Deciders \cup Directors

Begin(c, s) == /\ desk[c] = AtRest
               /\ desk' = [desk EXCEPT ![c] = s]
               /\ UNCHANGED <<invoice, payout, paid, arrived, voided, unitCost, lock,
                              overtaken, crossed>>

\* The number is not taken and the order not cancelled; how much of the order
\* has come in, and how much of it has been billed, is read without a lock.
StartInvoice(c, u, i) ==
    /\ invoice[i].status = "absent" /\ u = Bill[i].owner
    /\ Bill[i].po \notin voided
    /\ SeesAll(u) \/ Orderer[Bill[i].po] = u
    /\ \A j \in Invoices : invoice[j].status # "absent" => Bill[j].number # Bill[i].number
    /\ Begin(c, [AtRest EXCEPT !.stage = "billing", !.doc = i,
                               !.known = InvoicesOf(Bill[i].po),
                               !.billed = UnitsOf(Standing(Bill[i].po)),
                               !.received = arrived[Bill[i].po]])

\* Mutant: an invoice is compared with the units that were received in all.
FlaggedAgainstAll(c, i) == Bill[i].units # desk[c].received

\* The quantity variance: billed against received and not yet billed.
QuantityFlagged(c, i) ==
    LET before == desk[c].billed
        open == desk[c].received - before
        expected == IF open > 0 THEN open ELSE 0
    IN  \/ Bill[i].units # expected
        \/ before + Bill[i].units > desk[c].received
        \/ before + Bill[i].units > Ordered[Bill[i].po]

InsertInvoice(c) ==
    LET i == desk[c].doc
        o == Bill[i].po
    IN  /\ desk[c].stage = "billing"
        /\ invoice[i].status = "absent"
        /\ invoice' = [invoice EXCEPT ![i] =
              [status |-> "draft", flagged |-> QuantityFlagged(c, i)]]
        /\ crossed' = IF desk[c].known = InvoicesOf(o) /\ desk[c].billed = UnitsOf(Standing(o))
                      THEN crossed ELSE crossed \cup {o}
        /\ desk' = [desk EXCEPT ![c] = AtRest]
        /\ UNCHANGED <<payout, paid, arrived, voided, unitCost, lock, overtaken>>

MayHandle(u, owner) == SeesAll(u) \/ u = owner

\* Four eyes: only a superuser decides on what he has created himself.
NotOwn(u, owner) == u \in Directors \/ u # owner

Review(c, u, d, from, to) ==
    Begin(c, [AtRest EXCEPT !.stage = "deciding", !.user = u, !.doc = d,
                            !.seen = from, !.to = to])

SubmitInvoice(c, u, i) ==
    /\ invoice[i].status = "draft" /\ MayHandle(u, Bill[i].owner)
    /\ Review(c, Nil, i, "draft", "pending_review")

ApproveInvoice(c, u, i) ==
    /\ invoice[i].status = "pending_review" /\ SeesAll(u)
    /\ NotOwn(u, Bill[i].owner)
    /\ Review(c, u, i, "pending_review", "approved")

\* There is no four-eyes test here.
RejectInvoice(c, u, i) ==
    /\ invoice[i].status = "pending_review" /\ SeesAll(u)
    /\ Review(c, u, i, "pending_review", "rejected")

\* The UPDATE waits for a payment that holds the invoice.  An approval also
\* sets the unit cost of the products billed.
CommitInvoice(c) ==
    LET i == desk[c].doc
    IN  /\ desk[c].stage = "deciding" /\ i \in Invoices
        /\ lock[i] = Nil
        /\ invoice' = [invoice EXCEPT ![i].status = desk[c].to]
        /\ unitCost' = IF desk[c].to = "approved" THEN i ELSE unitCost
        /\ overtaken' = IF invoice[i].status # desk[c].seen THEN overtaken \cup {i} ELSE overtaken
        /\ desk' = [desk EXCEPT ![c] = AtRest]
        /\ UNCHANGED <<payout, paid, arrived, voided, lock, crossed>>
-----------------------------------------------------------------------------
(* Payments *)

StartPayout(c, u, k) ==
    /\ payout[k] = "absent" /\ u = Transfer[k].owner
    /\ Begin(c, [AtRest EXCEPT !.stage = "locking", !.doc = k, !.to = "draft"])

SubmitPayout(c, u, k) ==
    /\ payout[k] = "draft" /\ MayHandle(u, Transfer[k].owner)
    /\ Review(c, Nil, k, "draft", "pending_review")

RejectPayout(c, u, k) ==
    /\ payout[k] = "pending_review" /\ SeesAll(u)
    /\ NotOwn(u, Transfer[k].owner)
    /\ Review(c, u, k, "pending_review", "rejected")

ApprovePayout(c, u, k) ==
    /\ payout[k] = "pending_review" /\ SeesAll(u)
    /\ NotOwn(u, Transfer[k].owner)
    /\ Begin(c, [AtRest EXCEPT !.stage = "locking", !.doc = k,
                               !.seen = "pending_review", !.to = "approved"])

\* Mutant: the invoice is read without a lock.
ReadInvoice(c) ==
    LET k == desk[c].doc
        i == Transfer[k].invoice
    IN  /\ desk[c].stage = "locking"
        /\ invoice[i].status = "approved" /\ Transfer[k].amount <= Outstanding(i)
        /\ desk' = [desk EXCEPT ![c].stage = "paying"]
        /\ UNCHANGED <<invoice, payout, paid, arrived, voided, unitCost, lock, overtaken, crossed>>

Payable(k) ==
    LET i == Transfer[k].invoice
    IN  invoice[i].status = "approved" /\ Transfer[k].amount <= Outstanding(i)

\* SELECT ... FOR UPDATE of the invoice, and the checks under its lock, when a
\* payment is created and when it is approved.
LockInvoice(c) ==
    LET i == Transfer[desk[c].doc].invoice
    IN  /\ desk[c].stage = "locking" /\ lock[i] = Nil
        /\ IF Payable(desk[c].doc)
           THEN /\ lock' = [lock EXCEPT ![i] = c]
                /\ desk' = [desk EXCEPT ![c].stage = "paying"]
           ELSE /\ desk' = [desk EXCEPT ![c] = AtRest]
                /\ UNCHANGED lock
        /\ UNCHANGED <<invoice, payout, paid, arrived, voided, unitCost, overtaken, crossed>>

ReleaseInvoice(c) == lock' = [i \in Invoices |-> IF lock[i] = c THEN Nil ELSE lock[i]]

\* A payment's status changes: only approved ones count in the sum.
SetPayout(k, to) ==
    LET i == Transfer[k].invoice
        was == IF payout[k] = "approved" THEN Transfer[k].amount ELSE 0
        is == IF to = "approved" THEN Transfer[k].amount ELSE 0
    IN  /\ payout' = [payout EXCEPT ![k] = to]
        /\ paid' = [paid EXCEPT ![i] = @ + is - was]

\* The insert of a draft, or the approval.
CommitPayout(c) ==
    LET k == desk[c].doc
    IN  /\ desk[c].stage = "paying"
        /\ desk[c].to = "draft" => payout[k] = "absent"
        /\ SetPayout(k, desk[c].to)
        /\ desk' = [desk EXCEPT ![c] = AtRest]
        /\ ReleaseInvoice(c)
        /\ UNCHANGED <<invoice, arrived, voided, unitCost, overtaken, crossed>>

\* A submission or a rejection: an UPDATE of the payment, no lock before it.
CommitReview(c) ==
    /\ desk[c].stage = "deciding" /\ desk[c].doc \in Payouts
    /\ SetPayout(desk[c].doc, desk[c].to)
    /\ desk' = [desk EXCEPT ![c] = AtRest]
    /\ UNCHANGED <<invoice, arrived, voided, unitCost, lock, overtaken, crossed>>

\* A lost connection, or the server going down: the transaction rolls back.
Drop(c) ==
    /\ desk[c] # AtRest
    /\ desk' = [desk EXCEPT ![c] = AtRest]
    /\ ReleaseInvoice(c)
    /\ UNCHANGED <<invoice, payout, paid, arrived, voided, unitCost, overtaken, crossed>>

\* Goods come in, or the order is cancelled (see PurchaseOrders).
Arrive(o) ==
    /\ o \notin voided
    /\ arrived[o] < Ordered[o]
    /\ arrived' = [arrived EXCEPT ![o] = @ + 1]
    /\ UNCHANGED <<invoice, payout, paid, voided, unitCost, lock, desk, overtaken, crossed>>

Void(o) ==
    /\ arrived[o] = 0 /\ voided' = voided \cup {o}
    /\ UNCHANGED <<invoice, payout, paid, arrived, unitCost, lock, desk, overtaken, crossed>>
-----------------------------------------------------------------------------
(* Endpoints and wizards: decisions need purchasing:approve; the wizards' user *)
(* is a superuser.                                                           *)

PostInvoice(c) == \E u \in Accounts, i \in Invoices : StartInvoice(c, u, i)
PostInvoiceSubmit(c) == \E u \in Accounts, i \in Invoices : SubmitInvoice(c, u, i)
PostInvoiceApprove(c) == \E u \in Accounts, i \in Invoices : ApproveInvoice(c, u, i)
PostInvoiceReject(c) == \E u \in Accounts, i \in Invoices : RejectInvoice(c, u, i)

PostPayout(c) == \E u \in Accounts, k \in Payouts : StartPayout(c, u, k)
PostPayoutSubmit(c) == \E u \in Accounts, k \in Payouts : SubmitPayout(c, u, k)
PostPayoutApprove(c) == \E u \in Accounts, k \in Payouts : ApprovePayout(c, u, k)
PostPayoutReject(c) == \E u \in Accounts, k \in Payouts : RejectPayout(c, u, k)

InvoiceWizard(c) ==
    \E u \in Directors, i \in Invoices :
        \/ StartInvoice(c, u, i) \/ SubmitInvoice(c, u, i)
        \/ ApproveInvoice(c, u, i) \/ RejectInvoice(c, u, i)

ReviewQueue(c) ==
    \E u \in Directors :
        \/ \E i \in Invoices : ApproveInvoice(c, u, i) \/ RejectInvoice(c, u, i)
        \/ \E k \in Payouts : ApprovePayout(c, u, k) \/ RejectPayout(c, u, k)

Arrival(c) ==
    \/ PostInvoice(c) \/ PostInvoiceSubmit(c) \/ PostInvoiceApprove(c) \/ PostInvoiceReject(c)
    \/ PostPayout(c) \/ PostPayoutSubmit(c) \/ PostPayoutApprove(c) \/ PostPayoutReject(c)
    \/ InvoiceWizard(c) \/ ReviewQueue(c)

Progress(c) ==
    \/ InsertInvoice(c) \/ CommitInvoice(c)
    \/ LockInvoice(c) \/ CommitPayout(c) \/ CommitReview(c)

PayNext ==
    \/ \E c \in Clients : Arrival(c) \/ Progress(c) \/ Drop(c)
    \/ \E o \in PoIds : Arrive(o) \/ Void(o)

PaySpec == PayInit /\ [][PayNext]_payVars

-----------------------------------------------------------------------------
(* Properties *)

\* The approved payments of an invoice never exceed its total, although the
\* payments themselves are read before the lock, submitted and rejected from
\* outdated copies, and approved twice (the lock and the check under it in
\* approve_supplier_payment).
InvoiceNeverOverpaid == \A i \in Invoices : paid[i] <= Total(i)

Undisturbed(o) == InvoicesOf(o) \cap overtaken = {}

\* Money goes out on approved invoices only, and these stay approved, so the
\* detail page of an order never shows a negative sum as payable.
MoneyIsOwed(o) ==
    /\ OrderDetail(o).outstanding >= 0
    /\ \A i \in InvoicesOf(o) : paid[i] > 0 => invoice[i].status = "approved"

\* Billing more than was received shows as a variance on one of the invoices
\* that stand.
OverbillingIsFlagged(o) ==
    OrderDetail(o).invoiced > arrived[o] => \E i \in Standing(o) : invoice[i].flagged

\* Unless invoices of an order were created or decided on side by side, its
\* books are in order: what is owed and what was billed too much can be seen, on
\* the order's page and in the supplier's ledger.
PayablesAddUp ==
    /\ \A o \in PoIds :
          Undisturbed(o) => MoneyIsOwed(o) /\ (o \in crossed \/ OverbillingIsFlagged(o))
    /\ (\A o \in PoIds : Undisturbed(o)) => SupplierLedger.outstanding >= 0

\* docs/purchasing-redesign.md, 4-eyes: who is not a superuser cannot approve
\* or reject an invoice, order or payment he created.
FourEyes ==
    \A c \in Clients :
        desk[c].to \in {"approved", "rejected"} /\ desk[c].doc \in Invoices =>
            NotOwn(desk[c].user, Bill[desk[c].doc].owner)
=============================================================================
