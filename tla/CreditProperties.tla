--------------------------- MODULE CreditProperties ---------------------------
(***************************************************************************)
(* What should be true of credit sales.  The first properties hold however *)
(* sessions interleave; the others hold while requests are served one at a *)
(* time.                                                                   *)
(***************************************************************************)
EXTENDS CreditSessions

\* Variables have their types, and every sale has its credit row.
TypeOK ==
    /\ customers \in [Customers -> Customer]
    /\ sales \in Seq(Sale)
    /\ creditSales \in Seq(CreditRow)
    /\ collected \in Seq(Nat)
    /\ Len(creditSales) = Len(sales) /\ Len(collected) = Len(sales)
    /\ phase \in [Workers -> Phases]
    /\ uow \in [Workers -> [request : Request, credit_limit : Nat,
                            status : {"COMPLETED", "VOIDED"}, row : CreditRow]]
    /\ served \in 0 .. MaxRequests

\* amount_paid and outstanding_balance of a credit row always add up to its total:
\* both are written from one copy (settle), so that a lost update loses both.
BooksBalance ==
    \A s \in DOMAIN creditSales :
        creditSales[s].amount_paid + creditSales[s].outstanding_balance
            = creditSales[s].total_amount

\* A lost update may forget a payment but never invents one: what a credit row
\* says was paid has been received with the sale or as credit_payments rows.
NoDebtForgiven ==
    \A s \in DOMAIN creditSales :
        creditSales[s].amount_paid <= sales[s].amount_received + collected[s]

\* What a session about to commit knows.  Its copy of a credit row may be out of
\* date, but it balances, its total is the row's, and what it says was paid has been
\* received; the payment it adds fits in its balance.
SettlementOK(w) ==
    LET r   == uow[w].request
        row == uow[w].row IN
    /\ r.sale \in DOMAIN creditSales
    /\ r.amount <= row.outstanding_balance
    /\ row.amount_paid + row.outstanding_balance = row.total_amount
    /\ row.total_amount = creditSales[r.sale].total_amount
    /\ row.amount_paid <= sales[r.sale].amount_received + collected[r.sale]

\* The phases lead each kind of request to its own commit.
SessionOK(w) ==
    /\ phase[w] = "customer" => uow[w].request.op \in {"SALE", "LIMIT", "DELETE"}
    /\ phase[w] = "balance" => uow[w].request.op = "SALE"
    /\ phase[w] = "sale" => uow[w].request.op = "VOID"
    /\ phase[w] = "debt" => uow[w].request.op \in {"SETTLE", "VOID"}
    /\ AtCommit(w, "SALE") => uow[w].request.paid <= uow[w].request.amount
    /\ AtCommit(w, "SETTLE") => SettlementOK(w)
    /\ AtCommit(w, "VOID") => uow[w].request.sale \in DOMAIN sales

SessionsOK == \A w \in Workers : SessionOK(w)

\* The inductive invariant: the three properties above and what sessions know.
IInv == TypeOK /\ BooksBalance /\ NoDebtForgiven /\ SessionsOK
-----------------------------------------------------------------------------
\* Every payment counts: a credit row shows exactly what was received with the
\* sale and settled since (settle).
PaymentsAddUp ==
    \A s \in DOMAIN creditSales :
        creditSales[s].amount_paid = sales[s].amount_received + collected[s]

\* The status follows the balance: a row is SETTLED when nothing is owed, PARTIAL
\* when part of the debt has been settled, and OPEN otherwise (create_from_sale, settle).
StatusFollowsBalance ==
    \A s \in DOMAIN creditSales :
        creditSales[s].status =
            IF creditSales[s].outstanding_balance = 0 THEN "SETTLED"
            ELSE IF collected[s] > 0 THEN "PARTIAL" ELSE "OPEN"

\* Nobody owes anything for a sale that was voided (void_sale).
VoidedOwesNothing ==
    \A s \in DOMAIN sales :
        sales[s].status = "VOIDED" => creditSales[s].outstanding_balance = 0

\* What the session of the only worker knows: a settlement is above zero, and at
\* its commit the credit row is still as it was read and checked; a void commits
\* while nothing is owed.
SerialSessionOK(w) ==
    /\ uow[w].request.op = "SETTLE" => uow[w].request.amount > 0
    /\ AtCommit(w, "SETTLE") => /\ uow[w].row = creditSales[uow[w].request.sale]
                                /\ Payable(uow[w].row, uow[w].request.amount)
    /\ AtCommit(w, "VOID") => creditSales[uow[w].request.sale].outstanding_balance = 0

\* The invariant of requests served one at a time, next to IInv.
SerialInv == /\ PaymentsAddUp /\ StatusFollowsBalance /\ VoidedOwesNothing
             /\ \A w \in Workers : SerialSessionOK(w)

\* All that a customer owes, whatever the status of the rows.
RowsOf(c) == {s \in DOMAIN creditSales : creditSales[s].customer = c}
Debt(c)   == SumFunctionOnSet(Balances, RowsOf(c))

\* A sale that adds to the debt of a customer keeps it within the limit the customer
\* has then; only lowering the limit can leave a debt above it (create_from_sale).
DebtWithinLimit ==
    [][\A c \in Customers : Debt(c)' > Debt(c) => Debt(c)' <= customers'[c].credit_limit]_vars
\* What the session of the only worker knows of the limit: it is still the one it
\* read, and the sale it is about to commit fits under it.
LimitOK(w) ==
    LET r == uow[w].request IN
    /\ phase[w] = "balance" \/ AtCommit(w, "SALE") =>
          uow[w].credit_limit = customers[r.customer].credit_limit
    /\ AtCommit(w, "SALE") => Debt(r.customer) + (r.amount - r.paid) <= uow[w].credit_limit

LimitInv == SerialInv /\ \A w \in Workers : LimitOK(w)
-----------------------------------------------------------------------------
\* "Settlement payments cannot exceed the outstanding balance" (BR-CR-03): what a
\* sale was paid never exceeds its total.
PaidWithinTotal ==
    \A s \in DOMAIN creditSales :
        sales[s].amount_received + collected[s] <= creditSales[s].total_amount

\* "Settlements reduce the balance until zero" (BR-CR-04): a row is settled only
\* when nothing is owed, for a settled row takes no more payments.
SettledOwesNothing ==
    \A s \in DOMAIN creditSales :
        creditSales[s].status = "SETTLED" => creditSales[s].outstanding_balance = 0
=============================================================================
