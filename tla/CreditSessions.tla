---------------------------- MODULE CreditSessions ----------------------------
(***************************************************************************)
(* Credit sales in the FastAPI backend: the credit rows that create_sale   *)
(* opens, credits_service settles and void_sale looks at, and the          *)
(* customers whose limit bounds them.                                      *)
(*                                                                         *)
(* Sessions work as in StockSessions: a row is copied when it is first     *)
(* read, checks and arithmetic use the copy, and commit writes the columns *)
(* whose value changed as absolute values, without a lock or a version.    *)
(* Each action is one database read with the checks that follow it, or a   *)
(* commit.  Sales and credit rows are numbered alike: every sale here is a *)
(* credit sale and has one credit row (UQ_credit_sales_sale_id).  Amounts  *)
(* are whole numbers of the smallest unit the database stores.             *)
(*                                                                         *)
(* A definition named Operator_Change is a variant of Operator with a      *)
(* plausible mistake in it; no specification uses it.                      *)
(***************************************************************************)
EXTENDS Naturals, Sequences, FiniteSetsExt

CONSTANTS
    Workers,        \* the request handlers running at the same time
    Customers,      \* the customers that exist to begin with
    InitLimit,      \* their customers.credit_limit
    Requests,       \* the requests clients send
    MaxRequests     \* bound: requests served in a behaviour

VARIABLES
    customers,      \* the customers
    sales,          \* the credit sales, by sale_id
    creditSales,    \* the credit row of each sale
    collected,      \* the sum of the credit_payments rows of each credit row
    phase,          \* where a worker is in its request
    uow,            \* the session of a worker: the rows it has read
    served          \* how many requests have been received

db   == <<customers, sales, creditSales, collected>>
vars == <<customers, sales, creditSales, collected, phase, uow, served>>
-----------------------------------------------------------------------------
\* Requests and rows
Ops == {"SALE", "SETTLE", "VOID", "LIMIT", "DELETE"}

\* amount: the total of a sale, the amount settled, the new limit; paid: what the
\* payment lines of a sale add up to.
Request == [op : Ops, customer : Customers, sale : Nat, amount : Nat, paid : Nat]

Customer  == [credit_limit : Nat, is_deleted : BOOLEAN]
Sale      == [status : {"COMPLETED", "VOIDED"}, amount_received : Nat]

\* OVERDUE and WRITTEN_OFF are read in places but never written.
CreditRow == [customer : Customers, total_amount : Nat, amount_paid : Nat,
              outstanding_balance : Nat, status : {"OPEN", "PARTIAL", "SETTLED"}]

\* What the request schemas let through: a settlement is above zero.
Accepted(request) == request.op = "SETTLE" => request.amount > 0

ASSUME CreditAssumption ==
    /\ Customers # {}
    /\ InitLimit \in [Customers -> Nat]
    /\ Requests \subseteq Request
    /\ \A request \in Requests : Accepted(request)
    /\ MaxRequests \in Nat

Phases == {"idle", "customer", "balance", "sale", "debt", "commit"}

NoRow == [customer |-> CHOOSE c \in Customers : TRUE, total_amount |-> 0,
          amount_paid |-> 0, outstanding_balance |-> 0, status |-> "SETTLED"]

\* A session: its request, and the copies of the credit limit, of the status of
\* the sale and of the credit row.
NewSession(request) ==
    [request |-> request, credit_limit |-> 0, status |-> "COMPLETED", row |-> NoRow]

NoSession == NewSession([op |-> "VOID", customer |-> CHOOSE c \in Customers : TRUE,
                         sale |-> 0, amount |-> 0, paid |-> 0])

Init == /\ customers = [c \in Customers |->
                           [credit_limit |-> InitLimit[c], is_deleted |-> FALSE]]
        /\ sales = <<>>
        /\ creditSales = <<>>
        /\ collected = <<>>
        /\ phase = [w \in Workers |-> "idle"]
        /\ uow = [w \in Workers |-> NoSession]
        /\ served = 0
-----------------------------------------------------------------------------
\* What the services compute

\* What a customer owes: the balances of the rows that are not settled.
Balances == [s \in DOMAIN creditSales |-> creditSales[s].outstanding_balance]

Owed_OpenOnly(c) ==
    SumFunctionOnSet(Balances, {s \in DOMAIN creditSales : /\ creditSales[s].customer = c
                                                           /\ creditSales[s].status = "OPEN"})
Owed(c) ==
    SumFunctionOnSet(Balances, {s \in DOMAIN creditSales : /\ creditSales[s].customer = c
                                                           /\ creditSales[s].status # "SETTLED"})

\* The status of a row that a payment leaves with this balance.
AfterPayment_Below(balance) == IF balance < 0 THEN "SETTLED" ELSE "PARTIAL"
AfterPayment(balance) == IF balance <= 0 THEN "SETTLED" ELSE "PARTIAL"

\* A payment on the copy of a credit row.
Pay_BalanceOnly(row, amount) ==
    [row EXCEPT !.outstanding_balance = @ - amount,
                !.status = AfterPayment(row.outstanding_balance - amount)]
Pay(row, amount) ==
    [row EXCEPT !.amount_paid = @ + amount,
                !.outstanding_balance = @ - amount,
                !.status = AfterPayment(row.outstanding_balance - amount)]

\* The UPDATE of a credit row: the columns that differ from what was read.  A
\* payment always changes the amounts; a PARTIAL row may stay PARTIAL.
WriteRow_PaidRelative(stored, old, new) ==
    [stored EXCEPT
        !.amount_paid = @ + (new.amount_paid - old.amount_paid),
        !.outstanding_balance = new.outstanding_balance,
        !.status = IF new.status # old.status THEN new.status ELSE @]
WriteRow(stored, old, new) ==
    [stored EXCEPT
        !.amount_paid = new.amount_paid,
        !.outstanding_balance = new.outstanding_balance,
        !.status = IF new.status # old.status THEN new.status ELSE @]

\* The credit_payments row of a settlement is added to those there are.
Collect_Replace(sum, amount) == amount
Collect(sum, amount) == sum + amount

\* A settled row takes no more payments, and no payment exceeds the balance.
Payable_Unlimited(row, amount) == row.status # "SETTLED"
Payable(row, amount) == /\ row.status # "SETTLED"
                        /\ amount <= row.outstanding_balance

\* Only a COMPLETED sale that is paid can be voided.
Voidable_InDebt(u, row) == u.status = "COMPLETED"
Voidable(u, row) == u.status = "COMPLETED" /\ row.outstanding_balance = 0

Continue(w, u, ph) == /\ uow' = [uow EXCEPT ![w] = u]
                      /\ phase' = [phase EXCEPT ![w] = ph]
                      /\ UNCHANGED served

AtCommit(w, op) == phase[w] = "commit" /\ uow[w].request.op = op
-----------------------------------------------------------------------------
\* Serving a request

FirstRead(op) == CASE op = "SETTLE" -> "debt"
                   [] op = "VOID"   -> "sale"
                   [] OTHER         -> "customer"

Receive(w) ==
    /\ phase[w] = "idle"
    /\ served < MaxRequests
    /\ \E request \in Requests :
          /\ uow' = [uow EXCEPT ![w] = NewSession(request)]
          /\ phase' = [phase EXCEPT ![w] = FirstRead(request.op)]
    /\ served' = served + 1
    /\ UNCHANGED db

\* get_customer, for a sale, an update and a deletion: deleted customers are not
\* found.  The limit checked later is the one read here.
LoadCustomer(w) ==
    LET c == uow[w].request.customer IN
    /\ phase[w] = "customer"
    /\ ~customers[c].is_deleted
    /\ Continue(w, [uow[w] EXCEPT !.credit_limit = customers[c].credit_limit],
                IF uow[w].request.op = "SALE" THEN "balance" ELSE "commit")
    /\ UNCHANGED db

\* create_from_sale: the payments do not exceed the total, and what stays owing
\* fits under the limit together with what the customer owes now.
CheckLimit(w) ==
    LET r == uow[w].request IN
    /\ phase[w] = "balance"
    /\ r.paid <= r.amount
    /\ (r.amount - r.paid) + Owed(r.customer) <= uow[w].credit_limit
    /\ Continue(w, uow[w], "commit")
    /\ UNCHANGED db

\* void_sale reads the sale; its credit row is loaded by a SELECT of its own.
LoadSale(w) ==
    LET s == uow[w].request.sale IN
    /\ phase[w] = "sale"
    /\ s \in DOMAIN sales
    /\ Continue(w, [uow[w] EXCEPT !.status = sales[s].status], "debt")
    /\ UNCHANGED db

\* The credit row is read and checked: by settle, and by void_sale.
LoadCreditSale(w) ==
    LET r   == uow[w].request
        row == creditSales[r.sale] IN
    /\ phase[w] = "debt"
    /\ r.sale \in DOMAIN creditSales
    /\ r.op = "SETTLE" => Payable(row, r.amount)
    /\ r.op = "VOID" => Voidable(uow[w], row)
    /\ Continue(w, [uow[w] EXCEPT !.row = row], "commit")
    /\ UNCHANGED db
-----------------------------------------------------------------------------
\* Commit and rollback

Close(w) == Continue(w, NoSession, "idle")

\* The sale and its credit row are inserted together.
CommitSale(w) ==
    LET r == uow[w].request IN
    /\ AtCommit(w, "SALE")
    /\ sales' = Append(sales, [status |-> "COMPLETED", amount_received |-> r.paid])
    /\ creditSales' = Append(creditSales,
          [customer            |-> r.customer,
           total_amount        |-> r.amount,
           amount_paid         |-> r.paid,
           outstanding_balance |-> r.amount - r.paid,
           status              |-> IF r.amount - r.paid <= 0 THEN "SETTLED" ELSE "OPEN"])
    /\ collected' = Append(collected, 0)
    /\ UNCHANGED customers
    /\ Close(w)

\* The credit row is updated and the credit_payments row inserted.
CommitSettlement(w) ==
    LET r == uow[w].request IN
    /\ AtCommit(w, "SETTLE")
    /\ creditSales' = [creditSales EXCEPT
          ![r.sale] = WriteRow(@, uow[w].row, Pay(uow[w].row, r.amount))]
    /\ collected' = [collected EXCEPT ![r.sale] = Collect(@, r.amount)]
    /\ UNCHANGED <<customers, sales>>
    /\ Close(w)

\* The stock that goes back is in StockSessions; the credit row stays as it is.
CommitVoid(w) ==
    /\ AtCommit(w, "VOID")
    /\ sales' = [sales EXCEPT ![uow[w].request.sale].status = "VOIDED"]
    /\ UNCHANGED <<customers, creditSales, collected>>
    /\ Close(w)

\* update_customer sets a new limit, whatever is owed.
CommitLimit(w) ==
    LET r == uow[w].request IN
    /\ AtCommit(w, "LIMIT")
    /\ customers' = [customers EXCEPT ![r.customer].credit_limit =
                        IF r.amount # uow[w].credit_limit THEN r.amount ELSE @]
    /\ UNCHANGED <<sales, creditSales, collected>>
    /\ Close(w)

\* delete_customer marks the customer deleted, whatever is owed.
CommitDelete(w) ==
    /\ AtCommit(w, "DELETE")
    /\ customers' = [customers EXCEPT ![uow[w].request.customer].is_deleted = TRUE]
    /\ UNCHANGED <<sales, creditSales, collected>>
    /\ Close(w)

\* Any exception rolls the session back.
Rollback(w) ==
    /\ phase[w] # "idle"
    /\ UNCHANGED db
    /\ Close(w)

\* The bound on requests is used up and every request is answered.
Quiet == /\ served = MaxRequests
         /\ \A w \in Workers : phase[w] = "idle"
         /\ UNCHANGED vars

Next == \/ \E w \in Workers :
              \/ Receive(w) \/ LoadCustomer(w) \/ CheckLimit(w)
              \/ LoadSale(w) \/ LoadCreditSale(w)
              \/ CommitSale(w) \/ CommitSettlement(w) \/ CommitVoid(w)
              \/ CommitLimit(w) \/ CommitDelete(w)
              \/ Rollback(w)
        \/ Quiet

Spec == Init /\ [][Next]_vars
=============================================================================
