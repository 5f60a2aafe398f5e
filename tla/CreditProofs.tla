----------------------------- MODULE CreditProofs -----------------------------
(***************************************************************************)
(* However many sessions settle the same debts at the same time, the       *)
(* amounts of a credit row add up to its total and no debt is forgiven     *)
(* that was not paid.                                                      *)
(***************************************************************************)
EXTENDS CreditProperties, SharedLemmas

\* The sessions, as TypeOK has them.
Session == [request : Request, credit_limit : Nat,
            status : {"COMPLETED", "VOIDED"}, row : CreditRow]

\* The session of an idle worker has its type, and so has a new one.
LEMMA NewSessionType ==
    /\ NoSession \in Session
    /\ \A request \in Requests : NewSession(request) \in Session
  <1>1. (CHOOSE c \in Customers : TRUE) \in Customers
    BY CreditAssumption
  <1>2. NoRow \in CreditRow
    BY <1>1 DEF NoRow, CreditRow
  <1>3. \A request \in Request : NewSession(request) \in Session
    BY <1>2 DEF NewSession, Session
  <1>4. [op |-> "VOID", customer |-> CHOOSE c \in Customers : TRUE,
         sale |-> 0, amount |-> 0, paid |-> 0] \in Request
    BY <1>1 DEF Request, Ops
  <1> QED
    BY <1>3, <1>4, CreditAssumption DEF NoSession

\* The invariant holds in the initial state.
LEMMA InitIInv == Init => IInv
  <1> SUFFICES ASSUME Init PROVE IInv
    OBVIOUS
  <1>1. TypeOK
    <2>1. customers \in [Customers -> Customer]
      BY CreditAssumption DEF Init, Customer
    <2>2. uow \in [Workers -> Session]
      BY NewSessionType DEF Init
    <2>3. phase \in [Workers -> Phases] /\ served \in 0 .. MaxRequests
      BY CreditAssumption DEF Init, Phases
    <2>4. /\ sales \in Seq(Sale) /\ creditSales \in Seq(CreditRow)
          /\ collected \in Seq(Nat)
          /\ Len(creditSales) = Len(sales) /\ Len(collected) = Len(sales)
      BY DEF Init
    <2> QED
      BY <2>1, <2>2, <2>3, <2>4 DEF TypeOK, Session
  <1>2. BooksBalance /\ NoDebtForgiven
    BY DEF Init, BooksBalance, NoDebtForgiven
  <1>3. SessionsOK
    BY DEF Init, SessionsOK, SessionOK, AtCommit
  <1> QED
    BY <1>1, <1>2, <1>3 DEF IInv

\* The rows of a sale have their types.
LEMMA RowTypes ==
    ASSUME IInv, NEW s \in DOMAIN creditSales
    PROVE  /\ creditSales[s] \in CreditRow /\ collected[s] \in Nat
           /\ sales[s].amount_received \in Nat
  <1>1. /\ sales \in Seq(Sale) /\ creditSales \in Seq(CreditRow) /\ collected \in Seq(Nat)
        /\ s \in DOMAIN sales /\ s \in DOMAIN collected
    BY DEF IInv, TypeOK
  <1>2. creditSales[s] \in CreditRow /\ collected[s] \in Nat
    BY <1>1, ElementOfSeq
  <1>3. sales[s] \in Sale
    BY <1>1, ElementOfSeq
  <1> QED
    BY <1>2, <1>3 DEF Sale

\* A step that leaves the sales and the credit rows alone, and in which only
\* worker w changes its session, keeps what the other sessions know.
LEMMA SessionStep ==
    ASSUME IInv, NEW w \in Workers, NEW u \in Session, NEW ph \in Phases,
           customers' \in [Customers -> Customer],
           UNCHANGED <<sales, creditSales, collected>>,
           uow' = [uow EXCEPT ![w] = u], phase' = [phase EXCEPT ![w] = ph],
           served' \in 0 .. MaxRequests,
           SessionOK(w)'
    PROVE  IInv'
  <1>1. TypeOK'
    BY DEF IInv, TypeOK, Session
  <1>2. BooksBalance' /\ NoDebtForgiven'
    BY DEF IInv, BooksBalance, NoDebtForgiven
  <1>3. SessionsOK'
    <2> SUFFICES ASSUME NEW v \in Workers PROVE SessionOK(v)'
      BY DEF SessionsOK
    <2>1. CASE v = w
      BY <2>1
    <2>2. CASE v # w
      <3>1. uow'[v] = uow[v] /\ phase'[v] = phase[v]
        BY <2>2 DEF IInv, TypeOK
      <3> QED
        BY <3>1 DEF IInv, SessionsOK, SessionOK, AtCommit, SettlementOK
    <2> QED
      BY <2>1, <2>2
  <1> QED
    BY <1>1, <1>2, <1>3 DEF IInv

\* A worker that goes back to idle knows nothing.
LEMMA ClosingStep ==
    ASSUME IInv, NEW w \in Workers, Close(w),
           customers' \in [Customers -> Customer],
           UNCHANGED <<sales, creditSales, collected>>
    PROVE  IInv'
  <1>1. /\ uow' = [uow EXCEPT ![w] = NoSession] /\ phase' = [phase EXCEPT ![w] = "idle"]
        /\ served' = served /\ phase'[w] = "idle"
    BY DEF Close, Continue, IInv, TypeOK
  <1>2. "idle" \in Phases /\ served \in 0 .. MaxRequests
    BY DEF Phases, IInv, TypeOK
  <1>3. SessionOK(w)'
    BY <1>1 DEF SessionOK, AtCommit
  <1> QED
    BY <1>1, <1>2, <1>3, NewSessionType, SessionStep
-----------------------------------------------------------------------------
\* A sale brings a row that balances; a worker that has read another row still
\* knows the same of it.
LEMMA CommitSaleStep ==
    ASSUME IInv, NEW w \in Workers, CommitSale(w)
    PROVE  IInv'
  <1> DEFINE r    == uow[w].request
             sale == [status |-> "COMPLETED", amount_received |-> r.paid]
             row  == [customer            |-> r.customer,
                      total_amount        |-> r.amount,
                      amount_paid         |-> r.paid,
                      outstanding_balance |-> r.amount - r.paid,
                      status              |-> IF r.amount - r.paid <= 0 THEN "SETTLED"
                                                                        ELSE "OPEN"]
  <1>1. /\ r \in Request /\ r.paid <= r.amount
        /\ r.amount \in Nat /\ r.paid \in Nat /\ r.amount - r.paid \in Nat
    BY DEF CommitSale, IInv, SessionsOK, SessionOK, TypeOK, Request
  <1>2. sale \in Sale /\ row \in CreditRow
    BY <1>1 DEF Sale, CreditRow, Request
  <1>3. /\ sales' = Append(sales, sale) /\ creditSales' = Append(creditSales, row)
        /\ collected' = Append(collected, 0)
        /\ UNCHANGED customers
        /\ uow' = [uow EXCEPT ![w] = NoSession]
        /\ phase' = [phase EXCEPT ![w] = "idle"] /\ served' = served
    BY DEF CommitSale, Close, Continue
  <1>4. /\ row.amount_paid = r.paid /\ row.total_amount = r.amount
        /\ row.outstanding_balance = r.amount - r.paid /\ sale.amount_received = r.paid
    OBVIOUS
  <1> HIDE DEF sale, row
  <1>5. /\ sales \in Seq(Sale) /\ creditSales \in Seq(CreditRow) /\ collected \in Seq(Nat)
        /\ Len(creditSales) = Len(sales) /\ Len(collected) = Len(sales)
    BY DEF IInv, TypeOK
  <1>6. /\ DOMAIN creditSales = 1 .. Len(sales) /\ DOMAIN sales = 1 .. Len(sales)
        /\ DOMAIN creditSales' = 1 .. Len(sales) + 1 /\ DOMAIN sales' = 1 .. Len(sales) + 1
        /\ Len(sales) \in Nat
    BY <1>2, <1>3, <1>5
  <1>7. \A s \in 1 .. Len(sales) : /\ creditSales'[s] = creditSales[s]
                                    /\ sales'[s] = sales[s]
                                    /\ collected'[s] = collected[s]
    BY <1>2, <1>3, <1>5
  <1>8. /\ creditSales'[Len(sales) + 1] = row /\ sales'[Len(sales) + 1] = sale
        /\ collected'[Len(sales) + 1] = 0
    BY <1>2, <1>3, <1>5
  <1>9. TypeOK'
    <2>1. /\ sales' \in Seq(Sale) /\ creditSales' \in Seq(CreditRow) /\ collected' \in Seq(Nat)
          /\ Len(creditSales') = Len(sales') /\ Len(collected') = Len(sales')
      BY <1>2, <1>3, <1>5
    <2>2. uow' \in [Workers -> Session] /\ phase' \in [Workers -> Phases]
      BY <1>3, NewSessionType DEF IInv, TypeOK, Session, Phases
    <2> QED
      BY <1>3, <2>1, <2>2 DEF IInv, TypeOK, Session
  <1>10. BooksBalance' /\ NoDebtForgiven'
    <2>1. r.paid + (r.amount - r.paid) = r.amount /\ r.paid <= r.paid + 0
      BY <1>1
    <2>2. BooksBalance'
      BY <1>4, <1>6, <1>7, <1>8, <2>1 DEF BooksBalance, IInv
    <2>3. NoDebtForgiven'
      BY <1>4, <1>6, <1>7, <1>8, <2>1 DEF NoDebtForgiven, IInv
    <2> QED
      BY <2>2, <2>3
  <1>11. SessionsOK'
    <2> SUFFICES ASSUME NEW v \in Workers PROVE SessionOK(v)'
      BY DEF SessionsOK
    <2>1. CASE v = w
      BY <1>3, <2>1 DEF SessionOK, AtCommit, IInv, TypeOK
    <2>2. CASE v # w
      <3>1. uow'[v] = uow[v] /\ phase'[v] = phase[v]
        BY <1>3, <2>2 DEF IInv, TypeOK
      <3> QED
        BY <1>6, <1>7, <3>1 DEF IInv, SessionsOK, SessionOK, AtCommit, SettlementOK
    <2> QED
      BY <2>1, <2>2
  <1> QED
    BY <1>9, <1>10, <1>11 DEF IInv

\* A settlement writes the amounts of its copy: they balance, whatever the row was
\* meanwhile, and what they say was paid is no more than what was received before
\* it and what it adds.
LEMMA CommitSettlementStep ==
    ASSUME IInv, NEW w \in Workers, CommitSettlement(w)
    PROVE  IInv'
  <1> DEFINE r   == uow[w].request
             old == uow[w].row
             new == WriteRow(creditSales[r.sale], old, Pay(old, r.amount))
  <1>1. /\ creditSales' = [creditSales EXCEPT ![r.sale] = new]
        /\ collected' = [collected EXCEPT ![r.sale] = @ + r.amount]
        /\ UNCHANGED <<customers, sales>>
        /\ uow' = [uow EXCEPT ![w] = NoSession]
        /\ phase' = [phase EXCEPT ![w] = "idle"] /\ served' = served
    BY DEF CommitSettlement, Close, Continue, Collect
  <1>2. SettlementOK(w)
    BY DEF CommitSettlement, IInv, SessionsOK, SessionOK
  <1>3. /\ r.amount \in Nat /\ old \in CreditRow /\ r.sale \in DOMAIN creditSales
    BY <1>2 DEF IInv, TypeOK, Request, SettlementOK
  <1>4. /\ sales \in Seq(Sale) /\ creditSales \in Seq(CreditRow) /\ collected \in Seq(Nat)
        /\ Len(creditSales) = Len(sales) /\ Len(collected) = Len(sales)
        /\ Len(sales) \in Nat
        /\ DOMAIN creditSales = 1 .. Len(sales) /\ DOMAIN sales = 1 .. Len(sales)
        /\ DOMAIN collected = 1 .. Len(sales)
    BY DEF IInv, TypeOK
  <1>5. creditSales[r.sale] \in CreditRow /\ collected[r.sale] \in Nat
    BY <1>3, RowTypes
  <1>6. /\ old.amount_paid \in Nat /\ old.outstanding_balance \in Nat
        /\ old.total_amount \in Nat
        /\ r.amount <= old.outstanding_balance
        /\ old.amount_paid + old.outstanding_balance = old.total_amount
        /\ old.total_amount = creditSales[r.sale].total_amount
        /\ old.amount_paid <= sales[r.sale].amount_received + collected[r.sale]
    BY <1>2, <1>3 DEF SettlementOK, CreditRow
  <1>7. /\ new.amount_paid = old.amount_paid + r.amount
        /\ new.outstanding_balance = old.outstanding_balance - r.amount
        /\ new.total_amount = creditSales[r.sale].total_amount
    BY <1>3, <1>5 DEF WriteRow, Pay, CreditRow
  <1>8. new \in CreditRow
    <2>1. AfterPayment(old.outstanding_balance - r.amount) \in {"PARTIAL", "SETTLED"}
      BY DEF AfterPayment
    <2>2. old.amount_paid + r.amount \in Nat /\ old.outstanding_balance - r.amount \in Nat
      BY <1>3, <1>6
    <2>3. new.status \in {"OPEN", "PARTIAL", "SETTLED"}
      BY <1>3, <1>5, <2>1 DEF WriteRow, Pay, CreditRow
    <2>4. new = [creditSales[r.sale] EXCEPT !.amount_paid = new.amount_paid,
                                            !.outstanding_balance = new.outstanding_balance,
                                            !.status = new.status]
      BY <1>3, <1>5 DEF WriteRow, Pay, CreditRow
    <2> HIDE DEF new
    <2> QED
      BY <1>5, <1>7, <2>2, <2>3, <2>4 DEF CreditRow
  <1> HIDE DEF new
  <1>9. /\ creditSales' \in Seq(CreditRow) /\ collected' \in Seq(Nat)
        /\ Len(creditSales') = Len(sales) /\ Len(collected') = Len(sales)
        /\ DOMAIN creditSales' = 1 .. Len(sales)
    <2>1. collected[r.sale] + r.amount \in Nat
      BY <1>3, <1>5
    <2> QED
      BY <1>1, <1>3, <1>4, <1>8, <2>1
  <1>10. /\ creditSales'[r.sale] = new /\ collected'[r.sale] = collected[r.sale] + r.amount
         /\ \A s \in 1 .. Len(sales) : s # r.sale =>
                creditSales'[s] = creditSales[s] /\ collected'[s] = collected[s]
    BY <1>1, <1>3, <1>4
  <1>11. TypeOK'
    <2>1. uow' \in [Workers -> Session] /\ phase' \in [Workers -> Phases]
      BY <1>1, NewSessionType DEF IInv, TypeOK, Session, Phases
    <2> QED
      BY <1>1, <1>9, <2>1 DEF IInv, TypeOK, Session
  <1>12. BooksBalance'
    <2>1. new.amount_paid + new.outstanding_balance = new.total_amount
      BY <1>3, <1>6, <1>7
    <2> QED
      BY <1>4, <1>9, <1>10, <2>1 DEF BooksBalance, IInv
  <1>13. sales[r.sale].amount_received \in Nat
    BY <1>3, RowTypes
  <1>14. NoDebtForgiven'
    <2>1. new.amount_paid <= sales[r.sale].amount_received + (collected[r.sale] + r.amount)
      BY <1>3, <1>5, <1>6, <1>7, <1>13
    <2> QED
      BY <1>1, <1>4, <1>9, <1>10, <2>1 DEF NoDebtForgiven, IInv
  <1>15. SessionsOK'
    <2> SUFFICES ASSUME NEW v \in Workers PROVE SessionOK(v)'
      BY DEF SessionsOK
    <2>1. CASE v = w
      BY <1>1, <2>1 DEF SessionOK, AtCommit, IInv, TypeOK
    <2>2. CASE v # w
      <3>1. uow'[v] = uow[v] /\ phase'[v] = phase[v]
        BY <1>1, <2>2 DEF IInv, TypeOK
      <3>2. ASSUME AtCommit(v, "SETTLE") PROVE SettlementOK(v)'
        <4> DEFINE s == uow[v].request.sale
        <4>1. SettlementOK(v)
          BY <3>2 DEF IInv, SessionsOK, SessionOK
        <4>2. uow[v].row.amount_paid \in Nat /\ s \in 1 .. Len(sales)
          BY <1>4, <4>1 DEF IInv, TypeOK, CreditRow, SettlementOK
        <4>3. creditSales'[s].total_amount = creditSales[s].total_amount
          BY <1>7, <1>10, <4>2
        <4>4. /\ collected[s] \in Nat /\ sales[s].amount_received \in Nat
              /\ collected'[s] \in Nat /\ collected'[s] >= collected[s]
          <5>1. collected[s] \in Nat /\ sales[s].amount_received \in Nat
            BY <1>4, <4>2, RowTypes
          <5>2. CASE s = r.sale
            BY <1>3, <1>10, <5>1, <5>2
          <5>3. CASE s # r.sale
            BY <1>10, <4>2, <5>1, <5>3
          <5> QED
            BY <5>1, <5>2, <5>3
        <4>5. uow[v].row.amount_paid <= sales'[s].amount_received + collected'[s]
          BY <1>1, <4>1, <4>2, <4>4 DEF SettlementOK
        <4> QED
          BY <1>9, <3>1, <4>1, <4>2, <4>3, <4>5 DEF SettlementOK
      <3> QED
        BY <1>1, <3>1, <3>2 DEF IInv, SessionsOK, SessionOK, AtCommit
    <2> QED
      BY <2>1, <2>2
  <1> QED
    BY <1>11, <1>12, <1>14, <1>15 DEF IInv

\* A void changes the status of a sale and nothing that sessions rely on.
LEMMA CommitVoidStep ==
    ASSUME IInv, NEW w \in Workers, CommitVoid(w)
    PROVE  IInv'
  <1> DEFINE s == uow[w].request.sale
  <1>1. /\ sales' = [sales EXCEPT ![s].status = "VOIDED"]
        /\ UNCHANGED <<customers, creditSales, collected>>
        /\ uow' = [uow EXCEPT ![w] = NoSession]
        /\ phase' = [phase EXCEPT ![w] = "idle"] /\ served' = served
    BY DEF CommitVoid, Close, Continue
  <1>2. sales \in Seq(Sale) /\ s \in DOMAIN sales
    BY DEF CommitVoid, IInv, SessionsOK, SessionOK, TypeOK
  <1>3. [sales[s] EXCEPT !.status = "VOIDED"] \in Sale
    <2>1. sales[s] \in Sale
      BY <1>2, ElementOfSeq
    <2> QED
      BY <2>1 DEF Sale
  <1>4. /\ sales' \in Seq(Sale) /\ Len(sales') = Len(sales) /\ DOMAIN sales' = DOMAIN sales
    BY <1>1, <1>2, <1>3
  <1>5. \A k \in DOMAIN sales : sales'[k].amount_received = sales[k].amount_received
    BY <1>1, <1>2 DEF Sale
  <1>6. TypeOK'
    <2>1. uow' \in [Workers -> Session] /\ phase' \in [Workers -> Phases]
      BY <1>1, NewSessionType DEF IInv, TypeOK, Session, Phases
    <2> QED
      BY <1>1, <1>4, <2>1 DEF IInv, TypeOK, Session
  <1>7. DOMAIN creditSales = DOMAIN sales
    BY DEF IInv, TypeOK
  <1>8. BooksBalance' /\ NoDebtForgiven'
    BY <1>1, <1>5, <1>7 DEF IInv, BooksBalance, NoDebtForgiven
  <1>9. SessionsOK'
    <2> SUFFICES ASSUME NEW v \in Workers PROVE SessionOK(v)'
      BY DEF SessionsOK
    <2>1. CASE v = w
      BY <1>1, <2>1 DEF SessionOK, AtCommit, IInv, TypeOK
    <2>2. CASE v # w
      <3>1. uow'[v] = uow[v] /\ phase'[v] = phase[v]
        BY <1>1, <2>2 DEF IInv, TypeOK
      <3> QED
        BY <1>1, <1>4, <1>5, <1>7, <3>1 DEF IInv, SessionsOK, SessionOK, AtCommit, SettlementOK
    <2> QED
      BY <2>1, <2>2
  <1> QED
    BY <1>6, <1>8, <1>9 DEF IInv
-----------------------------------------------------------------------------
\* The steps that only read or change customers.
LEMMA ReceiveStep ==
    ASSUME IInv, NEW w \in Workers, Receive(w)
    PROVE  IInv'
  <1>1. PICK request \in Requests :
            /\ uow' = [uow EXCEPT ![w] = NewSession(request)]
            /\ phase' = [phase EXCEPT ![w] = FirstRead(request.op)]
    BY DEF Receive
  <1>2. /\ NewSession(request) \in Session /\ NewSession(request).request = request
        /\ request.op \in Ops
    BY NewSessionType, CreditAssumption DEF NewSession, Request
  <1>3. /\ FirstRead(request.op) \in Phases \ {"commit"}
        /\ FirstRead(request.op) = "customer" => request.op \in {"SALE", "LIMIT", "DELETE"}
        /\ FirstRead(request.op) = "sale" => request.op = "VOID"
        /\ FirstRead(request.op) = "debt" => request.op = "SETTLE"
        /\ FirstRead(request.op) # "balance"
    BY <1>2 DEF FirstRead, Phases, Ops
  <1>4. uow'[w].request = request /\ phase'[w] = FirstRead(request.op)
    BY <1>1, <1>2 DEF IInv, TypeOK
  <1>5. SessionOK(w)'
    BY <1>3, <1>4 DEF SessionOK, AtCommit
  <1>6. /\ served' \in 0 .. MaxRequests
        /\ customers' \in [Customers -> Customer]
        /\ UNCHANGED <<sales, creditSales, collected>>
    BY CreditAssumption DEF Receive, db, IInv, TypeOK
  <1> QED
    BY <1>1, <1>2, <1>3, <1>5, <1>6, SessionStep

\* A session reads the limit of its customer.
LEMMA LoadCustomerStep ==
    ASSUME IInv, NEW w \in Workers, LoadCustomer(w)
    PROVE  IInv'
  <1> DEFINE c  == uow[w].request.customer
             u  == [uow[w] EXCEPT !.credit_limit = customers[c].credit_limit]
             ph == IF uow[w].request.op = "SALE" THEN "balance" ELSE "commit"
  <1>1. uow' = [uow EXCEPT ![w] = u] /\ phase' = [phase EXCEPT ![w] = ph] /\ served' = served
    BY DEF LoadCustomer, Continue
  <1>2. customers' \in [Customers -> Customer] /\ UNCHANGED <<sales, creditSales, collected>>
    BY DEF LoadCustomer, db, IInv, TypeOK
  <1>3. uow[w] \in Session /\ customers[c].credit_limit \in Nat
    BY DEF IInv, TypeOK, Session, Request, Customer
  <1>4. u \in Session /\ u.request = uow[w].request
    BY <1>3 DEF Session
  <1>5. ph \in Phases /\ served' \in 0 .. MaxRequests
    BY <1>1 DEF IInv, TypeOK, Phases
  <1>6. uow'[w].request = uow[w].request /\ phase'[w] = ph
    BY <1>1, <1>4 DEF IInv, TypeOK
  <1>7. uow[w].request.op \in {"SALE", "LIMIT", "DELETE"}
    BY DEF LoadCustomer, IInv, SessionsOK, SessionOK
  <1>8. SessionOK(w)'
    BY <1>6, <1>7 DEF SessionOK, AtCommit
  <1> HIDE DEF u, ph
  <1> QED
    BY <1>1, <1>2, <1>4, <1>5, <1>8, SessionStep

\* A sale that the limit admits goes on to its commit.
LEMMA CheckLimitStep ==
    ASSUME IInv, NEW w \in Workers, CheckLimit(w)
    PROVE  IInv'
  <1>1. /\ uow' = [uow EXCEPT ![w] = uow[w]] /\ phase' = [phase EXCEPT ![w] = "commit"]
        /\ served' = served
    BY DEF CheckLimit, Continue
  <1>2. customers' \in [Customers -> Customer] /\ UNCHANGED <<sales, creditSales, collected>>
    BY DEF CheckLimit, db, IInv, TypeOK
  <1>3. uow[w] \in Session /\ "commit" \in Phases /\ served' \in 0 .. MaxRequests
    BY <1>1 DEF IInv, TypeOK, Session, Phases
  <1>4. uow'[w] = uow[w] /\ phase'[w] = "commit"
    BY <1>1 DEF IInv, TypeOK
  <1>5. uow[w].request.op = "SALE" /\ uow[w].request.paid <= uow[w].request.amount
    BY DEF CheckLimit, IInv, SessionsOK, SessionOK
  <1>6. SessionOK(w)'
    BY <1>4, <1>5 DEF SessionOK, AtCommit
  <1> QED
    BY <1>1, <1>2, <1>3, <1>6, SessionStep

\* A void or a payment reads the sale it is about.
LEMMA LoadSaleStep ==
    ASSUME IInv, NEW w \in Workers, LoadSale(w)
    PROVE  IInv'
  <1> DEFINE u == [uow[w] EXCEPT !.status = sales[uow[w].request.sale].status]
  <1>1. uow' = [uow EXCEPT ![w] = u] /\ phase' = [phase EXCEPT ![w] = "debt"] /\ served' = served
    BY DEF LoadSale, Continue
  <1>2. customers' \in [Customers -> Customer] /\ UNCHANGED <<sales, creditSales, collected>>
    BY DEF LoadSale, db, IInv, TypeOK
  <1>3. uow[w] \in Session /\ sales[uow[w].request.sale] \in Sale
    BY ElementOfSeq DEF LoadSale, IInv, TypeOK, Session
  <1>4. u \in Session /\ u.request = uow[w].request
    BY <1>3 DEF Session, Sale
  <1>5. "debt" \in Phases /\ served' \in 0 .. MaxRequests
    BY <1>1 DEF IInv, TypeOK, Phases
  <1>6. uow'[w].request = uow[w].request /\ phase'[w] = "debt"
    BY <1>1, <1>4 DEF IInv, TypeOK
  <1>7. uow[w].request.op = "VOID"
    BY DEF LoadSale, IInv, SessionsOK, SessionOK
  <1>8. SessionOK(w)'
    BY <1>6, <1>7 DEF SessionOK, AtCommit
  <1> HIDE DEF u
  <1> QED
    BY <1>1, <1>2, <1>4, <1>5, <1>8, SessionStep

\* The copy of a credit row is, when it is read, the row itself.
LEMMA LoadCreditSaleStep ==
    ASSUME IInv, NEW w \in Workers, LoadCreditSale(w)
    PROVE  IInv'
  <1> DEFINE s == uow[w].request.sale
             u == [uow[w] EXCEPT !.row = creditSales[s]]
  <1>1. /\ uow' = [uow EXCEPT ![w] = u] /\ phase' = [phase EXCEPT ![w] = "commit"]
        /\ served' = served
    BY DEF LoadCreditSale, Continue
  <1>2. /\ customers' \in [Customers -> Customer]
        /\ UNCHANGED <<sales, creditSales, collected>>
        /\ s \in DOMAIN creditSales /\ DOMAIN creditSales = DOMAIN sales
    BY DEF LoadCreditSale, db, IInv, TypeOK
  <1>3. uow[w] \in Session /\ creditSales[s] \in CreditRow
    BY <1>2, RowTypes DEF IInv, TypeOK, Session
  <1>4. u \in Session /\ u.request = uow[w].request /\ u.row = creditSales[s]
    BY <1>3 DEF Session
  <1>5. "commit" \in Phases /\ served' \in 0 .. MaxRequests
    BY <1>1 DEF IInv, TypeOK, Phases
  <1>6. /\ uow'[w].request = uow[w].request /\ uow'[w].row = creditSales[s]
        /\ phase'[w] = "commit"
    BY <1>1, <1>4 DEF IInv, TypeOK
  <1>7. uow[w].request.op \in {"SETTLE", "VOID"}
    BY DEF LoadCreditSale, IInv, SessionsOK, SessionOK
  <1>8. ASSUME uow[w].request.op = "SETTLE" PROVE SettlementOK(w)'
    <2>1. uow[w].request.amount <= creditSales[s].outstanding_balance
      BY <1>8 DEF LoadCreditSale, Payable
    <2>2. /\ creditSales[s].amount_paid + creditSales[s].outstanding_balance
                 = creditSales[s].total_amount
          /\ creditSales[s].amount_paid <= sales[s].amount_received + collected[s]
      BY <1>2 DEF IInv, BooksBalance, NoDebtForgiven
    <2> QED
      BY <1>2, <1>6, <2>1, <2>2 DEF SettlementOK
  <1>9. SessionOK(w)'
    BY <1>2, <1>6, <1>7, <1>8 DEF SessionOK, AtCommit
  <1> HIDE DEF u
  <1> QED
    BY <1>1, <1>2, <1>4, <1>5, <1>9, SessionStep

\* A new limit is stored, or the customer marked deleted.
LEMMA CommitCustomerStep ==
    ASSUME IInv, NEW w \in Workers, CommitLimit(w) \/ CommitDelete(w)
    PROVE  IInv'
  <1> DEFINE c == uow[w].request.customer
  <1>1. /\ uow[w].request.amount \in Nat /\ c \in Customers
        /\ customers \in [Customers -> Customer]
    BY DEF IInv, TypeOK, Request
  <1>2. customers' \in [Customers -> Customer]
    <2>1. CASE CommitLimit(w)
      <3>1. customers[c] \in Customer
        BY <1>1
      <3>2. \A limit \in Nat : [customers[c] EXCEPT !.credit_limit = limit] \in Customer
        BY <3>1 DEF Customer
      <3>3. PICK limit \in Nat : customers' = [customers EXCEPT ![c].credit_limit = limit]
        BY <1>1, <2>1, <3>1 DEF CommitLimit, Customer
      <3> QED
        BY <1>1, <3>2, <3>3
    <2>2. CASE CommitDelete(w)
      <3>1. [customers[c] EXCEPT !.is_deleted = TRUE] \in Customer
        BY <1>1 DEF Customer
      <3> QED
        BY <1>1, <2>2, <3>1 DEF CommitDelete
    <2> QED
      BY <2>1, <2>2
  <1> QED
    BY <1>2, ClosingStep DEF CommitLimit, CommitDelete
-----------------------------------------------------------------------------
\* Every step keeps the invariant.
LEMMA NextIInv == IInv /\ [Next]_vars => IInv'
  <1> SUFFICES ASSUME IInv, [Next]_vars PROVE IInv'
    OBVIOUS
  <1>1. ASSUME NEW w \in Workers, Rollback(w) PROVE IInv'
    BY <1>1, ClosingStep DEF Rollback, db, IInv, TypeOK
  <1>2. CASE UNCHANGED vars
    BY <1>2 DEF vars, IInv, TypeOK, BooksBalance, NoDebtForgiven, SessionsOK, SessionOK,
                SettlementOK, AtCommit
  <1>3. CASE Quiet
    BY <1>2, <1>3 DEF Quiet
  <1> QED
    BY <1>1, <1>2, <1>3, ReceiveStep, LoadCustomerStep, CheckLimitStep, LoadSaleStep,
       LoadCreditSaleStep, CommitSaleStep, CommitSettlementStep, CommitVoidStep,
       CommitCustomerStep DEF Next

\* The invariant holds however sessions interleave (IInv).
THEOREM CreditInvariantHolds == Spec => []IInv
  BY InitIInv, NextIInv, PTL DEF Spec

\* The amounts of every credit row add up to its total, also when settlements of
\* one debt overwrite each other (BooksBalance).
THEOREM BooksAlwaysBalance == Spec => []BooksBalance
  <1>1. IInv => BooksBalance
    BY DEF IInv
  <1> QED
    BY <1>1, CreditInvariantHolds, PTL

\* No interleaving reduces a debt by more than was received (NoDebtForgiven).
THEOREM DebtIsNeverForgiven == Spec => []NoDebtForgiven
  <1>1. IInv => NoDebtForgiven
    BY DEF IInv
  <1> QED
    BY <1>1, CreditInvariantHolds, PTL

-----------------------------------------------------------------------------
\* Requests served one at a time

OneWorker == \A v, w \in Workers : v = w

\* A step of the only worker that leaves the sales and the credit rows alone.
LEMMA SerialSessionStep ==
    ASSUME SerialInv, OneWorker, NEW w \in Workers,
           UNCHANGED <<sales, creditSales, collected>>, SerialSessionOK(w)'
    PROVE  SerialInv'
  <1>1. \A v \in Workers : SerialSessionOK(v)'
    BY DEF OneWorker
  <1> QED
    BY <1>1 DEF SerialInv, PaymentsAddUp, StatusFollowsBalance, VoidedOwesNothing

\* A worker that goes back to idle knows nothing.
LEMMA ClosedSession ==
    ASSUME IInv, NEW w \in Workers, Close(w)
    PROVE  SerialSessionOK(w)'
  <1>1. uow'[w] = NoSession /\ phase'[w] = "idle"
    BY DEF Close, Continue, IInv, TypeOK
  <1>2. NoSession.request.op = "VOID"
    BY DEF NoSession, NewSession
  <1> QED
    BY <1>1, <1>2 DEF SerialSessionOK, AtCommit

\* The steps before a commit: a session knows of its row what it has just read.
LEMMA SerialReads ==
    ASSUME IInv, SerialInv, OneWorker, NEW w \in Workers,
           Receive(w) \/ LoadCustomer(w) \/ CheckLimit(w) \/ LoadSale(w) \/ LoadCreditSale(w)
    PROVE  SerialInv'
  <1>0. /\ uow \in [Workers -> Session] /\ phase \in [Workers -> Phases]
        /\ uow[w] \in Session /\ SerialSessionOK(w)
    BY DEF IInv, TypeOK, Session, SerialInv
  <1>1. UNCHANGED <<sales, creditSales, collected>>
    BY DEF Receive, LoadCustomer, CheckLimit, LoadSale, LoadCreditSale, db
  <1>2. CASE Receive(w)
    <2>1. PICK request \in Requests :
              /\ uow' = [uow EXCEPT ![w] = NewSession(request)]
              /\ phase' = [phase EXCEPT ![w] = FirstRead(request.op)]
      BY <1>2 DEF Receive
    <2>2. /\ uow'[w].request = request /\ phase'[w] = FirstRead(request.op)
      BY <1>0, <2>1 DEF NewSession
    <2>3. /\ FirstRead(request.op) # "commit"
          /\ request.op = "SETTLE" => request.amount > 0
      BY CreditAssumption DEF FirstRead, Accepted
    <2>4. SerialSessionOK(w)'
      BY <2>2, <2>3 DEF SerialSessionOK, AtCommit
    <2> QED
      BY <1>1, <2>4, SerialSessionStep
  <1>3. CASE LoadCustomer(w)
    <2>1. /\ uow'[w].request = uow[w].request
          /\ phase'[w] \in {"balance", "commit"}
      BY <1>0, <1>3 DEF LoadCustomer, Continue, Session
    <2>2. uow[w].request.op \in {"SALE", "LIMIT", "DELETE"}
      BY <1>3 DEF LoadCustomer, IInv, SessionsOK, SessionOK
    <2>3. SerialSessionOK(w)'
      BY <2>1, <2>2 DEF SerialSessionOK, AtCommit
    <2> QED
      BY <1>1, <2>3, SerialSessionStep
  <1>4. CASE CheckLimit(w)
    <2>1. uow'[w] = uow[w]
      BY <1>0, <1>4 DEF CheckLimit, Continue
    <2>2. uow[w].request.op = "SALE"
      BY <1>4 DEF CheckLimit, IInv, SessionsOK, SessionOK
    <2>3. SerialSessionOK(w)'
      BY <2>1, <2>2 DEF SerialSessionOK, AtCommit
    <2> QED
      BY <1>1, <2>3, SerialSessionStep
  <1>5. CASE LoadSale(w)
    <2>1. uow'[w].request = uow[w].request /\ phase'[w] = "debt"
      BY <1>0, <1>5 DEF LoadSale, Continue, Session
    <2>2. SerialSessionOK(w)'
      BY <1>0, <2>1 DEF SerialSessionOK, AtCommit
    <2> QED
      BY <1>1, <2>2, SerialSessionStep
  <1>6. CASE LoadCreditSale(w)
    <2> DEFINE r == uow[w].request
    <2>1. /\ uow'[w].request = r /\ uow'[w].row = creditSales[r.sale]
          /\ phase'[w] = "commit"
      BY <1>0, <1>6 DEF LoadCreditSale, Continue, Session
    <2>2. /\ r.op = "SETTLE" => Payable(creditSales[r.sale], r.amount)
          /\ r.op = "VOID" => creditSales[r.sale].outstanding_balance = 0
      BY <1>6 DEF LoadCreditSale, Voidable
    <2>3. SerialSessionOK(w)'
      BY <1>0, <1>1, <2>1, <2>2 DEF SerialSessionOK, AtCommit, Payable
    <2> QED
      BY <1>1, <2>3, SerialSessionStep
  <1> QED
    BY <1>2, <1>3, <1>4, <1>5, <1>6

\* A sale brings a row whose status fits its balance.
LEMMA SerialSale ==
    ASSUME IInv, SerialInv, OneWorker, NEW w \in Workers, CommitSale(w)
    PROVE  SerialInv'
  <1> DEFINE r    == uow[w].request
             sale == [status |-> "COMPLETED", amount_received |-> r.paid]
             row  == [customer            |-> r.customer,
                      total_amount        |-> r.amount,
                      amount_paid         |-> r.paid,
                      outstanding_balance |-> r.amount - r.paid,
                      status              |-> IF r.amount - r.paid <= 0 THEN "SETTLED"
                                                                        ELSE "OPEN"]
             n    == Len(sales) + 1
  <1>1. r.amount \in Nat /\ r.paid \in Nat /\ r.amount - r.paid \in Nat /\ r.customer \in Customers
    BY DEF CommitSale, IInv, SessionsOK, SessionOK, TypeOK, Request
  <1>2. sale \in Sale /\ row \in CreditRow
    BY <1>1 DEF Sale, CreditRow
  <1>3. /\ sales' = Append(sales, sale) /\ creditSales' = Append(creditSales, row)
        /\ collected' = Append(collected, 0) /\ Close(w)
    BY DEF CommitSale
  <1>4. /\ row.amount_paid = r.paid /\ row.outstanding_balance = r.amount - r.paid
        /\ row.status = IF row.outstanding_balance = 0 THEN "SETTLED" ELSE "OPEN"
        /\ sale.amount_received = r.paid /\ sale.status = "COMPLETED"
    BY <1>1
  <1> HIDE DEF sale, row
  <1>5. /\ sales \in Seq(Sale) /\ creditSales \in Seq(CreditRow) /\ collected \in Seq(Nat)
        /\ Len(creditSales) = Len(sales) /\ Len(collected) = Len(sales)
        /\ Len(sales) \in Nat
    BY DEF IInv, TypeOK
  <1>6. /\ DOMAIN creditSales = 1 .. Len(sales) /\ DOMAIN sales = 1 .. Len(sales)
        /\ DOMAIN creditSales' = 1 .. n /\ DOMAIN sales' = 1 .. n
    BY <1>2, <1>3, <1>5
  <1>7. \A s \in 1 .. Len(sales) : /\ creditSales'[s] = creditSales[s]
                                    /\ sales'[s] = sales[s]
                                    /\ collected'[s] = collected[s]
    BY <1>2, <1>3, <1>5
  <1>8. creditSales'[n] = row /\ sales'[n] = sale /\ collected'[n] = 0
    BY <1>2, <1>3, <1>5
  <1>9. \A s \in 1 .. n : s \in 1 .. Len(sales) \/ s = n
    BY <1>5
  <1> HIDE DEF n
  <1>10. PaymentsAddUp'
    BY <1>1, <1>4, <1>6, <1>7, <1>8, <1>9 DEF PaymentsAddUp, SerialInv
  <1>11. StatusFollowsBalance'
    BY <1>4, <1>6, <1>7, <1>8, <1>9 DEF StatusFollowsBalance, SerialInv
  <1>12. VoidedOwesNothing'
    BY <1>4, <1>6, <1>7, <1>8, <1>9 DEF VoidedOwesNothing, SerialInv
  <1>13. \A v \in Workers : SerialSessionOK(v)'
    BY <1>3, ClosedSession DEF OneWorker
  <1> QED
    BY <1>10, <1>11, <1>12, <1>13 DEF SerialInv

\* A settlement of the row as it is: the status follows, and a sale that was voided
\* takes none, for its row is settled.
LEMMA SerialSettlement ==
    ASSUME IInv, SerialInv, OneWorker, NEW w \in Workers, CommitSettlement(w)
    PROVE  SerialInv'
  <1> DEFINE r   == uow[w].request
             old == creditSales[r.sale]
             new == WriteRow(old, old, Pay(old, r.amount))
  <1>1. SettlementOK(w) /\ SerialSessionOK(w) /\ AtCommit(w, "SETTLE")
    BY DEF CommitSettlement, IInv, SessionsOK, SessionOK, SerialInv
  <1>2. /\ uow[w].row = old /\ Payable(old, r.amount)
        /\ r.amount \in Nat /\ r.amount > 0 /\ r.sale \in DOMAIN creditSales
    BY <1>1 DEF SerialSessionOK, SettlementOK, AtCommit, IInv, TypeOK, Request
  <1>3. /\ creditSales' = [creditSales EXCEPT ![r.sale] = new]
        /\ collected' = [collected EXCEPT ![r.sale] = @ + r.amount]
        /\ UNCHANGED sales /\ Close(w)
    BY <1>2 DEF CommitSettlement, Collect
  <1>4. /\ old \in CreditRow /\ collected[r.sale] \in Nat
        /\ sales[r.sale].amount_received \in Nat
    BY <1>2, RowTypes
  <1>5. old.amount_paid \in Nat /\ old.outstanding_balance \in Nat
    BY <1>4 DEF CreditRow
  <1>6. /\ new.amount_paid = old.amount_paid + r.amount
        /\ new.outstanding_balance = old.outstanding_balance - r.amount
        /\ new.status = AfterPayment(old.outstanding_balance - r.amount)
    BY <1>4 DEF WriteRow, Pay, CreditRow
  <1>7. old.status # "SETTLED" /\ r.amount <= old.outstanding_balance
    BY <1>2 DEF Payable
  <1> HIDE DEF new
  <1>8. /\ DOMAIN creditSales' = DOMAIN creditSales /\ creditSales'[r.sale] = new
        /\ collected'[r.sale] = collected[r.sale] + r.amount
        /\ \A s \in DOMAIN creditSales : s # r.sale =>
               creditSales'[s] = creditSales[s] /\ collected'[s] = collected[s]
        /\ DOMAIN creditSales = DOMAIN sales
    BY <1>2, <1>3 DEF IInv, TypeOK
  <1>9. PaymentsAddUp'
    <2>1. old.amount_paid = sales[r.sale].amount_received + collected[r.sale]
      BY <1>2 DEF SerialInv, PaymentsAddUp
    <2>2. new.amount_paid = sales[r.sale].amount_received + (collected[r.sale] + r.amount)
      BY <1>2, <1>4, <1>6, <2>1
    <2> QED
      BY <1>3, <1>8, <2>2 DEF SerialInv, PaymentsAddUp
  <1>10. StatusFollowsBalance'
    <2>1. new.status = IF new.outstanding_balance = 0 THEN "SETTLED"
                       ELSE IF collected[r.sale] + r.amount > 0 THEN "PARTIAL" ELSE "OPEN"
      BY <1>2, <1>4, <1>5, <1>6, <1>7 DEF AfterPayment
    <2> QED
      BY <1>8, <2>1 DEF SerialInv, StatusFollowsBalance
  <1>11. VoidedOwesNothing'
    <2>1. old.outstanding_balance # 0
      BY <1>2, <1>5, <1>7
    <2>2. sales[r.sale].status # "VOIDED"
      BY <1>2, <1>8, <2>1 DEF SerialInv, VoidedOwesNothing
    <2> QED
      BY <1>3, <1>8, <2>2 DEF SerialInv, VoidedOwesNothing
  <1>12. \A v \in Workers : SerialSessionOK(v)'
    BY <1>3, ClosedSession DEF OneWorker
  <1> QED
    BY <1>9, <1>10, <1>11, <1>12 DEF SerialInv

\* A void marks a sale for which nothing is owed.
LEMMA SerialVoid ==
    ASSUME IInv, SerialInv, OneWorker, NEW w \in Workers, CommitVoid(w)
    PROVE  SerialInv'
  <1> DEFINE s == uow[w].request.sale
  <1>1. /\ sales' = [sales EXCEPT ![s].status = "VOIDED"]
        /\ UNCHANGED <<creditSales, collected>> /\ Close(w)
    BY DEF CommitVoid
  <1>2. s \in DOMAIN sales /\ sales \in Seq(Sale) /\ DOMAIN creditSales = DOMAIN sales
    BY DEF CommitVoid, IInv, SessionsOK, SessionOK, TypeOK
  <1>3. creditSales[s].outstanding_balance = 0
    BY DEF CommitVoid, SerialInv, SerialSessionOK
  <1>4. /\ DOMAIN sales' = DOMAIN sales
        /\ \A k \in DOMAIN sales : /\ sales'[k].amount_received = sales[k].amount_received
                                    /\ k # s => sales'[k] = sales[k]
    BY <1>1, <1>2 DEF Sale
  <1>5. PaymentsAddUp' /\ StatusFollowsBalance' /\ VoidedOwesNothing'
    BY <1>1, <1>2, <1>3, <1>4
       DEF SerialInv, PaymentsAddUp, StatusFollowsBalance, VoidedOwesNothing
  <1>6. \A v \in Workers : SerialSessionOK(v)'
    BY <1>1, ClosedSession DEF OneWorker
  <1> QED
    BY <1>5, <1>6 DEF SerialInv

\* The invariant of requests served one at a time (SerialInv).
THEOREM SerialInvariantHolds == OneWorker => (Spec => []SerialInv)
  <1> SUFFICES ASSUME OneWorker PROVE Spec => []SerialInv
    OBVIOUS
  <1>1. Init => SerialInv
    <2> SUFFICES ASSUME Init PROVE SerialInv
      OBVIOUS
    <2>1. NoSession.request.op = "VOID"
      BY DEF NoSession, NewSession
    <2>2. \A w \in Workers : uow[w] = NoSession /\ phase[w] = "idle"
      BY DEF Init
    <2>3. \A w \in Workers : SerialSessionOK(w)
      BY <2>1, <2>2 DEF SerialSessionOK, AtCommit
    <2> QED
      BY <2>3 DEF Init, SerialInv, PaymentsAddUp, StatusFollowsBalance, VoidedOwesNothing
  <1>2. IInv /\ SerialInv /\ [Next]_vars => SerialInv'
    <2> SUFFICES ASSUME IInv, SerialInv, [Next]_vars PROVE SerialInv'
      OBVIOUS
    <2>1. ASSUME NEW w \in Workers, CommitLimit(w) \/ CommitDelete(w) \/ Rollback(w)
          PROVE  SerialInv'
      BY <2>1, ClosedSession, SerialSessionStep DEF CommitLimit, CommitDelete, Rollback, db
    <2>2. CASE UNCHANGED vars
      BY <2>2 DEF vars, SerialInv, PaymentsAddUp, StatusFollowsBalance, VoidedOwesNothing,
                  SerialSessionOK, AtCommit
    <2> QED
      BY <2>1, <2>2, SerialReads, SerialSale, SerialSettlement, SerialVoid DEF Next, Quiet
  <1> QED
    BY <1>1, <1>2, CreditInvariantHolds, PTL DEF Spec

\* While requests are served one at a time, a credit row shows every payment
\* received for it (PaymentsAddUp).
THEOREM SerialPaymentsAddUp == OneWorker => (Spec => []PaymentsAddUp)
  <1>1. SerialInv => PaymentsAddUp
    BY DEF SerialInv
  <1> QED
    BY <1>1, SerialInvariantHolds, PTL

\* ... its status says what is owed and whether a part was settled (StatusFollowsBalance) ...
THEOREM SerialStatusFollowsBalance == OneWorker => (Spec => []StatusFollowsBalance)
  <1>1. SerialInv => StatusFollowsBalance
    BY DEF SerialInv
  <1> QED
    BY <1>1, SerialInvariantHolds, PTL

\* ... and nothing is owed for a sale that was voided (VoidedOwesNothing).
THEOREM SerialVoidedOwesNothing == OneWorker => (Spec => []VoidedOwesNothing)
  <1>1. SerialInv => VoidedOwesNothing
    BY DEF SerialInv
  <1> QED
    BY <1>1, SerialInvariantHolds, PTL

\* While requests are served one at a time, no credit sale takes more than its total
\* (PaidWithinTotal, BR-CR-03): every payment is shown by the row, whose amounts add up
\* and whose balance is not negative.
THEOREM SerialPaidWithinTotal == OneWorker => (Spec => []PaidWithinTotal)
  <1>1. IInv /\ SerialInv => PaidWithinTotal
    <2> SUFFICES ASSUME IInv, SerialInv, NEW s \in DOMAIN creditSales
                 PROVE  sales[s].amount_received + collected[s]
                            <= creditSales[s].total_amount
      BY DEF PaidWithinTotal
    <2>1. creditSales[s] \in CreditRow
      BY ElementOfSeq, LenProperties DEF IInv, TypeOK
    <2>2. creditSales[s].amount_paid = sales[s].amount_received + collected[s]
      BY DEF SerialInv, PaymentsAddUp
    <2>3. creditSales[s].amount_paid + creditSales[s].outstanding_balance
              = creditSales[s].total_amount
      BY DEF IInv, BooksBalance
    <2> QED
      BY <2>1, <2>2, <2>3 DEF CreditRow
  <1> QED
    BY <1>1, CreditInvariantHolds, SerialInvariantHolds, PTL

\* ... and a row that takes no more payments owes nothing (SettledOwesNothing, BR-CR-04).
THEOREM SerialSettledOwesNothing == OneWorker => (Spec => []SettledOwesNothing)
  <1>1. SerialInv => SettledOwesNothing
    BY DEF SerialInv, StatusFollowsBalance, SettledOwesNothing
  <1> QED
    BY <1>1, SerialInvariantHolds, PTL

-----------------------------------------------------------------------------
\* The limit of a customer

\* The rows of a customer can be added up.
LEMMA DebtType ==
    ASSUME IInv
    PROVE  /\ IsFiniteSet(DOMAIN creditSales)
           /\ \A s \in DOMAIN creditSales : Balances[s] = creditSales[s].outstanding_balance
                                            /\ Balances[s] \in Nat
           /\ \A c : Debt(c) \in Int
  <1>1. /\ DOMAIN creditSales = 1 .. Len(creditSales) /\ Len(creditSales) \in Nat
        /\ \A s \in DOMAIN creditSales : creditSales[s] \in CreditRow
    <2>1. creditSales \in Seq(CreditRow)
      BY DEF IInv, TypeOK
    <2> QED
      BY <2>1, LenProperties, ElementOfSeq
  <1>2. IsFiniteSet(DOMAIN creditSales)
    BY <1>1, FS_Interval
  <1>3. \A s \in DOMAIN creditSales : Balances[s] = creditSales[s].outstanding_balance
                                      /\ Balances[s] \in Nat
    BY <1>1 DEF Balances, CreditRow
  <1>4. ASSUME NEW c PROVE Debt(c) \in Int
    <2>1. IsFiniteSet(RowsOf(c)) /\ \A s \in RowsOf(c) : Balances[s] \in Int
      BY <1>2, <1>3, FS_Subset DEF RowsOf
    <2> QED
      BY <2>1, SumType DEF Debt
  <1> QED
    BY <1>2, <1>3, <1>4

\* What create_from_sale adds up, the rows that are not settled, is the whole debt:
\* nothing is owed on the others.
LEMMA OwedIsDebt ==
    ASSUME IInv, StatusFollowsBalance, NEW c
    PROVE  Owed(c) = Debt(c)
  <1> DEFINE open == {s \in DOMAIN creditSales : /\ creditSales[s].customer = c
                                                 /\ creditSales[s].status # "SETTLED"}
             paid == {s \in DOMAIN creditSales : /\ creditSales[s].customer = c
                                                 /\ creditSales[s].status = "SETTLED"}
             zero == [s \in paid |-> 0]
  <1>1. /\ open \cap paid = {} /\ open \cup paid = RowsOf(c)
        /\ open \subseteq DOMAIN creditSales /\ paid \subseteq DOMAIN creditSales
    BY DEF RowsOf
  <1>2. \A s \in paid : Balances[s] = 0
    BY DebtType DEF StatusFollowsBalance
  <1>3. Owed(c) = SumFunctionOnSet(Balances, open)
    BY DEF Owed
  <1> HIDE DEF open, paid
  <1>4. IsFiniteSet(open) /\ IsFiniteSet(paid)
    BY <1>1, DebtType, FS_Subset
  <1>5. \A s \in open \cup paid : Balances[s] \in Int
    BY <1>1, DebtType
  <1>6. SumFunctionOnSet(Balances, paid) = 0
    <2>1. \A k \in paid : \E i \in Int : Balances[k] = i * 0
      BY <1>2
    <2>2. PICK i \in Int : SumFunctionOnSet(Balances, paid) = i * 0
      BY <1>4, <2>1, SumMultiple
    <2> QED
      BY <2>2
  <1>7. Debt(c) = SumFunctionOnSet(Balances, open) + SumFunctionOnSet(Balances, paid)
    BY <1>1, <1>4, <1>5, SumUnion DEF Debt
  <1>8. SumFunctionOnSet(Balances, open) \in Int
    BY <1>4, <1>5, SumType
  <1> QED
    BY <1>3, <1>6, <1>7, <1>8

\* Nothing but a change of the credit rows changes a debt.
LEMMA SameDebt ==
    ASSUME UNCHANGED creditSales, NEW c PROVE Debt(c)' = Debt(c)
  BY DEF Debt, Balances, RowsOf

\* A sale adds what it leaves owing to the debt of its customer, and to no other.
LEMMA SaleDebt ==
    ASSUME IInv, NEW w \in Workers, CommitSale(w), NEW c \in Customers
    PROVE  Debt(c)' = IF c = uow[w].request.customer
                      THEN Debt(c) + (uow[w].request.amount - uow[w].request.paid)
                      ELSE Debt(c)
  <1> DEFINE r   == uow[w].request
             n   == Len(creditSales) + 1
             row == [customer |-> r.customer, total_amount |-> r.amount,
                     amount_paid |-> r.paid, outstanding_balance |-> r.amount - r.paid,
                     status |-> IF r.amount - r.paid <= 0 THEN "SETTLED" ELSE "OPEN"]
             old == RowsOf(c)
             new == Balances'
  <1>1. /\ creditSales \in Seq(CreditRow) /\ creditSales' = Append(creditSales, row)
        /\ r.amount \in Nat /\ r.paid \in Nat /\ r.paid <= r.amount
    BY DEF CommitSale, IInv, TypeOK, SessionsOK, SessionOK, AtCommit, Request
  <1>2. row.customer = r.customer /\ row.outstanding_balance = r.amount - r.paid
    OBVIOUS
  <1> HIDE DEF row
  <1>3. /\ DOMAIN creditSales = 1 .. Len(creditSales) /\ Len(creditSales) \in Nat
        /\ DOMAIN creditSales' = DOMAIN creditSales \cup {n} /\ n \notin DOMAIN creditSales
        /\ creditSales'[n] = row
        /\ \A s \in DOMAIN creditSales : creditSales'[s] = creditSales[s]
    BY <1>1
  <1>4. /\ new[n] = r.amount - r.paid
        /\ \A s \in DOMAIN creditSales : new[s] = Balances[s]
    BY <1>2, <1>3 DEF Balances
  <1>5. /\ IsFiniteSet(old) /\ old \subseteq DOMAIN creditSales
        /\ \A s \in old : Balances[s] \in Int
    BY DebtType, FS_Subset DEF RowsOf
  <1>6. Debt(c)' = SumFunctionOnSet(new, RowsOf(c)') /\ Debt(c) = SumFunctionOnSet(Balances, old)
    BY DEF Debt
  <1>7. RowsOf(c)' = IF c = r.customer THEN old \cup {n} ELSE old
    BY <1>2, <1>3 DEF RowsOf
  <1> HIDE DEF new, old
  <1>8. SumFunctionOnSet(new, old) = SumFunctionOnSet(Balances, old)
    <2>1. \A s \in old : new[s] = Balances[s]
      BY <1>4, <1>5
    <2> QED
      BY <1>5, <2>1, SumSame
  <1>9. SumFunctionOnSet(Balances, old) \in Int
    BY <1>5, SumType
  <1>10. CASE c # r.customer
    BY <1>6, <1>7, <1>8, <1>10
  <1>11. CASE c = r.customer
    <2>1. n \notin old /\ new[n] \in Int /\ \A s \in old \cup {n} : new[s] \in Int
      BY <1>1, <1>3, <1>4, <1>5
    <2> HIDE DEF n
    <2>2. SumFunctionOnSet(new, old \cup {n}) = new[n] + SumFunctionOnSet(new, old)
      BY <1>5, <2>1, SumAdd
    <2> QED
      BY <1>4, <1>6, <1>7, <1>8, <1>9, <1>11, <2>1, <2>2
  <1> QED
    BY <1>10, <1>11

\* A settlement takes its amount from one row and leaves whose rows they are.
LEMMA SettlementDebt ==
    ASSUME IInv, SerialInv, NEW w \in Workers, CommitSettlement(w), NEW c \in Customers
    PROVE  Debt(c)' \in Int /\ Debt(c)' <= Debt(c)
  <1> DEFINE r    == uow[w].request
             s    == r.sale
             row  == creditSales[s]
             paid == WriteRow(row, row, Pay(row, r.amount))
             rows == RowsOf(c)
             new  == Balances'
  <1>1. /\ s \in DOMAIN creditSales /\ uow[w].row = row /\ r.amount \in Nat
        /\ r.amount <= row.outstanding_balance
    BY DEF CommitSettlement, IInv, TypeOK, SessionsOK, SessionOK, SettlementOK, SerialInv,
           SerialSessionOK, AtCommit, Request
  <1>2. creditSales' = [creditSales EXCEPT ![s] = paid]
    BY <1>1 DEF CommitSettlement
  <1>3. row \in CreditRow
    BY <1>1, RowTypes
  <1>4. /\ paid.customer = row.customer
        /\ paid.outstanding_balance = row.outstanding_balance - r.amount
        /\ row.outstanding_balance \in Nat
    BY <1>3 DEF WriteRow, Pay, CreditRow
  <1> HIDE DEF paid
  <1>5. /\ DOMAIN creditSales' = DOMAIN creditSales /\ creditSales'[s] = paid
        /\ \A k \in DOMAIN creditSales : k # s => creditSales'[k] = creditSales[k]
    BY <1>1, <1>2 DEF IInv, TypeOK
  <1>6. RowsOf(c)' = rows
    BY <1>1, <1>4, <1>5 DEF RowsOf
  <1>7. /\ new[s] = Balances[s] - r.amount /\ Balances[s] \in Nat
        /\ \A k \in DOMAIN creditSales : k # s => new[k] = Balances[k]
    BY <1>1, <1>4, <1>5, DebtType DEF Balances
  <1>8. /\ IsFiniteSet(rows) /\ rows \subseteq DOMAIN creditSales
        /\ \A k \in rows : Balances[k] \in Int /\ new[k] \in Int
    <2>1. IsFiniteSet(rows) /\ rows \subseteq DOMAIN creditSales
      BY DebtType, FS_Subset DEF RowsOf
    <2> QED
      BY <1>1, <1>7, <2>1, DebtType
  <1>9. Debt(c)' = SumFunctionOnSet(new, rows) /\ Debt(c) = SumFunctionOnSet(Balances, rows)
    BY <1>6 DEF Debt
  <1> HIDE DEF new, rows, s, row
  <1>10. CASE s \in rows
    <2>1. SumFunctionOnSet(new, rows) = SumFunctionOnSet(Balances, rows) + (new[s] - Balances[s])
      BY <1>7, <1>8, <1>10, SumChange
    <2> QED
      BY <1>1, <1>7, <1>9, <2>1, DebtType
  <1>11. CASE s \notin rows
    <2>1. \A k \in rows : new[k] = Balances[k]
      BY <1>7, <1>8, <1>11
    <2>2. SumFunctionOnSet(new, rows) = SumFunctionOnSet(Balances, rows)
      BY <1>8, <2>1, SumSame
    <2> QED
      BY <1>9, <2>2, DebtType
  <1> QED
    BY <1>10, <1>11

\* The only worker knows its limit: no other session changes it or the debt.
LEMMA LimitStep ==
    ASSUME IInv, SerialInv, OneWorker, \A w \in Workers : LimitOK(w), [Next]_vars
    PROVE  \A w \in Workers : LimitOK(w)'
  <1>0. uow \in [Workers -> Session] /\ phase \in [Workers -> Phases]
    BY DEF IInv, TypeOK, Session
  <1> SUFFICES ASSUME NEW w \in Workers PROVE LimitOK(w)'
    OBVIOUS
  <1>1. ASSUME NEW v \in Workers, phase'[v] \notin {"balance", "commit"} PROVE LimitOK(w)'
    BY <1>1 DEF LimitOK, AtCommit, OneWorker
  <1>2. ASSUME NEW v \in Workers, Close(v) PROVE LimitOK(w)'
    <2>1. phase'[v] = "idle"
      BY <1>0, <1>2 DEF Close, Continue
    <2> QED
      BY <1>1, <2>1
  <1>3. ASSUME NEW v \in Workers, Receive(v) \/ LoadSale(v) PROVE LimitOK(w)'
    <2>1. phase'[v] \in {"debt", "sale", "customer"}
      BY <1>0, <1>3 DEF Receive, LoadSale, Continue, FirstRead
    <2> QED
      BY <1>1, <2>1
  <1>4. ASSUME NEW v \in Workers, LoadCustomer(v) PROVE LimitOK(w)'
    <2> DEFINE r == uow[v].request
    <2>1. /\ uow'[v] = [uow[v] EXCEPT !.credit_limit = customers[r.customer].credit_limit]
          /\ phase'[v] = IF r.op = "SALE" THEN "balance" ELSE "commit"
          /\ UNCHANGED customers
      BY <1>0, <1>4 DEF LoadCustomer, Continue, db
    <2>2. uow'[v].request = r /\ uow'[v].credit_limit = customers[r.customer].credit_limit
      BY <1>0, <2>1 DEF Session
    <2> QED
      BY <2>1, <2>2 DEF LimitOK, AtCommit, OneWorker
  <1>5. ASSUME NEW v \in Workers, CheckLimit(v) PROVE LimitOK(w)'
    <2> DEFINE r == uow[v].request
    <2>1. /\ uow'[v] = uow[v] /\ UNCHANGED <<customers, creditSales>>
          /\ (r.amount - r.paid) + Owed(r.customer) <= uow[v].credit_limit
          /\ phase[v] = "balance"
      BY <1>0, <1>5 DEF CheckLimit, Continue, db
    <2>2. Owed(r.customer) = Debt(r.customer) /\ Debt(r.customer) \in Int
      BY OwedIsDebt, DebtType DEF SerialInv
    <2>3. r.amount \in Nat /\ r.paid \in Nat /\ uow[v].credit_limit \in Nat
      BY <1>0 DEF Session, Request
    <2>4. Debt(r.customer)' = Debt(r.customer)
      <3>1. uow'[v].request.customer = r.customer
        BY <2>1
      <3> QED
        BY <2>1, <3>1 DEF Debt, Balances, RowsOf
    <2>5. Debt(r.customer) + (r.amount - r.paid) <= uow[v].credit_limit
      BY <2>1, <2>2, <2>3
    <2>6. uow[v].credit_limit = customers[r.customer].credit_limit
      BY <2>1 DEF LimitOK
    <2>7. w = v
      BY DEF OneWorker
    <2> QED
      BY <2>1, <2>4, <2>5, <2>6, <2>7 DEF LimitOK
  <1>6. ASSUME NEW v \in Workers, LoadCreditSale(v) PROVE LimitOK(w)'
    <2>1. uow[v].request.op # "SALE" /\ uow'[v].request = uow[v].request
          /\ phase'[v] = "commit"
      BY <1>0, <1>6 DEF LoadCreditSale, Continue, IInv, SessionsOK, SessionOK, Session
    <2> QED
      BY <2>1 DEF LimitOK, AtCommit, OneWorker
  <1>7. CASE UNCHANGED vars
    <2>1. LimitOK(w)' = LimitOK(w)
      BY <1>7 DEF vars, LimitOK, AtCommit, Debt, Balances, RowsOf
    <2> QED
      BY <2>1
  <1> QED
    BY <1>2, <1>3, <1>4, <1>5, <1>6, <1>7
       DEF Next, Quiet, CommitSale, CommitSettlement, CommitVoid, CommitLimit, CommitDelete,
           Rollback

\* The invariant behind the limit (LimitInv).
THEOREM LimitInvariantHolds == OneWorker => (Spec => []LimitInv)
  <1> SUFFICES ASSUME OneWorker PROVE Spec => []LimitInv
    OBVIOUS
  <1> DEFINE Known == \A w \in Workers : LimitOK(w)
  <1>1. Init => Known
    <2> SUFFICES ASSUME Init, NEW w \in Workers PROVE LimitOK(w)
      OBVIOUS
    <2>1. phase[w] = "idle"
      BY DEF Init
    <2> QED
      BY <2>1 DEF LimitOK, AtCommit
  <1>2. IInv /\ SerialInv /\ Known /\ [Next]_vars => Known'
    BY LimitStep
  <1>3. SerialInv /\ Known => LimitInv
    BY DEF LimitInv
  <1> HIDE DEF Known
  <1> QED
    BY <1>1, <1>2, <1>3, CreditInvariantHolds, SerialInvariantHolds, PTL DEF Spec

\* While requests are served one at a time, a step that adds to the debt of a
\* customer leaves it within the customer's limit (DebtWithinLimit).
THEOREM SerialDebtWithinLimit == OneWorker => (Spec => DebtWithinLimit)
  <1> SUFFICES ASSUME OneWorker PROVE Spec => DebtWithinLimit
    OBVIOUS
  <1> DEFINE Within == \A c \in Customers : Debt(c)' > Debt(c)
                                               => Debt(c)' <= customers'[c].credit_limit
  <1>1. IInv /\ LimitInv /\ [Next]_vars => [Within]_vars
    <2> SUFFICES ASSUME IInv, LimitInv, Next, NEW c \in Customers
                 PROVE  Debt(c)' > Debt(c) => Debt(c)' <= customers'[c].credit_limit
      OBVIOUS
    <2>1. Debt(c) \in Int
      BY DebtType
    <2>2. CASE UNCHANGED creditSales
      BY <2>1, <2>2, SameDebt
    <2>3. ASSUME NEW w \in Workers, CommitSale(w)
          PROVE  Debt(c)' > Debt(c) => Debt(c)' <= customers'[c].credit_limit
      <3>1. LimitOK(w) /\ AtCommit(w, "SALE") /\ UNCHANGED customers
        BY <2>3 DEF LimitInv, CommitSale
      <3> QED
        BY <2>1, <2>3, <3>1, SaleDebt DEF LimitOK
    <2>4. ASSUME NEW w \in Workers, CommitSettlement(w)
          PROVE  Debt(c)' > Debt(c) => Debt(c)' <= customers'[c].credit_limit
      <3>1. Debt(c)' \in Int /\ Debt(c)' <= Debt(c)
        BY <2>4, SettlementDebt DEF LimitInv
      <3> QED
        BY <2>1, <3>1
    <2> QED
      BY <2>2, <2>3, <2>4
         DEF Next, Quiet, vars, db, Receive, LoadCustomer, CheckLimit, LoadSale,
             LoadCreditSale, CommitVoid, CommitLimit, CommitDelete, Rollback
  <1> QED
    BY <1>1, CreditInvariantHolds, LimitInvariantHolds, PTL DEF Spec, DebtWithinLimit
=============================================================================
