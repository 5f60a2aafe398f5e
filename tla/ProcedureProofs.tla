--------------------------- MODULE ProcedureProofs ---------------------------
(***************************************************************************)
(* Proofs about the stored procedures, for any number of connections, any  *)
(* catalogue and any calls.                                                *)
(***************************************************************************)
EXTENDS ProcedureInvariant, SharedLemmas, FiniteSetTheorems

-----------------------------------------------------------------------------
\* Whole units

\* Whole units of a natural quantity are a natural number ...
LEMMA WholeNat == ASSUME NEW q \in Nat PROVE Whole(q) \in Nat
  BY ProceduresAssumption DEF Whole

\* ... and those of an integer an integer.
LEMMA WholeInt == ASSUME NEW q \in Int PROVE Whole(q) \in Int
  BY ProceduresAssumption DEF Whole

\* Adding q to a stock and taking it away again leaves no negative quantity.
LEMMA WholeBack ==
  ASSUME NEW stock \in Nat, NEW q \in Nat
  PROVE  Whole(Whole(stock * Scale + q) * Scale - q) \in Nat
<1> DEFINE sum == stock * Scale + q
           new == sum \div Scale
<1>1. Scale \in Nat \ {0} /\ stock * Scale \in Nat /\ sum \in Nat
  BY ProceduresAssumption
<1>2. new \in Nat /\ new * Scale \in Nat /\ sum < new * Scale + Scale
  BY <1>1
<1>3. new * Scale - q > -Scale
  BY <1>1, <1>2
<1> QED
  BY <1>1, <1>2, <1>3 DEF Whole

\* With no fractions, every quantity is whole.
LEMMA WholeUnit == ASSUME Scale = 1, NEW q \in Int PROVE Whole(q) = q
  BY DEF Whole

-----------------------------------------------------------------------------
\* What the helpers of the procedures do to a transaction

\* A new transaction has its type, and so does that of no call.
LEMMA NewTxnOK ==
  ASSUME NEW r, r.op \in Ops, r.sale \in Nat, r.lines \in Seq(Line)
  PROVE  TxnOK(NewTxn(r))
<1>1. <<>> \in Seq(Row) /\ <<>> \in Seq(BOOLEAN)
  BY EmptySeq
<1> QED
  BY <1>1 DEF NewTxn, TxnOK, Txn

LEMMA NoTxnOK == TxnOK(NoTxn)
<1> DEFINE r == [op |-> "SALE", sale |-> 0, lines |-> <<>>]
<1>1. r.op \in Ops /\ r.sale \in Nat /\ r.lines \in Seq(Line)
  BY EmptySeq DEF Ops
<1> HIDE DEF r
<1>2. TxnOK(NewTxn(r))
  BY <1>1, NewTxnOK
<1> QED
  BY <1>2 DEF NoTxn, r

\* UPDATE stores the new quantities and leaves locks and journal rows alone.
LEMMA UpdateOK ==
  ASSUME NEW t, TxnOK(t), NEW new \in [Products -> Nat]
  PROVE  /\ TxnOK(Update(t, new))
         /\ Update(t, new).stock = new
         /\ Update(t, new).rows = t.rows
         /\ Update(t, new).held = t.held
<1>1. /\ [p \in Products |-> AfterUpdate(t.alerts[p], t.stock[p], new[p], Threshold[p])]
            \in [Products -> Seq(BOOLEAN)]
      /\ [p \in Products |-> t.notices[p] +
                             Notified(t.alerts[p], t.stock[p], new[p], Threshold[p])]
            \in [Products -> Nat]
  BY AfterUpdateType DEF TxnOK, Txn
<1> QED
  BY <1>1 DEF TxnOK, Txn, Update

\* Locking a row reads it and leaves everything else alone.
LEMMA LockedOK ==
  ASSUME TypeOK, NEW t, TxnOK(t), NEW p \in Products
  PROVE  /\ TxnOK(Locked(t, p))
         /\ Locked(t, p).held = t.held \cup {p}
         /\ Locked(t, p).rows = t.rows
         /\ Locked(t, p).stock = IF p \in t.held THEN t.stock
                                 ELSE [t.stock EXCEPT ![p] = onHand[p]]
  BY DEF TypeOK, StoreOK, TxnOK, Txn, Locked

\* Committing a transaction leaves stock, journal and alerts with their types.
LEMMA WriteStockType ==
  ASSUME TypeOK, NEW t, TxnOK(t), WriteStock(t)
  PROVE  /\ onHand' \in [Products -> Nat]
         /\ ledger' \in [Products -> Seq(Row)]
         /\ alerts' \in [Products -> Seq(BOOLEAN)]
         /\ notices' \in [Products -> Nat]
<1>1. ASSUME NEW p \in Products PROVE ledger[p] \o t.rows[p] \in Seq(Row)
  BY ConcatProperties DEF TypeOK, StoreOK, TxnOK, Txn
<1> QED
  BY <1>1 DEF TypeOK, StoreOK, TxnOK, Txn, WriteStock

-----------------------------------------------------------------------------
\* How a step of one connection leaves the others

\* A step of w changes the sales only by adding one, or by adding to the returned
\* quantity of items it has locked.
KeepsSales(w) ==
    \A s \in DOMAIN sales :
        /\ s \in DOMAIN sales' /\ DOMAIN sales'[s] = DOMAIN sales[s]
        /\ \A i \in DOMAIN sales[s] :
              /\ sales'[s][i].quantity = sales[s][i].quantity
              /\ <<s, i>> \notin txn[w].heldItems =>
                    sales'[s][i].returned_qty = sales[s][i].returned_qty

\* So the other calls are where they were, and their checks still hold.
LEMMA OthersOK ==
  ASSUME IInv, NEW w \in Workers, NEW t, NEW ph, Continue(w, t, ph), KeepsSales(w)
  PROVE  \A v \in Workers \ {w} : txn'[v] = txn[v] /\ phase'[v] = phase[v] /\ CallOK(v)'
<1> SUFFICES ASSUME NEW v \in Workers \ {w}
             PROVE  txn'[v] = txn[v] /\ phase'[v] = phase[v] /\ CallOK(v)'
  OBVIOUS
<1>1. txn'[v] = txn[v] /\ phase'[v] = phase[v]
  BY DEF Continue, IInv, TypeOK
<1>2. CourseOK(txn[v], phase[v])' /\ CheckedOK(txn[v], phase[v])'
  BY <1>1 DEF IInv, CallOK, CourseOK, CheckedOK, Checked, Short
<1>3. ReturnOK(txn[v], phase[v])'
  <2>1. ReturnOK(txn[v], phase[v]) /\ txn[v].heldItems \cap txn[w].heldItems = {}
    BY DEF IInv, CallOK, Exclusive
  <2> QED
    BY <1>1, <2>1 DEF ReturnOK, KeepsSales, WithinSold
<1> QED
  BY <1>1, <1>2, <1>3 DEF CallOK

\* A call that goes on, with nothing stored.
LEMMA GoesOn ==
  ASSUME IInv, NEW w \in Workers, NEW t, NEW ph \in Phases,
         Continue(w, t, ph), UNCHANGED db, called' \in 0 .. MaxRequests,
         TxnOK(t), CourseOK(t, ph), CheckedOK(t, ph), ReturnOK(t, ph),
         \A v \in Workers \ {w} : /\ txn[v].held \cap t.held = {}
                                  /\ txn[v].heldItems \cap t.heldItems = {}
  PROVE  IInv'
<1>1. KeepsSales(w)
  BY DEF KeepsSales, db
<1>2. /\ txn'[w] = t /\ phase'[w] = ph
      /\ \A v \in Workers \ {w} : txn'[v] = txn[v] /\ phase'[v] = phase[v] /\ CallOK(v)'
  BY <1>1, OthersOK DEF Continue, IInv, TypeOK
<1>3. TypeOK'
  BY <1>2 DEF IInv, TypeOK, StoreOK, SaleOK, db, Continue, TxnOK
<1>4. ReturnedWithinSold'
  BY DEF IInv, ReturnedWithinSold, db
<1>5. Exclusive'
  BY <1>2 DEF IInv, Exclusive
<1>6. CallOK(w)'
  BY <1>2 DEF CallOK, CourseOK, CheckedOK, Checked, Short, ReturnOK, WithinSold, db
<1> QED
  BY <1>2, <1>3, <1>4, <1>5, <1>6 DEF IInv

\* A call that ends, with its work stored or given up.
LEMMA Ends ==
  ASSUME IInv, NEW w \in Workers, Close(w), UNCHANGED called,
         StoreOK', ReturnedWithinSold', KeepsSales(w)
  PROVE  IInv'
<1>1. /\ txn'[w] = NoTxn /\ phase'[w] = "idle"
      /\ \A v \in Workers \ {w} : txn'[v] = txn[v] /\ phase'[v] = phase[v] /\ CallOK(v)'
  BY OthersOK DEF Close, Continue, IInv, TypeOK
<1>2. TypeOK'
  BY <1>1, NoTxnOK DEF IInv, TypeOK, Close, Continue, Phases, TxnOK
<1>3. Exclusive'
  <2>1. NoTxn.held = {} /\ NoTxn.heldItems = {}
    BY DEF NoTxn, NewTxn
  <2> QED
    BY <1>1, <2>1 DEF IInv, Exclusive
<1>4. CallOK(w)'
  BY <1>1 DEF CallOK, CourseOK, CheckedOK, ReturnOK
<1> QED
  BY <1>1, <1>2, <1>3, <1>4 DEF IInv

\* A call that is given up stores nothing.
LEMMA Refused ==
  ASSUME IInv, NEW w \in Workers, Close(w), UNCHANGED <<db, called>>
  PROVE  IInv'
<1>1. StoreOK' /\ ReturnedWithinSold'
  BY DEF IInv, TypeOK, StoreOK, SaleOK, ReturnedWithinSold, db
<1>2. KeepsSales(w)
  BY DEF KeepsSales, db
<1> QED
  BY <1>1, <1>2, Ends

-----------------------------------------------------------------------------
\* The invariant holds initially, and each action preserves it

LEMMA InvInit == Init => IInv
<1> SUFFICES ASSUME Init PROVE IInv
  OBVIOUS
<1>1. StoreOK
  <2>1. <<>> \in Seq(Row) /\ <<>> \in Seq(BOOLEAN) /\ <<>> \in Seq(Range(sales))
    BY EmptySeq
  <2> QED
    BY <2>1, ProceduresAssumption DEF Init, StoreOK
<1>2. TypeOK
  BY <1>1, NoTxnOK, ProceduresAssumption DEF Init, TypeOK, Phases, TxnOK
<1>3. NoTxn.held = {} /\ NoTxn.heldItems = {}
  BY DEF NoTxn, NewTxn
<1>4. ReturnedWithinSold /\ Exclusive
  BY <1>3 DEF Init, ReturnedWithinSold, Exclusive
<1>5. \A w \in Workers : CallOK(w)
  BY DEF Init, CallOK, CourseOK, CheckedOK, ReturnOK
<1> QED
  BY <1>2, <1>4, <1>5 DEF IInv

\* The lines of a request.
LEMMA RequestType ==
  ASSUME NEW r \in Requests
  PROVE  /\ r.op \in Ops /\ r.sale \in Nat /\ r.lines \in Seq(Line)
         /\ Staged(r) \subseteq DOMAIN r.lines
         /\ DOMAIN r.lines = 1 .. Len(r.lines) /\ Len(r.lines) \in Nat
         /\ \A k \in DOMAIN r.lines : r.lines[k] \in Line
<1>1. r \in Request
  BY ProceduresAssumption
<1>2. r.op \in Ops /\ r.sale \in Nat /\ r.lines \in Seq(Line)
  BY <1>1 DEF Request
<1>3. /\ DOMAIN r.lines = 1 .. Len(r.lines) /\ Len(r.lines) \in Nat
      /\ \A k \in DOMAIN r.lines : r.lines[k] \in Line
  BY <1>2, LenProperties
<1> QED
  BY <1>2, <1>3 DEF Staged, Active

\* A transaction with its lines staged.
StagedTxn(r) == [NewTxn(r) EXCEPT !.staged = Staged(r), !.todo = Staged(r)]

LEMMA CallInv == ASSUME IInv, NEW w \in Workers, Call(w) PROVE IInv'
<1>1. PICK r \in Requests :
         /\ Accepted(r)
         /\ IF r.op = "RETURN" THEN Continue(w, NewTxn(r), "expand")
            ELSE Advance(w, StagedTxn(r), "check")
  BY DEF Call, StagedTxn
<1>2. called' \in 0 .. MaxRequests /\ UNCHANGED db
  BY ProceduresAssumption DEF Call, IInv, TypeOK
<1>3. TxnOK(NewTxn(r))
  BY RequestType, NewTxnOK
<1>4. NewTxn(r).held = {} /\ NewTxn(r).heldItems = {}
  BY DEF NewTxn
<1>5. CASE r.op = "RETURN"
  <2>1. Continue(w, NewTxn(r), "expand") /\ "expand" \in Phases
    BY <1>1, <1>5 DEF Phases
  <2>2. CourseOK(NewTxn(r), "expand") /\ CheckedOK(NewTxn(r), "expand")
    BY <1>5 DEF CourseOK, CheckedOK, NewTxn
  <2>3. ReturnOK(NewTxn(r), "expand")
    <3>1. r.sale \in DOMAIN sales
      BY <1>1, <1>5 DEF Accepted
    <3>2. DOMAIN sales[r.sale] \subseteq LineNumbers
      BY <3>1 DEF IInv, TypeOK, StoreOK, SaleOK
    <3> QED
      BY <3>1, <3>2, <1>5 DEF ReturnOK, NewTxn
  <2> QED
    BY <1>2, <1>3, <1>4, <2>1, <2>2, <2>3, GoesOn
<1>6. CASE r.op # "RETURN"
  <2> DEFINE t0 == StagedTxn(r)
  <2>1. /\ TxnOK(t0) /\ t0.op = r.op /\ t0.lines = r.lines /\ t0.held = {} /\ t0.heldItems = {}
        /\ t0.staged = Staged(r) /\ t0.todo = Staged(r)
        /\ \A p \in Products : t0.rows[p] = <<>>
    <3>1. Staged(r) \subseteq Nat
      BY RequestType
    <3> QED
      BY <1>3, <1>4, <3>1, RequestType DEF TxnOK, Txn, NewTxn, StagedTxn
  <2>2. Staged(r) # {} \/ r.op = "SALE"
    <3>1. r.op # "SALE" => r.op \in {"RESTOCK", "ADJUST"}
      BY <1>6, RequestType DEF Ops
    <3>2. r.op # "SALE" => Len(r.lines) = 1
      BY <3>1, ProceduresAssumption
    <3>3. r.op # "SALE" => 1 \in Staged(r)
      BY <3>2, RequestType DEF Staged
    <3> QED
      BY <3>3
  <2>3. r.op # "ADJUST" => \A k \in Staged(r) : r.lines[k].quantity > 0
    <3>1. CASE r.op = "SALE"
      BY <1>1, <3>1 DEF Accepted, Staged
    <3>2. CASE r.op = "RESTOCK"
      <4>1. DOMAIN r.lines = {1} /\ r.lines[1].quantity > 0
        BY <1>1, <3>2, RequestType, ProceduresAssumption DEF Accepted
      <4> QED
        BY <3>2, <4>1 DEF Staged
    <3> QED
      BY <1>6, <3>1, <3>2, RequestType DEF Ops
  <2> HIDE DEF t0
  <2>4. CASE t0.todo = {} /\ Continue(w, t0, "write")
    <3>1. CourseOK(t0, "write") /\ CheckedOK(t0, "write") /\ ReturnOK(t0, "write")
      BY <1>6, <2>1, <2>2, <2>4 DEF CourseOK, CheckedOK, ReturnOK, Checked
    <3> QED
      BY <1>2, <2>1, <2>4, <3>1, GoesOn DEF Phases
  <2>5. ASSUME NEW k \in t0.todo,
               Continue(w, [t0 EXCEPT !.next = k, !.todo = @ \ {k}], "check")
        PROVE  IInv'
    <3> DEFINE t == [t0 EXCEPT !.next = k, !.todo = @ \ {k}]
    <3>1. /\ TxnOK(t) /\ t.op = r.op /\ t.lines = r.lines /\ t.held = {} /\ t.heldItems = {}
          /\ t.staged = Staged(r) /\ t.todo = Staged(r) \ {k} /\ t.next = k
          /\ \A p \in Products : t.rows[p] = <<>>
      BY <2>1, <2>5 DEF TxnOK, Txn
    <3> HIDE DEF t
    <3>2. k \in Staged(r)
      BY <2>1, <2>5
    <3>3. CourseOK(t, "check") /\ CheckedOK(t, "check") /\ ReturnOK(t, "check")
      BY <1>6, <2>3, <3>1, <3>2 DEF CourseOK, CheckedOK, ReturnOK, Checked
    <3>4. Continue(w, t, "check") /\ "check" \in Phases
      BY <2>5 DEF t, Phases
    <3> QED
      BY <1>2, <3>1, <3>3, <3>4, GoesOn
  <2> QED
    BY <1>1, <1>6, <2>4, <2>5 DEF Advance, t0
<1> QED
  BY <1>5, <1>6

\* The current line of a call that has one.
LEMMA LineType ==
  ASSUME NEW t, TxnOK(t), NEW k \in t.staged
  PROVE  /\ t.lines[k] \in Line /\ t.lines[k].product \in Products
         /\ t.lines[k].item \in Nat /\ t.lines[k].quantity \in Int
<1>1. t.lines \in Seq(Line) /\ k \in DOMAIN t.lines
  BY DEF TxnOK, Txn
<1>2. DOMAIN t.lines = 1 .. Len(t.lines)
  BY <1>1, LenProperties
<1>3. t.lines[k] \in Line
  BY <1>1, <1>2, ElementOfSeq
<1> QED
  BY <1>3 DEF Line

LEMMA LockRowInv == ASSUME IInv, NEW w \in Workers, LockRow(w) PROVE IInv'
<1> DEFINE t    == txn[w]
           line == t.lines[t.next]
           l    == Locked(t, line.product)
<1>1. TxnOK(t) /\ CallOK(w) /\ phase[w] = "check" /\ t.op # "RETURN"
  BY DEF IInv, TypeOK, LockRow, CallOK, CourseOK
<1>2. /\ t.next \in t.staged /\ line.product \in Products
      /\ \E r \in Requests : t.op = r.op /\ t.lines = r.lines
  BY <1>1, LineType DEF CallOK, CourseOK
<1>3. /\ UNCHANGED <<db, called>>
      /\ IF Short(l, line) THEN Close(w) ELSE Advance(w, l, "check")
      /\ \A v \in Workers \ {w} : line.product \notin txn[v].held
  BY DEF LockRow, CurrentLine, RowFree
<1>4. CASE Close(w)
  BY <1>3, <1>4, Refused
<1>5. CASE ~Short(l, line) /\ Advance(w, l, "check")
  <2>1. /\ TxnOK(l) /\ l.held = t.held \cup {line.product} /\ l.rows = t.rows
        /\ l.stock = IF line.product \in t.held THEN t.stock
                     ELSE [t.stock EXCEPT ![line.product] = onHand[line.product]]
        /\ l.op = t.op /\ l.lines = t.lines /\ l.staged = t.staged /\ l.todo = t.todo
        /\ l.heldItems = t.heldItems /\ l.next = t.next
    <3>1. TypeOK
      BY DEF IInv
    <3>2. /\ l.op = t.op /\ l.lines = t.lines /\ l.staged = t.staged /\ l.todo = t.todo
          /\ l.heldItems = t.heldItems /\ l.next = t.next
      BY <1>1 DEF Locked, TxnOK, Txn
    <3> QED
      BY <1>1, <1>2, <3>1, <3>2, LockedOK
  <2>2. ASSUME NEW k \in t.staged, t.lines[k].product \in t.held, ~Short(t, t.lines[k])
        PROVE  ~Short(l, l.lines[k])
    <3>1. t.lines[k].product \in Products /\ t.stock \in [Products -> Nat]
      BY <1>1, LineType DEF TxnOK, Txn
    <3>2. l.stock[t.lines[k].product] = t.stock[t.lines[k].product]
      BY <2>1, <2>2, <3>1
    <3> QED
      BY <2>1, <2>2, <3>2 DEF Short
  <2>3. /\ \A p \in Products : l.rows[p] = <<>>
        /\ l.op # "ADJUST" => \A k \in l.staged : l.lines[k].quantity > 0
        /\ l.op # "SALE" => l.next \in l.staged
        /\ \A k \in l.staged \ l.todo : l.lines[k].product \in l.held /\ ~Short(l, l.lines[k])
    BY <1>1, <1>2, <1>5, <2>1, <2>2 DEF CallOK, CheckedOK, Checked
  <2>4. \A v \in Workers \ {w} : /\ txn[v].held \cap l.held = {}
                                  /\ txn[v].heldItems \cap l.heldItems = {}
    BY <1>3, <2>1 DEF IInv, Exclusive
  <2>5. called' \in 0 .. MaxRequests /\ UNCHANGED db
    BY <1>3 DEF IInv, TypeOK
  <2> HIDE DEF l
  <2>6. CASE l.todo = {} /\ Continue(w, l, "write")
    <3>1. CourseOK(l, "write") /\ CheckedOK(l, "write") /\ ReturnOK(l, "write")
      BY <1>1, <1>2, <2>1, <2>3, <2>6 DEF CourseOK, CheckedOK, ReturnOK, Checked
    <3> QED
      BY <2>1, <2>4, <2>5, <2>6, <3>1, GoesOn DEF Phases
  <2>7. ASSUME NEW k \in l.todo,
               Continue(w, [l EXCEPT !.next = k, !.todo = @ \ {k}], "check")
        PROVE  IInv'
    <3> DEFINE u == [l EXCEPT !.next = k, !.todo = @ \ {k}]
    <3>1. /\ TxnOK(u) /\ u.op = l.op /\ u.lines = l.lines /\ u.held = l.held
          /\ u.heldItems = l.heldItems /\ u.staged = l.staged /\ u.todo = l.todo \ {k}
          /\ u.next = k /\ u.rows = l.rows /\ u.stock = l.stock /\ k \in u.staged
      BY <2>1, <2>7 DEF TxnOK, Txn
    <3> HIDE DEF u
    <3>2. CourseOK(u, "check") /\ ReturnOK(u, "check")
      BY <1>1, <1>2, <2>1, <3>1 DEF CourseOK, ReturnOK
    <3>3. CheckedOK(u, "check")
      BY <2>3, <3>1 DEF CheckedOK, Checked, Short
    <3>4. Continue(w, u, "check") /\ "check" \in Phases
      BY <2>7 DEF u, Phases
    <3> QED
      BY <2>4, <2>5, <3>1, <3>2, <3>3, <3>4, GoesOn
  <2> QED
    BY <1>5, <2>6, <2>7 DEF Advance, l
<1> QED
  BY <1>3, <1>4, <1>5

\* The permutations of the lines of a product are finite sequences of lines.
LEMMA OrderType ==
  ASSUME NEW t, TxnOK(t), NEW p, NEW order \in SetToSeqs(LinesOf(t, p))
  PROVE  /\ order \in [DOMAIN order -> LinesOf(t, p)]
         /\ \E n \in Nat : DOMAIN order = 1 .. n /\ n = Cardinality(LinesOf(t, p))
<1>1. t.staged \subseteq 1 .. Len(t.lines) /\ Len(t.lines) \in Nat
  BY LenProperties DEF TxnOK, Txn
<1>2. IsFiniteSet(LinesOf(t, p))
  <2>1. IsFiniteSet(1 .. Len(t.lines))
    BY <1>1, FS_Interval
  <2>2. LinesOf(t, p) \in SUBSET (1 .. Len(t.lines))
    BY <1>1 DEF LinesOf
  <2> QED
    BY <2>1, <2>2, FS_Subset
<1>3. Cardinality(LinesOf(t, p)) \in Nat
  BY <1>2, FS_CardinalityType
<1> QED
  BY <1>3 DEF SetToSeqs

\* The quantities a sale is going to store are natural numbers.
LEMMA DeductedOK ==
  ASSUME IInv, NEW w \in Workers, phase[w] = "write", txn[w].op = "SALE",
         NEW line \in [txn[w].held -> txn[w].staged],
         \A p \in txn[w].held : line[p] \in LinesOf(txn[w], p)
  PROVE  /\ TxnOK(Deducted(txn[w], line))
         /\ Deducted(txn[w], line).held = txn[w].held
         /\ Deducted(txn[w], line).rows = txn[w].rows
         /\ Deducted(txn[w], line).stock =
               [p \in Products |->
                   IF p \in txn[w].held
                   THEN Whole(txn[w].stock[p] * Scale - txn[w].lines[line[p]].quantity)
                   ELSE txn[w].stock[p]]
<1> DEFINE t   == txn[w]
           new == [p \in Products |->
                     IF p \in t.held THEN Whole(t.stock[p] * Scale - t.lines[line[p]].quantity)
                     ELSE t.stock[p]]
<1>1. TxnOK(t) /\ CheckedOK(t, "write")
  BY DEF IInv, TypeOK, CallOK
<1>2. t.stock \in [Products -> Nat]
  BY <1>1 DEF TxnOK, Txn
<1>3. ASSUME NEW p \in Products, p \in t.held
      PROVE  Whole(t.stock[p] * Scale - t.lines[line[p]].quantity) \in Nat
  <2>1. line[p] \in t.staged /\ t.lines[line[p]].product = p
    BY <1>3 DEF LinesOf
  <2>2. t.lines[line[p]].quantity \in Int /\ ~Short(t, t.lines[line[p]])
    BY <1>1, <2>1, LineType DEF CheckedOK, Checked
  <2>3. t.stock[p] * Scale \in Nat
    BY <1>2, <1>3, ProceduresAssumption
  <2>4. t.stock[p] * Scale - t.lines[line[p]].quantity \in Nat
    BY <2>1, <2>2, <2>3 DEF Short
  <2> QED
    BY <2>4, WholeNat
<1>4. new \in [Products -> Nat]
  BY <1>2, <1>3
<1> QED
  BY <1>1, <1>4, UpdateOK DEF Deducted

\* So are the snapshots in its journal rows.
LEMMA SaleRowsType ==
  ASSUME NEW t, TxnOK(t), \A k \in t.staged : t.lines[k].quantity > 0,
         NEW p, NEW order \in SetToSeqs(LinesOf(t, p)), NEW after \in Nat
  PROVE  [i \in DOMAIN order |-> SaleRow(t.lines[order[i]].quantity, after)] \in Seq(Row)
<1>1. PICK n \in Nat : DOMAIN order = 1 .. n
  BY OrderType
<1>2. ASSUME NEW i \in DOMAIN order
      PROVE  SaleRow(t.lines[order[i]].quantity, after) \in Row
  <2> DEFINE q == t.lines[order[i]].quantity
  <2>1. order[i] \in t.staged
    <3>1. order[i] \in LinesOf(t, p)
      BY <1>2, OrderType
    <3> QED
      BY <3>1 DEF LinesOf
  <2>2. q \in Nat /\ -q \in Int /\ after * Scale + q \in Nat
    BY <2>1, LineType, ProceduresAssumption
  <2>3. Whole(-q) \in Int /\ Whole(after * Scale + q) \in Nat
    BY <2>2, WholeInt, WholeNat
  <2> HIDE DEF q
  <2> QED
    BY <2>3 DEF SaleRow, JournalRow, Row, Kinds, q
<1> QED
  BY <1>1, <1>2, SeqDef

\* A sale appended to the sales leaves the others in place.
LEMMA SaleAppended ==
  ASSUME IInv, NEW items, SaleOK(items), sales' = Append(sales, items),
         \A k \in DOMAIN items : items[k].returned_qty <= items[k].quantity,
         NEW w \in Workers
  PROVE  /\ sales' \in Seq(Range(sales')) /\ \A s \in DOMAIN sales' : SaleOK(sales'[s])
         /\ ReturnedWithinSold' /\ KeepsSales(w)
<1>1. sales \in Seq(Range(sales)) /\ \A s \in DOMAIN sales : SaleOK(sales[s])
  BY DEF IInv, TypeOK, StoreOK
<1>2. sales \in Seq(Range(sales) \cup {items})
  BY <1>1, SeqMonotonic
<1>3. /\ sales' \in Seq(Range(sales) \cup {items}) /\ Len(sales') = Len(sales) + 1
      /\ \A s \in 1 .. Len(sales) : sales'[s] = sales[s]
      /\ sales'[Len(sales) + 1] = items
  BY <1>2, AppendProperties
<1>4. /\ Len(sales) \in Nat /\ DOMAIN sales = 1 .. Len(sales)
      /\ DOMAIN sales' = 1 .. Len(sales) + 1
  BY <1>2, <1>3, LenProperties
<1>5. sales' \in [1 .. Len(sales) + 1 -> Range(sales')]
  <2>1. sales' \in [1 .. Len(sales) + 1 -> Range(sales) \cup {items}]
    BY <1>3, <1>4, LenProperties
  <2> QED
    BY <1>4, <2>1 DEF Range
<1>6. sales' \in Seq(Range(sales'))
  <2>1. Len(sales) + 1 \in Nat
    BY <1>4
  <2> QED
    BY <1>5, <2>1, SeqDef
<1>7. \A s \in DOMAIN sales' : s \in DOMAIN sales \/ s = Len(sales) + 1
  BY <1>4
<1>8. \A s \in DOMAIN sales' : SaleOK(sales'[s])
  BY <1>1, <1>3, <1>4, <1>7
<1>9. ReturnedWithinSold'
  BY <1>3, <1>4, <1>7 DEF IInv, ReturnedWithinSold
<1>10. KeepsSales(w)
  BY <1>3, <1>4 DEF KeepsSales
<1> QED
  BY <1>6, <1>8, <1>9, <1>10

LEMMA CreateSaleInv == ASSUME IInv, NEW w \in Workers, CreateSale(w) PROVE IInv'
<1> DEFINE t     == txn[w]
           items == [k \in t.staged |-> [product      |-> t.lines[k].product,
                                         quantity     |-> t.lines[k].quantity,
                                         returned_qty |-> 0]]
<1>1. /\ phase[w] = "write" /\ t.op = "SALE" /\ sales' = Append(sales, items)
      /\ Close(w) /\ UNCHANGED called
  BY DEF CreateSale
<1>2. /\ TypeOK /\ TxnOK(t) /\ CheckedOK(t, "write")
      /\ \E r \in Requests : t.op = r.op /\ t.lines = r.lines
  BY <1>1 DEF IInv, TypeOK, CallOK, CourseOK
<1>3. \A k \in t.staged : t.lines[k].quantity > 0
  BY <1>1, <1>2 DEF CheckedOK
<1>4. PICK line \in [t.held -> t.staged] :
      \E order \in [Products -> UNION {SetToSeqs(LinesOf(t, p)) : p \in Products}] :
         /\ \A p \in t.held : line[p] \in LinesOf(t, p)
         /\ \A p \in Products : order[p] \in SetToSeqs(LinesOf(t, p))
         /\ WriteStock([Deducted(t, line) EXCEPT !.rows =
               [p \in Products |-> [i \in DOMAIN order[p] |->
                   SaleRow(t.lines[order[p][i]].quantity, Deducted(t, line).stock[p])]]])
  BY DEF CreateSale
<1>5. PICK order \in [Products -> UNION {SetToSeqs(LinesOf(t, p)) : p \in Products}] :
         /\ \A p \in t.held : line[p] \in LinesOf(t, p)
         /\ \A p \in Products : order[p] \in SetToSeqs(LinesOf(t, p))
         /\ WriteStock([Deducted(t, line) EXCEPT !.rows =
               [p \in Products |-> [i \in DOMAIN order[p] |->
                   SaleRow(t.lines[order[p][i]].quantity, Deducted(t, line).stock[p])]]])
  BY <1>4
<1> DEFINE d    == Deducted(t, line)
           rows == [p \in Products |-> [i \in DOMAIN order[p] |->
                       SaleRow(t.lines[order[p][i]].quantity, d.stock[p])]]
<1>6. TxnOK(d)
  BY <1>1, <1>5, DeductedOK
<1>7. d.stock \in [Products -> Nat]
  BY <1>6 DEF TxnOK, Txn
<1>8. rows \in [Products -> Seq(Row)]
  <2>1. ASSUME NEW p \in Products
        PROVE  [i \in DOMAIN order[p] |->
                   SaleRow(t.lines[order[p][i]].quantity, d.stock[p])] \in Seq(Row)
    <3>1. order[p] \in SetToSeqs(LinesOf(t, p)) /\ d.stock[p] \in Nat
      BY <1>5, <1>7
    <3> HIDE DEF d
    <3> QED
      BY <1>2, <1>3, <3>1, SaleRowsType
  <2> QED
    BY <2>1
<1> HIDE DEF d, rows
<1>9. TxnOK([d EXCEPT !.rows = rows]) /\ WriteStock([d EXCEPT !.rows = rows])
  BY <1>5, <1>6, <1>8 DEF TxnOK, Txn, d, rows
<1>10. /\ onHand' \in [Products -> Nat] /\ ledger' \in [Products -> Seq(Row)]
       /\ alerts' \in [Products -> Seq(BOOLEAN)] /\ notices' \in [Products -> Nat]
  BY <1>2, <1>9, WriteStockType
<1>11. SaleOK(items)
  <2>1. t.staged \subseteq LineNumbers
    BY <1>2 DEF TxnOK, LineNumbers
  <2>2. ASSUME NEW k \in t.staged
        PROVE  t.lines[k].product \in Products /\ t.lines[k].quantity \in Nat
    BY <1>2, <1>3, LineType
  <2>3. items \in [t.staged -> Item]
    BY <2>2 DEF Item
  <2> QED
    BY <2>1, <2>3 DEF SaleOK
<1>12. \A k \in DOMAIN items : items[k].returned_qty <= items[k].quantity
  BY <1>2, <1>3, LineType
<1> HIDE DEF items
<1>13. StoreOK' /\ ReturnedWithinSold' /\ KeepsSales(w)
  BY <1>1, <1>10, <1>11, <1>12, SaleAppended DEF StoreOK
<1> QED
  BY <1>1, <1>13, Ends

\* A restock or an adjustment that leaves a natural number.
LEMMA MovedOK ==
  ASSUME NEW t, TxnOK(t), NEW p \in Products, NEW kind \in Kinds, NEW change \in Int,
         t.stock[p] + change \in Nat
  PROVE  /\ TxnOK(Moved(t, p, kind, change))
         /\ Moved(t, p, kind, change).held = t.held
         /\ Moved(t, p, kind, change).stock = [t.stock EXCEPT ![p] = @ + change]
         /\ Moved(t, p, kind, change).rows =
               [t.rows EXCEPT ![p] = Append(@, JournalRow(kind, change, t.stock[p],
                                                          t.stock[p] + change))]
<1> DEFINE new == [t.stock EXCEPT ![p] = @ + change]
           u   == Update(t, new)
           row == JournalRow(kind, change, t.stock[p], t.stock[p] + change)
<1>1. t.stock \in [Products -> Nat] /\ t.rows \in [Products -> Seq(Row)]
  BY DEF TxnOK, Txn
<1>2. new \in [Products -> Nat] /\ row \in Row
  BY <1>1 DEF JournalRow, Row
<1>3. TxnOK(u) /\ u.stock = new /\ u.rows = t.rows /\ u.held = t.held
  BY <1>2, UpdateOK
<1>4. Append(t.rows[p], row) \in Seq(Row)
  BY <1>1, <1>2, AppendProperties
<1> HIDE DEF u, row, new
<1> DEFINE rows == [t.rows EXCEPT ![p] = Append(@, row)]
<1>5. Moved(t, p, kind, change) = [u EXCEPT !.rows = rows]
  BY <1>3 DEF Moved, u, new, row
<1>6. rows \in [Products -> Seq(Row)]
  BY <1>1, <1>4
<1> HIDE DEF rows
<1>7. /\ TxnOK([u EXCEPT !.rows = rows])
      /\ [u EXCEPT !.rows = rows].held = u.held /\ [u EXCEPT !.rows = rows].stock = u.stock
      /\ [u EXCEPT !.rows = rows].rows = rows
  BY <1>3, <1>6 DEF TxnOK, Txn
<1> QED
  BY <1>3, <1>5, <1>7 DEF new, row, rows

\* Storing stock and leaving the sales alone keeps the invariant.
LEMMA StockStored ==
  ASSUME IInv, NEW w \in Workers, NEW t, TxnOK(t), WriteStock(t), Close(w),
         UNCHANGED <<sales, called>>
  PROVE  IInv'
<1>1. StoreOK'
  <2>1. /\ onHand' \in [Products -> Nat] /\ ledger' \in [Products -> Seq(Row)]
        /\ alerts' \in [Products -> Seq(BOOLEAN)] /\ notices' \in [Products -> Nat]
    BY WriteStockType DEF IInv
  <2> QED
    BY <2>1 DEF IInv, TypeOK, StoreOK, SaleOK
<1>2. ReturnedWithinSold' /\ KeepsSales(w)
  BY DEF IInv, ReturnedWithinSold, KeepsSales
<1> QED
  BY <1>1, <1>2, Ends

\* The line of a restock or an adjustment that is going to be written.
LEMMA WrittenLine ==
  ASSUME IInv, NEW w \in Workers, phase[w] = "write", txn[w].op \in {"RESTOCK", "ADJUST"}
  PROVE  LET t == txn[w]  line == CurrentLine(w) IN
         /\ TxnOK(t) /\ line.product \in Products /\ line.product \in t.held
         /\ line.quantity \in Int /\ t.stock[line.product] + line.quantity \in Nat
<1> DEFINE t == txn[w]
<1>1. TxnOK(t) /\ CheckedOK(t, "write")
  BY DEF IInv, TypeOK, CallOK
<1>2. /\ t.next \in t.staged /\ t.lines[t.next].product \in t.held
      /\ ~Short(t, t.lines[t.next]) /\ (t.op = "RESTOCK" => t.lines[t.next].quantity > 0)
  BY <1>1 DEF CheckedOK, Checked
<1>3. t.lines[t.next].product \in Products /\ t.lines[t.next].quantity \in Int
  BY <1>1, <1>2, LineType
<1>4. t.stock[t.lines[t.next].product] \in Nat
  BY <1>1, <1>3 DEF TxnOK, Txn
<1> QED
  BY <1>1, <1>2, <1>3, <1>4 DEF CurrentLine, Short

LEMMA RestockProductInv == ASSUME IInv, NEW w \in Workers, RestockProduct(w) PROVE IInv'
<1> DEFINE line == CurrentLine(w)
           t    == Moved(txn[w], line.product, "RESTOCK", line.quantity)
<1>1. /\ WriteStock(Restocked(txn[w], line.product, line.quantity))
      /\ Close(w) /\ UNCHANGED <<sales, called>>
      /\ phase[w] = "write" /\ txn[w].op = "RESTOCK"
  BY DEF RestockProduct
<1>2. TxnOK(t) /\ line.product \in Products
  BY <1>1, WrittenLine, MovedOK DEF Kinds
<1> DEFINE notes == [t.notices EXCEPT ![line.product] = @ + StillLow(t, line.product)]
<1>3. Restocked(txn[w], line.product, line.quantity) = [t EXCEPT !.notices = notes]
  BY DEF Restocked
<1> HIDE DEF t
<1>4. notes \in [Products -> Nat]
  BY <1>2 DEF TxnOK, Txn, StillLow
<1> HIDE DEF notes
<1>5. TxnOK(Restocked(txn[w], line.product, line.quantity))
  BY <1>2, <1>3, <1>4 DEF TxnOK, Txn
<1> QED
  BY <1>1, <1>5, StockStored

LEMMA AdjustStockInv == ASSUME IInv, NEW w \in Workers, AdjustStock(w) PROVE IInv'
<1> DEFINE line == CurrentLine(w)
           t    == Moved(txn[w], line.product, "ADJUSTMENT", line.quantity)
<1>1. /\ WriteStock(t) /\ Close(w) /\ UNCHANGED <<sales, called>>
      /\ phase[w] = "write" /\ txn[w].op = "ADJUST"
  BY DEF AdjustStock
<1>2. TxnOK(t)
  BY <1>1, WrittenLine, MovedOK DEF Kinds
<1> HIDE DEF t
<1> QED
  BY <1>1, <1>2, StockStored

-----------------------------------------------------------------------------
\* The steps of a return

LEMMA ExpandLinesInv == ASSUME IInv, NEW w \in Workers, ExpandLines(w) PROVE IInv'
<1> DEFINE t == txn[w]
           m == [t EXCEPT !.staged = Matching(t), !.todo = Matching(t)]
<1>1. /\ phase[w] = "expand" /\ UNCHANGED <<db, called>>
      /\ Close(w) \/ Advance(w, m, "book")
  BY DEF ExpandLines
<1>2. /\ TxnOK(t) /\ t.op = "RETURN" /\ ReturnOK(t, "expand")
      /\ \E r \in Requests : t.op = r.op /\ t.lines = r.lines
  BY <1>1 DEF IInv, TypeOK, CallOK, CourseOK
<1>3. DOMAIN t.lines \subseteq Nat
  BY <1>2, LenProperties DEF TxnOK, Txn
<1>4. /\ TxnOK(m) /\ m.op = t.op /\ m.sale = t.sale /\ m.lines = t.lines
      /\ m.held = t.held /\ m.heldItems = t.heldItems /\ m.booked = t.booked
      /\ m.staged = Matching(t) /\ m.todo = Matching(t)
  BY <1>2, <1>3 DEF TxnOK, Txn, Matching
<1>5. \A v \in Workers \ {w} : /\ txn[v].held \cap m.held = {}
                               /\ txn[v].heldItems \cap m.heldItems = {}
  BY <1>4 DEF IInv, Exclusive
<1>6. \A k \in m.staged : m.lines[k].item \in DOMAIN sales[m.sale]
  BY <1>4 DEF Matching
<1>7. called' \in 0 .. MaxRequests /\ UNCHANGED db
  BY <1>1 DEF IInv, TypeOK
<1> HIDE DEF m
<1>8. CASE Close(w)
  BY <1>1, <1>8, Refused
<1>9. CASE m.todo = {} /\ Continue(w, m, "write")
  <2>1. CourseOK(m, "write") /\ CheckedOK(m, "write") /\ ReturnOK(m, "write")
    BY <1>2, <1>4, <1>6, <1>9 DEF CourseOK, CheckedOK, ReturnOK
  <2> QED
    BY <1>4, <1>5, <1>7, <1>9, <2>1, GoesOn DEF Phases
<1>10. ASSUME NEW k \in m.todo, Continue(w, [m EXCEPT !.next = k, !.todo = @ \ {k}], "book")
       PROVE  IInv'
  <2> DEFINE u == [m EXCEPT !.next = k, !.todo = @ \ {k}]
  <2>1. /\ TxnOK(u) /\ u.op = m.op /\ u.sale = m.sale /\ u.lines = m.lines
        /\ u.held = m.held /\ u.heldItems = m.heldItems /\ u.booked = m.booked
        /\ u.staged = m.staged /\ u.next = k /\ k \in u.staged
    BY <1>4, <1>10 DEF TxnOK, Txn
  <2> HIDE DEF u
  <2>2. CourseOK(u, "book") /\ CheckedOK(u, "book") /\ ReturnOK(u, "book")
    BY <1>2, <1>4, <1>6, <2>1 DEF CourseOK, CheckedOK, ReturnOK
  <2>3. Continue(w, u, "book") /\ "book" \in Phases
    BY <1>10 DEF u, Phases
  <2> QED
    BY <1>5, <1>7, <2>1, <2>2, <2>3, GoesOn
<1> QED
  BY <1>1, <1>8, <1>9, <1>10 DEF Advance, m

LEMMA BookItemInv == ASSUME IInv, NEW w \in Workers, BookItem(w) PROVE IInv'
<1> DEFINE t    == txn[w]
           line == t.lines[t.next]
           id   == <<t.sale, line.item>>
           u    == [t EXCEPT !.heldItems = @ \cup {id}, !.booked[line.item] = Booked(t, line)]
<1>1. /\ phase[w] = "book" /\ UNCHANGED <<db, called>>
      /\ \A v \in Workers \ {w} : id \notin txn[v].heldItems
      /\ \/ Close(w)
         \/ /\ line.quantity > 0 /\ WithinSold(sales[t.sale][line.item], Booked(t, line))
            /\ Continue(w, u, "restore")
  BY DEF BookItem, CurrentLine, ItemFree
<1>2. CASE Close(w)
  BY <1>1, <1>2, Refused
<1>3. CASE /\ line.quantity > 0 /\ WithinSold(sales[t.sale][line.item], Booked(t, line))
           /\ Continue(w, u, "restore")
  <2>1. /\ TxnOK(t) /\ t.op = "RETURN" /\ t.next \in t.staged /\ ReturnOK(t, "book")
        /\ \E r \in Requests : t.op = r.op /\ t.lines = r.lines
    BY <1>1 DEF IInv, TypeOK, CallOK, CourseOK
  <2>2. /\ line.item \in Nat /\ line.quantity \in Int
        /\ t.sale \in DOMAIN sales /\ line.item \in DOMAIN sales[t.sale]
        /\ DOMAIN sales[t.sale] \subseteq LineNumbers /\ id \in Nat \X Nat
    BY <2>1, LineType DEF ReturnOK, IInv, TypeOK, StoreOK, SaleOK, TxnOK, Txn
  <2>3. Booked(t, line) \in Nat
    <3>1. t.booked \in [LineNumbers -> Nat]
      BY <2>1 DEF TxnOK, Txn
    <3>2. line.item \in LineNumbers /\ line.quantity \in Nat
      BY <1>3, <2>2
    <3>3. t.booked[line.item] \in Nat
      BY <3>1, <3>2
    <3> QED
      BY <3>2, <3>3 DEF Booked
  <2>4. /\ TxnOK(u) /\ u.op = t.op /\ u.sale = t.sale /\ u.lines = t.lines
        /\ u.held = t.held /\ u.heldItems = t.heldItems \cup {id}
        /\ u.booked = [t.booked EXCEPT ![line.item] = Booked(t, line)]
        /\ u.staged = t.staged /\ u.next = t.next
    BY <2>1, <2>2, <2>3 DEF TxnOK, Txn
  <2>5. \A v \in Workers \ {w} : /\ txn[v].held \cap u.held = {}
                                 /\ txn[v].heldItems \cap u.heldItems = {}
    BY <1>1, <2>4 DEF IInv, Exclusive
  <2>6. t.booked \in [LineNumbers -> Nat]
    BY <2>1 DEF TxnOK, Txn
  <2> HIDE DEF u
  <2>7. ReturnOK(u, "restore")
    <3>1. ASSUME NEW i \in DOMAIN sales[t.sale]
          PROVE  IF <<t.sale, i>> \in u.heldItems
                 THEN WithinSold(sales[t.sale][i], u.booked[i])
                 ELSE u.booked[i] = 0
      BY <1>3, <2>1, <2>2, <2>4, <2>6 DEF ReturnOK
    <3> QED
      BY <1>3, <2>1, <2>2, <2>4, <3>1 DEF ReturnOK
  <2>8. CourseOK(u, "restore") /\ CheckedOK(u, "restore")
    BY <2>1, <2>4 DEF CourseOK, CheckedOK
  <2>9. called' \in 0 .. MaxRequests /\ UNCHANGED db
    BY <1>1 DEF IInv, TypeOK
  <2> QED
    BY <1>3, <2>4, <2>5, <2>7, <2>8, <2>9, GoesOn DEF Phases
<1> QED
  BY <1>1, <1>2, <1>3

\* Restored stock and the snapshots of its journal row are natural numbers.
LEMMA RestoredOK ==
  ASSUME NEW t, TxnOK(t), NEW p \in Products, NEW q \in Nat,
         NEW new, new = Whole(t.stock[p] * Scale + q)
  PROVE  /\ TxnOK(Restored(t, p, q))
         /\ Restored(t, p, q).held = t.held
         /\ Restored(t, p, q).stock = [t.stock EXCEPT ![p] = new]
         /\ Restored(t, p, q).rows = [t.rows EXCEPT ![p] = Append(@, ReturnRow(q, new))]
         /\ ReturnRow(q, new) \in Row
<1> DEFINE old  == Whole(new * Scale - q)
           u    == Update(t, [t.stock EXCEPT ![p] = new])
           row  == ReturnRow(q, new)
           rows == [t.rows EXCEPT ![p] = Append(@, row)]
<1>1. t.stock \in [Products -> Nat] /\ t.rows \in [Products -> Seq(Row)]
  BY DEF TxnOK, Txn
<1>2. t.stock[p] \in Nat /\ t.stock[p] * Scale + q \in Nat
  <2>1. t.stock[p] \in Nat
    BY <1>1
  <2> QED
    BY <2>1, ProceduresAssumption
<1>3. new \in Nat /\ old \in Nat /\ Whole(q) \in Int
  <2>1. new \in Nat
    BY <1>2, WholeNat
  <2>2. old \in Nat
    BY <1>2, WholeBack
  <2> QED
    BY <2>1, <2>2, WholeInt
<1>4. Whole(old * Scale + q) \in Nat
  <2> HIDE DEF old
  <2>1. old * Scale + q \in Nat
    BY <1>3, ProceduresAssumption
  <2> QED
    BY <2>1, WholeNat
<1>5. row \in Row
  <2>1. row = [kind |-> "RETURN", change |-> Whole(q), before |-> old,
               after |-> Whole(old * Scale + q)]
    BY DEF ReturnRow, JournalRow
  <2> HIDE DEF row, old
  <2> QED
    BY <2>1, <1>3, <1>4 DEF Row, Kinds
<1> HIDE DEF row
<1>6. [t.stock EXCEPT ![p] = new] \in [Products -> Nat]
  BY <1>1, <1>3
<1>7. /\ TxnOK(u) /\ u.stock = [t.stock EXCEPT ![p] = new] /\ u.rows = t.rows
      /\ u.held = t.held
  BY <1>6, UpdateOK
<1>8. Append(t.rows[p], row) \in Seq(Row)
  BY <1>1, <1>5, AppendProperties
<1>9. rows \in [Products -> Seq(Row)]
  BY <1>1, <1>8
<1>10. Restored(t, p, q) = [u EXCEPT !.rows = rows]
  BY <1>7 DEF Restored, row
<1> HIDE DEF u, rows
<1>11. /\ TxnOK([u EXCEPT !.rows = rows])
       /\ [u EXCEPT !.rows = rows].held = u.held /\ [u EXCEPT !.rows = rows].stock = u.stock
       /\ [u EXCEPT !.rows = rows].rows = rows
  BY <1>7, <1>9 DEF TxnOK, Txn
<1> QED
  BY <1>5, <1>7, <1>10, <1>11 DEF rows, row

\* What restoring leaves alone.
LEMMA RestoredKeeps ==
  ASSUME NEW t, TxnOK(t), NEW p \in Products, NEW q
  PROVE  LET u == Restored(Locked(t, p), p, q) IN
         /\ u.op = t.op /\ u.sale = t.sale /\ u.lines = t.lines /\ u.staged = t.staged
         /\ u.todo = t.todo /\ u.heldItems = t.heldItems /\ u.booked = t.booked
  BY DEF Restored, Locked, Update, TxnOK, Txn

LEMMA RestoreLineInv == ASSUME IInv, NEW w \in Workers, RestoreLine(w) PROVE IInv'
<1> DEFINE t == txn[w]
           p == t.lines[t.next].product
           q == t.lines[t.next].quantity
           l == Locked(t, p)
           u == Restored(l, p, q)
<1>1. /\ phase[w] = "restore" /\ UNCHANGED <<db, called>>
      /\ \A v \in Workers \ {w} : p \notin txn[v].held
      /\ Advance(w, u, "book")
  BY DEF RestoreLine, CurrentLine, RowFree
<1>2. /\ TypeOK /\ TxnOK(t) /\ t.op = "RETURN" /\ t.next \in t.staged
      /\ ReturnOK(t, "restore") /\ \E r \in Requests : t.op = r.op /\ t.lines = r.lines
  BY <1>1 DEF IInv, TypeOK, CallOK, CourseOK
<1>3. p \in Products /\ q \in Nat
  BY <1>2, LineType DEF ReturnOK
<1>4. TxnOK(l) /\ l.held = t.held \cup {p}
  <2> HIDE DEF t, p
  <2> QED
    BY <1>2, <1>3, LockedOK
<1>5. TxnOK(u) /\ u.held = l.held
  <2> DEFINE new == Whole(l.stock[p] * Scale + q)
  <2>1. new = Whole(l.stock[p] * Scale + q)
    OBVIOUS
  <2> HIDE DEF l, p, q, new
  <2>2. /\ TxnOK(u) /\ u.held = l.held /\ u.stock = [l.stock EXCEPT ![p] = new]
        /\ u.rows = [l.rows EXCEPT ![p] = Append(@, ReturnRow(q, new))]
        /\ ReturnRow(q, new) \in Row
    BY <1>3, <1>4, <2>1, RestoredOK
  <2> QED
    BY <2>2
<1>6. /\ u.op = t.op /\ u.sale = t.sale /\ u.lines = t.lines /\ u.staged = t.staged
      /\ u.todo = t.todo /\ u.heldItems = t.heldItems /\ u.booked = t.booked
  <2> HIDE DEF t, p, q
  <2> QED
    BY <1>2, <1>3, RestoredKeeps
<1> HIDE DEF u, l
<1>7. \A v \in Workers \ {w} : /\ txn[v].held \cap u.held = {}
                               /\ txn[v].heldItems \cap u.heldItems = {}
  BY <1>1, <1>4, <1>5, <1>6 DEF IInv, Exclusive
<1>8. called' \in 0 .. MaxRequests /\ UNCHANGED db
  BY <1>1 DEF IInv, TypeOK
<1>9. CASE u.todo = {} /\ Continue(w, u, "write")
  <2>1. CourseOK(u, "write") /\ CheckedOK(u, "write") /\ ReturnOK(u, "write")
    BY <1>2, <1>6, <1>9 DEF CourseOK, CheckedOK, ReturnOK
  <2> QED
    BY <1>5, <1>7, <1>8, <1>9, <2>1, GoesOn DEF Phases
<1>10. ASSUME NEW k \in u.todo, Continue(w, [u EXCEPT !.next = k, !.todo = @ \ {k}], "book")
       PROVE  IInv'
  <2> DEFINE x == [u EXCEPT !.next = k, !.todo = @ \ {k}]
  <2>1. /\ TxnOK(x) /\ x.op = u.op /\ x.sale = u.sale /\ x.lines = u.lines
        /\ x.held = u.held /\ x.heldItems = u.heldItems /\ x.booked = u.booked
        /\ x.staged = u.staged /\ x.next = k /\ k \in x.staged
    BY <1>5, <1>10 DEF TxnOK, Txn
  <2> HIDE DEF x
  <2>2. CourseOK(x, "book") /\ CheckedOK(x, "book") /\ ReturnOK(x, "book")
    BY <1>2, <1>6, <2>1 DEF CourseOK, CheckedOK, ReturnOK
  <2>3. Continue(w, x, "book") /\ "book" \in Phases
    BY <1>10 DEF x, Phases
  <2> QED
    BY <1>7, <1>8, <2>1, <2>2, <2>3, GoesOn
<1> QED
  BY <1>1, <1>9, <1>10 DEF Advance, u

LEMMA CommitReturnInv == ASSUME IInv, NEW w \in Workers, CommitReturn(w) PROVE IInv'
<1> DEFINE t   == txn[w]
           new == Returned(sales[t.sale], t.booked)
<1>1. /\ phase[w] = "write" /\ t.op = "RETURN" /\ WriteStock(t)
      /\ sales' = [sales EXCEPT ![t.sale] = new]
      /\ Close(w) /\ UNCHANGED called
  BY DEF CommitReturn
<1>2. TypeOK /\ TxnOK(t) /\ ReturnOK(t, "write") /\ ReturnedWithinSold
  BY <1>1 DEF IInv, TypeOK, CallOK
<1>3. /\ t.sale \in DOMAIN sales
      /\ \A i \in DOMAIN sales[t.sale] : IF <<t.sale, i>> \in t.heldItems
                                         THEN WithinSold(sales[t.sale][i], t.booked[i])
                                         ELSE t.booked[i] = 0
  BY <1>1, <1>2 DEF ReturnOK
<1>4. /\ onHand' \in [Products -> Nat] /\ ledger' \in [Products -> Seq(Row)]
      /\ alerts' \in [Products -> Seq(BOOLEAN)] /\ notices' \in [Products -> Nat]
  BY <1>1, <1>2, WriteStockType
<1>5. /\ DOMAIN sales[t.sale] \subseteq LineNumbers
      /\ sales[t.sale] \in [DOMAIN sales[t.sale] -> Item]
      /\ t.booked \in [LineNumbers -> Nat]
  BY <1>2, <1>3 DEF TypeOK, StoreOK, SaleOK, TxnOK, Txn
<1>6. ASSUME NEW i \in DOMAIN sales[t.sale]
      PROVE  /\ sales[t.sale][i] \in Item /\ t.booked[i] \in Nat /\ new[i] \in Item
             /\ new[i].quantity = sales[t.sale][i].quantity
             /\ new[i].returned_qty = sales[t.sale][i].returned_qty + t.booked[i]
             /\ new[i].returned_qty <= new[i].quantity
             /\ <<t.sale, i>> \notin t.heldItems =>
                   new[i].returned_qty = sales[t.sale][i].returned_qty
  <2>1. sales[t.sale][i] \in Item /\ t.booked[i] \in Nat
    BY <1>5
  <2>2. sales[t.sale][i].returned_qty <= sales[t.sale][i].quantity
    BY <1>2, <1>3 DEF ReturnedWithinSold
  <2> QED
    BY <1>3, <2>1, <2>2 DEF Item, WithinSold, Returned
<1>7. SaleOK(new)
  BY <1>5, <1>6 DEF SaleOK, Returned
<1> HIDE DEF new
<1>8. /\ DOMAIN sales' = DOMAIN sales /\ sales'[t.sale] = new /\ DOMAIN new = DOMAIN sales[t.sale]
      /\ \A s \in DOMAIN sales : s # t.sale => sales'[s] = sales[s]
  BY <1>1, <1>3 DEF new, Returned
<1>9. sales' \in Seq(Range(sales'))
  <2>1. PICK n \in Nat : DOMAIN sales = 1 .. n
    BY <1>2, LenProperties DEF TypeOK, StoreOK
  <2>2. sales' \in [1 .. n -> Range(sales')]
    BY <1>1, <1>8, <2>1 DEF Range
  <2> QED
    BY <2>1, <2>2, SeqDef
<1>10. \A s \in DOMAIN sales' : SaleOK(sales'[s])
  BY <1>2, <1>7, <1>8 DEF TypeOK, StoreOK
<1>11. ReturnedWithinSold' /\ KeepsSales(w)
  BY <1>2, <1>6, <1>8 DEF ReturnedWithinSold, KeepsSales
<1> QED
  BY <1>1, <1>4, <1>9, <1>10, <1>11, Ends DEF StoreOK

\* Every step keeps the invariant.
LEMMA InvStep == IInv /\ [Next]_vars => IInv'
<1> SUFFICES ASSUME IInv, [Next]_vars PROVE IInv'
  OBVIOUS
<1>1. ASSUME NEW w \in Workers, Step(w) PROVE IInv'
  BY <1>1, LockRowInv, CreateSaleInv, RestockProductInv, AdjustStockInv, ExpandLinesInv,
     BookItemInv, RestoreLineInv, CommitReturnInv DEF Step
<1>2. ASSUME NEW w \in Workers, DeadlockVictim(w) \/ Abort(w) PROVE IInv'
  BY <1>2, Refused DEF DeadlockVictim, Abort, Refuse
<1>3. ASSUME UNCHANGED vars PROVE IInv'
  BY <1>3 DEF vars, IInv, TypeOK, StoreOK, SaleOK, TxnOK, ReturnedWithinSold, Exclusive,
              CallOK, CourseOK, CheckedOK, Checked, Short, ReturnOK, WithinSold
<1> QED
  BY <1>1, <1>2, <1>3, CallInv DEF Next, Quiet

-----------------------------------------------------------------------------
\* Every reachable state satisfies the inductive invariant.
THEOREM InvariantHolds == Spec => []IInv
  BY InvInit, InvStep, PTL DEF Spec

\* No stored or pending quantity is ever negative or fractional, however the
\* calls of SP_CreateSale, SP_ProcessReturn, SP_RestockProduct and
\* SP_AdjustStock interleave.
THEOREM TypesHold == Spec => []TypeOK
<1>1. IInv => TypeOK
  BY DEF IInv
<1> QED
  BY <1>1, InvariantHolds, PTL

\* No item is returned beyond what was sold of it, however the calls of
\* SP_ProcessReturn race (BR-RET-02): the CHECK constraints, read under the lock
\* of the item, make good what ExpandLines reads without one.
THEOREM ReturnsAreWithinSold == Spec => []ReturnedWithinSold
<1>1. IInv => ReturnedWithinSold
  BY DEF IInv
<1> QED
  BY <1>1, InvariantHolds, PTL

-----------------------------------------------------------------------------
\* The procedures implement StockLedger, as long as quantities are whole and a
\* sale names a product once (WholeCalls; ProcRepeatedLine and the README show
\* why).

\* StockLedger speaks of the same journal.
LEMMA SameJournal ==
  /\ Ledger!Row = Row
  /\ \A b, rows, e : Ledger!Chained(b, rows, e) <=> Chained(b, rows, e)
BY DEF Ledger!Row, Row, Ledger!Kinds, Kinds, Ledger!Chained, Chained

\* A connection that goes on or ends does not disturb the rows of the others.
LEMMA OthersChain ==
  ASSUME IInv, PendingRowsChain, NEW w \in Workers, NEW t, NEW ph, Continue(w, t, ph),
         \A p \in Products : p \notin txn[w].held => onHand'[p] = onHand[p],
         RowsChain(txn[w])'
  PROVE  PendingRowsChain'
<1> SUFFICES ASSUME NEW v \in Workers PROVE RowsChain(txn[v])'
  BY DEF PendingRowsChain
<1>1. CASE v = w
  BY <1>1
<1>2. CASE v # w
  <2>1. txn'[v] = txn[v] /\ RowsChain(txn[v]) /\ txn[v].held \cap txn[w].held = {}
    BY <1>2 DEF Continue, IInv, TypeOK, Exclusive, PendingRowsChain
  <2> QED
    BY <2>1 DEF RowsChain
<1> QED
  BY <1>1, <1>2

\* So the chains survive a step that stores nothing ...
LEMMA ChainGoesOn ==
  ASSUME IInv, PendingRowsChain, NEW w \in Workers, NEW t, NEW ph, Continue(w, t, ph),
         UNCHANGED db, RowsChain(t)
  PROVE  PendingRowsChain'
<1>1. txn'[w] = t /\ onHand' = onHand
  BY DEF Continue, IInv, TypeOK, db
<1>2. RowsChain(txn[w])'
  BY <1>1 DEF RowsChain
<1> QED
  BY <1>1, <1>2, OthersChain

\* ... with or without another line to go on with.
LEMMA ChainAdvances ==
  ASSUME IInv, PendingRowsChain, NEW w \in Workers, NEW t, TxnOK(t), NEW ph,
         Advance(w, t, ph), UNCHANGED db, RowsChain(t)
  PROVE  PendingRowsChain'
<1>1. ASSUME NEW k \in t.todo, Continue(w, [t EXCEPT !.next = k, !.todo = @ \ {k}], ph)
      PROVE  PendingRowsChain'
  <2> DEFINE u == [t EXCEPT !.next = k, !.todo = @ \ {k}]
  <2>1. u.held = t.held /\ u.rows = t.rows /\ u.stock = t.stock
    BY DEF TxnOK, Txn
  <2> HIDE DEF u
  <2>2. RowsChain(u) /\ Continue(w, u, ph)
    BY <1>1, <2>1 DEF RowsChain, u
  <2> QED
    BY <2>2, ChainGoesOn
<1> QED
  BY <1>1, ChainGoesOn DEF Advance

\* ... and a step that stores what is pending, which is a step of StockLedger.
LEMMA ChainStored ==
  ASSUME IInv, PendingRowsChain, NEW w \in Workers, NEW t, TxnOK(t), RowsChain(t),
         t.held = txn[w].held, WriteStock(t), Close(w)
  PROVE  PendingRowsChain' /\ Ledger!Post
<1>1. PendingRowsChain'
  <2>1. NoTxn.held = {} /\ \A p \in Products : NoTxn.rows[p] = <<>>
    BY DEF NoTxn, NewTxn
  <2>2. txn'[w] = NoTxn /\ Continue(w, NoTxn, "idle")
    BY DEF Close, Continue, IInv, TypeOK
  <2>3. RowsChain(txn[w])'
    BY <2>1, <2>2 DEF RowsChain
  <2>4. \A p \in Products : p \notin txn[w].held => onHand'[p] = onHand[p]
    BY DEF WriteStock
  <2> QED
    BY <2>2, <2>3, <2>4, OthersChain
<1>2. onHand' \in [Products -> Nat] /\ ledger' \in [Products -> Seq(Row)]
  BY WriteStockType DEF IInv
<1>3. ASSUME NEW p \in Products
      PROVE  /\ ledger'[p] = ledger[p] \o Ledger!Appended(p)
             /\ Chained(onHand[p], Ledger!Appended(p), onHand'[p])
  <2>1. ledger[p] \in Seq(Row) /\ t.rows[p] \in Seq(Row) /\ onHand[p] \in Nat
    BY DEF IInv, TypeOK, StoreOK, TxnOK, Txn
  <2>2. ledger'[p] = ledger[p] \o t.rows[p]
    BY DEF WriteStock
  <2>3. Ledger!Appended(p) = t.rows[p]
    BY <2>1, <2>2, AppendedRows DEF Ledger!Appended
  <2>4. Chained(onHand[p], t.rows[p], onHand'[p])
    BY ChainedEmpty DEF RowsChain, WriteStock
  <2> QED
    BY <2>2, <2>3, <2>4
<1> QED
  BY <1>1, <1>2, <1>3, SameJournal DEF Ledger!Post

-----------------------------------------------------------------------------
\* The pending rows of each call

LEMMA ChainInit == Init => PendingRowsChain
<1>1. NoTxn.held = {} /\ \A p \in Products : NoTxn.rows[p] = <<>>
  BY DEF NoTxn, NewTxn
<1> QED
  BY <1>1 DEF Init, PendingRowsChain, RowsChain

LEMMA CallChain ==
  ASSUME IInv, PendingRowsChain, NEW w \in Workers, Call(w)
  PROVE  PendingRowsChain'
<1>1. PICK r \in Requests : \/ Continue(w, NewTxn(r), "expand")
                            \/ Advance(w, StagedTxn(r), "check")
  BY DEF Call, StagedTxn
<1>2. UNCHANGED db
  BY DEF Call
<1>3. RowsChain(NewTxn(r))
  BY DEF NewTxn, RowsChain
<1>4. TxnOK(NewTxn(r))
  BY RequestType, NewTxnOK
<1>5. TxnOK(StagedTxn(r)) /\ RowsChain(StagedTxn(r))
  <2>1. Staged(r) \subseteq Nat
    BY RequestType
  <2> QED
    BY <1>4, <2>1, RequestType DEF TxnOK, Txn, NewTxn, StagedTxn, RowsChain
<1> QED
  BY <1>1, <1>2, <1>3, <1>5, ChainGoesOn, ChainAdvances

\* Locking a row reads its quantity.
LEMMA LockedChain ==
  ASSUME IInv, NEW t, TxnOK(t), RowsChain(t), NEW p \in Products
  PROVE  TxnOK(Locked(t, p)) /\ RowsChain(Locked(t, p))
<1> DEFINE l == Locked(t, p)
<1>1. /\ TxnOK(l) /\ l.held = t.held \cup {p} /\ l.rows = t.rows
      /\ l.stock = IF p \in t.held THEN t.stock ELSE [t.stock EXCEPT ![p] = onHand[p]]
  BY LockedOK DEF IInv
<1>2. t.stock \in [Products -> Nat]
  BY DEF TxnOK, Txn
<1> HIDE DEF l
<1>3. ASSUME NEW q \in Products
      PROVE  IF q \in l.held THEN Chained(onHand[q], l.rows[q], l.stock[q]) ELSE l.rows[q] = <<>>
  BY <1>1, <1>2, ChainedEmpty DEF RowsChain
<1> QED
  BY <1>1, <1>3 DEF RowsChain, l

LEMMA LockRowChain ==
  ASSUME IInv, PendingRowsChain, NEW w \in Workers, LockRow(w)
  PROVE  PendingRowsChain'
<1> DEFINE line == CurrentLine(w)
           l    == Locked(txn[w], line.product)
<1>1. /\ phase[w] = "check" /\ UNCHANGED db
      /\ Close(w) \/ Advance(w, l, "check")
  BY DEF LockRow
<1>2. TxnOK(txn[w]) /\ RowsChain(txn[w]) /\ txn[w].next \in txn[w].staged
  BY <1>1 DEF IInv, TypeOK, PendingRowsChain, CallOK, CourseOK
<1>3. line.product \in Products
  BY <1>2, LineType DEF CurrentLine
<1>4. TxnOK(l) /\ RowsChain(l)
  BY <1>2, <1>3, LockedChain
<1>5. RowsChain(NoTxn)
  BY DEF NoTxn, NewTxn, RowsChain
<1> HIDE DEF l
<1> QED
  BY <1>1, <1>4, <1>5, ChainGoesOn, ChainAdvances DEF Close

LEMMA ExpandLinesChain ==
  ASSUME IInv, PendingRowsChain, NEW w \in Workers, ExpandLines(w)
  PROVE  PendingRowsChain'
<1> DEFINE t == txn[w]
           m == [t EXCEPT !.staged = Matching(t), !.todo = Matching(t)]
<1>1. UNCHANGED db /\ (Close(w) \/ Advance(w, m, "book"))
  BY DEF ExpandLines
<1>2. TxnOK(t) /\ RowsChain(t)
  BY DEF IInv, TypeOK, PendingRowsChain
<1>3. DOMAIN t.lines \subseteq Nat
  BY <1>2, LenProperties DEF TxnOK, Txn
<1>4. TxnOK(m) /\ RowsChain(m)
  BY <1>2, <1>3 DEF TxnOK, Txn, Matching, RowsChain
<1>5. RowsChain(NoTxn)
  BY DEF NoTxn, NewTxn, RowsChain
<1> HIDE DEF m
<1> QED
  BY <1>1, <1>4, <1>5, ChainGoesOn, ChainAdvances DEF Close

LEMMA BookItemChain ==
  ASSUME IInv, PendingRowsChain, NEW w \in Workers, BookItem(w)
  PROVE  PendingRowsChain'
<1> DEFINE t    == txn[w]
           line == CurrentLine(w)
           u    == [t EXCEPT !.heldItems = @ \cup {<<t.sale, line.item>>},
                             !.booked[line.item] = Booked(t, line)]
<1>1. UNCHANGED db /\ (Close(w) \/ Continue(w, u, "restore"))
  BY DEF BookItem
<1>2. TxnOK(t) /\ RowsChain(t)
  BY DEF IInv, TypeOK, PendingRowsChain
<1>3. RowsChain(u)
  BY <1>2 DEF TxnOK, Txn, RowsChain
<1>4. RowsChain(NoTxn)
  BY DEF NoTxn, NewTxn, RowsChain
<1> HIDE DEF u
<1> QED
  BY <1>1, <1>3, <1>4, ChainGoesOn DEF Close

\* The row of a return starts from the quantity it finds.
LEMMA RestoreLineChain ==
  ASSUME IInv, PendingRowsChain, WholeCalls, NEW w \in Workers, RestoreLine(w)
  PROVE  PendingRowsChain'
<1> DEFINE t    == txn[w]
           line == t.lines[t.next]
           p    == line.product
           q    == line.quantity
           l    == Locked(t, p)
           u    == Restored(l, p, q)
           new  == Whole(l.stock[p] * Scale + q)
<1>1. phase[w] = "restore" /\ UNCHANGED db /\ Advance(w, u, "book")
  BY DEF RestoreLine, CurrentLine
<1>2. /\ TxnOK(t) /\ RowsChain(t) /\ t.op = "RETURN" /\ t.next \in t.staged
      /\ ReturnOK(t, "restore")
  BY <1>1 DEF IInv, TypeOK, PendingRowsChain, CallOK, CourseOK
<1>3. p \in Products /\ q \in Nat
  BY <1>2, LineType DEF ReturnOK
<1>4. TxnOK(l) /\ RowsChain(l) /\ p \in l.held
  <2>1. TypeOK
    BY DEF IInv
  <2> HIDE DEF p
  <2>2. TxnOK(l) /\ RowsChain(l)
    BY <1>2, <1>3, LockedChain
  <2>3. l.held = t.held \cup {p}
    BY <1>2, <1>3, <2>1, LockedOK
  <2> QED
    BY <2>2, <2>3
<1> HIDE DEF l, p, q
<1>5. /\ TxnOK(u) /\ u.held = l.held /\ u.stock = [l.stock EXCEPT ![p] = new]
      /\ u.rows = [l.rows EXCEPT ![p] = Append(@, ReturnRow(q, new))]
      /\ ReturnRow(q, new) \in Row
  <2>1. new = Whole(l.stock[p] * Scale + q)
    OBVIOUS
  <2> HIDE DEF new
  <2> QED
    BY <1>3, <1>4, <2>1, RestoredOK
<1>6. /\ l.stock \in [Products -> Nat] /\ l.rows \in [Products -> Seq(Row)]
      /\ onHand[p] \in Nat /\ l.stock[p] \in Nat /\ l.rows[p] \in Seq(Row)
  BY <1>3, <1>4 DEF TxnOK, Txn, IInv, TypeOK, StoreOK
<1>7. /\ new = l.stock[p] + q /\ ReturnRow(q, new).before = l.stock[p]
      /\ ReturnRow(q, new).change = q /\ ReturnRow(q, new).after = new
  <2>1. Scale = 1 /\ l.stock[p] * Scale + q = l.stock[p] + q
    BY <1>3, <1>6 DEF WholeCalls
  <2>2. new = l.stock[p] + q
    BY <1>3, <1>6, <2>1, WholeUnit
  <2>3. new * Scale - q = l.stock[p] /\ l.stock[p] * Scale + q = new
    BY <1>3, <1>6, <2>1, <2>2
  <2>4. Whole(q) = q /\ Whole(l.stock[p]) = l.stock[p] /\ Whole(new) = new
    BY <1>3, <1>6, <2>1, <2>2, WholeUnit
  <2> HIDE DEF new
  <2> QED
    BY <2>2, <2>3, <2>4 DEF ReturnRow, JournalRow
<1> HIDE DEF u, new
<1>8. Chained(onHand[p], u.rows[p], u.stock[p])
  <2>1. Chained(onHand[p], l.rows[p], l.stock[p])
    BY <1>3, <1>4 DEF RowsChain
  <2>2. Chained(onHand[p], Append(l.rows[p], ReturnRow(q, new)), ReturnRow(q, new).after)
    BY <1>5, <1>6, <1>7, <2>1, ChainedAppend
  <2> QED
    BY <1>3, <1>5, <1>6, <1>7, <2>2
<1>9. RowsChain(u)
  BY <1>3, <1>4, <1>5, <1>6, <1>8 DEF RowsChain
<1> QED
  BY <1>1, <1>5, <1>9, ChainAdvances DEF u, l, p, q

-----------------------------------------------------------------------------
\* The steps that store stock

\* A restock or an adjustment writes one row, from the quantity it has locked.
LEMMA MovedChain ==
  ASSUME IInv, NEW t, TxnOK(t), RowsChain(t), NEW p \in t.held, p \in Products,
         NEW kind \in Kinds, NEW change \in Int, t.stock[p] + change \in Nat
  PROVE  RowsChain(Moved(t, p, kind, change))
<1> DEFINE u   == Moved(t, p, kind, change)
           row == JournalRow(kind, change, t.stock[p], t.stock[p] + change)
<1>1. /\ TxnOK(u) /\ u.held = t.held /\ u.stock = [t.stock EXCEPT ![p] = @ + change]
      /\ u.rows = [t.rows EXCEPT ![p] = Append(@, row)]
  BY MovedOK
<1>2. /\ t.stock \in [Products -> Nat] /\ t.rows \in [Products -> Seq(Row)]
      /\ onHand[p] \in Nat /\ t.stock[p] \in Nat /\ t.rows[p] \in Seq(Row)
  BY DEF TxnOK, Txn, IInv, TypeOK, StoreOK
<1>3. /\ row \in Row /\ row.before = t.stock[p] /\ row.change = change
      /\ row.after = t.stock[p] + change
  BY <1>2 DEF JournalRow, Row
<1> HIDE DEF u, row
<1>4. Chained(onHand[p], t.rows[p], t.stock[p])
  BY DEF RowsChain
<1>5. Chained(onHand[p], Append(t.rows[p], row), row.after)
  BY <1>2, <1>3, <1>4, ChainedAppend
<1>6. Chained(onHand[p], u.rows[p], u.stock[p])
  BY <1>1, <1>2, <1>3, <1>5
<1>7. RowsChain(u)
  BY <1>1, <1>2, <1>6 DEF RowsChain
<1> QED
  BY <1>7 DEF u

LEMMA RestockProductChain ==
  ASSUME IInv, PendingRowsChain, NEW w \in Workers, RestockProduct(w)
  PROVE  PendingRowsChain' /\ Ledger!Post
<1> DEFINE line  == CurrentLine(w)
           t     == Moved(txn[w], line.product, "RESTOCK", line.quantity)
           notes == [t.notices EXCEPT ![line.product] = @ + StillLow(t, line.product)]
           d     == Restocked(txn[w], line.product, line.quantity)
<1>1. /\ WriteStock(d) /\ Close(w) /\ phase[w] = "write" /\ txn[w].op = "RESTOCK"
  BY DEF RestockProduct
<1>2. /\ TxnOK(txn[w]) /\ line.product \in Products /\ line.product \in txn[w].held
      /\ line.quantity \in Int /\ txn[w].stock[line.product] + line.quantity \in Nat
  BY <1>1, WrittenLine
<1>3. RowsChain(txn[w])
  BY DEF PendingRowsChain
<1>4. TxnOK(t) /\ t.held = txn[w].held
  <2>1. "RESTOCK" \in Kinds
    BY DEF Kinds
  <2> HIDE DEF line
  <2>2. TxnOK(t)
    BY <1>2, <2>1, MovedOK
  <2>3. t.held = txn[w].held
    BY <1>2 DEF Moved, Update, TxnOK, Txn
  <2> QED
    BY <2>2, <2>3
<1>5. RowsChain(t)
  BY <1>2, <1>3, MovedChain DEF Kinds
<1>6. d = [t EXCEPT !.notices = notes]
  BY DEF Restocked
<1> HIDE DEF t, d
<1>7. notes \in [Products -> Nat]
  <2>1. t.notices \in [Products -> Nat]
    BY <1>4 DEF TxnOK, Txn
  <2>2. StillLow(t, line.product) \in Nat
    BY DEF StillLow
  <2> QED
    BY <1>2, <2>1, <2>2
<1> HIDE DEF notes
<1>8. TxnOK(d) /\ d.held = t.held /\ RowsChain(d)
  BY <1>4, <1>5, <1>6, <1>7 DEF TxnOK, Txn, RowsChain
<1> QED
  BY <1>1, <1>4, <1>8, ChainStored

LEMMA AdjustStockChain ==
  ASSUME IInv, PendingRowsChain, NEW w \in Workers, AdjustStock(w)
  PROVE  PendingRowsChain' /\ Ledger!Post
<1> DEFINE line == CurrentLine(w)
           t    == Moved(txn[w], line.product, "ADJUSTMENT", line.quantity)
<1>1. WriteStock(t) /\ Close(w) /\ phase[w] = "write" /\ txn[w].op = "ADJUST"
  BY DEF AdjustStock
<1>2. /\ TxnOK(txn[w]) /\ line.product \in Products /\ line.product \in txn[w].held
      /\ line.quantity \in Int /\ txn[w].stock[line.product] + line.quantity \in Nat
  BY <1>1, WrittenLine
<1>3. RowsChain(txn[w])
  BY DEF PendingRowsChain
<1>4. TxnOK(t) /\ t.held = txn[w].held
  <2>1. "ADJUSTMENT" \in Kinds
    BY DEF Kinds
  <2> HIDE DEF line
  <2>2. TxnOK(t)
    BY <1>2, <2>1, MovedOK
  <2>3. t.held = txn[w].held
    BY <1>2 DEF Moved, Update, TxnOK, Txn
  <2> QED
    BY <2>2, <2>3
<1>5. RowsChain(t)
  BY <1>2, <1>3, MovedChain DEF Kinds
<1> HIDE DEF t
<1> QED
  BY <1>1, <1>4, <1>5, ChainStored

LEMMA CommitReturnChain ==
  ASSUME IInv, PendingRowsChain, NEW w \in Workers, CommitReturn(w)
  PROVE  PendingRowsChain' /\ Ledger!Post
<1>1. WriteStock(txn[w]) /\ Close(w)
  BY DEF CommitReturn
<1>2. TxnOK(txn[w]) /\ RowsChain(txn[w])
  BY DEF IInv, TypeOK, PendingRowsChain
<1> QED
  BY <1>1, <1>2, ChainStored

\* A sale has one line for each product it has locked, and none for the others.
LEMMA OneLineOf ==
  ASSUME WholeCalls, IInv, NEW w \in Workers, phase[w] = "write", txn[w].op = "SALE",
         NEW p \in Products
  PROVE  LET t == txn[w] IN
         /\ \A k \in LinesOf(t, p) : LinesOf(t, p) = {k}
         /\ p \notin t.held => LinesOf(t, p) = {}
<1> DEFINE t == txn[w]
<1>1. PICK r \in Requests : t.op = r.op /\ t.lines = r.lines
  BY DEF IInv, CallOK, CourseOK
<1>2. TxnOK(t) /\ CheckedOK(t, "write")
  BY DEF IInv, TypeOK, CallOK
<1>3. t.staged \subseteq DOMAIN t.lines
  BY <1>2 DEF TxnOK
<1>4. \A j, k \in t.staged : j # k => t.lines[j].product # t.lines[k].product
  BY <1>1, <1>3 DEF WholeCalls
<1>5. \A k \in t.staged : t.lines[k].product \in t.held
  BY <1>2 DEF CheckedOK, Checked
<1> QED
  BY <1>4, <1>5 DEF LinesOf

\* One row that leads from b to b - q.
LEMMA OneRow ==
  ASSUME NEW b \in Nat, NEW e \in Nat, NEW row \in Row, row.before = b, row.after = e,
         row.after = row.before + row.change,
         NEW rows, rows = <<row>>
  PROVE  Chained(b, rows, e)
  BY DEF Chained

LEMMA CreateSaleChain ==
  ASSUME WholeCalls, IInv, PendingRowsChain, NEW w \in Workers, CreateSale(w)
  PROVE  PendingRowsChain' /\ Ledger!Post
<1> DEFINE t == txn[w]
<1>1. phase[w] = "write" /\ t.op = "SALE" /\ Close(w)
  BY DEF CreateSale
<1>2. PICK line \in [t.held -> t.staged] :
      \E order \in [Products -> UNION {SetToSeqs(LinesOf(t, p)) : p \in Products}] :
         /\ \A p \in t.held : line[p] \in LinesOf(t, p)
         /\ \A p \in Products : order[p] \in SetToSeqs(LinesOf(t, p))
         /\ WriteStock([Deducted(t, line) EXCEPT !.rows =
               [p \in Products |-> [i \in DOMAIN order[p] |->
                   SaleRow(t.lines[order[p][i]].quantity, Deducted(t, line).stock[p])]]])
  BY DEF CreateSale
<1>3. PICK order \in [Products -> UNION {SetToSeqs(LinesOf(t, p)) : p \in Products}] :
         /\ \A p \in t.held : line[p] \in LinesOf(t, p)
         /\ \A p \in Products : order[p] \in SetToSeqs(LinesOf(t, p))
         /\ WriteStock([Deducted(t, line) EXCEPT !.rows =
               [p \in Products |-> [i \in DOMAIN order[p] |->
                   SaleRow(t.lines[order[p][i]].quantity, Deducted(t, line).stock[p])]]])
  BY <1>2
<1> DEFINE d    == Deducted(t, line)
           rows == [p \in Products |-> [i \in DOMAIN order[p] |->
                       SaleRow(t.lines[order[p][i]].quantity, d.stock[p])]]
<1>4. /\ TxnOK(t) /\ RowsChain(t) /\ CheckedOK(t, "write")
      /\ \A k \in t.staged : t.lines[k].quantity > 0
  BY <1>1 DEF IInv, TypeOK, CallOK, PendingRowsChain, CheckedOK
<1>5. /\ TxnOK(d) /\ d.held = t.held
      /\ \A p \in t.held : d.stock[p] = Whole(t.stock[p] * Scale - t.lines[line[p]].quantity)
  <2>1. t.held \subseteq Products
    BY <1>4 DEF TxnOK, Txn
  <2> QED
    BY <1>1, <1>3, <2>1, DeductedOK
<1>6. d.stock \in [Products -> Nat]
  BY <1>5 DEF TxnOK, Txn
<1> HIDE DEF d
<1>7. ASSUME NEW p \in Products
      PROVE  /\ rows[p] \in Seq(Row)
             /\ IF p \in t.held THEN Chained(onHand[p], rows[p], d.stock[p]) ELSE rows[p] = <<>>
  <2>1. order[p] \in SetToSeqs(LinesOf(t, p)) /\ d.stock[p] \in Nat
    BY <1>3, <1>6
  <2>2. rows[p] \in Seq(Row)
    BY <1>4, <2>1, SaleRowsType
  <2>3. \E n \in Nat : DOMAIN order[p] = 1 .. n /\ n = Cardinality(LinesOf(t, p))
    BY <1>4, <2>1, OrderType
  <2>4. CASE p \notin t.held
    <3>1. LinesOf(t, p) = {}
      BY <1>1, <2>4, OneLineOf
    <3>2. DOMAIN order[p] = {}
      BY <2>3, <3>1, FS_EmptySet
    <3>3. Len(rows[p]) = 0
      BY <2>2, <3>2, LenProperties
    <3> QED
      BY <2>2, <2>4, <3>3, EmptySeq
  <2>5. CASE p \in t.held
    <3> DEFINE q == t.lines[line[p]].quantity
    <3>1. line[p] \in LinesOf(t, p) /\ line[p] \in t.staged
      BY <1>3, <2>5
    <3>2. LinesOf(t, p) = {line[p]}
      BY <1>1, <3>1, OneLineOf
    <3>3. Cardinality(LinesOf(t, p)) = 1
      BY <3>2, FS_Singleton
    <3>4. DOMAIN order[p] = 1 .. 1 /\ order[p][1] = line[p]
      <4>1. DOMAIN order[p] = 1 .. 1
        BY <2>3, <3>3
      <4>2. order[p][1] \in LinesOf(t, p)
        BY <1>4, <2>1, <4>1, OrderType
      <4> QED
        BY <3>2, <4>1, <4>2
    <3>5. q \in Nat /\ t.stock[p] \in Nat /\ onHand[p] \in Nat
      <4>1. q \in Nat
        BY <1>4, <3>1, LineType
      <4>2. t.stock[p] \in Nat /\ onHand[p] \in Nat
        BY <1>4 DEF TxnOK, Txn, IInv, TypeOK, StoreOK
      <4> QED
        BY <4>1, <4>2
    <3>6. t.stock[p] = onHand[p]
      <4>1. t.rows[p] = <<>> /\ Chained(onHand[p], t.rows[p], t.stock[p])
        BY <1>1, <1>4, <2>5 DEF CheckedOK, RowsChain
      <4> QED
        BY <4>1 DEF Chained
    <3>7. d.stock[p] = onHand[p] - q
      <4>1. d.stock[p] = Whole(onHand[p] * Scale - q)
        BY <1>5, <2>5, <3>6
      <4>2. onHand[p] * Scale - q = onHand[p] - q
        BY <3>5 DEF WholeCalls
      <4> HIDE DEF q
      <4> QED
        BY <3>5, <4>1, <4>2, WholeUnit DEF WholeCalls
    <3> DEFINE row == SaleRow(q, d.stock[p])
    <3>8. /\ row.before = onHand[p] /\ row.after = d.stock[p] /\ row.change = -q
      <4>1. d.stock[p] * Scale + q = onHand[p]
        BY <2>1, <3>5, <3>7 DEF WholeCalls
      <4> HIDE DEF q
      <4>2. Whole(-q) = -q /\ Whole(d.stock[p] * Scale + q) = onHand[p]
        BY <3>5, <4>1, WholeUnit DEF WholeCalls
      <4> QED
        BY <4>2 DEF SaleRow, JournalRow
    <3>9. rows[p] = <<row>>
      <4>1. DOMAIN rows[p] = 1 .. 1 /\ rows[p][1] = row
        BY <3>4
      <4>2. Len(rows[p]) = 1
        BY <2>2, <4>1, LenProperties
      <4> HIDE DEF rows, row
      <4>3. rows[p][1] \in Row
        BY <2>2, <4>2, ElementOfSeq
      <4> QED
        BY <2>2, <4>1, <4>2, <4>3
    <3>10. row \in Row
      <4>1. rows[p][1] = row /\ rows[p][1] \in Row
        <5>1. DOMAIN rows[p] = 1 .. 1 /\ rows[p][1] = row
          BY <3>4
        <5>2. Len(rows[p]) = 1
          BY <2>2, <5>1, LenProperties
        <5> HIDE DEF rows, row
        <5> QED
          BY <2>2, <5>1, <5>2, ElementOfSeq
      <4> QED
        BY <4>1
    <3> HIDE DEF row, rows, q
    <3>11. Chained(onHand[p], rows[p], d.stock[p])
      BY <2>1, <3>5, <3>7, <3>8, <3>9, <3>10, OneRow
    <3> QED
      BY <2>2, <2>5, <3>11
  <2> QED
    BY <2>4, <2>5
<1> DEFINE e == [d EXCEPT !.rows = rows]
<1>8. rows \in [Products -> Seq(Row)]
  BY <1>7
<1>9. WriteStock(e)
  BY <1>3 DEF d
<1> HIDE DEF rows
<1>10. TxnOK(e) /\ e.held = t.held /\ e.rows = rows /\ e.stock = d.stock
  BY <1>5, <1>8 DEF TxnOK, Txn
<1> HIDE DEF e
<1>11. RowsChain(e)
  BY <1>7, <1>10 DEF RowsChain
<1> QED
  BY <1>1, <1>9, <1>10, <1>11, ChainStored

-----------------------------------------------------------------------------
\* Each step keeps the chains, and is a step of StockLedger or leaves it alone.
LEMMA LedgerStep ==
  ASSUME WholeCalls, IInv, PendingRowsChain, [Next]_vars
  PROVE  PendingRowsChain' /\ [Ledger!Post]_<<onHand, ledger>>
<1>1. ASSUME NEW w \in Workers, Step(w)
      PROVE  PendingRowsChain' /\ [Ledger!Post]_<<onHand, ledger>>
  <2>1. CASE LockRow(w) \/ ExpandLines(w) \/ BookItem(w) \/ RestoreLine(w)
    <3>1. UNCHANGED <<onHand, ledger>>
      BY <2>1 DEF LockRow, ExpandLines, BookItem, RestoreLine, db
    <3> QED
      BY <2>1, <3>1, LockRowChain, ExpandLinesChain, BookItemChain, RestoreLineChain
  <2>2. CASE CreateSale(w) \/ RestockProduct(w) \/ AdjustStock(w) \/ CommitReturn(w)
    BY <2>2, CreateSaleChain, RestockProductChain, AdjustStockChain, CommitReturnChain
  <2> QED
    BY <1>1, <2>1, <2>2 DEF Step
<1>2. ASSUME NEW w \in Workers, Call(w)
      PROVE  PendingRowsChain' /\ [Ledger!Post]_<<onHand, ledger>>
  BY <1>2, CallChain DEF Call, db
<1>3. ASSUME NEW w \in Workers, DeadlockVictim(w) \/ Abort(w)
      PROVE  PendingRowsChain' /\ [Ledger!Post]_<<onHand, ledger>>
  <2>1. Continue(w, NoTxn, "idle") /\ UNCHANGED db
    BY <1>3 DEF DeadlockVictim, Abort, Refuse, Close
  <2>2. RowsChain(NoTxn)
    BY DEF NoTxn, NewTxn, RowsChain
  <2> QED
    BY <2>1, <2>2, ChainGoesOn DEF db
<1>4. ASSUME UNCHANGED vars
      PROVE  PendingRowsChain' /\ [Ledger!Post]_<<onHand, ledger>>
  BY <1>4 DEF vars, PendingRowsChain, RowsChain
<1> QED
  BY <1>1, <1>2, <1>3, <1>4 DEF Next, Quiet

\* Every sale, return, restock and adjustment the procedures commit posts rows
\* that lead from the stored quantity to the new one: the UPDLOCK reads keep the
\* snapshots true until they are written, whatever runs beside them.
THEOREM ProceduresPostMovements ==
  ASSUME WholeCalls
  PROVE  Spec => LedgerSpec
<1>1. Init => PendingRowsChain /\ Ledger!Init
  BY ChainInit DEF Init, Ledger!Init
<1>2. IInv /\ PendingRowsChain /\ [Next]_vars
        => PendingRowsChain' /\ [Ledger!Post]_<<onHand, ledger>>
  BY LedgerStep
<1> QED
  BY <1>1, <1>2, InvariantHolds, PTL DEF Spec, LedgerSpec, Ledger!Spec

\* So the journal leads from the opening stock to the quantity on hand without a gap
\* (LedgerChains), however calls interleave.
THEOREM JournalIsWhole == WholeCalls => (Spec => []LedgerChains)
<1> SUFFICES ASSUME WholeCalls PROVE Spec => []LedgerChains
  OBVIOUS
<1>1. Init => PendingRowsChain /\ LedgerChains
  BY ChainInit, ChainedEmpty, SameJournal DEF Init, LedgerChains, Ledger!LedgerChains
<1>2. IInv /\ PendingRowsChain /\ IInv' /\ LedgerChains /\ [Next]_vars
        => PendingRowsChain' /\ LedgerChains'
  <2> SUFFICES ASSUME IInv, PendingRowsChain, IInv', LedgerChains, [Next]_vars
               PROVE  PendingRowsChain' /\ LedgerChains'
    OBVIOUS
  <2>1. PendingRowsChain' /\ [Ledger!Post]_<<onHand, ledger>>
    BY LedgerStep
  <2>2. CASE Ledger!Post
    <3>1. ASSUME NEW p \in Products PROVE Chained(InitStock[p], ledger'[p], onHand'[p])
      <4>1. ledger[p] \in Seq(Row) /\ ledger'[p] \in Seq(Row)
        BY DEF IInv, TypeOK, StoreOK
      <4>2. /\ ledger'[p] = ledger[p] \o Ledger!Appended(p)
            /\ Chained(onHand[p], Ledger!Appended(p), onHand'[p])
            /\ Chained(InitStock[p], ledger[p], onHand[p])
        BY <2>2, SameJournal DEF Ledger!Post, LedgerChains, Ledger!LedgerChains
      <4> DEFINE old  == ledger[p]
                 new  == ledger'[p]
                 rows == Ledger!Appended(p)
                 b    == InitStock[p]
                 m    == onHand[p]
                 e    == onHand'[p]
      <4>3. /\ old \in Seq(Row) /\ new \in Seq(Row)
            /\ rows = SubSeq(new, Len(old) + 1, Len(new)) /\ new = old \o rows
            /\ Chained(b, old, m) /\ Chained(m, rows, e)
        BY <4>1, <4>2 DEF Ledger!Appended
      <4> HIDE DEF old, new, rows, b, m, e
      <4>4. Chained(b, new, e)
        BY <4>3, ChainedGrows
      <4> QED
        BY <4>4 DEF b, new, e
    <3> QED
      BY <2>1, <3>1, SameJournal DEF LedgerChains, Ledger!LedgerChains
  <2>3. CASE UNCHANGED <<onHand, ledger>>
    BY <2>1, <2>3 DEF LedgerChains, Ledger!LedgerChains
  <2> QED
    BY <2>1, <2>2, <2>3
<1> QED
  BY <1>1, <1>2, InvariantHolds, PTL DEF Spec

-----------------------------------------------------------------------------
\* One alert per low product

\* The trigger turns one OPEN alert, or none, into what the new stock calls for.
LEMMA TriggerKeepsOne ==
  ASSUME NEW p \in Products, NEW rows \in Seq(BOOLEAN), NEW old \in Nat, NEW new \in Nat,
         OneAlertIfLow(p, rows, old)
  PROVE  OneAlertIfLow(p, AfterUpdate(rows, old, new, Threshold[p]), new)
<1> DEFINE after == AfterUpdate(rows, old, new, Threshold[p])
<1>1. Threshold[p] \in Nat /\ DOMAIN rows = 1 .. Len(rows) /\ Len(rows) \in Nat
  BY ProceduresAssumption, LenProperties
<1>2. CASE old <= Threshold[p] /\ new > Threshold[p]
  <2>1. after = [a \in DOMAIN rows |-> FALSE]
    BY <1>2 DEF AfterUpdate, Recovered
  <2>2. OpenIn(after) = {}
    BY <2>1 DEF OpenIn
  <2>3. ~(new <= Threshold[p])
    BY <1>1, <1>2
  <2> QED
    BY <2>2, <2>3 DEF OneAlertIfLow
<1>3. CASE old > Threshold[p] /\ new <= Threshold[p]
  <2>1. OpenIn(rows) = {} /\ ~Recovered(old, new, Threshold[p])
    BY <1>1, <1>3 DEF OneAlertIfLow, Recovered
  <2>2. after = Append(rows, TRUE)
    BY <1>3, <2>1 DEF AfterUpdate, Raised, Dropped
  <2>3. /\ DOMAIN after = 1 .. Len(rows) + 1 /\ after[Len(rows) + 1] = TRUE
        /\ \A a \in 1 .. Len(rows) : after[a] = rows[a]
    <3>1. /\ after \in Seq(BOOLEAN) /\ Len(after) = Len(rows) + 1
          /\ after[Len(rows) + 1] = TRUE
          /\ \A a \in 1 .. Len(rows) : after[a] = rows[a]
      BY <2>2, AppendProperties
    <3> QED
      BY <3>1, LenProperties
  <2> HIDE DEF after
  <2>4. \A a \in DOMAIN rows : ~rows[a]
    BY <2>1 DEF OpenIn
  <2>5. Len(rows) + 1 \in DOMAIN after
    BY <1>1, <2>3
  <2>6. \A a \in DOMAIN after : a \in DOMAIN rows \/ a = Len(rows) + 1
    BY <1>1, <2>3
  <2>7. \A a \in DOMAIN rows : after[a] = rows[a]
    BY <1>1, <2>3
  <2>8. OpenIn(after) = {Len(rows) + 1}
    BY <2>3, <2>4, <2>5, <2>6, <2>7 DEF OpenIn
  <2> QED
    BY <1>3, <2>8 DEF OneAlertIfLow, after
<1>4. CASE old <= Threshold[p] <=> new <= Threshold[p]
  <2>1. ~Recovered(old, new, Threshold[p]) /\ ~Dropped(old, new, Threshold[p])
    BY <1>1, <1>4 DEF Recovered, Dropped
  <2>2. after = rows
    BY <2>1 DEF AfterUpdate, Raised
  <2> QED
    BY <1>4, <2>2 DEF OneAlertIfLow
<1> QED
  BY <1>1, <1>2, <1>3, <1>4

\* So it does in every UPDATE of a call ...
LEMMA UpdateAlerts ==
  ASSUME NEW t, TxnOK(t), AlertsRight(t), NEW new \in [Products -> Nat]
  PROVE  AlertsRight(Update(t, new))
<1> DEFINE u == Update(t, new)
<1>1. /\ t.held \subseteq Products /\ t.stock \in [Products -> Nat]
      /\ t.alerts \in [Products -> Seq(BOOLEAN)]
  BY DEF TxnOK, Txn
<1>2. u.held = t.held /\ u.stock = new
  BY UpdateOK
<1>3. \A p \in Products :
         u.alerts[p] = AfterUpdate(t.alerts[p], t.stock[p], new[p], Threshold[p])
  BY <1>1 DEF TxnOK, Txn, Update
<1> HIDE DEF u
<1>4. ASSUME NEW p \in u.held, InitStock[p] > Threshold[p]
      PROVE  OneAlertIfLow(p, u.alerts[p], u.stock[p])
  <2>1. p \in Products /\ OneAlertIfLow(p, t.alerts[p], t.stock[p])
    BY <1>1, <1>2, <1>4 DEF AlertsRight
  <2>2. t.alerts[p] \in Seq(BOOLEAN) /\ t.stock[p] \in Nat /\ new[p] \in Nat
    BY <1>1, <2>1
  <2> QED
    BY <1>2, <1>3, <2>1, <2>2, TriggerKeepsOne
<1>5. AlertsRight(u)
  BY <1>4 DEF AlertsRight
<1> QED
  BY <1>5 DEF u

\* ... and a call that locks a row copies its alerts with its stock.
LEMMA LockedAlerts ==
  ASSUME IInv, PendingAlertsFollow, NEW t, TxnOK(t), AlertsRight(t), NEW p \in Products
  PROVE  AlertsRight(Locked(t, p))
<1> DEFINE l == Locked(t, p)
<1>1. l.held = t.held \cup {p}
  BY LockedOK DEF IInv
<1>2. CASE p \in t.held
  BY <1>2 DEF Locked
<1>3. CASE p \notin t.held
  <2>1. /\ l.stock = [t.stock EXCEPT ![p] = onHand[p]]
        /\ l.alerts = [t.alerts EXCEPT ![p] = alerts[p]]
    BY <1>3 DEF Locked, TxnOK, Txn
  <2>2. /\ t.stock \in [Products -> Nat] /\ t.alerts \in [Products -> Seq(BOOLEAN)]
        /\ t.held \subseteq Products
    BY DEF TxnOK, Txn
  <2> HIDE DEF l
  <2>3. l.stock[p] = onHand[p] /\ l.alerts[p] = alerts[p]
    BY <2>1, <2>2
  <2>4. \A q \in t.held : q # p /\ l.stock[q] = t.stock[q] /\ l.alerts[q] = t.alerts[q]
    BY <1>3, <2>1, <2>2
  <2>5. AlertsRight(l)
    BY <1>1, <2>3, <2>4 DEF AlertsRight, PendingAlertsFollow
  <2> QED
    BY <2>5 DEF l
<1> QED
  BY <1>2, <1>3

\* No call has no alerts pending.
LEMMA NoTxnAlerts == AlertsRight(NoTxn)
<1>1. NoTxn.held = {}
  BY DEF NoTxn, NewTxn
<1> QED
  BY <1>1 DEF AlertsRight

\* A step that stores nothing, with or without another line to go on with.
LEMMA AlertGoesOn ==
  ASSUME IInv, PendingAlertsFollow, NEW w \in Workers, NEW t, NEW ph, Continue(w, t, ph),
         UNCHANGED db, AlertsRight(t)
  PROVE  PendingAlertsFollow'
<1>1. txn'[w] = t /\ \A v \in Workers \ {w} : txn'[v] = txn[v]
  BY DEF Continue, IInv, TypeOK
<1>2. \A v \in Workers : AlertsRight(txn[v])'
  BY <1>1 DEF PendingAlertsFollow, AlertsRight, OneAlertIfLow
<1> QED
  BY <1>2 DEF PendingAlertsFollow, OneAlertIfLow, db

LEMMA AlertAdvances ==
  ASSUME IInv, PendingAlertsFollow, NEW w \in Workers, NEW t, TxnOK(t), NEW ph,
         Advance(w, t, ph), UNCHANGED db, AlertsRight(t)
  PROVE  PendingAlertsFollow'
<1>1. ASSUME NEW k \in t.todo, Continue(w, [t EXCEPT !.next = k, !.todo = @ \ {k}], ph)
      PROVE  PendingAlertsFollow'
  <2> DEFINE u == [t EXCEPT !.next = k, !.todo = @ \ {k}]
  <2>1. u.held = t.held /\ u.alerts = t.alerts /\ u.stock = t.stock
    BY DEF TxnOK, Txn
  <2> HIDE DEF u
  <2>2. AlertsRight(u) /\ Continue(w, u, ph)
    BY <1>1, <2>1 DEF AlertsRight, u
  <2> QED
    BY <2>2, AlertGoesOn
<1> QED
  BY <1>1, AlertGoesOn DEF Advance

\* A step that stores what is pending.
LEMMA AlertStored ==
  ASSUME IInv, PendingAlertsFollow, NEW w \in Workers, NEW t, TxnOK(t), AlertsRight(t),
         WriteStock(t), Close(w)
  PROVE  PendingAlertsFollow'
<1>1. ASSUME NEW p \in Products, InitStock[p] > Threshold[p]
      PROVE  OneAlertIfLow(p, alerts[p], onHand[p])'
  <2>1. IF p \in t.held THEN alerts'[p] = t.alerts[p] /\ onHand'[p] = t.stock[p]
        ELSE alerts'[p] = alerts[p] /\ onHand'[p] = onHand[p]
    BY DEF WriteStock
  <2> QED
    BY <1>1, <2>1 DEF PendingAlertsFollow, AlertsRight, OneAlertIfLow
<1>2. txn'[w] = NoTxn /\ \A v \in Workers \ {w} : txn'[v] = txn[v]
  BY DEF Close, Continue, IInv, TypeOK
<1>3. \A v \in Workers : AlertsRight(txn[v])'
  BY <1>2, NoTxnAlerts DEF PendingAlertsFollow, AlertsRight, OneAlertIfLow
<1> QED
  BY <1>1, <1>3 DEF PendingAlertsFollow

\* Initially no alert is open, and none is due.
LEMMA AlertInit == Init => PendingAlertsFollow
<1> SUFFICES ASSUME Init PROVE PendingAlertsFollow
  OBVIOUS
<1>1. ASSUME NEW p \in Products, InitStock[p] > Threshold[p]
      PROVE  OneAlertIfLow(p, alerts[p], onHand[p])
  <2>1. ~(InitStock[p] <= Threshold[p])
    BY <1>1, ProceduresAssumption
  <2>2. alerts[p] = <<>> /\ onHand[p] = InitStock[p]
    BY DEF Init
  <2>3. OpenIn(alerts[p]) = {}
    BY <2>2 DEF OpenIn
  <2> QED
    BY <2>1, <2>2, <2>3 DEF OneAlertIfLow
<1> QED
  BY <1>1, NoTxnAlerts DEF Init, PendingAlertsFollow

LEMMA CallAlerts ==
  ASSUME IInv, PendingAlertsFollow, NEW w \in Workers, Call(w)
  PROVE  PendingAlertsFollow'
<1>1. PICK r \in Requests : \/ Continue(w, NewTxn(r), "expand")
                            \/ Advance(w, StagedTxn(r), "check")
  BY DEF Call, StagedTxn
<1>2. UNCHANGED db
  BY DEF Call
<1>3. NewTxn(r).held = {} /\ StagedTxn(r).held = {}
  BY DEF NewTxn, StagedTxn
<1>4. TxnOK(StagedTxn(r))
  <2>1. TxnOK(NewTxn(r)) /\ Staged(r) \subseteq Nat
    BY RequestType, NewTxnOK
  <2> QED
    BY <2>1, RequestType DEF TxnOK, Txn, NewTxn, StagedTxn
<1>5. AlertsRight(NewTxn(r)) /\ AlertsRight(StagedTxn(r))
  BY <1>3 DEF AlertsRight
<1> QED
  BY <1>1, <1>2, <1>4, <1>5, AlertGoesOn, AlertAdvances

LEMMA LockRowAlerts ==
  ASSUME IInv, PendingAlertsFollow, NEW w \in Workers, LockRow(w)
  PROVE  PendingAlertsFollow'
<1> DEFINE line == CurrentLine(w)
           l    == Locked(txn[w], line.product)
<1>1. /\ phase[w] = "check" /\ UNCHANGED db
      /\ Close(w) \/ Advance(w, l, "check")
  BY DEF LockRow
<1>2. /\ TypeOK /\ TxnOK(txn[w]) /\ AlertsRight(txn[w])
      /\ txn[w].next \in txn[w].staged
  BY <1>1 DEF IInv, TypeOK, PendingAlertsFollow, CallOK, CourseOK
<1>3. line.product \in Products
  BY <1>2, LineType DEF CurrentLine
<1>4. TxnOK(l) /\ AlertsRight(l)
  BY <1>2, <1>3, LockedOK, LockedAlerts
<1> HIDE DEF l
<1> QED
  BY <1>1, <1>4, NoTxnAlerts, AlertGoesOn, AlertAdvances DEF Close

LEMMA ExpandLinesAlerts ==
  ASSUME IInv, PendingAlertsFollow, NEW w \in Workers, ExpandLines(w)
  PROVE  PendingAlertsFollow'
<1> DEFINE t == txn[w]
           m == [t EXCEPT !.staged = Matching(t), !.todo = Matching(t)]
<1>1. UNCHANGED db /\ (Close(w) \/ Advance(w, m, "book"))
  BY DEF ExpandLines
<1>2. TxnOK(t) /\ AlertsRight(t)
  BY DEF IInv, TypeOK, PendingAlertsFollow
<1>3. DOMAIN t.lines \subseteq Nat
  BY <1>2, LenProperties DEF TxnOK, Txn
<1>4. TxnOK(m) /\ m.held = t.held /\ m.alerts = t.alerts /\ m.stock = t.stock
  BY <1>2, <1>3 DEF TxnOK, Txn, Matching
<1> HIDE DEF m
<1>5. AlertsRight(m)
  BY <1>2, <1>4 DEF AlertsRight
<1> QED
  BY <1>1, <1>4, <1>5, NoTxnAlerts, AlertGoesOn, AlertAdvances DEF Close, m

LEMMA BookItemAlerts ==
  ASSUME IInv, PendingAlertsFollow, NEW w \in Workers, BookItem(w)
  PROVE  PendingAlertsFollow'
<1> DEFINE t    == txn[w]
           line == CurrentLine(w)
           u    == [t EXCEPT !.heldItems = @ \cup {<<t.sale, line.item>>},
                             !.booked[line.item] = Booked(t, line)]
<1>1. UNCHANGED db /\ (Close(w) \/ Continue(w, u, "restore"))
  BY DEF BookItem
<1>2. TxnOK(t) /\ AlertsRight(t)
  BY DEF IInv, TypeOK, PendingAlertsFollow
<1>3. u.held = t.held /\ u.alerts = t.alerts /\ u.stock = t.stock
  BY <1>2 DEF TxnOK, Txn
<1> HIDE DEF u
<1>4. AlertsRight(u)
  BY <1>2, <1>3 DEF AlertsRight
<1> QED
  BY <1>1, <1>4, NoTxnAlerts, AlertGoesOn DEF Close

LEMMA RestoreLineAlerts ==
  ASSUME IInv, PendingAlertsFollow, NEW w \in Workers, RestoreLine(w)
  PROVE  PendingAlertsFollow'
<1> DEFINE t   == txn[w]
           p   == t.lines[t.next].product
           q   == t.lines[t.next].quantity
           l   == Locked(t, p)
           u   == Restored(l, p, q)
           new == Whole(l.stock[p] * Scale + q)
           m   == Update(l, [l.stock EXCEPT ![p] = new])
<1>1. phase[w] = "restore" /\ UNCHANGED db /\ Advance(w, u, "book")
  BY DEF RestoreLine, CurrentLine
<1>2. /\ TypeOK /\ TxnOK(t) /\ AlertsRight(t) /\ t.op = "RETURN" /\ t.next \in t.staged
      /\ ReturnOK(t, "restore")
  BY <1>1 DEF IInv, TypeOK, PendingAlertsFollow, CallOK, CourseOK
<1>3. p \in Products /\ q \in Nat
  BY <1>2, LineType DEF ReturnOK
<1>4. TxnOK(l) /\ AlertsRight(l)
  <2> HIDE DEF t, p
  <2> QED
    BY <1>2, <1>3, LockedOK, LockedAlerts
<1> HIDE DEF l, p, q
<1>5. l.stock \in [Products -> Nat] /\ new \in Nat
  <2>1. l.stock \in [Products -> Nat]
    BY <1>4 DEF TxnOK, Txn
  <2>2. l.stock[p] \in Nat
    BY <1>3, <2>1
  <2>3. l.stock[p] * Scale + q \in Nat
    BY <1>3, <2>2, ProceduresAssumption
  <2> QED
    BY <2>1, <2>3, WholeNat
<1>6. TxnOK(u)
  <2>1. new = Whole(l.stock[p] * Scale + q)
    OBVIOUS
  <2> HIDE DEF new
  <2> QED
    BY <1>3, <1>4, <2>1, RestoredOK
<1>7. TxnOK(m) /\ AlertsRight(m)
  <2>1. [l.stock EXCEPT ![p] = new] \in [Products -> Nat]
    BY <1>5
  <2> HIDE DEF new
  <2> QED
    BY <1>4, <2>1, UpdateOK, UpdateAlerts
<1>8. u.held = m.held /\ u.alerts = m.alerts /\ u.stock = m.stock
  <2>1. u = [m EXCEPT !.rows[p] = Append(@, ReturnRow(q, new))]
    BY DEF Restored
  <2> HIDE DEF u, m
  <2> QED
    BY <1>7, <2>1 DEF TxnOK, Txn
<1> HIDE DEF u, m
<1>9. AlertsRight(u)
  BY <1>7, <1>8 DEF AlertsRight
<1> QED
  BY <1>1, <1>6, <1>9, AlertAdvances DEF u, l, p, q

\* A restock or an adjustment updates one row.
LEMMA MovedAlerts ==
  ASSUME NEW t, TxnOK(t), AlertsRight(t), NEW p \in Products, NEW kind,
         NEW change \in Int, t.stock[p] + change \in Nat
  PROVE  AlertsRight(Moved(t, p, kind, change))
<1> DEFINE m == Update(t, [t.stock EXCEPT ![p] = @ + change])
           u == Moved(t, p, kind, change)
<1>1. [t.stock EXCEPT ![p] = @ + change] \in [Products -> Nat]
  BY DEF TxnOK, Txn
<1>2. TxnOK(m) /\ AlertsRight(m)
  BY <1>1, UpdateOK, UpdateAlerts
<1>3. u.held = m.held /\ u.alerts = m.alerts /\ u.stock = m.stock
  <2>1. u = [m EXCEPT !.rows[p] = Append(@, JournalRow(kind, change, t.stock[p],
                                                       t.stock[p] + change))]
    BY DEF Moved
  <2> HIDE DEF u, m
  <2> QED
    BY <1>2, <2>1 DEF TxnOK, Txn
<1> HIDE DEF u, m
<1>4. AlertsRight(u)
  BY <1>2, <1>3 DEF AlertsRight
<1> QED
  BY <1>4 DEF u

LEMMA OneRowAlerts ==
  ASSUME IInv, PendingAlertsFollow, NEW w \in Workers, RestockProduct(w) \/ AdjustStock(w)
  PROVE  PendingAlertsFollow'
<1> DEFINE line == CurrentLine(w)
<1>1. phase[w] = "write" /\ txn[w].op \in {"RESTOCK", "ADJUST"} /\ Close(w)
  BY DEF RestockProduct, AdjustStock
<1>2. /\ TxnOK(txn[w]) /\ line.product \in Products /\ line.quantity \in Int
      /\ txn[w].stock[line.product] + line.quantity \in Nat
  BY <1>1, WrittenLine
<1>3. AlertsRight(txn[w])
  BY DEF PendingAlertsFollow
<1>4. ASSUME NEW kind \in Kinds
      PROVE  LET t == Moved(txn[w], line.product, kind, line.quantity) IN
             TxnOK(t) /\ AlertsRight(t)
  <2> HIDE DEF line
  <2> QED
    BY <1>2, <1>3, MovedOK, MovedAlerts
<1>5. CASE AdjustStock(w)
  <2>1. WriteStock(Moved(txn[w], line.product, "ADJUSTMENT", line.quantity))
    BY <1>5 DEF AdjustStock
  <2>2. "ADJUSTMENT" \in Kinds
    BY DEF Kinds
  <2> QED
    BY <1>1, <1>4, <2>1, <2>2, AlertStored
<1>6. CASE RestockProduct(w)
  <2> DEFINE t == Moved(txn[w], line.product, "RESTOCK", line.quantity)
             notes == [t.notices EXCEPT ![line.product] = @ + StillLow(t, line.product)]
             d == Restocked(txn[w], line.product, line.quantity)
  <2>1. WriteStock(d) /\ d = [t EXCEPT !.notices = notes]
    BY <1>6 DEF RestockProduct, Restocked
  <2>2. TxnOK(t) /\ AlertsRight(t)
    BY <1>4 DEF Kinds
  <2> HIDE DEF t, d
  <2>3. notes \in [Products -> Nat]
    <3>1. t.notices \in [Products -> Nat]
      BY <2>2 DEF TxnOK, Txn
    <3>2. StillLow(t, line.product) \in Nat
      BY DEF StillLow
    <3> QED
      BY <1>2, <3>1, <3>2
  <2> HIDE DEF notes
  <2>4. TxnOK(d) /\ d.held = t.held /\ d.alerts = t.alerts /\ d.stock = t.stock
    BY <2>1, <2>2, <2>3 DEF TxnOK, Txn
  <2>5. AlertsRight(d)
    BY <2>2, <2>4 DEF AlertsRight
  <2> QED
    BY <1>1, <2>1, <2>4, <2>5, AlertStored
<1> QED
  BY <1>5, <1>6

LEMMA CommitReturnAlerts ==
  ASSUME IInv, PendingAlertsFollow, NEW w \in Workers, CommitReturn(w)
  PROVE  PendingAlertsFollow'
<1>1. WriteStock(txn[w]) /\ Close(w)
  BY DEF CommitReturn
<1>2. TxnOK(txn[w]) /\ AlertsRight(txn[w])
  BY DEF IInv, TypeOK, PendingAlertsFollow
<1> QED
  BY <1>1, <1>2, AlertStored

LEMMA CreateSaleAlerts ==
  ASSUME IInv, PendingAlertsFollow, NEW w \in Workers, CreateSale(w)
  PROVE  PendingAlertsFollow'
<1> DEFINE t == txn[w]
<1>1. phase[w] = "write" /\ t.op = "SALE" /\ Close(w)
  BY DEF CreateSale
<1>2. PICK line \in [t.held -> t.staged] :
         /\ \A p \in t.held : line[p] \in LinesOf(t, p)
         /\ \E rows : WriteStock([Deducted(t, line) EXCEPT !.rows = rows])
  BY DEF CreateSale
<1>3. PICK rows : WriteStock([Deducted(t, line) EXCEPT !.rows = rows])
  BY <1>2
<1> DEFINE d   == Deducted(t, line)
           new == [p \in Products |->
                     IF p \in t.held THEN Whole(t.stock[p] * Scale - t.lines[line[p]].quantity)
                     ELSE t.stock[p]]
<1>4. TxnOK(t) /\ AlertsRight(t)
  BY DEF IInv, TypeOK, PendingAlertsFollow
<1>5. TxnOK(d) /\ d.held = t.held /\ d.stock = new
  BY <1>1, <1>2, DeductedOK
<1>6. new \in [Products -> Nat]
  BY <1>5 DEF TxnOK, Txn
<1>7. AlertsRight(d)
  <2>1. d = Update(t, new)
    BY DEF Deducted
  <2> HIDE DEF d, new
  <2> QED
    BY <1>4, <1>6, <2>1, UpdateAlerts
<1> HIDE DEF d, new
<1> DEFINE e == [d EXCEPT !.rows = rows]
<1>8. WriteStock(e)
  BY <1>3 DEF d
<1>9. e.held = d.held /\ e.alerts = d.alerts /\ e.stock = d.stock
  BY <1>5 DEF TxnOK, Txn
<1> HIDE DEF e
<1>10. ASSUME NEW p \in Products, InitStock[p] > Threshold[p]
       PROVE  OneAlertIfLow(p, alerts[p], onHand[p])'
  <2>1. IF p \in d.held THEN alerts'[p] = d.alerts[p] /\ onHand'[p] = d.stock[p]
        ELSE alerts'[p] = alerts[p] /\ onHand'[p] = onHand[p]
    BY <1>8, <1>9 DEF WriteStock
  <2> QED
    BY <1>7, <1>10, <2>1 DEF PendingAlertsFollow, AlertsRight, OneAlertIfLow
<1>11. txn'[w] = NoTxn /\ \A v \in Workers \ {w} : txn'[v] = txn[v]
  BY <1>1 DEF Close, Continue, IInv, TypeOK
<1>12. \A v \in Workers : AlertsRight(txn[v])'
  BY <1>11, NoTxnAlerts DEF PendingAlertsFollow, AlertsRight, OneAlertIfLow
<1> QED
  BY <1>10, <1>12 DEF PendingAlertsFollow

\* Every step keeps the alerts in line with the stock.
LEMMA AlertStep ==
  ASSUME IInv, PendingAlertsFollow, [Next]_vars
  PROVE  PendingAlertsFollow'
<1>1. ASSUME NEW w \in Workers, Step(w) PROVE PendingAlertsFollow'
  BY <1>1, LockRowAlerts, ExpandLinesAlerts, BookItemAlerts, RestoreLineAlerts, OneRowAlerts,
     CreateSaleAlerts, CommitReturnAlerts DEF Step
<1>2. ASSUME NEW w \in Workers, DeadlockVictim(w) \/ Abort(w) PROVE PendingAlertsFollow'
  <2>1. Continue(w, NoTxn, "idle") /\ UNCHANGED db
    BY <1>2 DEF DeadlockVictim, Abort, Refuse, Close
  <2> QED
    BY <2>1, NoTxnAlerts, AlertGoesOn
<1>3. ASSUME UNCHANGED vars PROVE PendingAlertsFollow'
  BY <1>3 DEF vars, PendingAlertsFollow, AlertsRight, OneAlertIfLow
<1> QED
  BY <1>1, <1>2, <1>3, CallAlerts DEF Next, Quiet

\* However calls interleave, a product that was stocked above its threshold has
\* exactly one OPEN alert while it is at or below it, and none while it is above:
\* the trigger runs under the lock of the row, so it never misses a crossing.
THEOREM AlertsAlwaysFollowStock == Spec => []AlertsFollowStock
<1>1. IInv /\ PendingAlertsFollow /\ [Next]_vars => PendingAlertsFollow'
  BY AlertStep
<1>2. PendingAlertsFollow => AlertsFollowStock
  <2> SUFFICES ASSUME PendingAlertsFollow, NEW p \in Products, InitStock[p] > Threshold[p]
               PROVE  Cardinality(OpenIn(alerts[p])) = IF onHand[p] <= Threshold[p] THEN 1 ELSE 0
    BY DEF AlertsFollowStock
  <2>1. OneAlertIfLow(p, alerts[p], onHand[p])
    BY DEF PendingAlertsFollow
  <2> QED
    BY <2>1, FS_Singleton, FS_EmptySet DEF OneAlertIfLow
<1> QED
  BY <1>1, <1>2, AlertInit, InvariantHolds, PTL DEF Spec

-----------------------------------------------------------------------------
\* Sums over the sale items

\* Finitely many sales, of finitely many items each.
SalesOK(ss) == /\ IsFiniteSet(DOMAIN ss)
               /\ \A s \in DOMAIN ss : /\ IsFiniteSet(DOMAIN ss[s])
                                       /\ \A k \in DOMAIN ss[s] : ss[s][k] \in Item

\* Their items as pairs, those of p, and what was sold and returned on each.
AllIn(ss) == UNION {{s} \X DOMAIN ss[s] : s \in DOMAIN ss}
ItemsIn(ss, p) == {i \in AllIn(ss) : ss[i[1]][i[2]].product = p}
SoldIn(ss) == [i \in AllIn(ss) |-> ss[i[1]][i[2]].quantity]
ReturnedIn(ss) == [i \in AllIn(ss) |-> ss[i[1]][i[2]].returned_qty]

\* The lines of one sale that are of p, and what was sold and returned on them.
LinesIn(items, p) == {k \in DOMAIN items : items[k].product = p}
LinesSold(items) == [k \in DOMAIN items |-> items[k].quantity]
LinesReturned(items) == [k \in DOMAIN items |-> items[k].returned_qty]

\* The items of a product are finitely many pairs of a sale and a line of it.
LEMMA ItemsAre ==
  ASSUME NEW ss, SalesOK(ss), NEW p
  PROVE  /\ IsFiniteSet(ItemsIn(ss, p))
         /\ \A i \in ItemsIn(ss, p) :
               /\ i[1] \in DOMAIN ss /\ i[2] \in DOMAIN ss[i[1]] /\ i = <<i[1], i[2]>>
               /\ ss[i[1]][i[2]].product = p
               /\ SoldIn(ss)[i] = ss[i[1]][i[2]].quantity /\ SoldIn(ss)[i] \in Int
               /\ ReturnedIn(ss)[i] = ss[i[1]][i[2]].returned_qty /\ ReturnedIn(ss)[i] \in Int
         /\ \A s \in DOMAIN ss : \A k \in LinesIn(ss[s], p) : <<s, k>> \in ItemsIn(ss, p)
<1> DEFINE at(s) == {s} \X DOMAIN ss[s]
           h     == [s \in DOMAIN ss |-> at(s)]
           rng   == {at(s) : s \in DOMAIN ss}
<1>1. ASSUME NEW s \in DOMAIN ss PROVE IsFiniteSet(at(s))
  <2>1. IsFiniteSet(DOMAIN ss[s]) /\ IsFiniteSet({s})
    BY FS_Singleton DEF SalesOK
  <2> QED
    BY <2>1, FS_Product
<1>2. IsFiniteSet(rng)
  <2>1. h \in Surjection(DOMAIN ss, rng)
    <3>1. h \in [DOMAIN ss -> rng] /\ \A t \in rng : \E s \in DOMAIN ss : h[s] = t
      OBVIOUS
    <3> QED
      BY <3>1 DEF Surjection
  <2>2. IsFiniteSet(DOMAIN ss)
    BY DEF SalesOK
  <2> HIDE DEF h, rng
  <2> QED
    BY <2>1, <2>2, FS_Surjection
<1>3. \A t \in rng : IsFiniteSet(t)
  BY <1>1
<1>4. IsFiniteSet(UNION rng)
  <2> HIDE DEF rng
  <2> QED
    BY <1>2, <1>3, FS_UNION
<1>5. IsFiniteSet(ItemsIn(ss, p))
  BY <1>4, FS_Subset DEF ItemsIn, AllIn
<1>6. ASSUME NEW i \in ItemsIn(ss, p)
      PROVE  /\ i[1] \in DOMAIN ss /\ i[2] \in DOMAIN ss[i[1]] /\ i = <<i[1], i[2]>>
             /\ ss[i[1]][i[2]].product = p
             /\ SoldIn(ss)[i] = ss[i[1]][i[2]].quantity /\ SoldIn(ss)[i] \in Int
             /\ ReturnedIn(ss)[i] = ss[i[1]][i[2]].returned_qty /\ ReturnedIn(ss)[i] \in Int
  <2>1. i \in AllIn(ss) /\ ss[i[1]][i[2]].product = p
    BY DEF ItemsIn
  <2>2. i[1] \in DOMAIN ss /\ i[2] \in DOMAIN ss[i[1]] /\ i = <<i[1], i[2]>>
    BY <2>1 DEF AllIn
  <2>3. ss[i[1]][i[2]] \in Item
    BY <2>2 DEF SalesOK
  <2> QED
    BY <2>1, <2>2, <2>3 DEF SoldIn, ReturnedIn, Item
<1>7. ASSUME NEW s \in DOMAIN ss, NEW k \in LinesIn(ss[s], p)
      PROVE  <<s, k>> \in ItemsIn(ss, p)
  <2>1. <<s, k>> \in at(s)
    BY DEF LinesIn
  <2> QED
    BY <2>1 DEF ItemsIn, AllIn, LinesIn
<1> QED
  BY <1>5, <1>6, <1>7

\* tt is ss with the sale n added.
AddsSale(ss, tt, n) ==
    /\ SalesOK(ss) /\ SalesOK(tt) /\ n \notin DOMAIN ss /\ DOMAIN tt = DOMAIN ss \cup {n}
    /\ \A s \in DOMAIN ss : tt[s] = ss[s]

\* What a new sale adds to the sums.
LEMMA NewItems ==
  ASSUME NEW ss, NEW tt, NEW n, AddsSale(ss, tt, n), NEW p
  PROVE  /\ SumFunctionOnSet(SoldIn(tt), ItemsIn(tt, p))
              = SumFunctionOnSet(SoldIn(ss), ItemsIn(ss, p))
                + SumFunctionOnSet(LinesSold(tt[n]), LinesIn(tt[n], p))
         /\ SumFunctionOnSet(ReturnedIn(tt), ItemsIn(tt, p))
              = SumFunctionOnSet(ReturnedIn(ss), ItemsIn(ss, p))
                + SumFunctionOnSet(LinesReturned(tt[n]), LinesIn(tt[n], p))
<1> DEFINE I == ItemsIn(ss, p)
           J == ItemsIn(tt, p)
           L == LinesIn(tt[n], p)
           N == PairsWith(n, L)
<1>1. /\ SalesOK(ss) /\ SalesOK(tt) /\ n \notin DOMAIN ss /\ DOMAIN tt = DOMAIN ss \cup {n}
      /\ \A s \in DOMAIN ss : tt[s] = ss[s]
  BY DEF AddsSale
<1>2. IsFiniteSet(I) /\ IsFiniteSet(L)
  <2>1. IsFiniteSet(DOMAIN tt[n])
    BY <1>1 DEF SalesOK
  <2> QED
    BY <1>1, <2>1, ItemsAre, FS_Subset DEF LinesIn
<1>3. \A k \in L : /\ <<n, k>> \in J
                   /\ SoldIn(tt)[<<n, k>>] = LinesSold(tt[n])[k]
                   /\ ReturnedIn(tt)[<<n, k>>] = LinesReturned(tt[n])[k]
                   /\ LinesSold(tt[n])[k] \in Int /\ LinesReturned(tt[n])[k] \in Int
  <2> SUFFICES ASSUME NEW k \in L
               PROVE  /\ <<n, k>> \in J
                      /\ SoldIn(tt)[<<n, k>>] = LinesSold(tt[n])[k]
                      /\ ReturnedIn(tt)[<<n, k>>] = LinesReturned(tt[n])[k]
                      /\ LinesSold(tt[n])[k] \in Int /\ LinesReturned(tt[n])[k] \in Int
    OBVIOUS
  <2>1. <<n, k>> \in J
    BY <1>1, ItemsAre
  <2>2. /\ SoldIn(tt)[<<n, k>>] = tt[n][k].quantity /\ SoldIn(tt)[<<n, k>>] \in Int
        /\ ReturnedIn(tt)[<<n, k>>] = tt[n][k].returned_qty
        /\ ReturnedIn(tt)[<<n, k>>] \in Int
    BY <1>1, <2>1, ItemsAre
  <2> QED
    BY <2>1, <2>2 DEF LinesIn, LinesSold, LinesReturned
<1>4. \A i \in I : /\ i \in J /\ i \notin N
                   /\ SoldIn(ss)[i] \in Int /\ SoldIn(tt)[i] = SoldIn(ss)[i]
                   /\ ReturnedIn(ss)[i] \in Int /\ ReturnedIn(tt)[i] = ReturnedIn(ss)[i]
  <2> SUFFICES ASSUME NEW i \in I
               PROVE  /\ i \in J /\ i \notin N
                      /\ SoldIn(ss)[i] \in Int /\ SoldIn(tt)[i] = SoldIn(ss)[i]
                      /\ ReturnedIn(ss)[i] \in Int /\ ReturnedIn(tt)[i] = ReturnedIn(ss)[i]
    OBVIOUS
  <2>1. /\ i[1] \in DOMAIN ss /\ i[2] \in DOMAIN ss[i[1]] /\ i = <<i[1], i[2]>>
        /\ ss[i[1]][i[2]].product = p
        /\ SoldIn(ss)[i] = ss[i[1]][i[2]].quantity /\ SoldIn(ss)[i] \in Int
        /\ ReturnedIn(ss)[i] = ss[i[1]][i[2]].returned_qty /\ ReturnedIn(ss)[i] \in Int
    BY <1>1, ItemsAre
  <2>2. i[1] \in DOMAIN tt /\ tt[i[1]] = ss[i[1]] /\ i[2] \in LinesIn(tt[i[1]], p)
    BY <1>1, <2>1 DEF LinesIn
  <2>3. <<i[1], i[2]>> \in J
    BY <1>1, <2>2, ItemsAre
  <2>4. i \in J
    BY <2>1, <2>3
  <2>5. SoldIn(tt)[i] = tt[i[1]][i[2]].quantity /\ ReturnedIn(tt)[i] = tt[i[1]][i[2]].returned_qty
    BY <1>1, <2>4, ItemsAre
  <2>6. i \notin N
    BY <1>1, <2>1 DEF PairsWith
  <2> QED
    BY <2>1, <2>2, <2>4, <2>5, <2>6
<1>5. J = I \cup N
  <2>1. \A i \in J : i \in I \/ i \in N
    <3> SUFFICES ASSUME NEW i \in J PROVE i \in I \/ i \in N
      OBVIOUS
    <3>1. /\ i[1] \in DOMAIN tt /\ i[2] \in DOMAIN tt[i[1]] /\ i = <<i[1], i[2]>>
          /\ tt[i[1]][i[2]].product = p
      BY <1>1, ItemsAre
    <3>2. i[2] \in LinesIn(tt[i[1]], p)
      BY <3>1 DEF LinesIn
    <3>3. CASE i[1] = n
      BY <3>1, <3>2, <3>3 DEF PairsWith
    <3>4. CASE i[1] \in DOMAIN ss
      <4>1. <<i[1], i[2]>> \in I
        BY <1>1, <3>2, <3>4, ItemsAre
      <4> QED
        BY <3>1, <4>1
    <3> QED
      BY <1>1, <3>1, <3>3, <3>4
  <2>2. \A i \in N : i \in J
    BY <1>3 DEF PairsWith
  <2> HIDE DEF I, J, N
  <2> QED
    BY <1>4, <2>1, <2>2
<1>6. I \cap N = {}
  BY <1>4
<1>7. /\ Extends(SoldIn(ss), I, SoldIn(tt), n, LinesSold(tt[n]), L)
      /\ Extends(ReturnedIn(ss), I, ReturnedIn(tt), n, LinesReturned(tt[n]), L)
  <2> HIDE DEF I, J, L
  <2> QED
    BY <1>2, <1>3, <1>4, <1>6 DEF Extends
<1> HIDE DEF I, J, L
<1>8. /\ SumFunctionOnSet(SoldIn(tt), I \cup PairsWith(n, L))
           = SumFunctionOnSet(SoldIn(ss), I) + SumFunctionOnSet(LinesSold(tt[n]), L)
      /\ SumFunctionOnSet(ReturnedIn(tt), I \cup PairsWith(n, L))
           = SumFunctionOnSet(ReturnedIn(ss), I) + SumFunctionOnSet(LinesReturned(tt[n]), L)
  BY <1>7, SumExtends
<1> QED
  BY <1>5, <1>8 DEF I, J, L

\* tt is ss with the quantities in more returned on the items of the sale s.
AddsReturned(ss, tt, s, more) ==
    /\ SalesOK(ss) /\ SalesOK(tt) /\ s \in DOMAIN ss /\ DOMAIN tt = DOMAIN ss
    /\ \A x \in DOMAIN ss : DOMAIN tt[x] = DOMAIN ss[x]
    /\ \A x \in DOMAIN ss : x # s => tt[x] = ss[x]
    /\ \A k \in DOMAIN ss[s] : /\ tt[s][k].product = ss[s][k].product
                               /\ tt[s][k].quantity = ss[s][k].quantity
                               /\ more[k] \in Int
                               /\ tt[s][k].returned_qty = ss[s][k].returned_qty + more[k]

\* What a return adds to the sums.
LEMMA ReturnedItems ==
  ASSUME NEW ss, NEW tt, NEW s, NEW more, AddsReturned(ss, tt, s, more), NEW p
  PROVE  /\ SumFunctionOnSet(SoldIn(tt), ItemsIn(tt, p))
              = SumFunctionOnSet(SoldIn(ss), ItemsIn(ss, p))
         /\ SumFunctionOnSet(ReturnedIn(tt), ItemsIn(tt, p))
              = SumFunctionOnSet(ReturnedIn(ss), ItemsIn(ss, p))
                + SumFunctionOnSet(more, LinesIn(ss[s], p))
<1> DEFINE I == ItemsIn(ss, p)
           J == ItemsIn(tt, p)
           L == LinesIn(ss[s], p)
           N == PairsWith(s, L)
<1>1. /\ SalesOK(ss) /\ SalesOK(tt) /\ s \in DOMAIN ss /\ DOMAIN tt = DOMAIN ss
      /\ \A x \in DOMAIN ss : DOMAIN tt[x] = DOMAIN ss[x]
      /\ \A x \in DOMAIN ss : x # s => tt[x] = ss[x]
      /\ \A k \in DOMAIN ss[s] : /\ tt[s][k].product = ss[s][k].product
                                 /\ tt[s][k].quantity = ss[s][k].quantity
                                 /\ more[k] \in Int
                                 /\ tt[s][k].returned_qty = ss[s][k].returned_qty + more[k]
  BY DEF AddsReturned
<1>2. \A x \in DOMAIN ss : LinesIn(tt[x], p) = LinesIn(ss[x], p)
  BY <1>1 DEF LinesIn
<1>3. I = J
  <2>1. ASSUME NEW i \in I PROVE i \in J
    <3>1. i[1] \in DOMAIN ss /\ i[2] \in LinesIn(ss[i[1]], p) /\ i = <<i[1], i[2]>>
      BY <1>1, <2>1, ItemsAre DEF LinesIn
    <3>2. <<i[1], i[2]>> \in J
      BY <1>1, <1>2, <3>1, ItemsAre
    <3> QED
      BY <3>1, <3>2
  <2>2. ASSUME NEW i \in J PROVE i \in I
    <3>1. i[1] \in DOMAIN tt /\ i[2] \in LinesIn(tt[i[1]], p) /\ i = <<i[1], i[2]>>
      BY <1>1, <2>2, ItemsAre DEF LinesIn
    <3>2. <<i[1], i[2]>> \in I
      BY <1>1, <1>2, <3>1, ItemsAre
    <3> QED
      BY <3>1, <3>2
  <2> HIDE DEF I, J
  <2> QED
    BY <2>1, <2>2
<1>4. IsFiniteSet(I) /\ IsFiniteSet(L)
  <2>1. IsFiniteSet(DOMAIN ss[s])
    BY <1>1 DEF SalesOK
  <2> QED
    BY <1>1, <2>1, ItemsAre, FS_Subset DEF LinesIn
<1>5. ASSUME NEW i \in I
      PROVE  /\ i[1] \in DOMAIN ss /\ i[2] \in DOMAIN ss[i[1]] /\ i = <<i[1], i[2]>>
             /\ ss[i[1]][i[2]].product = p
             /\ SoldIn(ss)[i] = ss[i[1]][i[2]].quantity /\ SoldIn(ss)[i] \in Int
             /\ ReturnedIn(ss)[i] = ss[i[1]][i[2]].returned_qty /\ ReturnedIn(ss)[i] \in Int
             /\ SoldIn(tt)[i] = tt[i[1]][i[2]].quantity
             /\ ReturnedIn(tt)[i] = tt[i[1]][i[2]].returned_qty
  <2>1. i \in J
    BY <1>3
  <2> QED
    BY <1>1, <2>1, ItemsAre
<1>6. \A i \in I : SoldIn(ss)[i] = SoldIn(tt)[i]
  <2> SUFFICES ASSUME NEW i \in I PROVE SoldIn(ss)[i] = SoldIn(tt)[i]
    OBVIOUS
  <2> QED
    BY <1>1, <1>5
<1>7. \A i \in I : /\ ReturnedIn(ss)[i] \in Int
                   /\ i \notin N => ReturnedIn(tt)[i] = ReturnedIn(ss)[i]
  <2> SUFFICES ASSUME NEW i \in I, i \notin N
               PROVE  ReturnedIn(tt)[i] = ReturnedIn(ss)[i]
    BY <1>5
  <2>1. i[1] # s
    <3>1. ASSUME i[1] = s PROVE FALSE
      <4>1. i[2] \in L /\ i = <<s, i[2]>>
        BY <1>5, <3>1 DEF LinesIn
      <4> QED
        BY <4>1 DEF PairsWith
    <3> QED
      BY <3>1
  <2> QED
    BY <1>1, <1>5, <2>1
<1>8. \A k \in L : /\ <<s, k>> \in I /\ more[k] \in Int
                   /\ ReturnedIn(tt)[<<s, k>>] = ReturnedIn(ss)[<<s, k>>] + more[k]
  <2> SUFFICES ASSUME NEW k \in L
               PROVE  /\ <<s, k>> \in I /\ more[k] \in Int
                      /\ ReturnedIn(tt)[<<s, k>>] = ReturnedIn(ss)[<<s, k>>] + more[k]
    OBVIOUS
  <2>1. <<s, k>> \in I
    BY <1>1, ItemsAre
  <2>2. /\ ReturnedIn(ss)[<<s, k>>] = ss[s][k].returned_qty
        /\ ReturnedIn(tt)[<<s, k>>] = tt[s][k].returned_qty
    BY <1>5, <2>1
  <2> QED
    BY <1>1, <2>1, <2>2 DEF LinesIn
<1>9. N \subseteq I
  BY <1>8 DEF PairsWith
<1>10. Adds(ReturnedIn(ss), ReturnedIn(tt), I, s, more, L)
  <2> HIDE DEF I, L
  <2> QED
    BY <1>4, <1>7, <1>8, <1>9 DEF Adds
<1> HIDE DEF I, J, L
<1>11. SumFunctionOnSet(ReturnedIn(tt), I)
         = SumFunctionOnSet(ReturnedIn(ss), I) + SumFunctionOnSet(more, L)
  BY <1>10, SumAdds
<1>12. SumFunctionOnSet(SoldIn(tt), I) = SumFunctionOnSet(SoldIn(ss), I)
  BY <1>4, <1>6, SumSame
<1> QED
  BY <1>3, <1>11, <1>12 DEF I, J, L

-----------------------------------------------------------------------------
\* Journal and sale items, for whole quantities

\* The journal rows of p move what the items of the sales ss say.
Balanced(rows, ss, p) ==
    /\ UnitsMoved(rows, {"SALE"}) = -SumFunctionOnSet(SoldIn(ss), ItemsIn(ss, p))
    /\ UnitsMoved(rows, {"RETURN"}) = SumFunctionOnSet(ReturnedIn(ss), ItemsIn(ss, p))

\* That is what ItemsAreJournaled says.
LEMMA ItemsBalance ==
  /\ ItemsAreJournaled <=> \A p \in Products : Balanced(ledger[p], sales, p)
  /\ ItemsAreJournaled' <=> \A p \in Products : Balanced(ledger'[p], sales', p)
<1> USE DEF ItemsAreJournaled, Journaled, Balanced, SoldOf, ReturnedOf, ItemsOf, AllItems,
            SaleItem, SoldIn, ReturnedIn, ItemsIn, AllIn
<1>1. ItemsAreJournaled <=> \A p \in Products : Balanced(ledger[p], sales, p)
  OBVIOUS
<1>2. ItemsAreJournaled' <=> \A p \in Products : Balanced(ledger'[p], sales', p)
  OBVIOUS
<1> QED
  BY <1>1, <1>2

\* The stored sales can be added up.
LEMMA StoredSalesOK ==
  /\ StoreOK /\ FiniteSales => SalesOK(sales)
  /\ StoreOK' /\ FiniteSales' => SalesOK(sales')
<1>1. ASSUME NEW ss, ss \in Seq(Range(ss)), \A s \in DOMAIN ss : SaleOK(ss[s]),
             \A s \in DOMAIN ss : IsFiniteSet(DOMAIN ss[s])
      PROVE  SalesOK(ss)
  <2>1. DOMAIN ss = 1 .. Len(ss) /\ Len(ss) \in Nat
    BY <1>1, LenProperties
  <2>2. IsFiniteSet(DOMAIN ss)
    BY <2>1, FS_Interval
  <2> QED
    BY <1>1, <2>2 DEF SalesOK, SaleOK
<1> QED
  BY <1>1 DEF StoreOK, FiniteSales

\* A step keeps the products of the items that are stored.
KeepsItems ==
    \A s \in DOMAIN sales :
        /\ s \in DOMAIN sales' /\ DOMAIN sales'[s] = DOMAIN sales[s]
        /\ \A k \in DOMAIN sales[s] : sales'[s][k].product = sales[s][k].product

\* So other returns still have what they have booked.
LEMMA OthersFit ==
  ASSUME JournalInv, NEW w \in Workers, NEW t, NEW ph, Continue(w, t, ph), KeepsItems,
         NEW v \in Workers, v # w
  PROVE  RowsFitBooked(txn[v], phase[v])'
<1>1. txn'[v] = txn[v] /\ phase'[v] = phase[v]
  BY DEF Continue, JournalInv, IInv, TypeOK
<1>2. RowsFitBooked(txn[v], phase[v]) /\ ReturnOK(txn[v], phase[v])
  BY DEF JournalInv, IInv, CallOK
<1>3. CASE phase[v] # "idle" /\ txn[v].op = "RETURN"
  <2> DEFINE u == txn[v]
  <2>1. /\ u.sale \in DOMAIN sales
        /\ phase[v] # "expand" => \A k \in u.staged : u.lines[k].item \in DOMAIN sales[u.sale]
    BY <1>2, <1>3 DEF ReturnOK
  <2>2. \A p : ItemsWith(u, p)' = ItemsWith(u, p)
    BY <1>1, <2>1 DEF ItemsWith, KeepsItems
  <2>3. \A p : BookedOn(u, p)' = BookedOn(u, p)
    BY <1>1, <2>2 DEF BookedOn
  <2>4. \A p : ToRestore(u, phase[v], p)' = ToRestore(u, phase[v], p)
    BY <1>1 DEF ToRestore
  <2> QED
    BY <1>1, <1>2, <1>3, <2>1, <2>3, <2>4 DEF RowsFitBooked, KeepsItems
<1>4. CASE ~ (phase[v] # "idle" /\ txn[v].op = "RETURN")
  BY <1>1, <1>4 DEF RowsFitBooked
<1> QED
  BY <1>3, <1>4

\* A call that goes on, with nothing stored ...
LEMMA FitGoesOn ==
  ASSUME JournalInv, IInv', NEW w \in Workers, NEW t, NEW ph, Continue(w, t, ph),
         UNCHANGED db, RowsFitBooked(t, ph)
  PROVE  JournalInv'
<1>1. KeepsItems
  BY DEF KeepsItems, db
<1>2. \A v \in Workers : v # w => RowsFitBooked(txn[v], phase[v])'
  BY <1>1, OthersFit
<1>3. RowsFitBooked(txn[w], phase[w])'
  <2>1. txn'[w] = t /\ phase'[w] = ph /\ sales' = sales
    BY DEF Continue, JournalInv, IInv, TypeOK, db
  <2> QED
    BY <2>1 DEF RowsFitBooked, ToRestore, BookedOn, ItemsWith
<1>4. FiniteSales'
  BY DEF JournalInv, FiniteSales, db
<1>5. ItemsAreJournaled'
  BY ItemsBalance DEF JournalInv, db
<1> QED
  BY <1>2, <1>3, <1>4, <1>5 DEF JournalInv

\* ... perhaps with another line ...
LEMMA FitAdvances ==
  ASSUME JournalInv, IInv', NEW w \in Workers, NEW t, TxnOK(t), NEW ph,
         ph \in {"check", "book"}, Advance(w, t, ph), UNCHANGED db, RowsFitBooked(t, "write")
  PROVE  JournalInv'
<1>1. ASSUME NEW k \in t.todo, Continue(w, [t EXCEPT !.next = k, !.todo = @ \ {k}], ph)
      PROVE  JournalInv'
  <2> DEFINE u == [t EXCEPT !.next = k, !.todo = @ \ {k}]
  <2>1. /\ u.op = t.op /\ u.sale = t.sale /\ u.lines = t.lines /\ u.staged = t.staged
        /\ u.rows = t.rows /\ u.booked = t.booked
    BY DEF TxnOK, Txn
  <2> HIDE DEF u
  <2>2. \A p : BookedOn(u, p) = BookedOn(t, p)
    BY <2>1 DEF BookedOn, ItemsWith
  <2>3. \A p : ToRestore(u, ph, p) = ToRestore(t, "write", p)
    BY DEF ToRestore
  <2>4. RowsFitBooked(u, ph)
    BY <2>1, <2>2, <2>3 DEF RowsFitBooked
  <2>5. Continue(w, u, ph)
    BY <1>1 DEF u
  <2> QED
    BY <2>4, <2>5, FitGoesOn
<1>2. ASSUME Continue(w, t, "write") PROVE JournalInv'
  BY <1>2, FitGoesOn
<1> QED
  BY <1>1, <1>2 DEF Advance

\* ... or that ends with nothing stored.
LEMMA FitRefused ==
  ASSUME JournalInv, IInv', NEW w \in Workers, Close(w), UNCHANGED db
  PROVE  JournalInv'
<1>1. RowsFitBooked(NoTxn, "idle")
  BY DEF RowsFitBooked
<1> QED
  BY <1>1, FitGoesOn DEF Close

\* What rows and sales change together when a call stores them.
Posts(p, rows) ==
    /\ rows \in Seq(Row) /\ ledger'[p] = ledger[p] \o rows
    /\ SumFunctionOnSet(SoldIn(sales'), ItemsIn(sales', p))
         = SumFunctionOnSet(SoldIn(sales), ItemsIn(sales, p)) - UnitsMoved(rows, {"SALE"})
    /\ SumFunctionOnSet(ReturnedIn(sales'), ItemsIn(sales', p))
         = SumFunctionOnSet(ReturnedIn(sales), ItemsIn(sales, p)) + UnitsMoved(rows, {"RETURN"})

\* A call that ends and stores both: the journal and the items grow by the same units.
LEMMA FitEnds ==
  ASSUME JournalInv, IInv', NEW w \in Workers, Close(w), KeepsItems, FiniteSales',
         NEW rows, \A p \in Products : Posts(p, rows[p])
  PROVE  JournalInv'
<1>1. \A v \in Workers : v # w => RowsFitBooked(txn[v], phase[v])'
  BY OthersFit DEF Close
<1>2. RowsFitBooked(txn[w], phase[w])'
  <2>1. phase'[w] = "idle"
    BY DEF Close, Continue, JournalInv, IInv, TypeOK
  <2> QED
    BY <2>1 DEF RowsFitBooked
<1>3. ASSUME NEW p \in Products PROVE Balanced(ledger'[p], sales', p)
  <2> DEFINE a == SumFunctionOnSet(SoldIn(sales), ItemsIn(sales, p))
             b == SumFunctionOnSet(ReturnedIn(sales), ItemsIn(sales, p))
             s == UnitsMoved(rows[p], {"SALE"})
             r == UnitsMoved(rows[p], {"RETURN"})
  <2>1. Posts(p, rows[p])
    OBVIOUS
  <2>2. Balanced(ledger[p], sales, p)
    BY ItemsBalance DEF JournalInv
  <2>3. SalesOK(sales) /\ ledger[p] \in Seq(Row)
    BY StoredSalesOK DEF JournalInv, IInv, TypeOK, StoreOK
  <2>4. a \in Int /\ b \in Int
    <3>1. IsFiniteSet(ItemsIn(sales, p))
      BY <2>3, ItemsAre
    <3>2. \A i \in ItemsIn(sales, p) : SoldIn(sales)[i] \in Int /\ ReturnedIn(sales)[i] \in Int
      BY <2>3, ItemsAre
    <3> QED
      BY <3>1, <3>2, SumType
  <2>5. s \in Int /\ r \in Int
    BY <2>1, MovedType DEF Posts
  <2>6. /\ UnitsMoved(ledger'[p], {"SALE"}) = UnitsMoved(ledger[p], {"SALE"}) + s
        /\ UnitsMoved(ledger'[p], {"RETURN"}) = UnitsMoved(ledger[p], {"RETURN"}) + r
    BY <2>1, <2>3, MovedConcat DEF Posts
  <2>7. /\ SumFunctionOnSet(SoldIn(sales'), ItemsIn(sales', p)) = a - s
        /\ SumFunctionOnSet(ReturnedIn(sales'), ItemsIn(sales', p)) = b + r
    BY <2>1 DEF Posts
  <2>8. UnitsMoved(ledger[p], {"SALE"}) = -a /\ UnitsMoved(ledger[p], {"RETURN"}) = b
    BY <2>2 DEF Balanced
  <2> HIDE DEF a, b, s, r
  <2>9. -a + s = -(a - s)
    BY <2>4, <2>5
  <2> QED
    BY <2>6, <2>7, <2>8, <2>9 DEF Balanced
<1>4. ItemsAreJournaled'
  BY <1>3, ItemsBalance
<1> QED
  BY <1>1, <1>2, <1>4 DEF JournalInv

-----------------------------------------------------------------------------
\* The steps of the calls keep journal and sale items together

\* Nothing is booked and nothing moved to begin with.
LEMMA JournalInit == Init => JournalInv
<1> SUFFICES ASSUME Init PROVE JournalInv
  OBVIOUS
<1>1. IInv
  BY InvInit
<1>2. DOMAIN sales = {} /\ \A p \in Products : DOMAIN ledger[p] = {}
  BY DEF Init
<1>3. FiniteSales /\ \A w \in Workers : RowsFitBooked(txn[w], phase[w])
  BY <1>2 DEF Init, FiniteSales, RowsFitBooked
<1>4. ASSUME NEW p \in Products PROVE Balanced(ledger[p], sales, p)
  <2>1. ItemsIn(sales, p) = {}
    BY <1>2 DEF ItemsIn, AllIn
  <2>2. UnitsMoved(ledger[p], {"SALE"}) = 0 /\ UnitsMoved(ledger[p], {"RETURN"}) = 0
    BY <1>2, MovedNone
  <2> DEFINE a == SumFunctionOnSet(SoldIn(sales), ItemsIn(sales, p))
  <2>3. a = 0 /\ SumFunctionOnSet(ReturnedIn(sales), ItemsIn(sales, p)) = 0
    BY <2>1, SumEmpty
  <2>4. UnitsMoved(ledger[p], {"SALE"}) = -a
    <3> HIDE DEF a
    <3> QED
      BY <2>2, <2>3
  <2> QED
    BY <2>2, <2>3, <2>4 DEF Balanced
<1> QED
  BY <1>1, <1>3, <1>4, ItemsBalance DEF JournalInv

\* A new return has booked nothing.
LEMMA FitCall ==
  ASSUME JournalInv, IInv', NEW w \in Workers, Call(w)
  PROVE  JournalInv'
<1>1. PICK r \in Requests :
         /\ Accepted(r)
         /\ IF r.op = "RETURN" THEN Continue(w, NewTxn(r), "expand")
            ELSE Advance(w, StagedTxn(r), "check")
  BY DEF Call, StagedTxn
<1>2. UNCHANGED db
  BY DEF Call
<1>3. CASE r.op = "RETURN"
  <2> DEFINE t == NewTxn(r)
  <2>1. /\ t.sale = r.sale /\ t.booked = [i \in LineNumbers |-> 0]
        /\ t.rows = [p \in Products |-> <<>>]
    BY DEF NewTxn
  <2> HIDE DEF t
  <2>2. t.sale \in DOMAIN sales
    BY <1>1, <1>3, <2>1 DEF Accepted
  <2>3. IsFiniteSet(DOMAIN sales[t.sale]) /\ DOMAIN sales[t.sale] \subseteq LineNumbers
    BY <2>2 DEF JournalInv, FiniteSales, IInv, TypeOK, StoreOK, SaleOK
  <2>4. ASSUME NEW p \in Products
        PROVE  /\ \A i \in DOMAIN t.rows[p] : t.rows[p][i].kind = "RETURN"
               /\ BookedOn(t, p) = UnitsMoved(t.rows[p], {"RETURN"}) + ToRestore(t, "expand", p)
    <3>1. t.rows[p] = <<>> /\ DOMAIN t.rows[p] = {}
      BY <2>1
    <3>2. UnitsMoved(t.rows[p], {"RETURN"}) = 0
      BY <3>1, MovedNone
    <3>3. IsFiniteSet(ItemsWith(t, p)) /\ \A i \in ItemsWith(t, p) : t.booked[i] = 0
      BY <2>1, <2>3, FS_Subset DEF ItemsWith
    <3>4. BookedOn(t, p) = 0
      BY <3>3, SumZeros DEF BookedOn
    <3> QED
      BY <3>1, <3>2, <3>4 DEF ToRestore
  <2>5. RowsFitBooked(t, "expand")
    BY <2>4 DEF RowsFitBooked
  <2> QED
    BY <1>1, <1>2, <1>3, <2>5, FitGoesOn DEF t
<1>4. CASE r.op # "RETURN"
  <2>1. TxnOK(NewTxn(r)) /\ Staged(r) \subseteq Nat
    BY RequestType, NewTxnOK
  <2>2. TxnOK(StagedTxn(r)) /\ StagedTxn(r).op # "RETURN"
    BY <1>4, <2>1, RequestType DEF TxnOK, Txn, NewTxn, StagedTxn
  <2>3. RowsFitBooked(StagedTxn(r), "write")
    BY <2>2 DEF RowsFitBooked
  <2> QED
    BY <1>1, <1>2, <1>4, <2>2, <2>3, FitAdvances
<1> QED
  BY <1>3, <1>4

\* Locking a row for a sale, a restock or an adjustment books no return.
LEMMA FitLockRow ==
  ASSUME JournalInv, IInv', NEW w \in Workers, LockRow(w)
  PROVE  JournalInv'
<1> DEFINE line == CurrentLine(w)
           l    == Locked(txn[w], line.product)
<1>1. /\ phase[w] = "check" /\ UNCHANGED db
      /\ Close(w) \/ Advance(w, l, "check")
  BY DEF LockRow
<1>2. /\ TypeOK /\ TxnOK(txn[w]) /\ txn[w].op # "RETURN" /\ txn[w].next \in txn[w].staged
  BY <1>1 DEF JournalInv, IInv, TypeOK, CallOK, CourseOK
<1>3. line.product \in Products
  BY <1>2, LineType DEF CurrentLine
<1>4. TxnOK(l)
  BY <1>2, <1>3, LockedOK
<1>5. l.op # "RETURN"
  BY <1>2 DEF Locked, TxnOK, Txn
<1>6. RowsFitBooked(l, "write")
  BY <1>5 DEF RowsFitBooked
<1> HIDE DEF l
<1> QED
  BY <1>1, <1>4, <1>6, FitRefused, FitAdvances

\* The lines of a return that go on name the product of their item.
LEMMA FitExpandLines ==
  ASSUME JournalInv, IInv', NEW w \in Workers, ExpandLines(w)
  PROVE  JournalInv'
<1> DEFINE t == txn[w]
           m == [t EXCEPT !.staged = Matching(t), !.todo = Matching(t)]
<1>1. /\ phase[w] = "expand" /\ UNCHANGED db
      /\ Close(w) \/ Advance(w, m, "book")
  BY DEF ExpandLines
<1>2. TxnOK(t) /\ t.op = "RETURN" /\ RowsFitBooked(t, "expand")
  BY <1>1 DEF JournalInv, IInv, TypeOK, CallOK, CourseOK
<1>3. DOMAIN t.lines \subseteq Nat
  BY <1>2, LenProperties DEF TxnOK, Txn
<1>4. /\ TxnOK(m) /\ m.op = t.op /\ m.sale = t.sale /\ m.lines = t.lines
      /\ m.rows = t.rows /\ m.booked = t.booked /\ m.staged = Matching(t)
  BY <1>2, <1>3 DEF TxnOK, Txn, Matching
<1> HIDE DEF m
<1>5. RowsFitBooked(m, "write")
  <2>1. \A k \in m.staged : m.lines[k].product = sales[m.sale][m.lines[k].item].product
    BY <1>4 DEF Matching
  <2>2. \A p : BookedOn(m, p) = BookedOn(t, p)
    BY <1>4 DEF BookedOn, ItemsWith
  <2>3. \A p : ToRestore(m, "write", p) = 0 /\ ToRestore(t, "expand", p) = 0
    BY DEF ToRestore
  <2> QED
    BY <1>2, <1>4, <2>1, <2>2, <2>3 DEF RowsFitBooked
<1> QED
  BY <1>1, <1>4, <1>5, FitRefused, FitAdvances

\* What is booked on an item is still to be restored.
LEMMA FitBookItem ==
  ASSUME JournalInv, IInv', NEW w \in Workers, BookItem(w)
  PROVE  JournalInv'
<1> DEFINE t    == txn[w]
           line == t.lines[t.next]
           i    == line.item
           q    == line.quantity
           u    == [t EXCEPT !.heldItems = @ \cup {<<t.sale, line.item>>},
                             !.booked[line.item] = Booked(t, line)]
<1>1. /\ phase[w] = "book" /\ UNCHANGED db
      /\ Close(w) \/ (Continue(w, u, "restore") /\ q > 0)
  BY DEF BookItem, CurrentLine
<1>2. CASE Close(w)
  BY <1>1, <1>2, FitRefused
<1>3. CASE Continue(w, u, "restore") /\ q > 0
  <2>1. /\ TxnOK(t) /\ t.op = "RETURN" /\ t.next \in t.staged /\ ReturnOK(t, "book")
        /\ RowsFitBooked(t, "book")
    BY <1>1 DEF JournalInv, IInv, TypeOK, CallOK, CourseOK
  <2>2. /\ q \in Nat /\ t.sale \in DOMAIN sales /\ i \in DOMAIN sales[t.sale]
        /\ DOMAIN sales[t.sale] \subseteq LineNumbers /\ IsFiniteSet(DOMAIN sales[t.sale])
        /\ line.product = sales[t.sale][i].product
    <3>1. q \in Nat
      BY <1>3, <2>1, LineType
    <3>2. t.sale \in DOMAIN sales /\ i \in DOMAIN sales[t.sale]
      BY <2>1 DEF ReturnOK
    <3>3. DOMAIN sales[t.sale] \subseteq LineNumbers /\ IsFiniteSet(DOMAIN sales[t.sale])
      BY <3>2 DEF JournalInv, FiniteSales, IInv, TypeOK, StoreOK, SaleOK
    <3>4. line.product = sales[t.sale][i].product
      BY <2>1 DEF RowsFitBooked
    <3> QED
      BY <3>1, <3>2, <3>3, <3>4
  <2>3. /\ u.op = t.op /\ u.sale = t.sale /\ u.lines = t.lines /\ u.staged = t.staged
        /\ u.next = t.next /\ u.rows = t.rows
        /\ u.booked = [t.booked EXCEPT ![i] = t.booked[i] + q]
    BY <2>1 DEF TxnOK, Txn, Booked
  <2>4. t.booked \in [LineNumbers -> Nat] /\ t.rows \in [Products -> Seq(Row)]
    BY <2>1 DEF TxnOK, Txn
  <2> HIDE DEF u
  <2>5. ASSUME NEW p \in Products
        PROVE  BookedOn(u, p) = UnitsMoved(u.rows[p], {"RETURN"}) + ToRestore(u, "restore", p)
    <3> DEFINE S == ItemsWith(t, p)
               f == t.booked
               g == u.booked
               a == SumFunctionOnSet(f, S)
    <3>1. IsFiniteSet(S) /\ \A x \in S : f[x] \in Int /\ g[x] \in Int
      <4>1. \A x \in S : x \in LineNumbers
        BY <2>2 DEF ItemsWith
      <4>2. IsFiniteSet(S)
        BY <2>2, FS_Subset DEF ItemsWith
      <4>3. \A x \in LineNumbers : g[x] \in Int
        <5>1. t.booked[i] \in Nat /\ t.booked[i] + q \in Int
          BY <2>2, <2>4
        <5> DEFINE b == t.booked
                   c == t.booked[i] + q
        <5>2. b \in [LineNumbers -> Nat] /\ c \in Int /\ g = [b EXCEPT ![i] = c]
          BY <2>3, <2>4, <5>1
        <5> HIDE DEF i, q, b, c, g
        <5> QED
          BY <5>2
      <4> QED
        BY <2>4, <4>1, <4>2, <4>3
    <3>2. \A x \in S \ {i} : f[x] = g[x]
      BY <2>2, <2>3, <2>4 DEF ItemsWith
    <3>3. a \in Int
      <4> HIDE DEF S, f, g
      <4> QED
        BY <3>1, SumType
    <3>4. BookedOn(u, p) = SumFunctionOnSet(g, S)
      BY <2>3 DEF BookedOn, ItemsWith
    <3>5. a = UnitsMoved(t.rows[p], {"RETURN"})
      <4>1. a = UnitsMoved(t.rows[p], {"RETURN"}) + ToRestore(t, "book", p)
        BY <2>1 DEF RowsFitBooked, BookedOn
      <4>2. ToRestore(t, "book", p) = 0 /\ UnitsMoved(t.rows[p], {"RETURN"}) \in Int
        BY <2>4, MovedType DEF ToRestore
      <4> HIDE DEF a
      <4> QED
        BY <4>1, <4>2
    <3>6. CASE line.product = p
      <4>1. i \in S /\ g[i] = f[i] + q /\ f[i] \in Int
        <5>1. i \in S /\ i \in LineNumbers
          BY <2>2, <3>6 DEF ItemsWith
        <5> QED
          BY <2>3, <2>4, <5>1
      <4>2. SumFunctionOnSet(g, S) = a + (g[i] - f[i])
        <5> HIDE DEF S, f, g, i
        <5> QED
          BY <3>1, <3>2, <4>1, SumChange
      <4>3. ToRestore(u, "restore", p) = q
        BY <2>3, <3>6 DEF ToRestore
      <4>4. q \in Int
        BY <2>2
      <4>5. g[i] \in Int
        BY <4>1, <4>4
      <4> HIDE DEF a, f, g, S, q, i
      <4>6. g[i] - f[i] = q
        BY <4>1, <4>4, <4>5
      <4> QED
        BY <4>6, <2>3, <3>3, <3>4, <3>5, <4>1, <4>2, <4>3
    <3>7. CASE line.product # p
      <4>1. i \notin S
        BY <2>2, <3>7 DEF ItemsWith
      <4>2. SumFunctionOnSet(g, S) = a
        <5>1. \A x \in S : f[x] = g[x]
          BY <3>2, <4>1
        <5> HIDE DEF S, f, g
        <5> QED
          BY <3>1, <5>1, SumSame
      <4>3. ToRestore(u, "restore", p) = 0
        BY <2>3, <3>7 DEF ToRestore
      <4> HIDE DEF a, f, g, S
      <4> QED
        BY <2>3, <3>3, <3>4, <3>5, <4>2, <4>3
    <3> QED
      BY <3>6, <3>7
  <2>6. RowsFitBooked(u, "restore")
    BY <2>1, <2>3, <2>5 DEF RowsFitBooked
  <2> QED
    BY <1>1, <1>3, <2>6, FitGoesOn
<1> QED
  BY <1>1, <1>2, <1>3

\* What is restored has been journaled, unit for unit.
LEMMA FitRestoreLine ==
  ASSUME Scale = 1, JournalInv, IInv', NEW w \in Workers, RestoreLine(w)
  PROVE  JournalInv'
<1> DEFINE t    == txn[w]
           line == t.lines[t.next]
           p    == line.product
           q    == line.quantity
           l    == Locked(t, p)
           u    == Restored(l, p, q)
           new  == Whole(l.stock[p] * Scale + q)
           row  == ReturnRow(q, new)
<1>1. phase[w] = "restore" /\ UNCHANGED db /\ Advance(w, u, "book")
  BY DEF RestoreLine, CurrentLine
<1>2. /\ TypeOK /\ TxnOK(t) /\ t.op = "RETURN" /\ t.next \in t.staged
      /\ ReturnOK(t, "restore") /\ RowsFitBooked(t, "restore")
  BY <1>1 DEF JournalInv, IInv, TypeOK, CallOK, CourseOK
<1>3. p \in Products /\ q \in Nat
  BY <1>2, LineType DEF ReturnOK
<1>4. TxnOK(l) /\ l.rows = t.rows /\ t.rows \in [Products -> Seq(Row)]
  <2>1. t.rows \in [Products -> Seq(Row)]
    BY <1>2 DEF TxnOK, Txn
  <2> HIDE DEF t, p
  <2> QED
    BY <1>2, <1>3, <2>1, LockedOK
<1>5. /\ TxnOK(u) /\ u.rows = [l.rows EXCEPT ![p] = Append(@, row)] /\ row \in Row
  <2>1. new = Whole(l.stock[p] * Scale + q)
    OBVIOUS
  <2> HIDE DEF l, p, q, new, row
  <2>2. /\ TxnOK(u) /\ u.held = l.held /\ u.stock = [l.stock EXCEPT ![p] = new]
        /\ u.rows = [l.rows EXCEPT ![p] = Append(@, ReturnRow(q, new))]
        /\ ReturnRow(q, new) \in Row
    BY <1>3, <1>4, <2>1, RestoredOK
  <2> QED
    BY <2>2 DEF row
<1>6. /\ u.op = t.op /\ u.sale = t.sale /\ u.lines = t.lines /\ u.staged = t.staged
      /\ u.booked = t.booked
  <2> HIDE DEF t, p, q
  <2> QED
    BY <1>2, <1>3, RestoredKeeps
<1>7. row.kind = "RETURN" /\ row.change = q
  <2>1. Whole(q) = q
    BY <1>3, WholeUnit
  <2> HIDE DEF q, new
  <2> QED
    BY <2>1 DEF ReturnRow, JournalRow
<1>8. /\ \A k \in t.staged : t.lines[k].product = sales[t.sale][t.lines[k].item].product
      /\ \A x \in Products : \A i \in DOMAIN t.rows[x] : t.rows[x][i].kind = "RETURN"
      /\ \A x \in Products : BookedOn(t, x) = UnitsMoved(t.rows[x], {"RETURN"})
                                              + (IF x = p THEN q ELSE 0)
  BY <1>2 DEF RowsFitBooked, ToRestore
<1> HIDE DEF t, p, q, l, u, row
<1>9. ASSUME NEW x \in Products
      PROVE  /\ \A i \in DOMAIN u.rows[x] : u.rows[x][i].kind = "RETURN"
             /\ BookedOn(u, x) = UnitsMoved(u.rows[x], {"RETURN"}) + ToRestore(u, "write", x)
  <2>1. BookedOn(u, x) = BookedOn(t, x) /\ ToRestore(u, "write", x) = 0
    BY <1>6 DEF BookedOn, ItemsWith, ToRestore
  <2>2. t.rows[x] \in Seq(Row) /\ UnitsMoved(t.rows[x], {"RETURN"}) \in Int
    BY <1>4, MovedType
  <2>3. CASE x = p
    <3>1. u.rows[x] = Append(t.rows[x], row)
      BY <1>4, <1>5, <2>3
    <3>2. UnitsMoved(u.rows[x], {"RETURN"}) = UnitsMoved(t.rows[x], {"RETURN"}) + q
      <4>1. UnitsMoved(Append(t.rows[x], row), {"RETURN"})
              = UnitsMoved(t.rows[x], {"RETURN"})
                + (IF row.kind \in {"RETURN"} THEN row.change ELSE 0)
        BY <1>5, <2>2, MovedAppend
      <4> QED
        BY <1>7, <3>1, <4>1
    <3>3. \A i \in DOMAIN u.rows[x] : u.rows[x][i].kind = "RETURN"
      <4>1. /\ Append(t.rows[x], row)[Len(t.rows[x]) + 1] = row
            /\ \A i \in 1 .. Len(t.rows[x]) : Append(t.rows[x], row)[i] = t.rows[x][i]
            /\ Append(t.rows[x], row) \in Seq(Row)
            /\ Len(Append(t.rows[x], row)) = Len(t.rows[x]) + 1
        BY <1>5, <2>2, AppendProperties
      <4>2. /\ DOMAIN t.rows[x] = 1 .. Len(t.rows[x]) /\ Len(t.rows[x]) \in Nat
            /\ DOMAIN Append(t.rows[x], row) = 1 .. Len(t.rows[x]) + 1
        BY <2>2, <4>1, LenProperties
      <4> QED
        BY <1>7, <1>8, <3>1, <4>1, <4>2
    <3> QED
      BY <1>3, <1>8, <2>1, <2>2, <2>3, <3>2, <3>3
  <2>4. CASE x # p
    <3>1. u.rows[x] = t.rows[x]
      BY <1>4, <1>5, <2>4
    <3> QED
      BY <1>8, <2>1, <2>2, <2>4, <3>1
  <2> QED
    BY <2>3, <2>4
<1>10. RowsFitBooked(u, "write")
  BY <1>6, <1>8, <1>9 DEF RowsFitBooked
<1> QED
  BY <1>1, <1>5, <1>10, FitAdvances DEF u, l

\* The sums over the stored items are numbers.
LEMMA StoredSums ==
  ASSUME JournalInv, NEW p
  PROVE  /\ SumFunctionOnSet(SoldIn(sales), ItemsIn(sales, p)) \in Int
         /\ SumFunctionOnSet(ReturnedIn(sales), ItemsIn(sales, p)) \in Int
<1>1. SalesOK(sales)
  BY StoredSalesOK DEF JournalInv, IInv, TypeOK
<1>2. IsFiniteSet(ItemsIn(sales, p))
  BY <1>1, ItemsAre
<1>3. \A i \in ItemsIn(sales, p) : SoldIn(sales)[i] \in Int /\ ReturnedIn(sales)[i] \in Int
  BY <1>1, ItemsAre
<1> QED
  BY <1>2, <1>3, SumType

\* A restock or an adjustment leaves sales and returns alone.
LEMMA FitOneRow ==
  ASSUME JournalInv, IInv', NEW w \in Workers, RestockProduct(w) \/ AdjustStock(w)
  PROVE  JournalInv'
<1> DEFINE t    == txn[w]
           line == CurrentLine(w)
           p    == line.product
           q    == line.quantity
           row(kind)  == JournalRow(kind, q, t.stock[p], t.stock[p] + q)
           rows(kind) == [t.rows EXCEPT ![p] = Append(@, row(kind))]
<1>1. /\ phase[w] = "write" /\ t.op \in {"RESTOCK", "ADJUST"} /\ Close(w)
      /\ UNCHANGED sales
  BY DEF RestockProduct, AdjustStock
<1>2. /\ TxnOK(t) /\ p \in Products /\ q \in Int /\ t.stock[p] + q \in Nat
  BY <1>1, WrittenLine DEF JournalInv
<1>3. /\ t.rows \in [Products -> Seq(Row)] /\ t.stock[p] \in Nat
      /\ \A x \in Products : t.rows[x] = <<>>
  <2>1. CheckedOK(t, "write")
    BY <1>1 DEF JournalInv, IInv, CallOK
  <2> QED
    BY <1>1, <1>2, <2>1 DEF TxnOK, Txn, CheckedOK
<1>4. \E kind \in {"RESTOCK", "ADJUSTMENT"} :
         \A x \in Products : ledger'[x] = ledger[x] \o rows(kind)[x]
  <2>1. ASSUME NEW kind \in {"RESTOCK", "ADJUSTMENT"}
        PROVE  Moved(t, p, kind, q).rows = rows(kind)
    <3>1. kind \in Kinds
      BY <2>1 DEF Kinds
    <3> HIDE DEF t, p, q
    <3>2. /\ Moved(t, p, kind, q).stock = [t.stock EXCEPT ![p] = @ + q]
          /\ Moved(t, p, kind, q).rows
               = [t.rows EXCEPT ![p] = Append(@, JournalRow(kind, q, t.stock[p],
                                                            t.stock[p] + q))]
      BY <1>2, <3>1, MovedOK
    <3> QED
      BY <3>2
  <2>2. CASE AdjustStock(w)
    <3>1. WriteStock(Moved(t, p, "ADJUSTMENT", q))
      BY <2>2 DEF AdjustStock
    <3> HIDE DEF t, p, q, rows
    <3> QED
      BY <2>1, <3>1 DEF WriteStock
  <2>3. CASE RestockProduct(w)
    <3> DEFINE m == Moved(t, p, "RESTOCK", q)
               d == Restocked(t, p, q)
    <3>1. WriteStock(d)
      BY <2>3 DEF RestockProduct
    <3>2. d.rows = m.rows
      BY DEF Restocked, Moved, Update
    <3> HIDE DEF t, p, q, rows, m, d
    <3>3. \A x \in Products : ledger'[x] = ledger[x] \o m.rows[x]
      BY <3>1, <3>2 DEF WriteStock
    <3>4. m.rows = rows("RESTOCK")
      BY <2>1 DEF m
    <3> QED
      BY <3>3, <3>4
  <2> QED
    BY <2>2, <2>3
<1>5. PICK kind \in {"RESTOCK", "ADJUSTMENT"} :
         \A x \in Products : ledger'[x] = ledger[x] \o rows(kind)[x]
  BY <1>4
<1> DEFINE r == row(kind)
           new == [t.rows EXCEPT ![p] = Append(@, r)]
<1>6. r \in Row /\ r.kind = kind
  BY <1>2, <1>3, <1>5 DEF JournalRow, Row, Kinds
<1>7. \A x \in Products : ledger'[x] = ledger[x] \o new[x]
  BY <1>5
<1> HIDE DEF r, row, rows, p, q, t
<1>8. ASSUME NEW x \in Products PROVE Posts(x, new[x])
  <2>1. new[x] = IF x = p THEN Append(<<>>, r) ELSE <<>>
    BY <1>2, <1>3
  <2>2. new[x] \in Seq(Row) /\ \A i \in DOMAIN new[x] : new[x][i].kind \in {"RESTOCK", "ADJUSTMENT"}
    <3>1. <<>> \in Seq(Row) /\ Len(<<>>) = 0 /\ DOMAIN <<>> = {}
      BY EmptySeq
    <3>2. /\ Append(<<>>, r) \in Seq(Row) /\ Len(Append(<<>>, r)) = 1
          /\ Append(<<>>, r)[1] = r
      BY <1>6, <3>1, AppendProperties
    <3>3. DOMAIN Append(<<>>, r) = {1}
      BY <3>2, LenProperties
    <3> QED
      BY <1>5, <1>6, <2>1, <3>1, <3>2, <3>3
  <2>3. UnitsMoved(new[x], {"SALE"}) = 0 /\ UnitsMoved(new[x], {"RETURN"}) = 0
    <3>1. \A i \in DOMAIN new[x] : new[x][i].kind \notin {"SALE"}
      BY <2>2
    <3>2. \A i \in DOMAIN new[x] : new[x][i].kind \notin {"RETURN"}
      BY <2>2
    <3> QED
      BY <3>1, <3>2, MovedNone
  <2> DEFINE a == SumFunctionOnSet(SoldIn(sales), ItemsIn(sales, x))
             b == SumFunctionOnSet(ReturnedIn(sales), ItemsIn(sales, x))
  <2>4. /\ a \in Int /\ b \in Int
        /\ SumFunctionOnSet(SoldIn(sales'), ItemsIn(sales', x)) = a
        /\ SumFunctionOnSet(ReturnedIn(sales'), ItemsIn(sales', x)) = b
    BY <1>1, StoredSums
  <2> HIDE DEF new
  <2>5. a = a - UnitsMoved(new[x], {"SALE"}) /\ b = b + UnitsMoved(new[x], {"RETURN"})
    <3> HIDE DEF a, b
    <3> QED
      BY <2>3, <2>4
  <2> QED
    BY <1>7, <2>2, <2>4, <2>5 DEF Posts
<1>9. KeepsItems /\ FiniteSales'
  BY <1>1 DEF KeepsItems, JournalInv, FiniteSales
<1> HIDE DEF new
<1> QED
  BY <1>1, <1>8, <1>9, FitEnds

\* What a return has booked is what its rows have moved.
LEMMA FitCommitReturn ==
  ASSUME JournalInv, IInv', NEW w \in Workers, CommitReturn(w)
  PROVE  JournalInv'
<1> DEFINE t   == txn[w]
           s   == t.sale
           new == Returned(sales[s], t.booked)
<1>1. /\ phase[w] = "write" /\ t.op = "RETURN" /\ WriteStock(t) /\ Close(w)
      /\ sales' = [sales EXCEPT ![s] = new]
  BY DEF CommitReturn
<1>2. /\ TxnOK(t) /\ s \in DOMAIN sales /\ RowsFitBooked(t, "write")
      /\ StoreOK /\ StoreOK' /\ FiniteSales
  BY <1>1 DEF JournalInv, IInv, TypeOK, CallOK, ReturnOK
<1>3. /\ t.booked \in [LineNumbers -> Nat] /\ t.rows \in [Products -> Seq(Row)]
      /\ SaleOK(sales[s]) /\ DOMAIN new = DOMAIN sales[s]
  BY <1>2 DEF TxnOK, Txn, StoreOK, Returned
<1>4. ASSUME NEW k \in DOMAIN sales[s]
      PROVE  /\ new[k].product = sales[s][k].product /\ new[k].quantity = sales[s][k].quantity
             /\ t.booked[k] \in Int
             /\ new[k].returned_qty = sales[s][k].returned_qty + t.booked[k]
  <2>1. sales[s][k] \in Item /\ t.booked[k] \in Nat
    BY <1>3 DEF SaleOK
  <2> QED
    BY <2>1 DEF Item, Returned
<1> HIDE DEF new
<1>5. /\ DOMAIN sales' = DOMAIN sales /\ sales'[s] = new
      /\ \A x \in DOMAIN sales : x # s => sales'[x] = sales[x]
  BY <1>1, <1>2
<1>6. KeepsItems /\ FiniteSales'
  BY <1>2, <1>3, <1>4, <1>5 DEF KeepsItems, FiniteSales
<1>7. SalesOK(sales) /\ SalesOK(sales')
  BY <1>2, <1>6, StoredSalesOK
<1>8. AddsReturned(sales, sales', s, t.booked)
  BY <1>2, <1>3, <1>4, <1>5, <1>7 DEF AddsReturned
<1>9. ASSUME NEW p \in Products PROVE Posts(p, t.rows[p])
  <2> DEFINE a == SumFunctionOnSet(SoldIn(sales), ItemsIn(sales, p))
             b == SumFunctionOnSet(ReturnedIn(sales), ItemsIn(sales, p))
             c == UnitsMoved(t.rows[p], {"RETURN"})
             d == SumFunctionOnSet(t.booked, LinesIn(sales[s], p))
  <2>1. a \in Int /\ b \in Int
    BY StoredSums
  <2>2. /\ SumFunctionOnSet(SoldIn(sales'), ItemsIn(sales', p)) = a
        /\ SumFunctionOnSet(ReturnedIn(sales'), ItemsIn(sales', p)) = b + d
    <3> HIDE DEF t, s
    <3> QED
      BY <1>8, ReturnedItems
  <2>3. UnitsMoved(t.rows[p], {"SALE"}) = 0
    <3>1. \A i \in DOMAIN t.rows[p] : t.rows[p][i].kind \notin {"SALE"}
      BY <1>1, <1>2 DEF RowsFitBooked
    <3> QED
      BY <3>1, MovedNone
  <2>4. t.rows[p] \in Seq(Row) /\ c \in Int
    BY <1>3, MovedType
  <2>5. d = c
    <3>1. BookedOn(t, p) = c + 0
      BY <1>1, <1>2 DEF RowsFitBooked, ToRestore
    <3>2. BookedOn(t, p) = d
      BY DEF BookedOn, ItemsWith, LinesIn
    <3> HIDE DEF c, d
    <3> QED
      BY <2>4, <3>1, <3>2
  <2>6. ledger'[p] = ledger[p] \o t.rows[p]
    BY <1>1 DEF WriteStock
  <2> HIDE DEF d
  <2>7. a = a - UnitsMoved(t.rows[p], {"SALE"})
    <3> HIDE DEF a
    <3> QED
      BY <2>1, <2>3
  <2> QED
    BY <2>2, <2>4, <2>5, <2>6, <2>7 DEF Posts
<1> HIDE DEF t
<1> QED
  BY <1>1, <1>6, <1>9, FitEnds

\* The journal rows of a sale take out what its lines of the product sell.
LEMMA SaleRowsMove ==
  ASSUME Scale = 1, NEW t, TxnOK(t), \A k \in t.staged : t.lines[k].quantity > 0,
         NEW p, NEW order \in SetToSeqs(LinesOf(t, p)), NEW after \in Nat,
         NEW rows, rows = [i \in DOMAIN order |-> SaleRow(t.lines[order[i]].quantity, after)],
         NEW sold, \A k \in LinesOf(t, p) : sold[k] = t.lines[k].quantity
  PROVE  /\ UnitsMoved(rows, {"SALE"}) = -SumFunctionOnSet(sold, LinesOf(t, p))
         /\ UnitsMoved(rows, {"RETURN"}) = 0
<1> DEFINE L    == LinesOf(t, p)
           D    == DOMAIN order
           f    == [i \in DOMAIN rows |-> rows[i].change]
           neg  == [k \in L |-> -sold[k]]
           zero == [k \in L |-> 0]
<1>1. /\ order \in [D -> L]
      /\ \E n \in Nat : D = 1 .. n /\ n = Cardinality(L)
  BY OrderType
<1>2. IsFiniteSet(L)
  <2>1. t.staged \subseteq 1 .. Len(t.lines) /\ Len(t.lines) \in Nat
    BY LenProperties DEF TxnOK, Txn
  <2>2. IsFiniteSet(1 .. Len(t.lines)) /\ LinesOf(t, p) \in SUBSET (1 .. Len(t.lines))
    BY <2>1, FS_Interval DEF LinesOf
  <2> QED
    BY <2>2, FS_Subset
<1>3. IsFiniteSet(D) /\ Cardinality(D) = Cardinality(L)
  <2>1. PICK n \in Nat : D = 1 .. n /\ n = Cardinality(L)
    BY <1>1
  <2>2. IsFiniteSet(1 .. n) /\ Cardinality(1 .. n) = IF 1 > n THEN 0 ELSE n - 1 + 1
    BY FS_Interval
  <2>3. Cardinality(1 .. n) = n
    BY <2>2
  <2> QED
    BY <2>1, <2>2, <2>3
<1>4. \A i, j \in D : order[i] = order[j] => i = j
  BY <1>1 DEF SetToSeqs
<1>5. order \in Surjection(D, L)
  <2>1. order \in Injection(D, L)
    BY <1>1, <1>4 DEF Injection, IsInjective
  <2> QED
    BY <1>2, <1>3, <2>1, FS_Injection
<1>6. L = {order[i] : i \in D}
  BY <1>1, <1>5 DEF Surjection
<1>7. \A k \in L : sold[k] \in Int /\ neg[k] = -sold[k] /\ neg[k] \in Int /\ zero[k] = 0
  <2>1. \A k \in L : t.lines[k].quantity \in Int
    BY LineType DEF LinesOf
  <2> QED
    BY <2>1
<1>8. /\ DOMAIN rows = D
      /\ \A i \in D : rows[i].kind = "SALE" /\ f[i] = neg[order[i]] /\ f[i] \in Int
  <2>1. DOMAIN rows = D
    OBVIOUS
  <2>2. ASSUME NEW i \in D
        PROVE  rows[i].kind = "SALE" /\ rows[i].change = neg[order[i]]
    <3>1. order[i] \in L
      BY <1>1
    <3>2. t.lines[order[i]].quantity = sold[order[i]] /\ sold[order[i]] \in Int
      BY <1>7, <3>1
    <3>3. Whole(-sold[order[i]]) = -sold[order[i]]
      <4>1. -sold[order[i]] \in Int
        BY <3>2
      <4> QED
        BY <4>1, WholeUnit
    <3>4. rows[i] = SaleRow(sold[order[i]], after)
      BY <3>2
    <3> QED
      BY <1>7, <3>1, <3>3, <3>4 DEF SaleRow, JournalRow
  <2> HIDE DEF neg
  <2> QED
    BY <1>1, <1>7, <2>1, <2>2
<1> HIDE DEF L, D, f, neg, zero
<1>9. Paired(f, neg, D, L, order)
  BY <1>2, <1>3, <1>4, <1>6, <1>8 DEF Paired
<1>10. SumFunctionOnSet(neg, L) = SumFunctionOnSet(f, D)
  BY <1>9, SumPaired
<1>11. UnitsMoved(rows, {"SALE"}) = SumFunctionOnSet(f, D)
  <2>1. {i \in DOMAIN rows : rows[i].kind \in {"SALE"}} = D
    BY <1>8
  <2> QED
    BY <2>1 DEF UnitsMoved, f
<1>12. UnitsMoved(rows, {"RETURN"}) = 0
  <2>1. \A i \in DOMAIN rows : rows[i].kind \notin {"RETURN"}
    BY <1>8
  <2> QED
    BY <2>1, MovedNone
<1>13. SumFunctionOnSet(zero, L) = SumFunctionOnSet(sold, L) + SumFunctionOnSet(neg, L)
  <2>1. \A k \in L : sold[k] \in Int /\ neg[k] \in Int /\ zero[k] = sold[k] + neg[k]
    BY <1>7
  <2> QED
    BY <1>2, <2>1, SumPlus
<1>14. SumFunctionOnSet(zero, L) = 0
  BY <1>2, <1>7, SumZeros
<1>15. SumFunctionOnSet(sold, L) \in Int /\ SumFunctionOnSet(neg, L) \in Int
  BY <1>2, <1>7, SumType
<1> DEFINE a == SumFunctionOnSet(sold, L)
           b == SumFunctionOnSet(neg, L)
<1>16. UnitsMoved(rows, {"SALE"}) = b /\ a \in Int /\ b \in Int /\ 0 = a + b
  BY <1>10, <1>11, <1>13, <1>14, <1>15
<1>17. UnitsMoved(rows, {"SALE"}) = -a
  <2> HIDE DEF a, b
  <2> QED
    BY <1>16
<1> QED
  BY <1>12, <1>17 DEF L

\* A new sale comes after the others.
LEMMA SaleAdded ==
  ASSUME StoreOK, NEW items, sales' = Append(sales, items), NEW n, n = Len(sales) + 1
  PROVE  /\ n \notin DOMAIN sales /\ DOMAIN sales' = DOMAIN sales \cup {n}
         /\ \A s \in DOMAIN sales : sales'[s] = sales[s]
         /\ sales'[n] = items
<1>1. sales \in Seq(Range(sales) \cup {items})
  BY SeqMonotonic DEF StoreOK
<1>2. /\ sales' \in Seq(Range(sales) \cup {items}) /\ Len(sales') = Len(sales) + 1
      /\ \A s \in 1 .. Len(sales) : sales'[s] = sales[s]
      /\ sales'[Len(sales) + 1] = items
  BY <1>1, AppendProperties
<1>3. /\ Len(sales) \in Nat /\ DOMAIN sales = 1 .. Len(sales)
      /\ DOMAIN sales' = 1 .. Len(sales) + 1
  BY <1>1, <1>2, LenProperties
<1> QED
  BY <1>2, <1>3

\* The items of a new sale are what its journal rows take out.
LEMMA FitCreateSale ==
  ASSUME Scale = 1, JournalInv, IInv', NEW w \in Workers, CreateSale(w)
  PROVE  JournalInv'
<1> DEFINE t     == txn[w]
           n     == Len(sales) + 1
           items == [k \in t.staged |-> [product      |-> t.lines[k].product,
                                         quantity     |-> t.lines[k].quantity,
                                         returned_qty |-> 0]]
<1>1. /\ phase[w] = "write" /\ t.op = "SALE" /\ sales' = Append(sales, items) /\ Close(w)
  BY DEF CreateSale
<1>2. /\ TxnOK(t) /\ CheckedOK(t, "write") /\ StoreOK /\ StoreOK' /\ FiniteSales /\ IInv
  BY <1>1 DEF JournalInv, IInv, TypeOK, CallOK
<1>3. \A k \in t.staged : t.lines[k].quantity > 0
  BY <1>1, <1>2 DEF CheckedOK
<1>4. PICK line \in [t.held -> t.staged] :
      \E order \in [Products -> UNION {SetToSeqs(LinesOf(t, p)) : p \in Products}] :
         /\ \A p \in t.held : line[p] \in LinesOf(t, p)
         /\ \A p \in Products : order[p] \in SetToSeqs(LinesOf(t, p))
         /\ WriteStock([Deducted(t, line) EXCEPT !.rows =
               [p \in Products |-> [i \in DOMAIN order[p] |->
                   SaleRow(t.lines[order[p][i]].quantity, Deducted(t, line).stock[p])]]])
  BY DEF CreateSale
<1>5. PICK order \in [Products -> UNION {SetToSeqs(LinesOf(t, p)) : p \in Products}] :
         /\ \A p \in t.held : line[p] \in LinesOf(t, p)
         /\ \A p \in Products : order[p] \in SetToSeqs(LinesOf(t, p))
         /\ WriteStock([Deducted(t, line) EXCEPT !.rows =
               [p \in Products |-> [i \in DOMAIN order[p] |->
                   SaleRow(t.lines[order[p][i]].quantity, Deducted(t, line).stock[p])]]])
  BY <1>4
<1> DEFINE d    == Deducted(t, line)
           rows == [p \in Products |-> [i \in DOMAIN order[p] |->
                       SaleRow(t.lines[order[p][i]].quantity, d.stock[p])]]
<1>6. TxnOK(d)
  BY <1>1, <1>2, <1>5, DeductedOK
<1>7. d.stock \in [Products -> Nat]
  BY <1>6 DEF TxnOK, Txn
<1> HIDE DEF d
<1>8. \A p \in Products : ledger'[p] = ledger[p] \o rows[p]
  <2>1. WriteStock([d EXCEPT !.rows = rows])
    BY <1>5 DEF d
  <2> HIDE DEF rows
  <2>2. [d EXCEPT !.rows = rows].rows = rows
    BY <1>6 DEF TxnOK, Txn
  <2> QED
    BY <2>1, <2>2 DEF WriteStock
<1>9. /\ DOMAIN items = t.staged
      /\ \A k \in t.staged : /\ items[k].product = t.lines[k].product
                             /\ items[k].quantity = t.lines[k].quantity
                             /\ items[k].returned_qty = 0
  OBVIOUS
<1>10. IsFiniteSet(t.staged)
  <2>1. t.staged \in SUBSET (1 .. Len(t.lines)) /\ Len(t.lines) \in Nat
    BY <1>2, LenProperties DEF TxnOK, Txn
  <2>2. IsFiniteSet(1 .. Len(t.lines))
    BY <2>1, FS_Interval
  <2> QED
    BY <2>1, <2>2, FS_Subset
<1> HIDE DEF items, n
<1>11. /\ n \notin DOMAIN sales /\ DOMAIN sales' = DOMAIN sales \cup {n}
       /\ \A s \in DOMAIN sales : sales'[s] = sales[s]
       /\ sales'[n] = items
  BY <1>1, <1>2, SaleAdded DEF n
<1>12. KeepsItems /\ FiniteSales'
  BY <1>2, <1>9, <1>10, <1>11 DEF KeepsItems, FiniteSales
<1>13. AddsSale(sales, sales', n)
  BY <1>2, <1>11, <1>12, StoredSalesOK DEF AddsSale
<1>14. ASSUME NEW p \in Products PROVE Posts(p, rows[p])
  <2> DEFINE L    == LinesOf(t, p)
             sold == LinesSold(items)
             back == LinesReturned(items)
             a    == SumFunctionOnSet(SoldIn(sales), ItemsIn(sales, p))
             b    == SumFunctionOnSet(ReturnedIn(sales), ItemsIn(sales, p))
             c    == SumFunctionOnSet(sold, L)
             r    == rows[p]
  <2>1. LinesIn(items, p) = L
    BY <1>9 DEF LinesIn, LinesOf
  <2>2. /\ IsFiniteSet(L)
        /\ \A k \in L : /\ sold[k] = t.lines[k].quantity /\ sold[k] \in Int
                        /\ back[k] = 0
    <3>1. \A k \in L : k \in t.staged /\ t.lines[k].quantity \in Int
      BY <1>2, LineType DEF LinesOf
    <3>2. IsFiniteSet(L)
      BY <1>10, FS_Subset DEF LinesOf
    <3> QED
      BY <1>9, <3>1, <3>2 DEF LinesSold, LinesReturned
  <2>3. r = [i \in DOMAIN order[p] |-> SaleRow(t.lines[order[p][i]].quantity, d.stock[p])]
    OBVIOUS
  <2>4. order[p] \in SetToSeqs(LinesOf(t, p)) /\ d.stock[p] \in Nat
    BY <1>5, <1>7
  <2> HIDE DEF r, t, sold, back
  <2>5. r \in Seq(Row)
    BY <1>2, <1>3, <2>3, <2>4, SaleRowsType
  <2>6. UnitsMoved(r, {"SALE"}) = -c /\ UnitsMoved(r, {"RETURN"}) = 0
    BY <1>2, <1>3, <2>2, <2>3, <2>4, SaleRowsMove
  <2>7. /\ SumFunctionOnSet(SoldIn(sales'), ItemsIn(sales', p)) = a + c
        /\ SumFunctionOnSet(ReturnedIn(sales'), ItemsIn(sales', p))
             = b + SumFunctionOnSet(back, L)
    BY <1>11, <1>13, <2>1, NewItems DEF sold, back
  <2>8. a \in Int /\ b \in Int
    BY StoredSums
  <2> HIDE DEF L
  <2>9. c \in Int /\ SumFunctionOnSet(back, L) = 0
    BY <2>2, SumType, SumZeros
  <2> HIDE DEF a, b, c
  <2>10. /\ a + c = a - UnitsMoved(r, {"SALE"})
         /\ b + SumFunctionOnSet(back, L) = b + UnitsMoved(r, {"RETURN"})
    BY <2>6, <2>8, <2>9
  <2>11. ledger'[p] = ledger[p] \o r
    BY <1>8 DEF r
  <2> QED
    BY <2>5, <2>7, <2>10, <2>11 DEF Posts, r, a, b
<1> HIDE DEF rows, t
<1> QED
  BY <1>1, <1>12, <1>14, FitEnds

\* Every step keeps the journal and the sale items together.
LEMMA JournalStep ==
  ASSUME Scale = 1, JournalInv, IInv', [Next]_vars
  PROVE  JournalInv'
<1>1. ASSUME NEW w \in Workers, Step(w) PROVE JournalInv'
  BY <1>1, FitLockRow, FitExpandLines, FitBookItem, FitRestoreLine, FitOneRow, FitCreateSale,
     FitCommitReturn DEF Step
<1>2. ASSUME NEW w \in Workers, DeadlockVictim(w) \/ Abort(w) PROVE JournalInv'
  <2>1. Close(w) /\ UNCHANGED db
    BY <1>2 DEF DeadlockVictim, Abort, Refuse
  <2> QED
    BY <2>1, FitRefused
<1>3. ASSUME UNCHANGED vars PROVE JournalInv'
  <2>1. ItemsAreJournaled'
    BY <1>3, ItemsBalance DEF JournalInv, vars
  <2>2. FiniteSales' /\ \A w \in Workers : RowsFitBooked(txn[w], phase[w])'
    BY <1>3 DEF JournalInv, vars, FiniteSales, RowsFitBooked, BookedOn, ItemsWith, ToRestore
  <2> QED
    BY <2>1, <2>2 DEF JournalInv
<1> QED
  BY <1>1, <1>2, <1>3, FitCall DEF Next, Quiet

\* As long as quantities are whole, what the journal of a product has moved under
\* SALE is what its sale items have sold, and what it has moved under RETURN is
\* what has been returned on them: lines of one product on a sale, lines of one
\* item in a return, refused and deadlocked calls included.
THEOREM ItemsAlwaysJournaled == Scale = 1 => (Spec => []ItemsAreJournaled)
<1> SUFFICES ASSUME Scale = 1 PROVE Spec => []ItemsAreJournaled
  OBVIOUS
<1>1. JournalInv /\ [Next]_vars => JournalInv'
  BY InvStep, JournalStep DEF JournalInv
<1>2. JournalInv => ItemsAreJournaled
  BY DEF JournalInv
<1> QED
  BY <1>1, <1>2, JournalInit, PTL DEF Spec
=============================================================================
