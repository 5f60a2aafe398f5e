------------------------------ MODULE ReturnForm ------------------------------
(***************************************************************************)
(* The "New return" dialog of ReturnsPage and the returns it posts: the    *)
(* sale looked up, the items ticked, the requests in flight, and what      *)
(* returns_service.process stores of them.                                 *)
(*                                                                         *)
(* The dialog works on the sale detail that the browser has cached, which  *)
(* no return refreshes.  A dialog that is closed loses its state, but its  *)
(* request goes on, and its success closes whichever dialog is then open.  *)
(* Another till returns items too.  The server processes a return in one   *)
(* step: StockSessions takes it apart.                                     *)
(*                                                                         *)
(* A definition named Operator_Change is a variant of Operator with a      *)
(* plausible mistake in it; no specification uses it.                      *)
(***************************************************************************)
EXTENDS Naturals, SequencesExt, FiniteSetsExt

CONSTANTS
    Sales,          \* the completed sales
    NoSale,         \* the sale field is empty
    Items,          \* the items of all sales
    SaleItem,       \* of each item: its sale, the quantity sold and the line's total
    Paid,           \* what each sale came to, after its discount
    MaxOpenings,    \* bound: times the dialog is opened
    MaxElsewhere    \* bound: units returned at another till

VARIABLES
    returned,       \* sale_items.returned_qty
    refunded,       \* what the returns of each sale refunded
    status,         \* sales.status
    detail,         \* the returned_qty of each item as the browser has cached it
    known,          \* the sales whose detail is cached
    open,           \* whether the dialog is open
    opening,        \* which opening of the dialog it is
    saleId,         \* the sale in the sale field
    reason,         \* whether a return reason is chosen
    selected,       \* selectedItems: the lines of each item, and what they say
    inflight,       \* the returns posted and not answered
    processed,      \* returns stored, by the opening they were posted from
    lost,           \* the openings of which a stored return went unanswered
    elsewhere       \* units returned at another till

database == <<returned, refunded, status, processed>>
cache    == <<detail, known>>
dialog   == <<open, opening, saleId, reason, selected>>
vars     == <<returned, refunded, status, processed, detail, known, open, opening,
              saleId, reason, selected, inflight, lost, elsewhere>>

ASSUME ReturnFormAssumption ==
    /\ SaleItem \in [Items -> [sale : Sales, quantity : Nat \ {0}, line_total : Nat]]
    /\ Paid \in [Sales -> Nat]
    /\ NoSale \notin Sales
    /\ MaxOpenings \in Nat /\ MaxElsewhere \in Nat

ItemsOf(s) == {i \in Items : SaleItem[i].sale = s}
Openings   == 1..MaxOpenings

\* An item has as many lines in selectedItems as it was added times; they say the same,
\* since they are added by one click and changed together.
NoLine       == [lines |-> 0, quantity |-> 0, max_quantity |-> 0]
NoneSelected == [i \in Items |-> NoLine]

\* What a selection returns of item i.
Taken(choice, i) == choice[i].lines * choice[i].quantity

\* Each line refunds its share of what the item came to, rounded half up.
LineRefund(i, q) == (2 * q * SaleItem[i].line_total + SaleItem[i].quantity)
                       \div (2 * SaleItem[i].quantity)
Refund(choice)   ==
    MapThenSumSet(LAMBDA i : choice[i].lines * LineRefund(i, choice[i].quantity), Items)

Init == /\ returned = [i \in Items |-> 0]
        /\ refunded = [s \in Sales |-> 0]
        /\ status = [s \in Sales |-> "COMPLETED"]
        /\ detail = [i \in Items |-> 0]
        /\ known = {}
        /\ open = FALSE /\ opening = 0
        /\ saleId = NoSale /\ reason = FALSE /\ selected = NoneSelected
        /\ inflight = <<>>
        /\ processed = [o \in Openings |-> 0]
        /\ lost = {}
        /\ elsewhere = 0
-----------------------------------------------------------------------------
\* The dialog

Open == /\ ~open
        /\ opening < MaxOpenings
        /\ open' = TRUE
        /\ opening' = opening + 1
        /\ saleId' = NoSale /\ reason' = FALSE /\ selected' = NoneSelected
        /\ UNCHANGED <<database, cache, inflight, lost, elsewhere>>

\* Cancel and X are never disabled.
Close == /\ open
         /\ open' = FALSE
         /\ saleId' = NoSale /\ reason' = FALSE /\ selected' = NoneSelected
         /\ UNCHANGED <<database, cache, opening, inflight, lost, elsewhere>>

\* Typing in the sale field.
HandleSaleSelect_KeepsItems(s) ==
    /\ open
    /\ saleId' = s
    /\ UNCHANGED <<database, cache, open, opening, reason, selected, inflight, lost, elsewhere>>
HandleSaleSelect(s) ==
    /\ open
    /\ saleId' = s
    /\ selected' = NoneSelected
    /\ UNCHANGED <<database, cache, open, opening, reason, inflight, lost, elsewhere>>

\* The Lookup button.
HandleSaleIdLookup ==
    /\ open /\ saleId # NoSale
    /\ selected' = NoneSelected
    /\ UNCHANGED <<database, cache, open, opening, saleId, reason, inflight, lost, elsewhere>>

ChooseReason ==
    /\ open
    /\ reason' = ~reason
    /\ UNCHANGED <<database, cache, open, opening, saleId, selected, inflight, lost, elsewhere>>

Selected(i) == selected[i].lines > 0

\* The rows: the items of the sale that have units left according to the detail.
Listed == IF saleId \in known
          THEN {i \in ItemsOf(saleId) : detail[i] < SaleItem[i].quantity}
          ELSE {}

\* toggleItem called n times by one click: each call sees the items that were
\* selected before the click.
Toggle(i, n) ==
    /\ open /\ i \in Listed
    /\ selected' = [selected EXCEPT ![i] =
                      IF Selected(i) THEN NoLine
                      ELSE [lines |-> n, quantity |-> 1,
                            max_quantity |-> SaleItem[i].quantity - detail[i]]]
    /\ UNCHANGED <<database, cache, open, opening, saleId, reason, inflight, lost, elsewhere>>

ClickRow(i) == Toggle(i, 1)

\* The checkbox toggles and lets the click through to the row, which toggles too.
ClickCheckbox(i) == Toggle(i, 2)

\* What is typed is held between 1 and what the detail leaves.
UpdateItemQuantity(i, q) ==
    /\ open /\ i \in Listed /\ Selected(i)
    /\ selected' = [selected EXCEPT ![i].quantity =
                      IF q > selected[i].max_quantity THEN selected[i].max_quantity
                      ELSE IF q = 0 THEN 1 ELSE q]
    /\ UNCHANGED <<database, cache, open, opening, saleId, reason, inflight, lost, elsewhere>>
-----------------------------------------------------------------------------
\* The request

Pending == \E n \in DOMAIN inflight : inflight[n].opening = opening

Post == /\ inflight' = Append(inflight, [opening |-> opening, sale |-> saleId,
                                         choice |-> selected, refused |-> FALSE,
                                         stored |-> FALSE])
        /\ UNCHANGED <<database, cache, dialog, lost, elsewhere>>

\* Process Return: the schema wants a sale and a reason.
Submit_WhilePending ==
    /\ open /\ saleId # NoSale /\ reason /\ selected # NoneSelected
    /\ Len(inflight) < 2
    /\ Post
Submit ==
    /\ open /\ saleId # NoSale /\ reason /\ selected # NoneSelected
    /\ ~Pending
    /\ Post

\* Every line is checked before it is booked, so those of one item are checked together.
Acceptable_LineByLine(r) ==
    /\ status[r.sale] = "COMPLETED"
    /\ \A i \in Items : r.choice[i].lines > 0 =>
          /\ i \in ItemsOf(r.sale)
          /\ returned[i] + r.choice[i].quantity <= SaleItem[i].quantity
Acceptable(r) ==
    /\ status[r.sale] = "COMPLETED"
    /\ \A i \in Items : r.choice[i].lines > 0 =>
          /\ i \in ItemsOf(r.sale)
          /\ returned[i] + Taken(r.choice, i) <= SaleItem[i].quantity

\* A return that returns the last units and refunds the whole sale ends the sale.
Store(s, back, refund) ==
    /\ returned' = [i \in Items |-> returned[i] + back[i]]
    /\ refunded' = [refunded EXCEPT ![s] = @ + refund]
    /\ status' = [status EXCEPT ![s] =
                    IF /\ \A i \in ItemsOf(s) : returned[i] + back[i] >= SaleItem[i].quantity
                       /\ refund >= Paid[s]
                    THEN "REFUNDED" ELSE @]

Unanswered(n) == ~inflight[n].stored /\ ~inflight[n].refused

Process(n) ==
    LET r == inflight[n]
    IN  /\ Unanswered(n) /\ Acceptable(r)
        /\ Store(r.sale, [i \in Items |-> Taken(r.choice, i)], Refund(r.choice))
        /\ processed' = [processed EXCEPT ![r.opening] = @ + 1]
        /\ inflight' = [inflight EXCEPT ![n].stored = TRUE]
        /\ UNCHANGED <<cache, dialog, lost, elsewhere>>

Refuse(n) ==
    /\ Unanswered(n) /\ ~Acceptable(inflight[n])
    /\ inflight' = [inflight EXCEPT ![n].refused = TRUE]
    /\ UNCHANGED <<database, cache, dialog, lost, elsewhere>>

\* onSuccess: the list of returns is invalidated, the sale detail is not; the dialog
\* that is open, if any, is closed.
Succeeds(n) ==
    /\ inflight[n].stored
    /\ inflight' = RemoveAt(inflight, n)
    /\ open' = FALSE
    /\ saleId' = NoSale /\ reason' = FALSE /\ selected' = NoneSelected
    /\ UNCHANGED <<database, cache, opening, lost, elsewhere>>

\* onError: a message, and the dialog stays as it is.  The server refused the return,
\* or the 30 seconds of the client are over or the connection breaks, with the return
\* stored or not.
Fails(n) ==
    /\ inflight' = RemoveAt(inflight, n)
    /\ lost' = IF inflight[n].stored THEN lost \cup {inflight[n].opening} ELSE lost
    /\ UNCHANGED <<database, cache, dialog, elsewhere>>
-----------------------------------------------------------------------------
\* The sale-detail query, while its sale is in the field: the first fetch, and a
\* refetch once the entry is stale.
FetchDetail ==
    /\ open /\ saleId # NoSale
    /\ known' = known \cup {saleId}
    /\ detail' = [i \in Items |-> IF i \in ItemsOf(saleId) THEN returned[i] ELSE detail[i]]
    /\ UNCHANGED <<database, dialog, inflight, lost, elsewhere>>

\* A unit returned at another till.
ReturnElsewhere(i) ==
    LET s == SaleItem[i].sale
    IN  /\ elsewhere < MaxElsewhere
        /\ elsewhere' = elsewhere + 1
        /\ status[s] = "COMPLETED"
        /\ returned[i] < SaleItem[i].quantity
        /\ Store(s, [j \in Items |-> IF j = i THEN 1 ELSE 0], LineRefund(i, 1))
        /\ UNCHANGED <<processed, cache, dialog, inflight, lost>>

Next ==
    \/ Open \/ Close \/ HandleSaleIdLookup \/ ChooseReason \/ FetchDetail
    \/ \E s \in Sales \cup {NoSale} : HandleSaleSelect(s)
    \/ \E i \in Items : ClickRow(i) \/ ClickCheckbox(i) \/ ReturnElsewhere(i)
    \/ \E i \in Items, q \in 0..3 : UpdateItemQuantity(i, q)
    \/ Submit
    \/ \E n \in DOMAIN inflight : Process(n) \/ Refuse(n) \/ Succeeds(n) \/ Fails(n)

Spec == Init /\ [][Next]_vars
-----------------------------------------------------------------------------
\* Properties

\* TypeOK: the state is of the right kind.
Choice  == [Items -> [lines : Nat, quantity : Nat, max_quantity : Nat]]
Request == [opening : Openings, sale : Sales, choice : Choice, refused : BOOLEAN,
            stored : BOOLEAN]
TypeOK ==
    /\ returned \in [Items -> Nat] /\ detail \in [Items -> Nat]
    /\ refunded \in [Sales -> Nat]
    /\ status \in [Sales -> {"COMPLETED", "REFUNDED"}]
    /\ known \subseteq Sales
    /\ open \in BOOLEAN /\ reason \in BOOLEAN
    /\ opening \in 0..MaxOpenings
    /\ saleId \in Sales \cup {NoSale}
    /\ selected \in Choice
    /\ inflight \in Seq(Request)
    /\ processed \in [Openings -> Nat]
    /\ lost \subseteq Openings
    /\ elsewhere \in 0..MaxElsewhere

\* SelectionFitsSale: the items selected, and those of every request, are items of
\* the sale they are posted with, however the sale field, the cache and the rows
\* change; handleSaleSelect clears the selection for it.
Fits(choice, s) == \A i \in Items : choice[i].lines > 0 => SaleItem[i].sale = s
SelectionFitsSale ==
    /\ Fits(selected, saleId)
    /\ \A n \in DOMAIN inflight : Fits(inflight[n].choice, inflight[n].sale)

\* ReturnedWithinSold: no more units of an item are returned than were sold, even
\* with an item selected twice, a stale detail, two dialogs' requests and another
\* till; process's check inside its loop is what makes it so.
ReturnedWithinSold == \A i \in Items : returned[i] <= SaleItem[i].quantity

\* OneReturnPerOpening: one opening of the dialog stores at most one return, with
\* Process Return pressed again before the answer, after a refusal, or after an answer
\* that did not come because nothing was stored.  The one thing that can break this is
\* a stored return whose answer is lost: the dialog keeps its selection.
OneReturnPerOpening == \A o \in Openings \ lost : processed[o] <= 1

\* NeverReturnedTwice: the same without the exception.
NeverReturnedTwice == \A o \in Openings : processed[o] <= 1

\* ReturnedAsShown: a request returns of each item the quantity that its row shows.
ReturnedAsShown ==
    \A n \in DOMAIN inflight, i \in Items :
        LET choice == inflight[n].choice
        IN  choice[i].lines > 0 => Taken(choice, i) = choice[i].quantity

\* RefundWithinPaid: the returns of a sale refund no more than was paid for it.
RefundWithinPaid == \A s \in Sales : refunded[s] <= Paid[s]

\* OwnSuccessCloses: the dialog that a success closes is the one that posted it.
OwnSuccessCloses ==
    [][\A n \in DOMAIN inflight : Succeeds(n) /\ open => inflight[n].opening = opening]_vars
=============================================================================
