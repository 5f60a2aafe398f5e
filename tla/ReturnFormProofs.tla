--------------------------- MODULE ReturnFormProofs ---------------------------
(***************************************************************************)
(* What the New return dialog and its requests keep true for any sales and *)
(* any number of openings and requests.                                    *)
(***************************************************************************)
EXTENDS ReturnForm, SequenceTheorems, TLAPS

Types ==
    /\ returned \in [Items -> Nat] /\ detail \in [Items -> Nat]
    /\ opening \in 0..MaxOpenings /\ open \in BOOLEAN
    /\ open => opening \in Openings
    /\ saleId \in Sales \cup {NoSale}
    /\ selected \in Choice
    /\ inflight \in Seq(Request)
    /\ processed \in [Openings -> Nat]
    /\ lost \subseteq Openings

\* A request is of an opening that has been, and has one answer.
RequestsAreKnown ==
    \A n \in DOMAIN inflight :
        /\ inflight[n].opening <= opening
        /\ ~(inflight[n].stored /\ inflight[n].refused)
        /\ Fits(inflight[n].choice, inflight[n].sale)

\* An opening has one request at a time ...
OneRequest == \A n, m \in DOMAIN inflight :
                  inflight[n].opening = inflight[m].opening => n = m

\* ... and once its return is stored, it neither has one that is not nor posts
\* another: its answer is still to come, or the dialog is closed, unless the answer was
\* lost.
Spent(o) ==
    /\ processed[o] = 1
    /\ o <= opening
    /\ \A n \in DOMAIN inflight : inflight[n].opening = o => inflight[n].stored
    /\ open /\ o = opening => \E n \in DOMAIN inflight : inflight[n].opening = o
Spends == \A o \in Openings \ lost : processed[o] = 0 \/ Spent(o)

IInv == /\ Types
        /\ Fits(selected, saleId)
        /\ RequestsAreKnown /\ OneRequest /\ Spends
        /\ ReturnedWithinSold
-----------------------------------------------------------------------------
\* A sequence without its n-th element.
LEMMA RemoveAtProperties ==
  ASSUME NEW S, NEW s \in Seq(S), NEW n \in DOMAIN s
  PROVE  /\ RemoveAt(s, n) \in Seq(S)
         /\ DOMAIN RemoveAt(s, n) = 1 .. Len(s) - 1
         /\ \A k \in DOMAIN RemoveAt(s, n) :
               RemoveAt(s, n)[k] = IF k < n THEN s[k] ELSE s[k + 1]
<1> DEFINE front == SubSeq(s, 1, n - 1)
           back  == SubSeq(s, n + 1, Len(s))
<1>1. n \in 1 .. Len(s) /\ Len(s) \in Nat
  BY LenProperties
<1>2. /\ front \in Seq(S) /\ Len(front) = n - 1
      /\ \A k \in 1 .. n - 1 : front[k] = s[k]
  BY <1>1
<1>3. /\ back \in Seq(S) /\ Len(back) = Len(s) - n
      /\ \A k \in 1 .. Len(s) - n : back[k] = s[k + n]
  BY <1>1
<1>4. RemoveAt(s, n) = front \o back
  BY DEF RemoveAt
<1> HIDE DEF front, back
<1>5. /\ front \o back \in Seq(S) /\ Len(front \o back) = Len(s) - 1
      /\ \A k \in 1 .. Len(s) - 1 :
            (front \o back)[k] = IF k <= n - 1 THEN front[k] ELSE back[k - (n - 1)]
  <2>1. front \in Seq(S) /\ back \in Seq(S)
    BY <1>2, <1>3
  <2>2. /\ front \o back \in Seq(S) /\ Len(front \o back) = Len(front) + Len(back)
        /\ \A k \in 1 .. Len(front) + Len(back) :
              (front \o back)[k] = IF k <= Len(front) THEN front[k] ELSE back[k - Len(front)]
    BY <2>1, ConcatProperties, Zenon
  <2>3. Len(front) + Len(back) = Len(s) - 1 /\ Len(front) = n - 1
    BY <1>1, <1>2, <1>3
  <2> QED
    BY <2>2, <2>3
<1>6. ASSUME NEW k \in 1 .. Len(s) - 1
      PROVE  (front \o back)[k] = IF k < n THEN s[k] ELSE s[k + 1]
  <2>1. CASE k < n
    <3>1. k \in 1 .. n - 1 /\ k <= n - 1
      BY <1>1, <2>1
    <3> QED
      BY <1>2, <1>5, <2>1, <3>1
  <2>2. CASE ~(k < n)
    <3>1. k - (n - 1) \in 1 .. Len(s) - n /\ (k - (n - 1)) + n = k + 1 /\ ~(k <= n - 1)
      BY <1>1, <2>2
    <3> QED
      BY <1>3, <1>5, <2>2, <3>1
  <2> QED
    BY <2>1, <2>2
<1>7. DOMAIN (front \o back) = 1 .. Len(s) - 1
  BY <1>1, <1>5, LenProperties
<1> QED
  BY <1>4, <1>5, <1>6, <1>7
-----------------------------------------------------------------------------
LEMMA NothingFits ==
  /\ NoneSelected \in Choice
  /\ \A s : Fits(NoneSelected, s)
BY DEF NoneSelected, NoLine, Choice, Fits

LEMMA RequestsAreTyped ==
  ASSUME Types, NEW n \in DOMAIN inflight
  PROVE  /\ inflight[n] \in Request
         /\ inflight[n].opening \in Openings /\ inflight[n].choice \in Choice
<1>1. inflight[n] \in Request
  BY ElementOfSeq, LenProperties DEF Types
<1> QED
  BY <1>1 DEF Request

LEMMA TakenIsNatural ==
  ASSUME NEW choice \in Choice, NEW i \in Items
  PROVE  /\ choice[i].lines \in Nat /\ choice[i].quantity \in Nat
         /\ Taken(choice, i) \in Nat
         /\ choice[i].lines = 0 => Taken(choice, i) = 0
<1>1. choice[i].lines \in Nat /\ choice[i].quantity \in Nat
  BY DEF Choice
<1>2. \A x, y \in Nat : x * y \in Nat /\ 0 * y = 0
  OBVIOUS
<1> QED
  BY <1>1, <1>2 DEF Taken

LEMMA InitHolds == Init => IInv
<1> SUFFICES ASSUME Init PROVE IInv
  OBVIOUS
<1>1. Types
  <2>1. inflight \in Seq(Request) /\ selected \in Choice
    BY NothingFits, EmptySeq DEF Init
  <2>2. 0 \in 0..MaxOpenings
    BY ReturnFormAssumption
  <2> QED
    BY <2>1, <2>2 DEF Init, Types
<1>2. RequestsAreKnown /\ OneRequest
  BY DEF Init, RequestsAreKnown, OneRequest
<1>3. Spends /\ ReturnedWithinSold
  BY ReturnFormAssumption DEF Init, Spends, ReturnedWithinSold
<1> QED
  BY <1>1, <1>2, <1>3, NothingFits DEF Init, IInv

\* What the user does to the dialog leaves the requests and the database alone; the
\* opening stays, or a new one begins.
LEMMA DialogKeeps ==
  ASSUME IInv, UNCHANGED <<returned, inflight, processed, lost>>,
         detail' \in [Items -> Nat], saleId' \in Sales \cup {NoSale},
         selected' \in Choice, Fits(selected, saleId)', open' \in BOOLEAN,
         \/ opening' = opening /\ (open' => open)
         \/ ~open /\ opening < MaxOpenings /\ opening' = opening + 1
  PROVE  IInv'
<1>1. Types'
  BY ReturnFormAssumption DEF IInv, Types, Openings
<1>2. opening \in Nat /\ opening' \in Nat /\ opening <= opening'
  BY DEF IInv, Types, Openings
<1>3. \A n \in DOMAIN inflight : inflight[n].opening \in Nat
  BY RequestsAreTyped DEF IInv, Openings
<1>4. RequestsAreKnown' /\ OneRequest'
  BY <1>2, <1>3 DEF IInv, RequestsAreKnown, OneRequest
<1>5. Spends'
  <2> SUFFICES ASSUME NEW o \in Openings \ lost, processed[o] # 0 PROVE Spent(o)'
    BY DEF Spends
  <2>1. Spent(o) /\ o \in Nat
    BY DEF IInv, Spends, Openings
  <2>2. o <= opening' /\ (open' /\ o = opening' => open /\ o = opening)
    BY <1>2, <2>1 DEF Spent
  <2> QED
    BY <2>1, <2>2 DEF Spent
<1> QED
  BY <1>1, <1>4, <1>5 DEF IInv, ReturnedWithinSold

LEMMA DialogSteps ==
  ASSUME IInv,
         \/ Open \/ Close \/ HandleSaleIdLookup \/ ChooseReason \/ FetchDetail
         \/ \E s \in Sales \cup {NoSale} : HandleSaleSelect(s)
         \/ \E i \in Items : ClickRow(i) \/ ClickCheckbox(i)
         \/ \E i \in Items, q \in 0..3 : UpdateItemQuantity(i, q)
  PROVE  IInv'
<1> USE DEF database, cache
<1>1. CASE Open
  BY <1>1, NothingFits, DialogKeeps DEF Open, IInv, Types
<1>2. CASE Close
  BY <1>2, NothingFits, DialogKeeps DEF Close, IInv, Types
<1>3. CASE HandleSaleIdLookup
  BY <1>3, NothingFits, DialogKeeps DEF HandleSaleIdLookup, IInv, Types
<1>4. CASE ChooseReason
  BY <1>4, DialogKeeps DEF ChooseReason, IInv, Types
<1>5. CASE FetchDetail
  <2>1. detail' \in [Items -> Nat]
    BY <1>5 DEF FetchDetail, IInv, Types
  <2> QED
    BY <1>5, <2>1, DialogKeeps DEF FetchDetail, dialog, IInv, Types
<1>6. ASSUME NEW s \in Sales \cup {NoSale}, HandleSaleSelect(s) PROVE IInv'
  BY <1>6, NothingFits, DialogKeeps DEF HandleSaleSelect, IInv, Types
<1>7. ASSUME NEW i \in Items, NEW n \in 1..2, Toggle(i, n) PROVE IInv'
  <2>1. SaleItem[i].sale = saleId /\ SaleItem[i].quantity - detail[i] \in Nat
    <3>1. i \in ItemsOf(saleId) /\ detail[i] < SaleItem[i].quantity
      BY <1>7 DEF Toggle, Listed
    <3>2. SaleItem[i].quantity \in Nat /\ detail[i] \in Nat
      BY ReturnFormAssumption DEF IInv, Types
    <3> QED
      BY <3>1, <3>2 DEF ItemsOf
  <2>2. selected' \in Choice /\ Fits(selected, saleId)'
    BY <1>7, <2>1 DEF Toggle, IInv, Types, Choice, Fits, NoLine
  <2> QED
    BY <1>7, <2>2, DialogKeeps DEF Toggle, IInv, Types
<1>8. ASSUME NEW i \in Items, NEW q \in 0..3, UpdateItemQuantity(i, q) PROVE IInv'
  <2>1. /\ selected \in Choice /\ Fits(selected, saleId) /\ i \in Items
        /\ selected[i].max_quantity \in Nat
    BY DEF IInv, Types, Choice
  <2> DEFINE number == IF q > selected[i].max_quantity THEN selected[i].max_quantity
                       ELSE IF q = 0 THEN 1 ELSE q
  <2>2. number \in Nat /\ selected' = [selected EXCEPT ![i].quantity = number]
    BY <1>8, <2>1 DEF UpdateItemQuantity
  <2> HIDE DEF number
  <2>3. selected' \in Choice /\ Fits(selected', saleId)
    BY <2>1, <2>2 DEF Choice, Fits
  <2> QED
    BY <1>8, <2>3, DialogKeeps DEF UpdateItemQuantity, IInv, Types
<1> QED
  BY <1>1, <1>2, <1>3, <1>4, <1>5, <1>6, <1>7, <1>8 DEF ClickRow, ClickCheckbox
-----------------------------------------------------------------------------
\* An opening posts while it has no request, and so before its return is stored.
LEMMA SubmitStep == ASSUME IInv, Submit PROVE IInv'
<1> DEFINE r == [opening |-> opening, sale |-> saleId, choice |-> selected,
                 refused |-> FALSE, stored |-> FALSE]
<1>1. /\ inflight' = Append(inflight, r) /\ open /\ ~Pending
      /\ UNCHANGED <<returned, detail, opening, open, saleId, selected, processed, lost>>
  BY DEF Submit, Post, database, cache, dialog
<1>2. /\ r \in Request /\ r.opening = opening /\ ~r.stored
      /\ Fits(r.choice, r.sale) /\ opening \in Openings
  BY <1>1 DEF Submit, IInv, Types, Request
<1> HIDE DEF r
<1>3. /\ inflight \in Seq(Request) /\ Len(inflight) \in Nat
      /\ DOMAIN inflight = 1 .. Len(inflight)
  BY LenProperties DEF IInv, Types
<1>4. /\ inflight' \in Seq(Request)
      /\ DOMAIN inflight' = 1 .. Len(inflight) + 1
      /\ \A n \in DOMAIN inflight : inflight'[n] = inflight[n]
      /\ inflight'[Len(inflight) + 1] = r
  BY <1>1, <1>2, <1>3, AppendProperties, LenProperties
<1>5. ASSUME NEW n \in DOMAIN inflight'
      PROVE  n \in DOMAIN inflight \/ (n = Len(inflight) + 1 /\ inflight'[n] = r)
  BY <1>3, <1>4
<1>6. Types'
  BY <1>1, <1>4 DEF IInv, Types
<1>7. RequestsAreKnown'
  <2> SUFFICES ASSUME NEW n \in DOMAIN inflight'
               PROVE  /\ inflight'[n].opening <= opening
                      /\ ~(inflight'[n].stored /\ inflight'[n].refused)
                      /\ Fits(inflight'[n].choice, inflight'[n].sale)
    BY <1>1 DEF RequestsAreKnown, Fits
  <2>1. CASE n \in DOMAIN inflight
    BY <1>4, <2>1 DEF IInv, RequestsAreKnown
  <2>2. CASE inflight'[n] = r
    BY <1>2, <2>2 DEF Openings
  <2> QED
    BY <1>5, <2>1, <2>2
<1>8. \A n \in DOMAIN inflight : inflight[n].opening # opening
  BY <1>1 DEF Pending
<1>9. OneRequest'
  BY <1>2, <1>4, <1>5, <1>8 DEF IInv, OneRequest
<1>10. Spends'
  <2> SUFFICES ASSUME NEW o \in Openings \ lost, processed[o] # 0 PROVE Spent(o)'
    BY <1>1 DEF Spends
  <2>1. Spent(o) /\ o # opening
    BY <1>1, <1>8 DEF IInv, Spends, Spent
  <2> QED
    BY <1>1, <1>2, <1>4, <1>5, <2>1 DEF Spent
<1>11. Fits(selected, saleId)' /\ ReturnedWithinSold'
  BY <1>1 DEF IInv, Fits, ReturnedWithinSold
<1> QED
  BY <1>6, <1>7, <1>9, <1>10, <1>11 DEF IInv

\* A request that changes in what has become of it keeps its opening, its sale and its
\* items.
LEMMA AnswerKeeps ==
  ASSUME IInv, NEW n \in DOMAIN inflight, NEW r \in Request,
         inflight' = [inflight EXCEPT ![n] = r],
         r.opening = inflight[n].opening, r.sale = inflight[n].sale,
         r.choice = inflight[n].choice, ~(r.stored /\ r.refused),
         UNCHANGED <<detail, opening, open, saleId, selected, lost>>,
         returned' \in [Items -> Nat], processed' \in [Openings -> Nat]
  PROVE  Types' /\ RequestsAreKnown' /\ OneRequest' /\ Fits(selected, saleId)'
<1>1. /\ inflight' \in Seq(Request) /\ DOMAIN inflight' = DOMAIN inflight
      /\ inflight'[n] = r
      /\ \A m \in DOMAIN inflight : m # n => inflight'[m] = inflight[m]
  BY ExceptSeq, LenProperties DEF IInv, Types
<1>2. Types'
  BY <1>1 DEF IInv, Types
<1>3. RequestsAreKnown' /\ OneRequest'
  <2>1. \A m \in DOMAIN inflight : /\ inflight'[m].opening = inflight[m].opening
                                   /\ inflight'[m].sale = inflight[m].sale
                                   /\ inflight'[m].choice = inflight[m].choice
    BY <1>1
  <2>2. OneRequest'
    BY <1>1, <2>1 DEF IInv, OneRequest
  <2>3. RequestsAreKnown'
    BY <1>1, <2>1 DEF IInv, RequestsAreKnown, Fits
  <2> QED
    BY <2>2, <2>3
<1> QED
  BY <1>2, <1>3 DEF IInv, Fits

LEMMA ProcessStep == ASSUME IInv, NEW n \in DOMAIN inflight, Process(n) PROVE IInv'
<1> DEFINE r == inflight[n]
           q == [r EXCEPT !.stored = TRUE]
<1>1. /\ r \in Request /\ ~r.stored /\ ~r.refused /\ Acceptable(r)
      /\ r.opening \in Openings /\ r.choice \in Choice
  BY RequestsAreTyped DEF IInv, Process, Unanswered
<1>2. /\ returned' = [i \in Items |-> returned[i] + Taken(r.choice, i)]
      /\ processed' = [processed EXCEPT ![r.opening] = @ + 1]
      /\ inflight' = [inflight EXCEPT ![n].stored = TRUE]
      /\ UNCHANGED <<detail, opening, open, saleId, selected, lost>>
  BY DEF Process, Store, cache, dialog
<1>3. q \in Request /\ q.stored /\ ~q.refused
      /\ q.opening = r.opening /\ q.sale = r.sale /\ q.choice = r.choice
  BY <1>1 DEF Request
<1>4. inflight' = [inflight EXCEPT ![n] = q]
  BY <1>2
<1> HIDE DEF q
<1>5. ASSUME NEW i \in Items
      PROVE  /\ returned[i] + Taken(r.choice, i) \in Nat
             /\ returned[i] + Taken(r.choice, i) <= SaleItem[i].quantity
  <2>1. returned[i] \in Nat /\ Taken(r.choice, i) \in Nat
        /\ returned[i] <= SaleItem[i].quantity /\ r.choice[i].lines \in Nat
        /\ (r.choice[i].lines = 0 => Taken(r.choice, i) = 0)
    BY <1>1, TakenIsNatural DEF IInv, Types, ReturnedWithinSold
  <2>2. CASE r.choice[i].lines > 0
    BY <1>1, <2>1, <2>2 DEF Acceptable
  <2>3. CASE r.choice[i].lines = 0
    BY <2>1, <2>3
  <2> QED
    BY <2>1, <2>2, <2>3
<1>6. returned' \in [Items -> Nat] /\ ReturnedWithinSold'
  BY <1>2, <1>5 DEF ReturnedWithinSold
<1>7. r.opening \notin lost => processed[r.opening] = 0
  BY <1>1 DEF IInv, Spends, Spent
<1>8. /\ processed' \in [Openings -> Nat]
      /\ r.opening \notin lost => processed'[r.opening] = 1
      /\ \A o \in Openings : o # r.opening => processed'[o] = processed[o]
  BY <1>1, <1>2, <1>7 DEF IInv, Types
<1>9. Types' /\ RequestsAreKnown' /\ OneRequest' /\ Fits(selected, saleId)'
  BY <1>2, <1>3, <1>4, <1>6, <1>8, AnswerKeeps
<1>10. /\ DOMAIN inflight' = DOMAIN inflight /\ inflight'[n] = q
       /\ \A m \in DOMAIN inflight : m # n => inflight'[m] = inflight[m]
  BY <1>3, <1>4, ExceptSeq, LenProperties DEF IInv, Types
<1>11. Spends'
  <2> SUFFICES ASSUME NEW o \in Openings \ lost, processed'[o] # 0 PROVE Spent(o)'
    BY <1>2 DEF Spends
  <2>1. CASE o = r.opening
    <3>1. \A m \in DOMAIN inflight' : inflight'[m].opening = o => m = n
      BY <1>3, <1>10, <2>1 DEF IInv, OneRequest
    <3>2. o <= opening
      BY <2>1 DEF IInv, RequestsAreKnown
    <3> QED
      BY <1>2, <1>3, <1>8, <1>10, <2>1, <3>1, <3>2 DEF Spent
  <2>2. CASE o # r.opening
    <3>1. Spent(o) /\ processed'[o] = processed[o]
      BY <1>8, <2>2 DEF IInv, Spends
    <3>2. \A m \in DOMAIN inflight' : /\ inflight'[m].opening = inflight[m].opening
                                     /\ inflight[m].stored => inflight'[m].stored
      BY <1>3, <1>10
    <3> QED
      BY <1>2, <1>10, <3>1, <3>2 DEF Spent
  <2> QED
    BY <2>1, <2>2
<1> QED
  BY <1>6, <1>9, <1>11 DEF IInv

LEMMA RefuseStep == ASSUME IInv, NEW n \in DOMAIN inflight, Refuse(n) PROVE IInv'
<1> DEFINE r == inflight[n]
           q == [r EXCEPT !.refused = TRUE]
<1>1. /\ r \in Request /\ ~r.stored
      /\ inflight' = [inflight EXCEPT ![n].refused = TRUE]
      /\ UNCHANGED <<returned, processed, detail, opening, open, saleId, selected, lost>>
  BY RequestsAreTyped DEF IInv, Refuse, Unanswered, database, cache, dialog
<1>2. q \in Request /\ ~q.stored
      /\ q.opening = r.opening /\ q.sale = r.sale /\ q.choice = r.choice
  BY <1>1 DEF Request
<1>3. inflight' = [inflight EXCEPT ![n] = q]
  BY <1>1
<1> HIDE DEF q
<1>4. Types' /\ RequestsAreKnown' /\ OneRequest' /\ Fits(selected, saleId)'
  BY <1>1, <1>2, <1>3, AnswerKeeps DEF IInv, Types
<1>5. /\ DOMAIN inflight' = DOMAIN inflight /\ inflight'[n] = q
      /\ \A m \in DOMAIN inflight : m # n => inflight'[m] = inflight[m]
  BY <1>2, <1>3, ExceptSeq, LenProperties DEF IInv, Types
<1>6. \A m \in DOMAIN inflight : /\ inflight'[m].opening = inflight[m].opening
                                 /\ inflight[m].stored => inflight'[m].stored
  BY <1>1, <1>2, <1>5
<1>7. Spends' /\ ReturnedWithinSold'
  BY <1>1, <1>5, <1>6 DEF IInv, Spends, Spent, ReturnedWithinSold
<1> QED
  BY <1>4, <1>7 DEF IInv

\* An answer takes its request away.  A success closes the dialog; a failure that hides a
\* stored return makes its opening one of the lost.
LEMMA RemovalKeeps ==
  ASSUME IInv, NEW n \in DOMAIN inflight, inflight' = RemoveAt(inflight, n),
         UNCHANGED <<returned, detail, opening, processed>>,
         saleId' \in Sales \cup {NoSale}, selected' \in Choice, Fits(selected, saleId)',
         \/ open' = FALSE /\ lost' = lost
         \/ /\ open' = open
            /\ lost' = IF inflight[n].stored THEN lost \cup {inflight[n].opening} ELSE lost
  PROVE  IInv'
<1>1. /\ inflight \in Seq(Request) /\ Len(inflight) \in Nat
      /\ DOMAIN inflight = 1 .. Len(inflight)
  BY LenProperties DEF IInv, Types
<1>2. /\ inflight' \in Seq(Request)
      /\ DOMAIN inflight' = 1 .. Len(inflight) - 1
      /\ \A k \in DOMAIN inflight' :
            inflight'[k] = IF k < n THEN inflight[k] ELSE inflight[k + 1]
  BY <1>1, RemoveAtProperties
<1> DEFINE Before(k) == IF k < n THEN k ELSE k + 1
<1>3. \A k \in DOMAIN inflight' :
         /\ Before(k) \in DOMAIN inflight /\ inflight'[k] = inflight[Before(k)]
         /\ \A l \in DOMAIN inflight' : Before(k) = Before(l) => k = l
  BY <1>1, <1>2
<1>4. \A m \in DOMAIN inflight : m # n => \E k \in DOMAIN inflight' : Before(k) = m
  <2> SUFFICES ASSUME NEW m \in DOMAIN inflight, m # n
               PROVE  \E k \in DOMAIN inflight' : Before(k) = m
    OBVIOUS
  <2>1. CASE m < n
    BY <1>1, <1>2, <2>1
  <2>2. CASE m > n
    <3>1. m - 1 \in DOMAIN inflight' /\ Before(m - 1) = m
      BY <1>1, <1>2, <2>2
    <3> QED
      BY <3>1
  <2> QED
    BY <1>1, <2>1, <2>2
<1> HIDE DEF Before
<1>5. lost \subseteq lost' /\ lost' \subseteq Openings
  BY RequestsAreTyped DEF IInv, Types
<1>6. Types'
  <2>1. open \in BOOLEAN /\ (open => opening \in Openings)
    BY DEF IInv, Types
  <2>2. open' \in BOOLEAN
    BY <2>1
  <2>3. open' => opening' \in Openings
    BY <2>1
  <2> QED
    BY <1>2, <1>5, <2>2, <2>3 DEF IInv, Types
<1>7. RequestsAreKnown' /\ OneRequest'
  BY <1>3 DEF IInv, RequestsAreKnown, OneRequest, Fits
<1>8. Spends'
  <2> SUFFICES ASSUME NEW o \in Openings \ lost', processed[o] # 0 PROVE Spent(o)'
    BY DEF Spends
  <2>1. Spent(o)
    BY <1>5 DEF IInv, Spends
  <2>2. ASSUME open', o = opening
        PROVE  \E k \in DOMAIN inflight' : inflight'[k].opening = o
    <3>1. PICK m \in DOMAIN inflight : inflight[m].opening = o /\ inflight[m].stored
      BY <2>1, <2>2 DEF Spent
    <3>2. m # n
      BY <2>2, <3>1
    <3> QED
      BY <1>3, <1>4, <3>1, <3>2
  <2> QED
    BY <1>3, <2>1, <2>2 DEF Spent
<1> QED
  BY <1>6, <1>7, <1>8 DEF IInv, ReturnedWithinSold

LEMMA ReturnElsewhereStep ==
  ASSUME IInv, NEW i \in Items, ReturnElsewhere(i) PROVE IInv'
<1>1. /\ returned' = [j \in Items |-> returned[j] + (IF j = i THEN 1 ELSE 0)]
      /\ returned[i] < SaleItem[i].quantity
      /\ UNCHANGED <<processed, detail, opening, open, saleId, selected, inflight, lost>>
  BY DEF ReturnElsewhere, Store, cache, dialog
<1>2. \A j \in Items : returned[j] \in Nat /\ SaleItem[j].quantity \in Nat
  BY ReturnFormAssumption DEF IInv, Types
<1>3. returned' \in [Items -> Nat] /\ ReturnedWithinSold'
  BY <1>1, <1>2 DEF IInv, ReturnedWithinSold
<1>4. Types' /\ RequestsAreKnown' /\ OneRequest' /\ Spends' /\ Fits(selected, saleId)'
  BY <1>1, <1>3 DEF IInv, Types, RequestsAreKnown, OneRequest, Spends, Spent, Fits
<1> QED
  BY <1>3, <1>4 DEF IInv
-----------------------------------------------------------------------------
\* Each step keeps the invariant.
LEMMA StepKeeps == IInv /\ [Next]_vars => IInv'
<1> SUFFICES ASSUME IInv, [Next]_vars PROVE IInv'
  OBVIOUS
<1>1. CASE \/ Open \/ Close \/ HandleSaleIdLookup \/ ChooseReason \/ FetchDetail
           \/ \E s \in Sales \cup {NoSale} : HandleSaleSelect(s)
           \/ \E i \in Items : ClickRow(i) \/ ClickCheckbox(i)
           \/ \E i \in Items, q \in 0..3 : UpdateItemQuantity(i, q)
  BY <1>1, DialogSteps
<1>2. CASE Submit
  BY <1>2, SubmitStep
<1>3. ASSUME NEW i \in Items, ReturnElsewhere(i) PROVE IInv'
  BY <1>3, ReturnElsewhereStep
<1>4. ASSUME NEW n \in DOMAIN inflight, Process(n) PROVE IInv'
  BY <1>4, ProcessStep
<1>5. ASSUME NEW n \in DOMAIN inflight, Refuse(n) PROVE IInv'
  BY <1>5, RefuseStep
<1>6. ASSUME NEW n \in DOMAIN inflight, Succeeds(n) PROVE IInv'
  <2>1. /\ inflight' = RemoveAt(inflight, n) /\ open' = FALSE
        /\ saleId' = NoSale /\ selected' = NoneSelected
        /\ UNCHANGED <<returned, detail, opening, processed, lost>>
    BY <1>6 DEF Succeeds, database, cache
  <2>2. selected' \in Choice /\ Fits(selected, saleId)'
    BY <2>1, NothingFits
  <2> QED
    BY <2>1, <2>2, RemovalKeeps
<1>7. ASSUME NEW n \in DOMAIN inflight, Fails(n) PROVE IInv'
  <2>1. /\ inflight' = RemoveAt(inflight, n)
        /\ lost' = IF inflight[n].stored THEN lost \cup {inflight[n].opening} ELSE lost
        /\ UNCHANGED <<returned, detail, opening, processed, open, saleId, selected>>
    BY <1>7 DEF Fails, database, cache, dialog
  <2>2. saleId' \in Sales \cup {NoSale} /\ selected' \in Choice /\ Fits(selected, saleId)'
    BY <2>1 DEF IInv, Types, Fits
  <2> QED
    BY <2>1, <2>2, RemovalKeeps
<1>8. CASE UNCHANGED vars
  BY <1>8 DEF vars, IInv, Types, RequestsAreKnown, OneRequest, Spends, Spent, Fits,
              ReturnedWithinSold
<1> QED
  BY <1>1, <1>2, <1>3, <1>4, <1>5, <1>6, <1>7, <1>8 DEF Next

\* Whatever is chosen, ticked, posted and answered late, the dialog, its requests and the
\* server fit together as IInv says.
THEOREM InvariantHolds == Spec => []IInv
<1> QED
  BY InitHolds, StepKeeps, PTL DEF Spec

\* SelectionFitsSale: whatever is typed, ticked, cached and posted, items are posted with
\* the sale that they are of.
THEOREM ItemsFitTheirSale == Spec => []SelectionFitsSale
<1>1. IInv => SelectionFitsSale
  BY DEF IInv, RequestsAreKnown, SelectionFitsSale
<1> QED
  BY <1>1, InvariantHolds, PTL

\* ReturnedWithinSold: no more units are returned than were sold, with lines posted twice
\* on outdated details and any number of tills.
THEOREM ReturnsStayWithinSold == Spec => []ReturnedWithinSold
<1>1. IInv => ReturnedWithinSold
  BY DEF IInv
<1> QED
  BY <1>1, InvariantHolds, PTL

\* OneReturnPerOpening: an opening of the dialog stores one return, whatever is pressed
\* again, refused, closed and opened while requests are under way, unless the answer to a
\* stored return is lost.
THEOREM OpeningsReturnOnce == Spec => []OneReturnPerOpening
<1>1. IInv => OneReturnPerOpening
  BY DEF IInv, Spends, Spent, OneReturnPerOpening
<1> QED
  BY <1>1, InvariantHolds, PTL
=============================================================================
