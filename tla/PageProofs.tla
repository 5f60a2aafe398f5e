------------------------------ MODULE PageProofs ------------------------------
(***************************************************************************)
(* What the dialogs and the lists of the pages keep true: every dialog of  *)
(* the table Dialogs, for any rows and any number of openings, requests    *)
(* and edits made elsewhere; every query and write of the table Pages, for *)
(* any number of pages of a list and of entries in the cache.              *)
(***************************************************************************)
EXTENDS DialogForm, QueryView, SequenceTheorems, TLAPS

\* The dialog is open for the row that its last opening was for.
OpenIsCurrent == open => opening \in Openings /\ openedFor[opening] = target

\* Whether an opening for t fills the form, wherever it finds it.
Filled(t) == dialog.loads = Fields /\ (t # New \/ dialog.renews = Fields)

\* A form that its opening has filled holds what this opening loaded or the user typed.
FormIsOwn == Filled(target) /\ open =>
                 \A f \in Fields : /\ form[f].opening = opening
                                  /\ form[f].writer \in {loaded[f], "me"}

\* So do the requests, and one that sends what has changed sends what was typed.
Fit(r) ==
    /\ r.opening <= opening
    /\ openedFor[r.opening] = r.target
    /\ Filled(r.target) => \A f \in Fields : r.form[f].opening = r.opening
    /\ dialog.sends = "changed" /\ r.target # New =>
           \A f \in r.fields : r.form[f].writer = "me"
RequestsFit == \A n \in DOMAIN inflight : Fit(inflight[n])

\* A dialog that waits has one request under way ...
OneRequest == dialog.guarded => \A n, m \in DOMAIN inflight : n = m

\* ... and once an opening's request is stored, the opening neither has one that is not
\* nor posts another: the answer is still to come, or the dialog is open for something else.
Spent(o) ==
    /\ stored[o] = 1
    /\ o <= opening
    /\ \A n \in DOMAIN inflight : inflight[n].opening = o => inflight[n].stored
    /\ open /\ o = opening => \E n \in DOMAIN inflight : inflight[n].opening = o
Spends == dialog.guarded => \A o \in Openings \ lost : stored[o] = 0 \/ Spent(o)

IInv == TypeOK /\ OpenIsCurrent /\ FormIsOwn /\ RequestsFit /\ OneRequest /\ Spends
-----------------------------------------------------------------------------
\* A sequence without its n-th element.
LEMMA RemoveAtProperties ==
  ASSUME NEW S, NEW s \in Seq(S), NEW n \in DOMAIN s
  PROVE  /\ RemoveAt(s, n) \in Seq(S)
         /\ DOMAIN RemoveAt(s, n) = 1 .. Len(s) - 1
         /\ \A k \in DOMAIN RemoveAt(s, n) :
               RemoveAt(s, n)[k] = IF k < n THEN s[k] ELSE s[k + 1]
<1> DEFINE front == SubSeq(s, 1, n - 1)
           back  == SubSeq(s, n + 1, Len(s))
<1>1. n \in 1 .. Len(s) /\ Len(s) \in Nat
  BY LenProperties
<1>2. /\ front \in Seq(S) /\ Len(front) = n - 1
      /\ \A k \in 1 .. n - 1 : front[k] = s[k]
  BY <1>1
<1>3. /\ back \in Seq(S) /\ Len(back) = Len(s) - n
      /\ \A k \in 1 .. Len(s) - n : back[k] = s[k + n]
  BY <1>1
<1>4. RemoveAt(s, n) = front \o back
  BY DEF RemoveAt
<1> HIDE DEF front, back
<1>5. /\ front \o back \in Seq(S) /\ Len(front \o back) = Len(s) - 1
      /\ \A k \in 1 .. Len(s) - 1 :
            (front \o back)[k] = IF k <= n - 1 THEN front[k] ELSE back[k - (n - 1)]
  <2>1. front \in Seq(S) /\ back \in Seq(S)
    BY <1>2, <1>3
  <2>2. /\ front \o back \in Seq(S) /\ Len(front \o back) = Len(front) + Len(back)
        /\ \A k \in 1 .. Len(front) + Len(back) :
              (front \o back)[k] = IF k <= Len(front) THEN front[k] ELSE back[k - Len(front)]
    BY <2>1, ConcatProperties, Zenon
  <2>3. Len(front) + Len(back) = Len(s) - 1 /\ Len(front) = n - 1
    BY <1>1, <1>2, <1>3
  <2> QED
    BY <2>2, <2>3
<1>6. ASSUME NEW k \in 1 .. Len(s) - 1
      PROVE  (front \o back)[k] = IF k < n THEN s[k] ELSE s[k + 1]
  <2>1. CASE k < n
    <3>1. k \in 1 .. n - 1 /\ k <= n - 1
      BY <1>1, <2>1
    <3> QED
      BY <1>2, <1>5, <2>1, <3>1
  <2>2. CASE ~(k < n)
    <3>1. k - (n - 1) \in 1 .. Len(s) - n /\ (k - (n - 1)) + n = k + 1 /\ ~(k <= n - 1)
      BY <1>1, <2>2
    <3> QED
      BY <1>3, <1>5, <2>2, <3>1
  <2> QED
    BY <2>1, <2>2
<1>7. DOMAIN (front \o back) = 1 .. Len(s) - 1
  BY <1>1, <1>5, LenProperties
<1> QED
  BY <1>4, <1>5, <1>6, <1>7

LEMMA RequestsAreTyped ==
  ASSUME TypeOK, NEW n \in DOMAIN inflight
  PROVE  /\ inflight[n] \in Request
         /\ inflight[n].opening \in Openings /\ inflight[n].target \in Rows \cup {New}
         /\ inflight[n].form \in Form /\ inflight[n].fields \subseteq Fields
<1>1. inflight[n] \in Request
  BY ElementOfSeq, LenProperties DEF TypeOK
<1> QED
  BY <1>1 DEF Request

\* The one dialog that sends what has changed is filled by every opening.
LEMMA ChangesAreCompared == dialog \in Dialogs /\ dialog.sends = "changed" => dialog.loads = Fields
BY DEF Dialogs, UserModal, ResetPasswordModal, ProductModal, PriceModal, RestockModal,
       CategoryModal, DeleteConfirmModal, SupplierModal, ConfirmDeleteModal, ContactModal,
       InventoryRestock, InventoryAdjust, CustomerForm, SettlementForm, VoidModal,
       BusinessInfoForm, TaxRateForm, SettingForm, Modal, Inline, Confirmation, PageForm,
       Dialog

LEMMA BlankIsTyped ==
  /\ Blank \in Row /\ OldRow \in Row /\ EmptyForm \in Form
  /\ \A f \in Fields : Blank[f] \in Writers
BY DialogFormAssumption DEF Blank, OldRow, EmptyForm, Row, Form, Writers

LEMMA InitHolds == Init => IInv
<1> SUFFICES ASSUME Init PROVE IInv
  OBVIOUS
<1>1. TypeOK
  <2>1. inflight \in Seq(Request)
    BY EmptySeq DEF Init
  <2>2. 0 \in 0..MaxOpenings /\ 0 \in 0..MaxPosts /\ 0 \in 0..MaxEdits
    BY DialogFormAssumption
  <2> QED
    BY <2>1, <2>2, BlankIsTyped DEF Init, TypeOK
<1>2. OpenIsCurrent /\ FormIsOwn
  BY DEF Init, OpenIsCurrent, FormIsOwn
<1>3. RequestsFit /\ OneRequest /\ Spends
  BY DEF Init, RequestsFit, OneRequest, Spends
<1> QED
  BY <1>1, <1>2, <1>3 DEF IInv
-----------------------------------------------------------------------------
\* The user

LEMMA OpenStep == ASSUME IInv, NEW t \in Targets, Open(t) PROVE IInv'
<1>1. t \in Rows \cup {New}
  BY DEF Targets
<1>2. /\ open' = TRUE /\ target' = t /\ loaded' = Content(t) /\ opening' = opening + 1
      /\ openedFor' = [openedFor EXCEPT ![opening + 1] = t]
      /\ form' = [f \in Fields |-> IF f \in Set(t)
                                   THEN [writer |-> Content(t)[f], opening |-> opening + 1]
                                   ELSE form[f]]
      /\ UNCHANGED <<dialog, rows, stored, shown, inflight, lost, posts, edits>>
      /\ opening + 1 \in Openings /\ opening \in Nat
  <2>1. opening < MaxOpenings /\ opening \in 0..MaxOpenings /\ MaxOpenings \in Nat
    BY DialogFormAssumption DEF Open, IInv, TypeOK
  <2>2. opening + 1 \in Openings /\ opening \in Nat
    BY <2>1 DEF Openings
  <2> QED
    BY <2>2 DEF Open, Load, server, bounds
<1>3. Content(t) \in Row /\ \A f \in Fields : Content(t)[f] \in Writers
  BY <1>1, BlankIsTyped DEF Content, IInv, TypeOK, Row
<1>4. TypeOK'
  <2>1. form' \in Form
    BY <1>2, <1>3 DEF IInv, TypeOK, Form, Openings
  <2> QED
    BY <1>1, <1>2, <1>3, <2>1 DEF IInv, TypeOK, Openings
<1>5. OpenIsCurrent'
  BY <1>2 DEF OpenIsCurrent, IInv, TypeOK
<1>6. FormIsOwn'
  <2> SUFFICES ASSUME Filled(t), NEW f \in Fields
               PROVE  form'[f].opening = opening' /\ form'[f].writer \in {loaded'[f], "me"}
    BY <1>2 DEF FormIsOwn, Filled
  <2>1. f \in Set(t)
    BY DEF Set, Filled
  <2> QED
    BY <1>2, <2>1
<1>7. ASSUME NEW n \in DOMAIN inflight
      PROVE  inflight[n].opening \in Nat /\ inflight[n].opening <= opening
             /\ openedFor'[inflight[n].opening] = openedFor[inflight[n].opening]
  <2>1. inflight[n].opening \in Openings /\ inflight[n].opening <= opening
    BY RequestsAreTyped DEF IInv, RequestsFit, Fit
  <2> QED
    BY <1>2, <2>1 DEF IInv, TypeOK, Openings
<1>8. RequestsFit' /\ OneRequest'
  BY <1>2, <1>7 DEF IInv, RequestsFit, Fit, Filled, OneRequest
<1>9. Spends'
  <2> SUFFICES ASSUME dialog.guarded, NEW o \in Openings \ lost, stored[o] # 0
               PROVE  Spent(o)'
    BY <1>2 DEF Spends
  <2>1. Spent(o) /\ o \in Nat
    BY DEF IInv, Spends, Openings
  <2> QED
    BY <1>2, <2>1 DEF Spent
<1> QED
  BY <1>4, <1>5, <1>6, <1>8, <1>9 DEF IInv

LEMMA TypeStep == ASSUME IInv, NEW f \in Fields, Type(f) PROVE IInv'
<1>1. /\ open /\ opening \in Openings
      /\ form' = [form EXCEPT ![f] = [writer |-> "me", opening |-> opening]]
      /\ UNCHANGED <<dialog, rows, stored, shown, open, target, loaded, opening, openedFor,
                     inflight, lost, posts, edits>>
  BY DEF Type, server, past, bounds, IInv, OpenIsCurrent
<1>2. form' \in Form
  BY <1>1 DEF IInv, TypeOK, Form, Writers, Openings
<1>3. FormIsOwn'
  BY <1>1 DEF IInv, TypeOK, Form, FormIsOwn, Filled
<1> QED
  BY <1>1, <1>2, <1>3 DEF IInv, TypeOK, OpenIsCurrent, RequestsFit, Fit, Filled, OneRequest,
                          Spends, Spent

LEMMA CloseStep == ASSUME IInv, Close PROVE IInv'
<1>1. /\ open' = FALSE /\ target' = New /\ form' = EmptyForm /\ loaded' = Blank
      /\ UNCHANGED <<dialog, rows, stored, shown, opening, openedFor, inflight, lost, posts,
                     edits>>
  BY DEF Close, server, past, bounds
<1> QED
  BY <1>1, BlankIsTyped DEF IInv, TypeOK, OpenIsCurrent, FormIsOwn, RequestsFit, Fit, Filled,
                            OneRequest, Spends, Spent
-----------------------------------------------------------------------------
\* The request

LEMMA SubmitStep == ASSUME IInv, Submit PROVE IInv'
<1> DEFINE r == [opening |-> opening, target |-> target, form |-> form,
                 fields |-> Payload, stored |-> FALSE]
<1>1. /\ open /\ (dialog.guarded => inflight = <<>>) /\ posts < MaxPosts
      /\ posts' = posts + 1 /\ inflight' = Append(inflight, r)
      /\ UNCHANGED <<dialog, rows, stored, shown, open, target, form, loaded, opening,
                     openedFor, lost, edits>>
  BY DEF Submit, Post, server, screen, past
<1>2. opening \in Openings /\ openedFor[opening] = target /\ opening \in Nat
  BY <1>1 DEF IInv, OpenIsCurrent, Openings
<1>3. r \in Request /\ r.opening = opening /\ ~r.stored
  <2>1. Payload \subseteq Fields
    BY DEF Payload
  <2> QED
    BY <1>2, <2>1 DEF IInv, TypeOK, Request
<1>4. Fit(r)
  <2>1. Filled(target) => \A f \in Fields : form[f].opening = opening
    BY <1>1 DEF IInv, FormIsOwn
  <2>2. ASSUME dialog.sends = "changed", target # New, NEW f \in Payload
        PROVE  form[f].writer = "me"
    <3>1. f \in Fields /\ form[f].writer # loaded[f]
      BY <2>2 DEF Payload
    <3>2. Filled(target)
      BY <2>2, ChangesAreCompared DEF IInv, TypeOK, Filled
    <3> QED
      BY <1>1, <3>1, <3>2 DEF IInv, FormIsOwn
  <2> QED
    BY <1>2, <2>1, <2>2 DEF Fit
<1> HIDE DEF r
<1>5. /\ inflight \in Seq(Request) /\ Len(inflight) \in Nat
      /\ DOMAIN inflight = 1 .. Len(inflight)
  BY LenProperties DEF IInv, TypeOK
<1>6. /\ inflight' \in Seq(Request)
      /\ DOMAIN inflight' = 1 .. Len(inflight) + 1
      /\ \A n \in DOMAIN inflight : inflight'[n] = inflight[n]
      /\ inflight'[Len(inflight) + 1] = r
  BY <1>1, <1>3, <1>5, AppendProperties, LenProperties
<1>7. ASSUME NEW n \in DOMAIN inflight'
      PROVE  n \in DOMAIN inflight \/ (n = Len(inflight) + 1 /\ inflight'[n] = r)
  BY <1>5, <1>6
<1>8. TypeOK'
  <2>1. posts' \in 0..MaxPosts
    BY <1>1, DialogFormAssumption DEF IInv, TypeOK
  <2> QED
    BY <1>1, <1>6, <2>1 DEF IInv, TypeOK
<1>9. OpenIsCurrent' /\ FormIsOwn'
  BY <1>1 DEF IInv, OpenIsCurrent, FormIsOwn, Filled
<1>10. RequestsFit'
  <2>1. \A n \in DOMAIN inflight' : Fit(inflight'[n])
    BY <1>4, <1>6, <1>7 DEF IInv, RequestsFit
  <2> QED
    BY <1>1, <2>1 DEF RequestsFit, Fit, Filled
<1>11. dialog.guarded => Len(inflight) = 0
  BY <1>1, EmptySeq
<1>12. OneRequest'
  BY <1>1, <1>5, <1>6, <1>11 DEF OneRequest
<1>13. Spends'
  <2> SUFFICES ASSUME dialog.guarded, NEW o \in Openings \ lost, stored[o] # 0
               PROVE  Spent(o)'
    BY <1>1 DEF Spends
  <2>1. Spent(o) /\ DOMAIN inflight = {}
    BY <1>5, <1>11 DEF IInv, Spends
  <2>2. o # opening
    BY <1>1, <2>1 DEF Spent
  <2> QED
    BY <1>1, <1>3, <1>6, <1>7, <2>1, <2>2 DEF Spent
<1> QED
  BY <1>8, <1>9, <1>10, <1>12, <1>13 DEF IInv

LEMMA ProcessStep == ASSUME IInv, NEW n \in DOMAIN inflight, Process(n) PROVE IInv'
<1> DEFINE r == inflight[n]
           q == [r EXCEPT !.stored = TRUE]
<1>1. /\ r \in Request /\ ~r.stored /\ r.opening \in Openings
      /\ r.target \in Rows \cup {New} /\ r.form \in Form /\ Fit(r)
  BY RequestsAreTyped DEF IInv, Process, RequestsFit
<1>2. /\ stored' = [stored EXCEPT ![r.opening] = @ + 1]
      /\ inflight' = [inflight EXCEPT ![n].stored = TRUE]
      /\ rows' = IF EditsRow(r)
                 THEN [rows EXCEPT ![r.target] =
                         [f \in Fields |-> IF f \in r.fields THEN r.form[f].writer
                                                             ELSE rows[r.target][f]]]
                 ELSE rows
      /\ UNCHANGED <<dialog, shown, open, target, form, loaded, opening, openedFor, lost,
                     posts, edits>>
  BY DEF Process, screen, past, bounds
<1>3. /\ q \in Request /\ q.stored /\ q.opening = r.opening /\ q.target = r.target
      /\ q.form = r.form /\ q.fields = r.fields
  BY <1>1 DEF Request
<1>4. inflight' = [inflight EXCEPT ![n] = q]
  BY <1>2
<1> HIDE DEF q
<1>5. /\ inflight' \in Seq(Request) /\ DOMAIN inflight' = DOMAIN inflight
      /\ inflight'[n] = q /\ \A m \in DOMAIN inflight : m # n => inflight'[m] = inflight[m]
  BY <1>3, <1>4, ExceptSeq, LenProperties DEF IInv, TypeOK
<1>6. rows' \in [Rows -> Row]
  <2>1. CASE EditsRow(r)
    <3>1. r.target \in Rows /\ rows[r.target] \in Row
          /\ \A f \in Fields : r.form[f].writer \in Writers
      BY <1>1, <2>1 DEF EditsRow, IInv, TypeOK, Form
    <3>2. [f \in Fields |-> IF f \in r.fields THEN r.form[f].writer ELSE rows[r.target][f]]
            \in Row
      BY <3>1 DEF Row
    <3> QED
      BY <1>2, <2>1, <3>1, <3>2 DEF IInv, TypeOK
  <2>2. CASE ~EditsRow(r)
    BY <1>2, <2>2 DEF IInv, TypeOK
  <2> QED
    BY <2>1, <2>2
<1>7. /\ stored' \in [Openings -> Nat] /\ stored'[r.opening] = stored[r.opening] + 1
      /\ \A o \in Openings : o # r.opening => stored'[o] = stored[o]
  BY <1>1, <1>2 DEF IInv, TypeOK
<1>8. TypeOK'
  BY <1>2, <1>5, <1>6, <1>7 DEF IInv, TypeOK
<1>9. OpenIsCurrent' /\ FormIsOwn'
  BY <1>2 DEF IInv, OpenIsCurrent, FormIsOwn, Filled
<1>10. RequestsFit'
  <2>1. \A m \in DOMAIN inflight' : Fit(inflight'[m])
    BY <1>1, <1>3, <1>5 DEF IInv, RequestsFit, Fit
  <2> QED
    BY <1>2, <2>1 DEF RequestsFit, Fit, Filled
<1>11. OneRequest'
  BY <1>2, <1>5 DEF IInv, OneRequest
<1>12. Spends'
  <2> SUFFICES ASSUME dialog.guarded, NEW o \in Openings \ lost, stored'[o] # 0
               PROVE  Spent(o)'
    BY <1>2 DEF Spends
  <2>1. CASE o = r.opening
    <3>1. stored[o] = 0
      BY <1>1, <2>1 DEF IInv, Spends, Spent
    <3>2. \A m \in DOMAIN inflight' : m = n
      BY <1>5 DEF IInv, OneRequest
    <3>3. o <= opening
      BY <1>1, <2>1 DEF Fit
    <3> QED
      BY <1>2, <1>3, <1>5, <1>7, <2>1, <3>1, <3>2, <3>3 DEF Spent
  <2>2. CASE o # r.opening
    <3>1. Spent(o) /\ stored'[o] = stored[o]
      BY <1>7, <2>2 DEF IInv, Spends
    <3>2. \A m \in DOMAIN inflight' : /\ inflight'[m].opening = inflight[m].opening
                                     /\ inflight[m].stored => inflight'[m].stored
      BY <1>3, <1>5
    <3> QED
      BY <1>2, <1>5, <3>1, <3>2 DEF Spent
  <2> QED
    BY <2>1, <2>2
<1> QED
  BY <1>8, <1>9, <1>10, <1>11, <1>12 DEF IInv

\* An answer takes its request away.  A success closes the dialog; a failure that hides a
\* stored request makes its opening one of the lost.
LEMMA RemovalKeeps ==
  ASSUME IInv, NEW n \in DOMAIN inflight, inflight' = RemoveAt(inflight, n),
         UNCHANGED <<dialog, rows, stored, shown, opening, openedFor, posts, edits>>,
         target' \in Rows \cup {New}, form' \in Form, loaded' \in Row,
         \/ open' = FALSE /\ lost' = lost
         \/ /\ UNCHANGED <<open, target, form, loaded>>
            /\ lost' = IF inflight[n].stored THEN lost \cup {inflight[n].opening} ELSE lost
  PROVE  IInv'
<1>1. /\ inflight \in Seq(Request) /\ Len(inflight) \in Nat
      /\ DOMAIN inflight = 1 .. Len(inflight)
  BY LenProperties DEF IInv, TypeOK
<1>2. /\ inflight' \in Seq(Request)
      /\ DOMAIN inflight' = 1 .. Len(inflight) - 1
      /\ \A k \in DOMAIN inflight' :
            inflight'[k] = IF k < n THEN inflight[k] ELSE inflight[k + 1]
  BY <1>1, RemoveAtProperties
<1> DEFINE Before(k) == IF k < n THEN k ELSE k + 1
<1>3. \A k \in DOMAIN inflight' :
         /\ Before(k) \in DOMAIN inflight /\ inflight'[k] = inflight[Before(k)]
         /\ \A l \in DOMAIN inflight' : Before(k) = Before(l) => k = l
  BY <1>1, <1>2
<1>4. \A m \in DOMAIN inflight : m # n => \E k \in DOMAIN inflight' : Before(k) = m
  <2> SUFFICES ASSUME NEW m \in DOMAIN inflight, m # n
               PROVE  \E k \in DOMAIN inflight' : Before(k) = m
    OBVIOUS
  <2>1. CASE m < n
    BY <1>1, <1>2, <2>1
  <2>2. CASE m > n
    <3>1. m - 1 \in DOMAIN inflight' /\ Before(m - 1) = m
      BY <1>1, <1>2, <2>2
    <3> QED
      BY <3>1
  <2> QED
    BY <1>1, <2>1, <2>2
<1> HIDE DEF Before
<1>5. inflight[n].opening \in Openings
  BY RequestsAreTyped DEF IInv
<1>6. TypeOK'
  <2>1. open' \in BOOLEAN /\ lost' \subseteq Openings
    <3>1. open \in BOOLEAN /\ lost \subseteq Openings
      BY DEF IInv, TypeOK
    <3>2. CASE open' = FALSE /\ lost' = lost
      BY <3>1, <3>2
    <3>3. CASE UNCHANGED open /\ lost' = IF inflight[n].stored
                                        THEN lost \cup {inflight[n].opening} ELSE lost
      BY <1>5, <3>1, <3>3
    <3> QED
      BY <3>2, <3>3
  <2> QED
    BY <1>2, <2>1 DEF IInv, TypeOK
<1>7. OpenIsCurrent' /\ FormIsOwn'
  BY DEF IInv, OpenIsCurrent, FormIsOwn, Filled
<1>8. RequestsFit'
  <2>1. \A k \in DOMAIN inflight' : Fit(inflight'[k])
    BY <1>3 DEF IInv, RequestsFit
  <2> QED
    BY <2>1 DEF RequestsFit, Fit, Filled
<1>9. OneRequest'
  BY <1>3 DEF IInv, OneRequest
<1>10. Spends'
  <2> SUFFICES ASSUME dialog.guarded, NEW o \in Openings, o \notin lost', stored[o] # 0
               PROVE  Spent(o)'
    BY DEF Spends
  <2>1. Spent(o)
    <3>1. o \notin lost
      OBVIOUS
    <3> QED
      BY <3>1 DEF IInv, Spends
  <2>2. ASSUME open', o = opening
        PROVE  \E k \in DOMAIN inflight' : inflight'[k].opening = o
    <3>1. open /\ (inflight[n].stored => inflight[n].opening # o)
      BY <2>2
    <3>2. PICK m \in DOMAIN inflight : inflight[m].opening = o /\ inflight[m].stored
      BY <2>1, <2>2, <3>1 DEF Spent
    <3>3. m # n
      BY <3>1, <3>2
    <3> QED
      BY <1>3, <1>4, <3>2, <3>3
  <2> QED
    BY <1>3, <2>1, <2>2 DEF Spent
<1> QED
  BY <1>6, <1>7, <1>8, <1>9, <1>10 DEF IInv

LEMMA SucceedsStep == ASSUME IInv, NEW n \in DOMAIN inflight, Succeeds(n) PROVE IInv'
<1>1. /\ inflight' = RemoveAt(inflight, n) /\ open' = FALSE /\ lost' = lost
      /\ target' = New /\ loaded' = Blank
      /\ form' = IF dialog.loads = Fields THEN EmptyForm ELSE form
      /\ UNCHANGED <<dialog, rows, stored, shown, opening, openedFor, posts, edits>>
  BY DEF Succeeds, server, past, bounds
<1>2. form' \in Form /\ loaded' \in Row
  BY <1>1, BlankIsTyped DEF IInv, TypeOK
<1> QED
  BY <1>1, <1>2, RemovalKeeps

LEMMA FailsStep == ASSUME IInv, NEW n \in DOMAIN inflight, Fails(n) PROVE IInv'
<1>1. /\ inflight' = RemoveAt(inflight, n)
      /\ lost' = IF inflight[n].stored THEN lost \cup {inflight[n].opening} ELSE lost
      /\ UNCHANGED <<dialog, rows, stored, shown, opening, openedFor, posts, edits, open,
                     target, form, loaded>>
  BY DEF Fails, server, screen, past, bounds
<1>2. target' \in Rows \cup {New} /\ form' \in Form /\ loaded' \in Row
  BY <1>1 DEF IInv, TypeOK
<1> QED
  BY <1>1, <1>2, RemovalKeeps
-----------------------------------------------------------------------------
LEMMA ElsewhereStep ==
  ASSUME IInv, (\E r \in Rows, f \in Fields : OtherEdit(r, f)) \/ Refetch PROVE IInv'
<1>1. /\ rows' \in [Rows -> Row] /\ shown' \in [Rows -> Row] /\ edits' \in 0..MaxEdits
      /\ UNCHANGED <<dialog, stored, open, target, form, loaded, opening, openedFor,
                     inflight, lost, posts>>
  <2>1. ASSUME NEW r \in Rows, NEW f \in Fields, OtherEdit(r, f)
        PROVE  /\ rows' \in [Rows -> Row] /\ edits' \in 0..MaxEdits
               /\ UNCHANGED <<dialog, stored, shown, open, target, form, loaded, opening,
                              openedFor, inflight, lost, posts>>
    <3>1. edits' \in 0..MaxEdits
      BY <2>1, DialogFormAssumption DEF OtherEdit, IInv, TypeOK
    <3>2. rows' \in [Rows -> Row]
      BY <2>1 DEF OtherEdit, IInv, TypeOK, Row, Writers
    <3> QED
      BY <2>1, <3>1, <3>2 DEF OtherEdit, screen, past
  <2>2. CASE Refetch
    BY <2>2 DEF Refetch, server, screen, past, bounds, IInv, TypeOK
  <2> QED
    BY <2>1, <2>2 DEF IInv, TypeOK
<1> QED
  BY <1>1 DEF IInv, TypeOK, OpenIsCurrent, FormIsOwn, RequestsFit, Fit, Filled, OneRequest,
              Spends, Spent

\* Each step keeps the invariant.
LEMMA StepKeeps == IInv /\ [Next]_vars => IInv'
<1> SUFFICES ASSUME IInv, [Next]_vars PROVE IInv'
  OBVIOUS
<1>1. CASE UNCHANGED vars
  BY <1>1 DEF vars, IInv, TypeOK, OpenIsCurrent, FormIsOwn, RequestsFit, Fit, Filled,
              OneRequest, Spends, Spent
<1>2. CASE Next
  BY <1>2, OpenStep, TypeStep, CloseStep, SubmitStep, ProcessStep, SucceedsStep, FailsStep,
     ElsewhereStep DEF Next
<1> QED
  BY <1>1, <1>2

\* Whatever dialog it is, opened and closed however often, its fields, its requests and
\* the rows fit together as IInv says.
THEOREM InvariantHolds == Spec => []IInv
<1> QED
  BY InitHolds, StepKeeps, PTL DEF Spec

\* OneWritePerOpening: an opening of a dialog that waits stores one request, whatever is
\* pressed again, closed and opened.
THEOREM OpeningsWriteOnce == Spec => []OneWritePerOpening
<1>1. IInv => OneWritePerOpening
  BY DEF IInv, Spends, Spent, OneWritePerOpening, TypeOK
<1> QED
  BY <1>1, InvariantHolds, PTL

\* SentToItsRow: however openings and late answers interleave, a form that every opening
\* fills is sent to the row that it was filled from.
THEOREM FormsGoToTheirRow == Spec => []SentToItsRow
<1>1. IInv => SentToItsRow
  BY DEF IInv, RequestsFit, Fit, Filled, SentToItsRow, Own
<1> QED
  BY <1>1, InvariantHolds, PTL

\* KeepsOthersEdits: an edit that sends what has changed turns back nobody's edit, however
\* outdated the row that it was opened with.
LEMMA StepTurnsNothingBack ==
  ASSUME IInv, [Next]_vars, dialog.sends = "changed" PROVE ~TurnsBack
<1> SUFFICES ASSUME NEW r \in Rows, NEW f \in Fields, rows[r][f] = "them"
             PROVE  rows'[r][f] # "old"
  BY DEF TurnsBack
<1>1. rows \in [Rows -> Row]
  BY DEF IInv, TypeOK
<1>2. CASE rows' = rows
  BY <1>2
<1>3. ASSUME NEW n \in DOMAIN inflight, Process(n) PROVE rows'[r][f] # "old"
  <2>1. CASE EditsRow(inflight[n]) /\ inflight[n].target = r
    <3>1. rows'[r][f] = IF f \in inflight[n].fields THEN inflight[n].form[f].writer
                                                     ELSE rows[r][f]
      BY <1>1, <1>3, <2>1 DEF Process
    <3>2. f \in inflight[n].fields => inflight[n].form[f].writer = "me"
      BY <2>1 DEF IInv, RequestsFit, Fit, EditsRow
    <3> QED
      BY <3>1, <3>2
  <2>2. CASE ~(EditsRow(inflight[n]) /\ inflight[n].target = r)
    <3>1. rows'[r] = rows[r]
      BY <1>1, <1>3, <2>2 DEF Process
    <3> QED
      BY <3>1
  <2> QED
    BY <2>1, <2>2
<1>4. ASSUME NEW s \in Rows, NEW g \in Fields, OtherEdit(s, g) PROVE rows'[r][f] # "old"
  <2>1. rows' = [rows EXCEPT ![s][g] = "them"]
    BY <1>4 DEF OtherEdit
  <2> QED
    BY <1>1, <2>1 DEF Row
<1> QED
  BY <1>2, <1>3, <1>4 DEF Next, vars, Open, Type, Close, Submit, Post, Succeeds, Fails,
                          Refetch, server

\* KeepsOthersEdits: no step of a dialog that sends what has changed turns back a field that
\* somebody else has written, however old the copy that it was opened with.
THEOREM EditsTurnNothingBack == Spec => KeepsOthersEdits
<1>1. IInv /\ [Next]_vars => [dialog.sends = "changed" => ~TurnsBack]_vars
  BY StepTurnsNothingBack
<1> QED
  BY <1>1, InvariantHolds, PTL DEF Spec, KeepsOthersEdits

-----------------------------------------------------------------------------
\* The tables of Pages

\* What is looked up, and what is shown as a table, on pages that offer writes and on
\* those that offer none.
Lookups  == {CategoriesSelect, SuppliersSelect, InventoryDetail, SupplierDetail,
             PosProducts, PosCategories, PosCustomers, PosTaxRates, SaleDetail,
             SaleOfReturn, ReturnDetail, PublicSettings, Currency, CurrentUser}
Tables   == {ProductsList, InventoryList, MovementsList, LowStockList, UsersList,
             SuppliersList, CategoriesList, AllCategories, SalesList, ReturnsList,
             CreditsList, CreditDetail, CreditPayments, CustomersList, NotificationsList,
             UnreadCount, BusinessInfo, TaxRates, Settings}
ReadOnly == {PaymentsList, AuditList, ActivityList, SecurityList, ErrorList, Kpis,
             TopProducts, SalesTrend}

\* There are no other queries.
LEMMA QueriesAre == Queries = Lookups \cup Tables \cup ReadOnly
  BY DEF Lookups, Tables, ReadOnly, Queries

\* The keys of the tables of each page ...
KeyOf(q) ==
    \/ q.page = "products" /\ q.key = <<"products">>
    \/ q.page = "inventory" /\ q.key \in {<<"inventory">>, <<"inventory-movements">>,
                                          <<"inventory-low-stock">>}
    \/ q.page = "users" /\ q.key = <<"users">>
    \/ q.page = "suppliers" /\ q.key = <<"suppliers">> /\ q.reads = {"suppliers"}
    \/ q.page = "categories" /\ q.key \in {<<"categories">>, <<"categories", "all">>}
    \/ q.page = "sales" /\ q.key = <<"sales">>
    \/ q.page = "returns" /\ q.key = <<"returns">>
    \/ q.page = "credits" /\ q.key \in {<<"credits", "sales">>, <<"credits", "sale">>,
                                        <<"credits", "payments">>}
    \/ q.page = "customers" /\ q.key = <<"credits", "customers">>
    \/ q.page = "notifications" /\ q.key \in {<<"notifications">>,
                                              <<"notifications", "unread-count">>}
    \/ q.page = "business" /\ q.key = <<"business-info">>
    \/ q.page = "tax rates" /\ q.key = <<"tax-rates">>
    \/ q.page = "settings" /\ q.key = <<"settings">>

\* ... and what its writes invalidate.
Invalidates(w) ==
    \/ w.page = "products" /\ <<"products">> \in w.invalidates
    \/ w.page = "inventory" /\ {<<"inventory">>, <<"inventory-movements">>,
                                <<"inventory-low-stock">>} \subseteq w.invalidates
    \/ w.page = "users" /\ <<"users">> \in w.invalidates
    \/ w.page = "suppliers" /\ ("suppliers" \in w.changes => <<"suppliers">> \in w.invalidates)
    \/ w.page = "categories" /\ <<"categories">> \in w.invalidates
    \/ w.page = "sales" /\ <<"sales">> \in w.invalidates
    \/ w.page = "returns" /\ <<"returns">> \in w.invalidates
    \/ w.page = "credits" /\ <<"credits">> \in w.invalidates
    \/ w.page = "customers" /\ <<"credits", "customers">> \in w.invalidates
    \/ w.page = "notifications" /\ <<"notifications">> \in w.invalidates
    \/ w.page = "business" /\ <<"business-info">> \in w.invalidates
    \/ w.page = "tax rates" /\ <<"tax-rates">> \in w.invalidates
    \/ w.page = "settings" /\ <<"settings">> \in w.invalidates
    \/ w.page \in {"pos", "profile", "elsewhere"}

\* A list whose filters return to page 1 does not turn on from beyond its last page.
Stops(q) == q.filters.typed = "resets" /\ q.filters.chosen = "resets"
                => q.pager.stops # "on the last page"

\* What is looked up is no table.
LEMMA LookupsAreNoTables == \A q \in Lookups : ~q.table
<1>1. /\ ~CategoriesSelect.table /\ ~SuppliersSelect.table /\ ~InventoryDetail.table
      /\ ~SupplierDetail.table /\ ~PosProducts.table /\ ~PosCategories.table
      /\ ~PosCustomers.table /\ ~PosTaxRates.table /\ ~SaleDetail.table
      /\ ~SaleOfReturn.table /\ ~ReturnDetail.table /\ ~PublicSettings.table
      /\ ~Currency.table /\ ~CurrentUser.table
  BY DEF List, Table, Lookup, CategoriesSelect, SuppliersSelect, InventoryDetail,
         SupplierDetail, PosProducts, PosCategories, PosCustomers, PosTaxRates, SaleDetail,
         SaleOfReturn, ReturnDetail, PublicSettings, Currency, CurrentUser
<1> QED
  BY <1>1 DEF Lookups

\* These pages offer no write.
LEMMA ReadOnlyPages == \A q \in ReadOnly : q.page \in {"payments", "audit", "dashboard"}
<1>1. /\ PaymentsList.page \in {"payments", "audit", "dashboard"}
      /\ AuditList.page \in {"payments", "audit", "dashboard"}
      /\ ActivityList.page \in {"payments", "audit", "dashboard"}
      /\ SecurityList.page \in {"payments", "audit", "dashboard"}
      /\ ErrorList.page \in {"payments", "audit", "dashboard"}
      /\ Kpis.page \in {"payments", "audit", "dashboard"}
      /\ TopProducts.page \in {"payments", "audit", "dashboard"}
      /\ SalesTrend.page \in {"payments", "audit", "dashboard"}
  BY DEF List, Table, PaymentsList, AuditList, ActivityList, SecurityList, ErrorList, Kpis,
         TopProducts, SalesTrend
<1> QED
  BY <1>1 DEF ReadOnly

\* The keys of the tables.
LEMMA KeysOfTables == \A q \in Tables : KeyOf(q)
<1>1. /\ KeyOf(ProductsList) /\ KeyOf(InventoryList) /\ KeyOf(MovementsList)
      /\ KeyOf(LowStockList) /\ KeyOf(UsersList) /\ KeyOf(SuppliersList)
      /\ KeyOf(CategoriesList) /\ KeyOf(AllCategories) /\ KeyOf(SalesList)
      /\ KeyOf(ReturnsList) /\ KeyOf(CreditsList) /\ KeyOf(CreditDetail)
      /\ KeyOf(CreditPayments)
  BY DEF KeyOf, List, Table, ProductsList, InventoryList, MovementsList, LowStockList,
         UsersList, SuppliersList, CategoriesList, AllCategories, SalesList, ReturnsList,
         CreditsList, CreditDetail, CreditPayments
<1>2. /\ KeyOf(CustomersList) /\ KeyOf(NotificationsList) /\ KeyOf(UnreadCount)
      /\ KeyOf(BusinessInfo) /\ KeyOf(TaxRates) /\ KeyOf(Settings)
  BY DEF KeyOf, List, Table, CustomersList, NotificationsList, UnreadCount, BusinessInfo,
         TaxRates, Settings
<1> QED
  BY <1>1, <1>2 DEF Tables

\* What the writes invalidate.
LEMMA KeysOfWrites == \A w \in Writes : Invalidates(w)
<1>1. \A w \in ProductsRow : Invalidates(w)
  <2>1. /\ Invalidates(ArchiveProduct) /\ Invalidates(DeleteProduct)
        /\ Invalidates(ActivateProduct) /\ Invalidates(SaveProduct)
        /\ Invalidates(PriceProduct) /\ Invalidates(ReceiveProduct)
    BY DEF Invalidates, Write, ProductKeys, ArchiveProduct, DeleteProduct, ActivateProduct,
           SaveProduct, PriceProduct, ReceiveProduct
  <2> QED
    BY <2>1 DEF ProductsRow
<1>2. \A w \in InventoryRow : Invalidates(w)
  <2>1. /\ Invalidates(RestockStock) /\ Invalidates(AdjustStock)
    BY DEF Invalidates, Write, ProductKeys, RestockStock, AdjustStock
  <2> QED
    BY <2>1 DEF InventoryRow
<1>3. \A w \in UsersRow : Invalidates(w)
  <2>1. /\ Invalidates(DeactivateUser) /\ Invalidates(SaveUser)
    BY DEF Invalidates, Write, DeactivateUser, SaveUser
  <2> QED
    BY <2>1 DEF UsersRow
<1>4. \A w \in SuppliersRow : Invalidates(w)
  <2>1. /\ Invalidates(DeleteSupplier) /\ Invalidates(SaveSupplier)
        /\ Invalidates(DeleteContact) /\ Invalidates(SaveContact)
    BY DEF Invalidates, Write, DeleteSupplier, SaveSupplier, DeleteContact, SaveContact
  <2> QED
    BY <2>1 DEF SuppliersRow
<1>5. \A w \in CategoriesRow : Invalidates(w)
  <2>1. /\ Invalidates(DeleteCategory) /\ Invalidates(SaveCategory)
    BY DEF Invalidates, Write, DeleteCategory, SaveCategory
  <2> QED
    BY <2>1 DEF CategoriesRow
<1>6. \A w \in CustomersRow : Invalidates(w)
  <2>1. /\ Invalidates(CreateCustomer) /\ Invalidates(UpdateCustomer)
        /\ Invalidates(DeleteCustomer)
    BY DEF Invalidates, Write, CreateCustomer, UpdateCustomer, DeleteCustomer
  <2> QED
    BY <2>1 DEF CustomersRow
<1>7. \A w \in NotificationsRow : Invalidates(w)
  <2>1. /\ Invalidates(ReadNotification) /\ Invalidates(DismissNotification)
        /\ Invalidates(MarkAllRead)
    BY DEF Invalidates, Write, ReadNotification, DismissNotification, MarkAllRead
  <2> QED
    BY <2>1 DEF NotificationsRow
<1>8. \A w \in SettingsWrites : Invalidates(w)
  <2>1. /\ Invalidates(SaveBusiness) /\ Invalidates(CreateTaxRate)
        /\ Invalidates(UpdateTaxRate) /\ Invalidates(DeleteTaxRate)
        /\ Invalidates(SaveCurrency) /\ Invalidates(CreateSetting)
        /\ Invalidates(UpdateSetting) /\ Invalidates(DeleteSetting)
    BY DEF Invalidates, Write, SaveBusiness, CreateTaxRate, UpdateTaxRate, DeleteTaxRate,
           SaveCurrency, CreateSetting, UpdateSetting, DeleteSetting
  <2> QED
    BY <2>1 DEF SettingsWrites
<1>9. /\ Invalidates(VoidSale) /\ Invalidates(CreateReturn) /\ Invalidates(SettleCredit)
      /\ Invalidates(SellCart) /\ Invalidates(SaveProfile) /\ Invalidates(Elsewhere)
  BY DEF Invalidates, Write, VoidSale, CreateReturn, SettleCredit, SellCart, SaveProfile,
         Elsewhere
<1> QED
  BY <1>1, <1>2, <1>3, <1>4, <1>5, <1>6, <1>7, <1>8, <1>9 DEF Writes

\* A list whose filters return to page 1 stops turning at its last page.
LEMMA ResettingStop == \A q \in Queries : Stops(q)
<1>1. /\ Stops(CategoriesSelect) /\ Stops(SuppliersSelect) /\ Stops(InventoryDetail)
      /\ Stops(SupplierDetail) /\ Stops(PosProducts) /\ Stops(PosCategories)
      /\ Stops(PosCustomers) /\ Stops(PosTaxRates) /\ Stops(SaleDetail)
      /\ Stops(SaleOfReturn) /\ Stops(ReturnDetail) /\ Stops(PublicSettings)
      /\ Stops(Currency) /\ Stops(CurrentUser)
  BY DEF Stops, List, Table, Lookup, NoPager, Pager, CategoriesSelect, SuppliersSelect,
         InventoryDetail, SupplierDetail, PosProducts, PosCategories, PosCustomers,
         PosTaxRates, SaleDetail, SaleOfReturn, ReturnDetail, PublicSettings, Currency,
         CurrentUser
<1>2. /\ Stops(AuditList) /\ Stops(ActivityList) /\ Stops(SecurityList) /\ Stops(ErrorList)
  BY DEF Stops, List, Filters, AuditFilters, ActivityFilters, SecurityFilters,
         ErrorFilters, AuditList, ActivityList, SecurityList, ErrorList
<1>3. /\ Stops(ProductsList) /\ Stops(InventoryList) /\ Stops(MovementsList)
      /\ Stops(LowStockList) /\ Stops(UsersList) /\ Stops(SuppliersList)
      /\ Stops(CategoriesList) /\ Stops(AllCategories) /\ Stops(SalesList)
      /\ Stops(ReturnsList) /\ Stops(PaymentsList) /\ Stops(CreditsList)
      /\ Stops(CreditDetail) /\ Stops(CreditPayments) /\ Stops(CustomersList)
      /\ Stops(NotificationsList) /\ Stops(UnreadCount) /\ Stops(Kpis)
      /\ Stops(TopProducts) /\ Stops(SalesTrend) /\ Stops(BusinessInfo) /\ Stops(TaxRates)
      /\ Stops(Settings)
  BY DEF Stops, List, Table, NoPager, Pager, ProductsPager, InventoryPager, InventoryTabPager,
         UsersPager, SuppliersPager, CategoriesPager, SalesPager, ReturnsPager, PaymentsPager,
         CreditsPager, CustomersPager, NotificationsPager, ProductsList, InventoryList,
         MovementsList, LowStockList, UsersList, SuppliersList, CategoriesList,
         AllCategories, SalesList, ReturnsList, PaymentsList, CreditsList, CreditDetail,
         CreditPayments, CustomersList, NotificationsList, UnreadCount, Kpis, TopProducts,
         SalesTrend, BusinessInfo, TaxRates, Settings
<1> QED
  BY <1>1, <1>2, <1>3, QueriesAre DEF Lookups, Tables, ReadOnly

\* A key begins with each of its beginnings.
LEMMA Beginnings ==
  \A a, b : /\ IsPrefix(<<a>>, <<a>>)
            /\ IsPrefix(<<a>>, <<a, b>>)
            /\ IsPrefix(<<a, b>>, <<a, b>>)
<1> TAKE a, b
<1>1. Len(<<a>>) = 1 /\ Len(<<a, b>>) = 2
  OBVIOUS
<1>2. ASSUME NEW s \in Seq({a, b}), NEW t \in Seq({a, b}), NEW n \in Nat,
             n <= Len(s), n <= Len(t), \A i \in 1 .. n : s[i] = t[i]
      PROVE  SubSeq(s, 1, n) = SubSeq(t, 1, n)
  BY <1>2, SubSeqProperties
<1>3. <<a>> \in Seq({a, b}) /\ <<a, b>> \in Seq({a, b})
  OBVIOUS
<1>4. \A i \in 1 .. 1 : <<a>>[i] = <<a, b>>[i]
  OBVIOUS
<1> QED
  BY <1>1, <1>2, <1>3, <1>4 DEF IsPrefix

\* A write covers the queries under a key that it invalidates.
LEMMA CoversUnder ==
  ASSUME NEW w, NEW q, NEW a, <<a>> \in w.invalidates
  PROVE  /\ q.key = <<a>> => Covers(w, q)
         /\ \A b : q.key = <<a, b>> => Covers(w, q)
  BY Beginnings DEF Covers

\* A write covers the tables of its own page that it concerns.
LEMMA OwnIsCovered ==
  ASSUME NEW w \in Writes, NEW q \in Queries, Concerns(w, q),
         w.page = q.page, q.table
  PROVE  Covers(w, q)
<1>1. Invalidates(w)
  BY KeysOfWrites
<1>2. KeyOf(q)
  <2>1. q \in Tables \cup ReadOnly
    BY QueriesAre, LookupsAreNoTables
  <2>2. q \notin ReadOnly
    BY <1>1, ReadOnlyPages DEF Invalidates
  <2> QED
    BY <2>1, <2>2, KeysOfTables
<1>3. CASE w.page \in {"products", "users", "sales", "returns", "business", "tax rates",
                      "settings"}
  <2>1. PICK a : q.key = <<a>> /\ <<a>> \in w.invalidates
    BY <1>1, <1>2, <1>3 DEF KeyOf, Invalidates
  <2> QED
    BY <2>1, CoversUnder
<1>4. CASE w.page = "inventory"
  <2>1. PICK a : q.key = <<a>> /\ <<a>> \in w.invalidates
    BY <1>1, <1>2, <1>4 DEF KeyOf, Invalidates
  <2> QED
    BY <2>1, CoversUnder
<1>5. CASE w.page = "suppliers"
  <2>1. q.key = <<"suppliers">> /\ q.reads = {"suppliers"}
    BY <1>2, <1>5 DEF KeyOf
  <2>2. "suppliers" \in w.changes
    BY <2>1 DEF Concerns
  <2>3. <<"suppliers">> \in w.invalidates
    BY <1>1, <1>5, <2>2 DEF Invalidates
  <2> QED
    BY <2>1, <2>3, CoversUnder
<1>6. CASE w.page \in {"categories", "credits", "notifications"}
  <2>1. PICK a, b : (q.key = <<a>> \/ q.key = <<a, b>>) /\ <<a>> \in w.invalidates
    BY <1>1, <1>2, <1>6 DEF KeyOf, Invalidates
  <2> QED
    BY <2>1, CoversUnder
<1>7. CASE w.page = "customers"
  <2>1. q.key = <<"credits", "customers">> /\ <<"credits", "customers">> \in w.invalidates
    BY <1>1, <1>2, <1>7 DEF KeyOf, Invalidates
  <2> QED
    BY <2>1, Beginnings DEF Covers
<1> QED
  BY <1>1, <1>2, <1>3, <1>4, <1>5, <1>6, <1>7 DEF KeyOf, Invalidates

\* So it is with every kind of pair.
LEMMA KindsFit == \A k \in Kinds : (k.own => k.covered) /\ Stops(k)
<1> SUFFICES ASSUME NEW k \in Kinds PROVE (k.own => k.covered) /\ Stops(k)
  OBVIOUS
<1>1. PICK w \in Writes, q \in Queries :
          Concerns(w, q) /\ k = Kind(w, q)
  BY DEF Kinds
<1>2. /\ k.filters = q.filters /\ k.pager = q.pager
      /\ k.covered = Covers(w, q)
      /\ k.own = (w.page = q.page /\ q.table)
  BY <1>1 DEF Kind
<1>3. Stops(k)
  BY <1>2, ResettingStop DEF Stops
<1> QED
  BY <1>1, <1>2, <1>3, OwnIsCovered
-----------------------------------------------------------------------------
\* What lists keep true

\* A write is confirmed only after the server has it, and takes no row before.
WriteKnown == /\ phase \in {"stored", "confirmed"} => written
              /\ phase \in {"idle", "sent"} => ~removed

\* After the success of a write of the page, the fetches it has not overtaken bring it.
FetchesAdmit == phase = "confirmed" /\ kind.own =>
                    \A k \in Keys \ missed :
                        fetching[k] # None => fetching[k].version = 1

\* Filters that return to page 1 leave nothing to settle, and no page beyond the last.
PageFits == kind.filters.typed = "resets" /\ kind.filters.chosen = "resets" =>
                /\ ~typing
                /\ ~removed /\ kind.filters.sent =>
                       at[2] <= IF at[1] = "wide" THEN 2 ELSE 1

ListInv == /\ ListTypeOK /\ WriteKnown
           /\ TablesAdmitWrites /\ FetchesAdmit
           /\ PageFits

\* The invariant holds at first.
LEMMA ListsBegin == ASSUME ListInit PROVE ListInv
<1>1. First \in Keys /\ at \in Keys
  BY QueryViewAssumption DEF ListInit, First, Keys, FilterSet
<1>2. None \in Entry /\ None.version = 0 /\ None.state = "none"
  BY DEF None, Entry, Versions
<1>3. ListTypeOK
  <2>1. /\ cache \in [Keys -> Entry] /\ fetching \in [Keys -> Entry]
        /\ \A k \in Keys : cache[k].version = 0 /\ fetching[k].version = 0
    BY <1>2 DEF ListInit
  <2>2. 0 <= Version
    BY DEF Version
  <2>3. \A k \in Keys : /\ cache[k].version <= Version
                       /\ fetching[k].version <= Version
    BY <2>1, <2>2
  <2> QED
    BY <1>1, <2>1, <2>3 DEF ListInit, ListTypeOK
<1>4. WriteKnown /\ TablesAdmitWrites /\ FetchesAdmit
  BY DEF ListInit, WriteKnown, TablesAdmitWrites, FetchesAdmit
<1>5. PageFits
  BY DEF ListInit, First, PageFits
<1> QED
  BY <1>3, <1>4, <1>5 DEF ListInv

\* The user turns to another entry: only what is fetched, and what is shown, changes.
LEMMA TurningKeeps ==
  ASSUME ListInv, NEW k \in Keys, StartsToShow(k), at' = k,
         mounted' \in BOOLEAN, typing' \in BOOLEAN,
         UNCHANGED <<kind, written, removed, phase, cache, missed>>, PageFits'
  PROVE  ListInv'
<1>1. /\ Answer \in Entry /\ Answer.version = Version
      /\ Version \in {0, 1} /\ (phase = "confirmed" => Version = 1)
  BY DEF Answer, Entry, Versions, Version, ListInv, WriteKnown
<1>2. /\ fetching' \in [Keys -> Entry]
      /\ \A j \in Keys : fetching'[j] \in {fetching[j], Answer}
  <2>1. CASE fetching' = fetching
    BY <2>1 DEF ListInv, ListTypeOK
  <2>2. CASE fetching' = [fetching EXCEPT ![k] = Answer]
    BY <1>1, <2>2 DEF ListInv, ListTypeOK
  <2> QED
    BY <2>1, <2>2 DEF StartsToShow
<1>3. Version' = Version
  BY DEF Version
<1>4. ListTypeOK'
  <2>1. \A j \in Keys : fetching'[j].version <= Version
    BY <1>1, <1>2 DEF ListInv, ListTypeOK
  <2> QED
    BY <1>2, <1>3, <2>1 DEF ListInv, ListTypeOK
<1>5. WriteKnown' /\ TablesAdmitWrites'
  BY DEF ListInv, WriteKnown, TablesAdmitWrites, Old, Known
<1>6. FetchesAdmit'
  BY <1>1, <1>2 DEF ListInv, FetchesAdmit
<1> QED
  BY <1>4, <1>5, <1>6 DEF ListInv

\* The two filters' keys, page by page.
LEMMA KeysAre ==
  /\ \A k \in Keys : /\ k[1] \in {"wide", "narrow"} /\ k[2] \in 1 .. MaxPage
                     /\ k = <<k[1], k[2]>>
  /\ \A f \in {"wide", "narrow"}, n \in 1 .. MaxPage : <<f, n>> \in Keys
  /\ \A f : Other(f) \in {"wide", "narrow"}
  BY DEF Keys, FilterSet, Other

\* Mount: a page opens on its first page, or where it was.
LEMMA MountKeeps ==
  ASSUME ListInv, Mount PROVE ListInv'
<1>1. First \in Keys
  BY QueryViewAssumption DEF First, Keys, FilterSet
<1>2. at' \in Keys /\ mounted' \in BOOLEAN /\ typing' \in BOOLEAN
  BY <1>1 DEF Mount, ListInv, ListTypeOK
<1>3. PageFits'
  BY DEF Mount, First, ListInv, PageFits, write
<1> QED
  BY <1>2, <1>3, TurningKeeps DEF Mount, write

\* Unmount: what was being fetched goes on being fetched.
LEMMA UnmountKeeps == ASSUME ListInv, Unmount PROVE ListInv'
  BY DEF Unmount, write, ListInv, ListTypeOK, WriteKnown, PageFits,
         TablesAdmitWrites, FetchesAdmit, Old, Known, Version

\* TypeText, Choose, Settles: the filter changes, on page 1 or on the page that is open.
LEMMA FilterKeeps ==
  ASSUME ListInv, TypeText \/ Choose \/ Settles PROVE ListInv'
<1>1. /\ at \in Keys /\ typing \in BOOLEAN /\ mounted \in BOOLEAN
      /\ at[1] \in {"wide", "narrow"} /\ at[2] \in 1 .. MaxPage /\ 1 \in 1 .. MaxPage
  BY KeysAre, QueryViewAssumption DEF ListInv, ListTypeOK
<1>2. \A how : Filtered(how) \in Keys
  BY <1>1, KeysAre DEF Filtered
<1>3. ASSUME NEW k \in Keys, Go(k), typing' \in BOOLEAN, PageFits'
      PROVE  ListInv'
  BY <1>1, <1>3, TurningKeeps DEF Go, write
<1>4. Filtered("resets")[2] = 1
  BY DEF Filtered
<1>5. CASE TypeText /\ kind.filters.typed = "debounced"
  <2>1. <<at[1], 1>> \in Keys /\ Go(<<at[1], 1>>) /\ typing' \in BOOLEAN
    BY <1>1, <1>5, KeysAre DEF TypeText
  <2>2. PageFits'
    BY <1>5, <2>1 DEF Go, PageFits
  <2> QED
    BY <1>3, <2>1, <2>2
<1>6. CASE TypeText /\ kind.filters.typed # "debounced"
  <2> DEFINE k == Filtered(kind.filters.typed)
  <2>1. k \in Keys /\ Go(k) /\ typing' = typing
    BY <1>2, <1>6 DEF TypeText
  <2>2. PageFits'
    BY <1>4, <2>1 DEF Go, PageFits, ListInv
  <2> QED
    BY <1>1, <1>3, <2>1, <2>2
<1>7. CASE Choose
  <2> DEFINE k == Filtered(kind.filters.chosen)
  <2>1. k \in Keys /\ Go(k) /\ typing' = typing
    BY <1>2, <1>7 DEF Choose
  <2>2. PageFits'
    BY <1>4, <2>1 DEF Go, PageFits, ListInv
  <2> QED
    BY <1>1, <1>3, <2>1, <2>2
<1>8. CASE Settles
  <2>1. /\ Filtered("keeps") \in Keys /\ Go(Filtered("keeps"))
        /\ typing /\ typing' = FALSE
    BY <1>2, <1>8 DEF Settles
  <2>2. PageFits'
    BY <2>1 DEF Go, PageFits, ListInv
  <2> QED
    BY <1>3, <2>1, <2>2
<1> QED
  BY <1>5, <1>6, <1>7, <1>8

\* Previous, Next_: a list that resets its filters turns no further than its last page.
LEMMA PagerKeeps == ASSUME ListInv, Previous \/ Next_ PROVE ListInv'
<1>1. /\ at \in Keys /\ typing \in BOOLEAN /\ mounted \in BOOLEAN
      /\ at[1] \in {"wide", "narrow"} /\ at[2] \in 1 .. MaxPage
  BY KeysAre DEF ListInv, ListTypeOK
<1>2. ASSUME NEW k \in Keys, Go(k), typing' = typing, PageFits'
      PROVE  ListInv'
  BY <1>1, <1>2, TurningKeeps DEF Go, write
<1>3. CASE Previous
  <2>1. <<at[1], at[2] - 1>> \in Keys
    <3>1. at[2] > 1 /\ at[2] - 1 \in 1 .. MaxPage
      BY <1>1, <1>3, QueryViewAssumption DEF Previous
    <3> QED
      BY <1>1, <3>1, KeysAre
  <2>2. Go(<<at[1], at[2] - 1>>) /\ typing' = typing
    BY <1>3 DEF Previous
  <2>3. PageFits'
    BY <1>1, <2>2 DEF Go, write, PageFits, ListInv
  <2> QED
    BY <1>2, <2>1, <2>2, <2>3
<1>4. CASE Next_
  <2>1. <<at[1], at[2] + 1>> \in Keys
    <3>1. at[2] < MaxPage
      BY <1>4 DEF Next_
    <3>2. at[2] + 1 \in 1 .. MaxPage
      BY <1>1, <3>1, QueryViewAssumption
    <3> QED
      BY <1>1, <3>2, KeysAre
  <2>2. Go(<<at[1], at[2] + 1>>) /\ typing' = typing
    BY <1>4 DEF Next_
  <2>3. ASSUME kind.filters.typed = "resets", kind.filters.chosen = "resets", ~removed,
               kind.filters.sent
        PROVE  at[2] + 1 <= IF at[1] = "wide" THEN 2 ELSE 1
    <3>1. kind.pager.stops # "on the last page"
      BY <2>3, KindsFit DEF Stops, ListInv, ListTypeOK
    <3>2. at[2] < PagesCounted
      BY <1>4, <3>1 DEF Next_
    <3>3. PagesCounted <= IF at[1] = "wide" THEN 2 ELSE 1
      BY <2>3 DEF PagesCounted, TotalPages, Served, Total
    <3>4. PagesCounted \in Nat
      BY DEF PagesCounted, TotalPages, Total
    <3> QED
      BY <1>1, <3>2, <3>3, <3>4
  <2>4. PageFits'
    BY <2>2, <2>3 DEF Go, write, PageFits, ListInv
  <2> QED
    BY <1>2, <2>1, <2>2, <2>4
<1> QED
  BY <1>3, <1>4

\* Arrives: a fetch that the success has not overtaken brings the write.
LEMMA ArrivesKeeps == ASSUME ListInv, NEW k \in Keys, Arrives(k) PROVE ListInv'
<1>1. None \in Entry /\ None.version = 0
  BY DEF None, Entry, Versions
<1>2. /\ cache' \in [Keys -> Entry] /\ fetching' \in [Keys -> Entry]
      /\ cache'[k] = fetching[k] /\ fetching'[k] = None
      /\ \A j \in Keys \ {k} : cache'[j] = cache[j] /\ fetching'[j] = fetching[j]
  BY <1>1 DEF Arrives, ListInv, ListTypeOK
<1>3. UNCHANGED <<kind, written, removed, phase, missed, mounted, at, typing>>
  BY DEF Arrives, write, user
<1>4. Version' = Version /\ 0 <= Version
  BY <1>3 DEF Version
<1>5. ListTypeOK'
  BY <1>1, <1>2, <1>3, <1>4 DEF ListInv, ListTypeOK
<1>6. WriteKnown' /\ PageFits'
  BY <1>3 DEF ListInv, WriteKnown, PageFits
<1>7. FetchesAdmit'
  BY <1>2, <1>3 DEF ListInv, FetchesAdmit
<1>8. TablesAdmitWrites'
  <2>1. fetching[k] # None
    BY DEF Arrives
  <2> QED
    BY <1>2, <1>3, <2>1 DEF ListInv, TablesAdmitWrites, FetchesAdmit, Old, Known
<1> QED
  BY <1>5, <1>6, <1>7, <1>8 DEF ListInv

\* FetchFails, Age, Collect: nothing becomes fresh, and what is collected is not known.
LEMMA EntryKeeps ==
  ASSUME ListInv, NEW k \in Keys, FetchFails(k) \/ Age(k) \/ Collect(k)
  PROVE  ListInv'
<1>1. /\ None \in Entry /\ None.version = 0 /\ None.state = "none"
      /\ \A e \in Entry : \A s \in {"none", "fresh", "stale", "failed"} :
            /\ [e EXCEPT !.state = s] \in Entry
            /\ [e EXCEPT !.state = s].version = e.version
            /\ [e EXCEPT !.state = s].state = s
  BY DEF None, Entry, Versions
<1>2. /\ cache \in [Keys -> Entry] /\ fetching \in [Keys -> Entry]
      /\ cache[k] \in Entry
  BY DEF ListInv, ListTypeOK
<1>3. /\ cache' \in [Keys -> Entry]
      /\ \A j \in Keys \ {k} : cache'[j] = cache[j]
      /\ cache'[k].version \in {0, cache[k].version} /\ cache'[k].state # "fresh"
  <2>1. CASE FetchFails(k)
    <3>1. CASE cache[k].state = "none"
      <4>1. cache' = [cache EXCEPT ![k] = [cache[k] EXCEPT !.state = "none"]]
        BY <2>1, <3>1 DEF FetchFails
      <4> QED
        BY <1>1, <1>2, <4>1
    <3>2. CASE cache[k].state # "none"
      <4>1. cache' = [cache EXCEPT ![k] = [cache[k] EXCEPT !.state = "failed"]]
        BY <2>1, <3>2 DEF FetchFails
      <4> QED
        BY <1>1, <1>2, <4>1
    <3> QED
      BY <3>1, <3>2
  <2>2. CASE Age(k)
    <3>1. cache' = [cache EXCEPT ![k] = [cache[k] EXCEPT !.state = "stale"]]
      BY <2>2 DEF Age
    <3> QED
      BY <1>1, <1>2, <3>1
  <2>3. CASE Collect(k)
    <3>1. cache' = [cache EXCEPT ![k] = None]
      BY <2>3 DEF Collect
    <3> QED
      BY <1>1, <1>2, <3>1
  <2> QED
    BY <2>1, <2>2, <2>3
<1>4. /\ fetching' \in [Keys -> Entry]
      /\ \A j \in Keys : fetching'[j] \in {fetching[j], None}
  <2>1. CASE fetching' = fetching
    BY <1>2, <2>1
  <2>2. CASE fetching' = [fetching EXCEPT ![k] = None]
    BY <1>1, <1>2, <2>2
  <2> QED
    BY <2>1, <2>2 DEF FetchFails, Age, Collect
<1>5. /\ UNCHANGED <<kind, written, removed, phase, mounted, at, typing>>
      /\ missed' \subseteq missed /\ missed \ missed' \subseteq {k}
      /\ k \in missed \ missed' => fetching'[k] = None
  BY DEF FetchFails, Age, Collect, write, user
<1>6. Version' = Version /\ 0 <= Version
  BY <1>5 DEF Version
<1>7. ListTypeOK'
  <2>1. \A j \in Keys : cache'[j].version <= Version /\ fetching'[j].version <= Version
    BY <1>1, <1>3, <1>4, <1>6 DEF ListInv, ListTypeOK
  <2> QED
    BY <1>3, <1>4, <1>5, <1>6, <2>1 DEF ListInv, ListTypeOK
<1>8. WriteKnown' /\ PageFits'
  BY <1>5 DEF ListInv, WriteKnown, PageFits
<1>9. FetchesAdmit'
  BY <1>1, <1>4, <1>5 DEF ListInv, FetchesAdmit
<1>10. TablesAdmitWrites'
  BY <1>3, <1>5 DEF ListInv, TablesAdmitWrites, Old, Known
<1> QED
  BY <1>7, <1>8, <1>9, <1>10 DEF ListInv

\* Send, Store, WriteFails: the cache knows nothing of it.
LEMMA WriteKeeps == ASSUME ListInv, Send \/ Store \/ WriteFails PROVE ListInv'
<1>1. /\ UNCHANGED <<kind, cache, fetching, missed, mounted, at, typing>>
      /\ written' \in BOOLEAN /\ removed' \in BOOLEAN /\ (written => written')
      /\ phase' \in {"sent", "stored", "failed"}
      /\ WriteKnown' /\ (~removed' => ~removed)
  <2>1. written \in BOOLEAN /\ removed \in BOOLEAN /\ WriteKnown
    BY DEF ListInv, ListTypeOK
  <2>2. CASE Send
    BY <2>1, <2>2 DEF Send, user, WriteKnown
  <2>3. CASE Store
    BY <2>1, <2>3 DEF Store, user, WriteKnown
  <2>4. CASE WriteFails
    BY <2>1, <2>4 DEF WriteFails, user, WriteKnown
  <2> QED
    BY <2>2, <2>3, <2>4
<1>2. ListTypeOK'
  <2>1. Version \in {0, 1} /\ Version' \in {0, 1} /\ Version <= Version'
    BY <1>1 DEF Version
  <2>2. \A j \in Keys : cache[j].version <= Version' /\ fetching[j].version <= Version'
    <3> SUFFICES ASSUME NEW j \in Keys
                 PROVE  cache[j].version <= Version' /\ fetching[j].version <= Version'
      OBVIOUS
    <3>1. cache[j].version \in {0, 1} /\ fetching[j].version \in {0, 1}
      BY DEF ListInv, ListTypeOK, Entry, Versions
    <3> QED
      BY <2>1, <3>1 DEF ListInv, ListTypeOK
  <2> QED
    BY <1>1, <2>2 DEF ListInv, ListTypeOK
<1>3. TablesAdmitWrites' /\ FetchesAdmit'
  BY <1>1 DEF TablesAdmitWrites, FetchesAdmit
<1>4. PageFits'
  BY <1>1 DEF ListInv, PageFits
<1> QED
  BY <1>1, <1>2, <1>3, <1>4 DEF ListInv

\* WriteSucceeds: what the write covers is fresh no longer, and a fetch under way is
\* started again or missed.
LEMMA SuccessKeeps == ASSUME ListInv, WriteSucceeds PROVE ListInv'
<1>1. /\ UNCHANGED <<kind, written, removed, mounted, at, typing>>
      /\ phase = "stored" /\ phase' = "confirmed" /\ written
  BY DEF WriteSucceeds, user, ListInv, WriteKnown
<1>2. /\ Answer \in Entry /\ Answer.version = 1 /\ Version = 1
  BY <1>1 DEF Answer, Entry, Versions, Version
<1>3. Version' = Version /\ WriteKnown' /\ PageFits'
  BY <1>1 DEF Version, WriteKnown, PageFits, ListInv
<1>4. kind.own => kind.covered
  BY KindsFit DEF ListInv, ListTypeOK
<1>5. CASE ~kind.covered
  <2>1. UNCHANGED <<cache, fetching, missed>>
    BY <1>5 DEF WriteSucceeds
  <2>2. ListTypeOK'
    BY <1>1, <1>3, <2>1 DEF ListInv, ListTypeOK
  <2>3. TablesAdmitWrites' /\ FetchesAdmit'
    BY <1>1, <1>4, <1>5 DEF TablesAdmitWrites, FetchesAdmit
  <2> QED
    BY <1>3, <2>2, <2>3 DEF ListInv
<1>6. CASE kind.covered
  <2>1. /\ cache' = [k \in Keys |-> Invalidated(k)]
        /\ fetching' = [k \in Keys |-> IF Refetches(k) THEN Answer ELSE fetching[k]]
        /\ missed' = {k \in Keys : fetching[k] # None
                                   /\ ~(mounted /\ k = at /\ Known(k))}
    BY <1>6 DEF WriteSucceeds
  <2>2. \A k \in Keys : /\ Invalidated(k) \in Entry
                       /\ Invalidated(k).version = cache[k].version
                       /\ Invalidated(k).state # "fresh"
    <3> SUFFICES ASSUME NEW k \in Keys
                 PROVE  /\ Invalidated(k) \in Entry
                        /\ Invalidated(k).version = cache[k].version
                        /\ Invalidated(k).state # "fresh"
      OBVIOUS
    <3>1. cache[k] \in Entry
      BY DEF ListInv, ListTypeOK
    <3> QED
      BY <3>1 DEF Invalidated, Entry
  <2>3. ListTypeOK'
    <3>1. cache' \in [Keys -> Entry] /\ fetching' \in [Keys -> Entry]
      BY <1>2, <2>1, <2>2 DEF ListInv, ListTypeOK
    <3>2. \A k \in Keys : cache'[k].version <= Version /\ fetching'[k].version <= Version
      BY <1>2, <2>1, <2>2 DEF ListInv, ListTypeOK
    <3>3. missed' \subseteq Keys
      BY <2>1
    <3> QED
      BY <1>1, <1>3, <3>1, <3>2, <3>3 DEF ListInv, ListTypeOK
  <2>4. TablesAdmitWrites'
    BY <2>1, <2>2 DEF TablesAdmitWrites
  <2>5. FetchesAdmit'
    <3> SUFFICES ASSUME NEW k \in Keys \ missed', fetching'[k] # None
                 PROVE  fetching'[k].version = 1
      BY DEF FetchesAdmit
    <3>1. Refetches(k) \/ fetching[k] = None
      BY <2>1 DEF Refetches
    <3> QED
      BY <1>2, <2>1, <3>1
  <2> QED
    BY <1>3, <2>3, <2>4, <2>5 DEF ListInv
<1> QED
  BY <1>5, <1>6

\* Every step keeps the invariant.
LEMMA ListsGoOn == ASSUME ListInv, [ListNext]_listVars PROVE ListInv'
<1>1. CASE UNCHANGED listVars
  BY <1>1 DEF listVars, ListInv, ListTypeOK, WriteKnown, PageFits,
              TablesAdmitWrites, FetchesAdmit, Old, Known, Version
<1>2. CASE ListNext
  BY <1>2, MountKeeps, UnmountKeeps, FilterKeeps, PagerKeeps, ArrivesKeeps, EntryKeeps,
     WriteKeeps, SuccessKeeps DEF ListNext
<1> QED
  BY <1>1, <1>2

\* The four together are an invariant of every query and write of Pages, for any number
\* of pages of a list.
LEMMA ListsKeep == ListSpec => []ListInv
<1>1. ListInit => ListInv
  BY ListsBegin
<1>2. ListInv /\ [ListNext]_listVars => ListInv'
  BY ListsGoOn
<1> QED
  BY <1>1, <1>2, PTL DEF ListSpec

\* ListTypeOK: entries and fetches have their types, and none of them knows of a write that
\* the server has not stored.
THEOREM ListsAreTyped == ListSpec => []ListTypeOK
<1>1. ListInv => ListTypeOK
  BY DEF ListInv
<1> QED
  BY <1>1, ListsKeep, PTL

\* TablesAdmitWrites: after the success of a write, no entry of a table of its own page
\* passes for fresh without it, for every query and write of Pages and any number of
\* pages of a list, but for the fetches that the success overtook.
THEOREM TablesAlwaysAdmitWrites == ListSpec => []TablesAdmitWrites
<1>1. ListInv => TablesAdmitWrites
  BY DEF ListInv
<1> QED
  BY <1>1, ListsKeep, PTL

\* FiltersKeepRows: a list whose filters return to page 1 as they filter never shows an
\* empty page while its filter has rows, unless a write took the rows.
THEOREM FiltersAlwaysKeepRows == ListSpec => []FiltersKeepRows
<1>1. ListInv => FiltersKeepRows
  <2> SUFFICES ASSUME ListInv, kind.filters.typed = "resets",
                      kind.filters.chosen = "resets", ~removed
               PROVE  RowsOnPage(at)
    BY DEF FiltersKeepRows, Stranded
  <2>1. at[1] \in {"wide", "narrow"} /\ at[2] \in 1 .. MaxPage
    BY KeysAre DEF ListInv, ListTypeOK
  <2>2. CASE kind.filters.sent
    BY <2>1, <2>2 DEF ListInv, PageFits, RowsOnPage, Served, TotalPages, Total
  <2>3. CASE ~kind.filters.sent
    BY <2>3 DEF RowsOnPage, Served, First, TotalPages, Total
  <2> QED
    BY <2>2, <2>3
<1> QED
  BY <1>1, ListsKeep, PTL
=============================================================================
