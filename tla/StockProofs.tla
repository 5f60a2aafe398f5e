----------------------------- MODULE StockProofs -----------------------------
(***************************************************************************)
(* Proofs about the backend's stock path, for any catalogue, any requests  *)
(* and any number of them: first for any number of workers, then for one.  *)
(***************************************************************************)
EXTENDS StockProperties, SharedLemmas

-----------------------------------------------------------------------------
\* Whole units

\* Whole units of a natural quantity are a natural number ...
LEMMA WholeNat == ASSUME NEW q \in Nat PROVE Whole(q) \in Nat
  BY SessionsAssumption DEF Whole

\* ... and those of an integer an integer.
LEMMA WholeInt == ASSUME NEW q \in Int PROVE Whole(q) \in Int
  BY SessionsAssumption DEF Whole

-----------------------------------------------------------------------------
\* Journal rows and the last of them that moved something

\* A row that moves nothing leaves the last move where it was.
LEMMA QuietAppend ==
  ASSUME NEW rows \in Seq(Row), NEW row \in Row, row.change = 0
  PROVE  /\ NoMove(rows) => NoMove(Append(rows, row))
         /\ \A q : LastMove(rows, q) => LastMove(Append(rows, row), q)
<1> DEFINE longer == Append(rows, row)
<1>1. /\ DOMAIN rows = 1 .. Len(rows) /\ Len(rows) \in Nat
      /\ DOMAIN longer = 1 .. Len(rows) + 1
      /\ \A i \in 1 .. Len(rows) : longer[i] = rows[i]
      /\ longer[Len(rows) + 1] = row
  BY AppendProperties, LenProperties
<1> HIDE DEF longer
<1>2. NoMove(rows) => NoMove(longer)
  BY <1>1 DEF NoMove
<1>3. ASSUME NEW q, LastMove(rows, q) PROVE LastMove(longer, q)
  <2>1. PICK i \in DOMAIN rows : /\ rows[i].change # 0 /\ rows[i].after = q
                                 /\ \A j \in DOMAIN rows : j > i => rows[j].change = 0
    BY <1>3 DEF LastMove
  <2>2. i \in DOMAIN longer /\ longer[i] = rows[i]
    BY <1>1, <2>1
  <2>3. \A j \in DOMAIN longer : j > i => longer[j].change = 0
    BY <1>1, <2>1
  <2> QED
    BY <2>1, <2>2, <2>3 DEF LastMove
<1> QED
  BY <1>2, <1>3 DEF longer

\* A row that moves something is the last move.
LEMMA MovingAppend ==
  ASSUME NEW rows \in Seq(Row), NEW row \in Row, row.change # 0
  PROVE  LastMove(Append(rows, row), row.after)
<1> DEFINE longer == Append(rows, row)
<1>1. /\ Len(rows) \in Nat /\ DOMAIN longer = 1 .. Len(rows) + 1
      /\ longer[Len(rows) + 1] = row
  BY AppendProperties, LenProperties
<1> HIDE DEF longer
<1>2. LastMove(longer, row.after)
  <2>1. Len(rows) + 1 \in DOMAIN longer
    BY <1>1
  <2>2. \A j \in DOMAIN longer : ~(j > Len(rows) + 1)
    BY <1>1
  <2> QED
    BY <1>1, <2>1, <2>2 DEF LastMove
<1> QED
  BY <1>2 DEF longer

\* Rows stored after others: the last move is theirs, if they move anything.
LEMMA StoredMoves ==
  ASSUME NEW old \in Seq(Row), NEW rows \in Seq(Row)
  PROVE  /\ \A q : LastMove(rows, q) => LastMove(old \o rows, q)
         /\ NoMove(rows) /\ NoMove(old) => NoMove(old \o rows)
         /\ \A q : NoMove(rows) /\ LastMove(old, q) => LastMove(old \o rows, q)
<1> DEFINE all == old \o rows
<1>1. /\ DOMAIN old = 1 .. Len(old) /\ Len(old) \in Nat
      /\ DOMAIN rows = 1 .. Len(rows) /\ Len(rows) \in Nat
      /\ DOMAIN all = 1 .. Len(old) + Len(rows)
      /\ \A i \in DOMAIN all : all[i] = IF i <= Len(old) THEN old[i] ELSE rows[i - Len(old)]
  BY ConcatProperties, LenProperties
<1> HIDE DEF all
<1>2. ASSUME NEW q, LastMove(rows, q) PROVE LastMove(all, q)
  <2>1. PICK i \in DOMAIN rows : /\ rows[i].change # 0 /\ rows[i].after = q
                                 /\ \A j \in DOMAIN rows : j > i => rows[j].change = 0
    BY <1>2 DEF LastMove
  <2>2. Len(old) + i \in DOMAIN all /\ all[Len(old) + i] = rows[i]
    BY <1>1, <2>1
  <2>3. ASSUME NEW j \in DOMAIN all, j > Len(old) + i PROVE all[j].change = 0
    <3>1. j - Len(old) \in DOMAIN rows /\ j - Len(old) > i /\ all[j] = rows[j - Len(old)]
      BY <1>1, <2>1, <2>3
    <3> QED
      BY <2>1, <3>1
  <2> QED
    BY <2>1, <2>2, <2>3 DEF LastMove
<1>3. ASSUME NoMove(rows) PROVE \A j \in DOMAIN all : j > Len(old) => all[j].change = 0
  <2> SUFFICES ASSUME NEW j \in DOMAIN all, j > Len(old) PROVE all[j].change = 0
    OBVIOUS
  <2>1. j - Len(old) \in DOMAIN rows /\ all[j] = rows[j - Len(old)]
    BY <1>1
  <2> QED
    BY <1>3, <2>1 DEF NoMove
<1>4. NoMove(rows) /\ NoMove(old) => NoMove(all)
  BY <1>1, <1>3 DEF NoMove
<1>5. ASSUME NEW q, NoMove(rows), LastMove(old, q) PROVE LastMove(all, q)
  <2>1. PICK i \in DOMAIN old : /\ old[i].change # 0 /\ old[i].after = q
                                /\ \A j \in DOMAIN old : j > i => old[j].change = 0
    BY <1>5 DEF LastMove
  <2>2. i \in DOMAIN all /\ all[i] = old[i]
    BY <1>1, <2>1
  <2>3. ASSUME NEW j \in DOMAIN all, j > i PROVE all[j].change = 0
    <3>1. CASE j > Len(old)
      BY <1>3, <1>5, <3>1
    <3>2. CASE ~(j > Len(old))
      BY <1>1, <2>1, <2>3, <3>2
    <3> QED
      BY <3>1, <3>2
  <2> QED
    BY <2>1, <2>2, <2>3 DEF LastMove
<1> QED
  BY <1>2, <1>4, <1>5 DEF all

-----------------------------------------------------------------------------
\* What the services do to a session

\* A session with nothing pending has nothing that could be wrong.
LEMMA NothingIsOK ==
  ASSUME NEW u \in Session, NothingPending(u)
  PROVE  PendingOK(u)
<1> SUFFICES ASSUME NEW p \in Products
             PROVE  /\ Chained(u.base[p], u.rows[p], u.stock[p])
                    /\ u.stock[p] = u.base[p] /\ NoMove(u.rows[p])
                    /\ u.stock[p] - u.base[p] = 0
  BY DEF PendingOK, ChainsOK, MovesOK, Directed
<1>1. u.rows[p] = <<>> /\ u.stock[p] = u.base[p] /\ u.base[p] \in Nat
  BY DEF NothingPending, Session
<1> QED
  BY <1>1, ChainedEmpty DEF NoMove

\* A new session has its type, and so does that of no request.
LEMMA NewSessionOK ==
  ASSUME NEW r \in Request
  PROVE  NewSession(r) \in Session /\ NothingPending(NewSession(r))
<1>1. /\ <<>> \in Seq(Row) /\ <<>> \in Seq(Item)
      /\ r.op \in Ops /\ r.sale \in Nat /\ r.lines \in Seq(Line) /\ r.adjustment \in Int
  BY EmptySeq DEF Request
<1>2. NewSession(r) \in Session
  BY <1>1 DEF NewSession, Session, Status
<1>3. NothingPending(NewSession(r))
  BY DEF NewSession, NothingPending
<1> QED
  BY <1>2, <1>3

LEMMA NoSessionOK == /\ NoSession \in Session /\ NothingPending(NoSession)
                     /\ CourseOK(NoSession, "idle") /\ CopiesOK(NoSession, "idle")
<1> DEFINE r == [op |-> "SALE", sale |-> 0, lines |-> <<>>, adjustment |-> 0]
<1>1. r \in Request
  BY EmptySeq DEF Request, Ops
<1>2. NoSession.op = "SALE" /\ NoSession.lines = <<>>
  BY DEF NoSession, NewSession
<1>3. NoSession \in Session /\ NothingPending(NoSession)
  BY <1>1, NewSessionOK DEF NoSession
<1> QED
  BY <1>2, <1>3 DEF CourseOK, CopiesOK, Counted

\* Two sessions at work on the same request and the same copy of a sale.
SameRequest(u, v) ==
    /\ v.op = u.op /\ v.sale = u.sale /\ v.lines = u.lines /\ v.adjustment = u.adjustment
    /\ v.loaded = u.loaded /\ v.items = u.items
    /\ v.status = u.status /\ v.total = u.total /\ v.amount = u.amount

\* Reading products changes what is seen, and nothing that is pending.
LEMMA LoadOK ==
  ASSUME TypeOK, NEW u \in Session, NothingPending(u), NEW ps \in SUBSET Products,
         NEW l, l = Load(u, ps)
  PROVE  /\ l \in Session /\ NothingPending(l)
         /\ SameRequest(u, l) /\ l.next = u.next
         /\ l.rows = u.rows /\ l.raised = u.raised /\ l.resolved = u.resolved
         /\ l.seen = u.seen \cup ps
         /\ \A p \in Products : l.base[p] = IF p \in ps \ u.seen THEN onHand[p] ELSE u.base[p]
<1> DEFINE b == [p \in Products |-> IF p \in ps \ u.seen THEN onHand[p] ELSE u.base[p]]
           s == [p \in Products |-> IF p \in ps \ u.seen THEN onHand[p] ELSE u.stock[p]]
<1>1. b \in [Products -> Nat] /\ s \in [Products -> Nat]
  BY DEF TypeOK, Session
<1>2. l = [u EXCEPT !.seen = u.seen \cup ps, !.base = b, !.stock = s]
  BY DEF Load, Session
<1>3. l \in Session
  BY <1>1, <1>2 DEF Session
<1>4. l.seen = u.seen \cup ps /\ l.base = b /\ l.stock = s
      /\ l.rows = u.rows /\ l.raised = u.raised /\ l.resolved = u.resolved
  BY <1>2 DEF Session
<1>5. NothingPending(l)
  BY <1>4 DEF NothingPending
<1>6. SameRequest(u, l) /\ l.next = u.next
  BY <1>2 DEF Session, SameRequest
<1> QED
  BY <1>3, <1>4, <1>5, <1>6

\* A movement goes on with the chain of rows, and if it goes in the direction of
\* the operation, it does not undo an earlier one.
LEMMA MoveOK ==
  ASSUME NEW u \in Session, PendingOK(u), NEW p \in Products, NEW kind \in Kinds,
         NEW change \in Int, Enough(u, p, change), NEW m, m = Move(u, p, kind, change)
  PROVE  /\ m \in Session
         /\ SameRequest(u, m) /\ m.next = u.next
         /\ m.seen = u.seen /\ m.base = u.base
         /\ m.raised = u.raised /\ m.resolved = u.resolved
         /\ m.stock = [u.stock EXCEPT ![p] = u.stock[p] + change]
         /\ m.rows = [u.rows EXCEPT ![p] = Append(u.rows[p], JournalRow(u, p, kind, change))]
         /\ m.rows[p] # <<>>
         /\ ChainsOK(m)
         /\ Directed(u, change) => PendingOK(m)
         /\ NothingPending(u) => MovesOK(m)
<1> DEFINE row  == JournalRow(u, p, kind, change)
           more == Append(u.rows[p], row)
           s    == [u.stock EXCEPT ![p] = u.stock[p] + change]
           r    == [u.rows EXCEPT ![p] = more]
<1>1. /\ u.stock[p] \in Nat /\ u.base[p] \in Nat /\ u.rows[p] \in Seq(Row)
      /\ u.stock[p] + change \in Nat
  BY DEF Session, Enough
<1>2. /\ row \in Row /\ row.before = u.stock[p] /\ row.change = change
      /\ row.after = u.stock[p] + change
  BY <1>1 DEF JournalRow, Movement, Row
<1>3. m = [u EXCEPT !.stock = s, !.rows = r]
  BY DEF Move, Session
<1> HIDE DEF row
<1>4. more \in Seq(Row) /\ more # <<>>
  BY <1>1, <1>2, AppendProperties
<1>5. /\ m \in Session /\ m.op = u.op /\ m.base = u.base /\ m.stock = s /\ m.rows = r
  <2>1. s \in [Products -> Nat] /\ r \in [Products -> Seq(Row)]
    BY <1>1, <1>4 DEF Session
  <2> HIDE DEF s, r
  <2> QED
    BY <1>3, <2>1 DEF Session
<1>6. m.rows[p] = more /\ m.stock[p] = row.after
  BY <1>2, <1>5 DEF Session
<1>7. ASSUME NEW q \in Products, q # p
      PROVE  m.rows[q] = u.rows[q] /\ m.stock[q] = u.stock[q]
  BY <1>5, <1>7 DEF Session
<1>8. ChainsOK(m)
  <2>1. Chained(m.base[p], m.rows[p], m.stock[p])
    <3>1. Chained(u.base[p], u.rows[p], u.stock[p])
      BY DEF PendingOK, ChainsOK
    <3>2. Chained(u.base[p], Append(u.rows[p], row), row.after)
      BY <3>1, <1>1, <1>2, ChainedAppend
    <3> QED
      BY <3>2, <1>5, <1>6
  <2> QED
    BY <2>1, <1>5, <1>7 DEF PendingOK, ChainsOK
<1>9. ASSUME NothingPending(u) \/ Directed(u, change) PROVE MovesOK(m)
  <2> SUFFICES IF m.stock[p] = m.base[p] THEN NoMove(m.rows[p])
               ELSE LastMove(m.rows[p], m.stock[p])
    BY <1>5, <1>7 DEF PendingOK, MovesOK
  <2>1. CASE change = 0
    <3>1. IF u.stock[p] = u.base[p] THEN NoMove(u.rows[p]) ELSE LastMove(u.rows[p], u.stock[p])
      BY DEF PendingOK, MovesOK
    <3>2. m.stock[p] = u.stock[p] /\ m.base[p] = u.base[p]
      BY <1>1, <1>2, <1>5, <1>6, <2>1
    <3> QED
      BY <3>1, <3>2, <1>1, <1>2, <1>6, <2>1, QuietAppend
  <2>2. CASE change # 0
    <3>1. m.stock[p] # m.base[p]
      <4>1. Directed(u, u.stock[p] - u.base[p])
        BY DEF PendingOK
      <4>2. NothingPending(u) => u.stock[p] = u.base[p]
        BY DEF NothingPending
      <4> QED
        BY <4>1, <4>2, <1>1, <1>2, <1>5, <1>6, <1>9, <2>2 DEF Directed
    <3>2. LastMove(m.rows[p], row.after)
      BY <1>1, <1>2, <1>6, <2>2, MovingAppend
    <3> QED
      BY <3>1, <3>2, <1>6
  <2> QED
    BY <2>1, <2>2
<1>10. Directed(u, change) => PendingOK(m)
  <2> SUFFICES ASSUME Directed(u, change)
               PROVE  \A q \in Products : Directed(m, m.stock[q] - m.base[q])
    BY <1>8, <1>9 DEF PendingOK
  <2>1. Directed(m, m.stock[p] - m.base[p])
    <3>1. Directed(u, u.stock[p] - u.base[p])
      BY DEF PendingOK
    <3> QED
      BY <3>1, <1>1, <1>2, <1>5, <1>6 DEF Directed
  <2> QED
    BY <2>1, <1>5, <1>7 DEF PendingOK, Directed
<1>11. /\ SameRequest(u, m) /\ m.next = u.next /\ m.seen = u.seen
       /\ m.raised = u.raised /\ m.resolved = u.resolved
  BY <1>3 DEF Session, SameRequest
<1> QED
  BY <1>4, <1>5, <1>6, <1>8, <1>9, <1>10, <1>11 DEF row

\* What re-evaluating the alert of p adds to a session: v after u, when the query
\* finds the given rows.
Alerted(u, v, p, rows) ==
    \/ /\ LowOnStock(v, p) /\ OpenIn(rows) = {}
       /\ v.raised[p] = u.raised[p] + 1 /\ v.resolved[p] = u.resolved[p]
    \/ /\ LowOnStock(v, p) <=> OpenIn(rows) # {}
       /\ v.raised[p] = u.raised[p] /\ v.resolved[p] = u.resolved[p]
    \/ /\ ~LowOnStock(v, p) /\ v.raised[p] = u.raised[p]
       /\ \E a \in OpenIn(rows) : v.resolved[p] = u.resolved[p] \cup {a}

\* Going on with the next line keeps the type.
LEMMA NextLineOK ==
  ASSUME NEW u \in Session, NEW v, v = [u EXCEPT !.next = @ + 1]
  PROVE  /\ v \in Session /\ SameRequest(u, v) /\ v.next = u.next + 1
         /\ v.seen = u.seen /\ v.base = u.base /\ v.stock = u.stock /\ v.rows = u.rows
         /\ v.raised = u.raised /\ v.resolved = u.resolved
<1>1. u.next + 1 \in Nat \ {0}
  BY DEF Session
<1>2. v \in Session /\ v.next = u.next + 1
  BY <1>1 DEF Session
<1>3. /\ v.seen = u.seen /\ v.base = u.base /\ v.stock = u.stock /\ v.rows = u.rows
      /\ v.raised = u.raised /\ v.resolved = u.resolved
  BY DEF Session
<1>4. SameRequest(u, v)
  BY DEF Session, SameRequest
<1> QED
  BY <1>2, <1>3, <1>4

\* So does writing through a handle.
LEMMA HandleOK ==
  ASSUME NEW u \in Session, NEW p \in Products, NEW rows \in Seq(BOOLEAN),
         NEW v \in HandleLowStock(u, p, rows)
  PROVE  /\ v \in Session /\ SameRequest(u, v) /\ v.next = u.next
         /\ v.seen = u.seen /\ v.base = u.base /\ v.stock = u.stock /\ v.rows = u.rows
         /\ \A q \in Products \ {p} : /\ v.raised[q] = u.raised[q]
                                      /\ v.resolved[q] = u.resolved[q]
         /\ Alerted(u, v, p, rows)
<1>1. CASE v = u /\ (LowOnStock(u, p) <=> OpenIn(rows) # {})
  BY <1>1 DEF SameRequest, Alerted
<1>2. CASE LowOnStock(u, p) /\ OpenIn(rows) = {} /\ v = [u EXCEPT !.raised[p] = @ + 1]
  <2> DEFINE r == [u.raised EXCEPT ![p] = u.raised[p] + 1]
  <2>1. r \in [Products -> Nat] /\ r[p] = u.raised[p] + 1
        /\ \A q \in Products \ {p} : r[q] = u.raised[q]
    BY DEF Session
  <2>2. v = [u EXCEPT !.raised = r]
    BY <1>2 DEF Session
  <2> HIDE DEF r
  <2> QED
    BY <1>2, <2>1, <2>2 DEF Session, SameRequest, Alerted, LowOnStock
<1>3. ASSUME ~LowOnStock(u, p), NEW a \in OpenIn(rows), v = [u EXCEPT !.resolved[p] = @ \cup {a}]
      PROVE  /\ v \in Session /\ SameRequest(u, v) /\ v.next = u.next
             /\ v.seen = u.seen /\ v.base = u.base /\ v.stock = u.stock /\ v.rows = u.rows
             /\ \A q \in Products \ {p} : /\ v.raised[q] = u.raised[q]
                                          /\ v.resolved[q] = u.resolved[q]
             /\ Alerted(u, v, p, rows)
  <2> DEFINE r == [u.resolved EXCEPT ![p] = u.resolved[p] \cup {a}]
  <2>1. a \in Nat
    BY LenProperties DEF OpenIn
  <2>2. r \in [Products -> SUBSET Nat] /\ r[p] = u.resolved[p] \cup {a}
        /\ \A q \in Products \ {p} : r[q] = u.resolved[q]
    BY <2>1 DEF Session
  <2>3. v = [u EXCEPT !.resolved = r]
    BY <1>3 DEF Session
  <2> HIDE DEF r
  <2>4. /\ v \in Session /\ SameRequest(u, v) /\ v.next = u.next
        /\ v.seen = u.seen /\ v.base = u.base /\ v.stock = u.stock /\ v.rows = u.rows
        /\ v.raised = u.raised /\ v.resolved = r
    BY <2>2, <2>3 DEF Session, SameRequest
  <2> QED
    BY <1>3, <2>2, <2>4 DEF Alerted, LowOnStock
<1> QED
  BY <1>1, <1>2, <1>3 DEF HandleLowStock

\* What a session has done when it has moved p for a line: v after u.
LineMoved(u, v, p, kind, change) ==
    /\ SameRequest(u, v) /\ v.next = u.next + 1
    /\ v.seen = u.seen /\ v.base = u.base
    /\ IF p \in Services
       THEN /\ v.stock = u.stock /\ v.rows = u.rows
            /\ v.raised = u.raised /\ v.resolved = u.resolved
       ELSE /\ v.stock[p] = u.stock[p] + change /\ v.rows[p] # <<>>
            /\ v.rows[p] = Append(u.rows[p], JournalRow(u, p, kind, change))
            /\ Alerted(u, v, p, alerts[p])
            /\ \A q \in Products \ {p} :
                  /\ v.stock[q] = u.stock[q] /\ v.rows[q] = u.rows[q]
                  /\ v.raised[q] = u.raised[q] /\ v.resolved[q] = u.resolved[q]

\* Moving a line keeps the type of the session.
LEMMA MoveLineOK ==
  ASSUME TypeOK, NEW w \in Workers, NEW u \in Session, PendingOK(u),
         NEW p \in Products, NEW kind \in Kinds, NEW change \in Int,
         Directed(u, change), MoveLine(w, u, p, kind, change)
  PROVE  /\ UNCHANGED <<db, served>>
         /\ \E v \in Session : /\ Continue(w, v, "lines")
                               /\ PendingOK(v)
                               /\ LineMoved(u, v, p, kind, change)
<1>1. UNCHANGED <<db, served>>
  BY DEF MoveLine
<1>2. CASE p \in Services
  <2> DEFINE v == [u EXCEPT !.next = @ + 1]
  <2>1. /\ v \in Session /\ SameRequest(u, v) /\ v.next = u.next + 1
        /\ v.seen = u.seen /\ v.base = u.base /\ v.stock = u.stock /\ v.rows = u.rows
        /\ v.raised = u.raised /\ v.resolved = u.resolved
    BY NextLineOK
  <2>2. Continue(w, v, "lines")
    BY <1>2 DEF MoveLine
  <2> HIDE DEF v
  <2>3. PendingOK(v)
    BY <2>1 DEF PendingOK, ChainsOK, MovesOK, Directed, SameRequest
  <2> QED
    BY <1>1, <1>2, <2>1, <2>2, <2>3 DEF LineMoved
<1>3. CASE p \notin Services
  <2>1. /\ Enough(u, p, change)
        /\ \E h \in HandleLowStock(Move(u, p, kind, change), p, alerts[p]) :
              Continue(w, [h EXCEPT !.next = @ + 1], "lines")
    BY <1>3 DEF MoveLine
  <2> DEFINE m == Move(u, p, kind, change)
  <2>2. /\ m \in Session /\ SameRequest(u, m) /\ m.next = u.next
        /\ m.seen = u.seen /\ m.base = u.base
        /\ m.raised = u.raised /\ m.resolved = u.resolved
        /\ m.stock = [u.stock EXCEPT ![p] = u.stock[p] + change]
        /\ m.rows = [u.rows EXCEPT ![p] = Append(u.rows[p], JournalRow(u, p, kind, change))]
        /\ m.rows[p] # <<>> /\ PendingOK(m)
    BY <2>1, MoveOK
  <2>3. PICK h \in HandleLowStock(m, p, alerts[p]) :
               Continue(w, [h EXCEPT !.next = @ + 1], "lines")
    BY <2>1
  <2> HIDE DEF m
  <2>4. alerts[p] \in Seq(BOOLEAN)
    BY DEF TypeOK
  <2>5. /\ h \in Session /\ SameRequest(m, h) /\ h.next = m.next
        /\ h.seen = m.seen /\ h.base = m.base /\ h.stock = m.stock /\ h.rows = m.rows
        /\ \A q \in Products \ {p} : /\ h.raised[q] = m.raised[q]
                                     /\ h.resolved[q] = m.resolved[q]
        /\ Alerted(m, h, p, alerts[p])
    BY <2>2, <2>4, HandleOK
  <2> DEFINE v == [h EXCEPT !.next = @ + 1]
  <2>6. /\ v \in Session /\ SameRequest(h, v) /\ v.next = h.next + 1
        /\ v.seen = h.seen /\ v.base = h.base /\ v.stock = h.stock /\ v.rows = h.rows
        /\ v.raised = h.raised /\ v.resolved = h.resolved
    BY <2>5, NextLineOK
  <2>7. Continue(w, v, "lines")
    BY <2>3
  <2> HIDE DEF v
  <2>8. PendingOK(v)
    BY <2>2, <2>5, <2>6 DEF PendingOK, ChainsOK, MovesOK, Directed, SameRequest
  <2>9. SameRequest(u, v)
    BY <2>2, <2>5, <2>6 DEF SameRequest
  <2>10. Alerted(u, v, p, alerts[p])
    BY <2>2, <2>5, <2>6 DEF Alerted, LowOnStock
  <2>11. /\ v.stock[p] = u.stock[p] + change /\ v.rows[p] # <<>>
         /\ v.rows[p] = Append(u.rows[p], JournalRow(u, p, kind, change))
         /\ \A q \in Products \ {p} : v.stock[q] = u.stock[q] /\ v.rows[q] = u.rows[q]
    <3>1. u.stock \in [Products -> Nat] /\ u.rows \in [Products -> Seq(Row)]
      BY DEF Session
    <3>2. v.stock = m.stock /\ v.rows = m.rows
      BY <2>5, <2>6
    <3> QED
      BY <2>2, <3>1, <3>2
  <2>12. LineMoved(u, v, p, kind, change)
    BY <1>3, <2>2, <2>5, <2>6, <2>9, <2>10, <2>11 DEF LineMoved
  <2> QED
    BY <1>1, <2>6, <2>7, <2>8, <2>12
<1> QED
  BY <1>2, <1>3

-----------------------------------------------------------------------------
\* What a commit does to the stored rows

\* The alert rows of a product once a commit has resolved some and added some.
LEMMA WrittenAlertsOK ==
  ASSUME NEW rows \in Seq(BOOLEAN), NEW n \in Nat, NEW done \in SUBSET Nat,
         NEW new, new = WrittenAlerts(rows, n, done)
  PROVE  /\ new \in Seq(BOOLEAN)
         /\ OpenIn(new) # {} <=> n > 0 \/ ~(OpenIn(rows) \subseteq done)
<1>1. DOMAIN rows = 1 .. Len(rows) /\ Len(rows) \in Nat
      /\ \A a \in 1 .. Len(rows) : rows[a] \in BOOLEAN
  BY LenProperties, ElementOfSeq
<1> DEFINE flag(a) == IF a \in DOMAIN rows THEN rows[a] /\ a \notin done ELSE TRUE
           all == 1 .. Len(rows) + n
<1>2. Len(rows) + n \in Nat /\ new \in [all -> BOOLEAN]
  <2>1. \A a \in all : flag(a) \in BOOLEAN
    OBVIOUS
  <2>2. new = [a \in all |-> flag(a)]
    BY DEF WrittenAlerts
  <2>3. Len(rows) + n \in Nat
    BY <1>1
  <2> HIDE DEF flag, all
  <2> QED
    BY <2>1, <2>2, <2>3, Zenon
<1>3. new \in Seq(BOOLEAN)
  BY <1>2, SeqDef
<1>10. DOMAIN new = all /\ \A a \in all : new[a] = flag(a)
  BY DEF WrittenAlerts
<1>4. ASSUME n > 0 PROVE OpenIn(new) # {}
  <2>1. Len(rows) + n \in all /\ Len(rows) + n \notin DOMAIN rows
    BY <1>1, <1>4
  <2>2. flag(Len(rows) + n)
    BY <2>1
  <2>3. Len(rows) + n \in OpenIn(new)
    BY <1>10, <2>1, <2>2 DEF OpenIn
  <2> QED
    BY <2>3
<1>5. ASSUME NEW a \in OpenIn(rows), a \notin done PROVE a \in OpenIn(new)
  <2>1. a \in DOMAIN rows /\ a \in all /\ flag(a)
    BY <1>1, <1>5 DEF OpenIn
  <2> QED
    BY <1>10, <2>1 DEF OpenIn
<1>6. ASSUME n = 0, NEW a \in OpenIn(new) PROVE a \in OpenIn(rows) /\ a \notin done
  <2>1. a \in all /\ flag(a)
    BY <1>10 DEF OpenIn
  <2>2. a \in DOMAIN rows
    BY <1>1, <1>6, <2>1
  <2> QED
    BY <2>1, <2>2 DEF OpenIn
<1>7. n = 0 /\ OpenIn(rows) \subseteq done => OpenIn(new) = {}
  BY <1>6
<1>8. ASSUME ~(OpenIn(rows) \subseteq done) PROVE OpenIn(new) # {}
  <2>1. PICK a \in OpenIn(rows) : a \notin done
    BY <1>8
  <2> QED
    BY <2>1, <1>5
<1>9. n > 0 \/ n = 0
  OBVIOUS
<1> QED
  BY <1>3, <1>4, <1>7, <1>8, <1>9

\* WriteStock keeps the types of the stored rows.
LEMMA WriteStockType ==
  ASSUME TypeOK, NEW u \in Session, WriteStock(u)
  PROVE  /\ onHand' \in [Products -> Nat]
         /\ ledger' \in [Products -> Seq(Row)]
         /\ alerts' \in [Products -> Seq(BOOLEAN)]
<1>1. onHand' \in [Products -> Nat]
  BY DEF TypeOK, Session, WriteStock, NewStock
<1>2. ledger' \in [Products -> Seq(Row)]
  <2>1. ASSUME NEW p \in Products PROVE ledger[p] \o u.rows[p] \in Seq(Row)
    BY ConcatProperties DEF TypeOK, Session
  <2> QED
    BY <2>1 DEF WriteStock
<1>3. Triggered(u) \in [Products -> Seq(BOOLEAN)]
  <2>1. \A p \in Products : alerts[p] \in Seq(BOOLEAN)
    BY DEF TypeOK
  <2>2. ASSUME NEW p \in Products
        PROVE  AfterUpdate(alerts[p], onHand[p], u.stock[p], Threshold[p]) \in Seq(BOOLEAN)
    BY <2>1, AfterUpdateType
  <2> QED
    BY <2>1, <2>2 DEF Triggered
<1>4. ASSUME NEW p \in Products PROVE alerts'[p] \in Seq(BOOLEAN)
  <2>1. /\ Triggered(u)[p] \in Seq(BOOLEAN)
        /\ u.raised[p] \in Nat /\ u.resolved[p] \in SUBSET Nat
    BY <1>3 DEF Session
  <2>2. alerts'[p] = WrittenAlerts(Triggered(u)[p], u.raised[p], u.resolved[p])
    BY DEF WriteStock
  <2> QED
    BY <2>1, <2>2, WrittenAlertsOK
<1>5. \E f : alerts' = [p \in Products |-> f[p]]
  <2>1. alerts' = [p \in Products |-> alerts'[p]]
    BY DEF WriteStock
  <2> QED
    BY <2>1
<1> QED
  BY <1>1, <1>2, <1>4, <1>5


-----------------------------------------------------------------------------
\* How a step of one worker leaves the stored rows and the other workers

\* The stored part of the invariant.
StoreOK ==
    /\ onHand \in [Products -> Nat]
    /\ ledger \in [Products -> Seq(Row)]
    /\ alerts \in [Products -> Seq(BOOLEAN)]
    /\ sales \in Seq(Sale)
    /\ \A p \in Products : NoMove(ledger[p]) \/ LastMove(ledger[p], onHand[p])
    /\ ReturnedWithinSold

\* A step adds sales, or changes their status and what is booked as returned, but
\* never what was sold.
KeepsSales ==
    \A s \in DOMAIN sales :
        /\ s \in DOMAIN sales' /\ DOMAIN sales'[s].items = DOMAIN sales[s].items
        /\ \A k \in DOMAIN sales[s].items :
              /\ sales'[s].items[k].product = sales[s].items[k].product
              /\ sales'[s].items[k].quantity = sales[s].items[k].quantity

LEMMA StoredSale ==
  ASSUME TypeOK, NEW s \in DOMAIN sales
  PROVE  /\ sales[s] \in Sale /\ sales[s].items \in Seq(Item)
         /\ DOMAIN sales[s].items = 1 .. Len(sales[s].items)
         /\ \A k \in DOMAIN sales[s].items : sales[s].items[k] \in Item
<1>1. sales \in Seq(Sale) /\ DOMAIN sales = 1 .. Len(sales)
  BY LenProperties DEF TypeOK
<1>2. sales[s] \in Sale
  BY <1>1, ElementOfSeq
<1>3. sales[s].items \in Seq(Item)
  BY <1>2 DEF Sale
<1> QED
  BY <1>2, <1>3, LenProperties, ElementOfSeq

\* A step of one worker leaves the sessions of the others as they were.
LEMMA OthersOK ==
  ASSUME IInv, NEW w \in Workers, NEW u, NEW ph, Continue(w, u, ph), KeepsSales
  PROVE  \A v \in Workers \ {w} : uow'[v] = uow[v] /\ phase'[v] = phase[v] /\ WorkerOK(v)'
<1> SUFFICES ASSUME NEW v \in Workers \ {w}
             PROVE  uow'[v] = uow[v] /\ phase'[v] = phase[v] /\ WorkerOK(v)'
  OBVIOUS
<1>1. uow'[v] = uow[v] /\ phase'[v] = phase[v] /\ WorkerOK(v)
  BY DEF Continue, IInv, TypeOK
<1>2. PendingOK(uow[v])' /\ CourseOK(uow[v], phase[v])'
  BY <1>1 DEF WorkerOK, PendingOK, ChainsOK, MovesOK, Directed, CourseOK, NothingPending,
              Counted
<1>3. CopiesOK(uow[v], phase[v])'
  BY <1>1 DEF WorkerOK, CopiesOK, KeepsSales
<1> QED
  BY <1>1, <1>2, <1>3 DEF WorkerOK

\* A request that goes on, with nothing stored.
LEMMA GoesOn ==
  ASSUME IInv, NEW w \in Workers, NEW u \in Session, NEW ph \in Phases,
         Continue(w, u, ph), UNCHANGED db, served' \in 0 .. MaxRequests,
         PendingOK(u), CourseOK(u, ph), CopiesOK(u, ph)
  PROVE  IInv'
<1>1. KeepsSales
  BY DEF KeepsSales, db
<1>2. /\ uow'[w] = u /\ phase'[w] = ph
      /\ \A v \in Workers \ {w} : uow'[v] = uow[v] /\ phase'[v] = phase[v] /\ WorkerOK(v)'
  BY <1>1, OthersOK DEF Continue, IInv, TypeOK
<1>3. TypeOK'
  BY DEF IInv, TypeOK, Continue, db
<1>4. WorkerOK(w)'
  BY <1>2 DEF WorkerOK, PendingOK, ChainsOK, MovesOK, Directed, CourseOK, NothingPending,
              Counted, CopiesOK, db
<1>5. ReturnedWithinSold' /\ ledger' = ledger /\ onHand' = onHand
  BY DEF IInv, ReturnedWithinSold, db
<1> QED
  BY <1>2, <1>3, <1>4, <1>5 DEF IInv

\* A request that ends, with its work stored or given up.
LEMMA Ends ==
  ASSUME IInv, NEW w \in Workers, Close(w), StoreOK', KeepsSales
  PROVE  IInv'
<1>1. Continue(w, NoSession, "idle") /\ served' = served
  BY DEF Close
<1>2. /\ uow'[w] = NoSession /\ phase'[w] = "idle"
      /\ \A v \in Workers \ {w} : uow'[v] = uow[v] /\ phase'[v] = phase[v] /\ WorkerOK(v)'
  BY <1>1, OthersOK DEF Continue, IInv, TypeOK
<1>3. TypeOK'
  BY <1>1, NoSessionOK DEF IInv, TypeOK, StoreOK, Continue, Phases
<1>4. WorkerOK(w)'
  <2>1. PendingOK(NoSession)
    BY NoSessionOK, NothingIsOK
  <2> QED
    BY <1>2, <2>1, NoSessionOK DEF WorkerOK, PendingOK, ChainsOK, MovesOK, Directed, CourseOK,
              NothingPending, Counted, CopiesOK
<1> QED
  BY <1>2, <1>3, <1>4 DEF IInv, StoreOK

\* What a commit writes keeps the last movement and the stock together.
LEMMA StockStored ==
  ASSUME IInv, NEW u \in Session, MovesOK(u), WriteStock(u)
  PROVE  /\ onHand' \in [Products -> Nat]
         /\ ledger' \in [Products -> Seq(Row)]
         /\ alerts' \in [Products -> Seq(BOOLEAN)]
         /\ \A p \in Products : NoMove(ledger'[p]) \/ LastMove(ledger'[p], onHand'[p])
<1>1. TypeOK
  BY DEF IInv
<1>2. ASSUME NEW p \in Products PROVE NoMove(ledger'[p]) \/ LastMove(ledger'[p], onHand'[p])
  <2>1. /\ ledger[p] \in Seq(Row) /\ u.rows[p] \in Seq(Row)
        /\ ledger'[p] = ledger[p] \o u.rows[p] /\ onHand'[p] = NewStock(u, p)
    BY <1>1 DEF TypeOK, Session, WriteStock
  <2>2. NoMove(ledger[p]) \/ LastMove(ledger[p], onHand[p])
    BY DEF IInv
  <2>3. IF u.stock[p] = u.base[p] THEN NoMove(u.rows[p])
        ELSE LastMove(u.rows[p], u.stock[p])
    BY DEF MovesOK
  <2>4. CASE u.stock[p] = u.base[p]
    BY <2>1, <2>2, <2>3, <2>4, StoredMoves DEF NewStock
  <2>5. CASE u.stock[p] # u.base[p]
    BY <2>1, <2>3, <2>5, StoredMoves DEF NewStock
  <2> QED
    BY <2>4, <2>5
<1> QED
  BY <1>1, <1>2, WriteStockType

-----------------------------------------------------------------------------
\* Init and the steps that read

\* The invariant holds initially, and each action keeps it.
LEMMA InvInit == Init => IInv
<1> SUFFICES ASSUME Init PROVE IInv
  OBVIOUS
<1>1. TypeOK
  <2>1. <<>> \in Seq(Row) /\ <<>> \in Seq(BOOLEAN) /\ <<>> \in Seq(Sale)
    BY EmptySeq
  <2> QED
    BY <2>1, NoSessionOK, SessionsAssumption DEF Init, TypeOK, Phases
<1>2. \A p \in Products : NoMove(ledger[p])
  BY DEF Init, NoMove
<1>3. ReturnedWithinSold
  BY DEF Init, ReturnedWithinSold
<1>4. ASSUME NEW w \in Workers PROVE WorkerOK(w)
  BY NoSessionOK, NothingIsOK DEF Init, WorkerOK
<1> QED
  BY <1>1, <1>2, <1>3, <1>4 DEF IInv

\* The lines of a request.
LEMMA RequestType ==
  ASSUME NEW r \in Requests
  PROVE  /\ r \in Request /\ r.op \in Ops /\ r.lines \in Seq(Line)
         /\ DOMAIN r.lines = 1 .. Len(r.lines) /\ Len(r.lines) \in Nat
         /\ \A k \in DOMAIN r.lines : r.lines[k] \in Line /\ r.lines[k].quantity \in Int
         /\ r.op \notin {"VOID", "RETURN"} => 1 \in DOMAIN r.lines
         /\ r.op \in {"RESTOCK", "COUNT", "CHANGE"} => Len(r.lines) = 1
         /\ r.op \in {"SALE", "RETURN"} => Counted(r.lines)
<1>1. r \in Request /\ Accepted(r)
  BY SessionsAssumption
<1>2. /\ r.op \in Ops /\ r.lines \in Seq(Line)
      /\ DOMAIN r.lines = 1 .. Len(r.lines) /\ Len(r.lines) \in Nat
      /\ \A k \in DOMAIN r.lines : r.lines[k] \in Line
  BY <1>1, LenProperties, ElementOfSeq DEF Request
<1>3. \A k \in DOMAIN r.lines : r.lines[k].quantity \in Int
  BY <1>2 DEF Line
<1>4. r.op \notin {"VOID", "RETURN"} => 1 \in DOMAIN r.lines
  <2>1. r.lines # <<>> => Len(r.lines) # 0
    BY <1>2, EmptySeq
  <2> QED
    BY <1>1, <1>2, <2>1 DEF Accepted
<1>5. r.op \in {"SALE", "RETURN"} => Counted(r.lines)
  BY <1>1, <1>3 DEF Accepted, Counted
<1>6. r.op \in {"RESTOCK", "COUNT", "CHANGE"} => Len(r.lines) = 1
  BY <1>1 DEF Accepted
<1> QED
  BY <1>1, <1>2, <1>3, <1>4, <1>5, <1>6

\* What Receive opens for a request.
FirstPhase(r) == IF r.op \in {"VOID", "RETURN"} THEN "sale" ELSE "products"

LEMMA ReceiveStep ==
  ASSUME NEW w \in Workers, NEW r \in Requests
  PROVE  /\ NewSession(r) \in Session /\ NothingPending(NewSession(r))
         /\ FirstPhase(r) \in Phases
         /\ CourseOK(NewSession(r), FirstPhase(r))
         /\ CopiesOK(NewSession(r), FirstPhase(r))
<1>1. NewSession(r) \in Session /\ NothingPending(NewSession(r))
  BY RequestType, NewSessionOK
<1>2. NewSession(r).op = r.op /\ NewSession(r).lines = r.lines /\ NewSession(r).next = 1
  BY DEF NewSession
<1>3. CourseOK(NewSession(r), FirstPhase(r))
  BY <1>1, <1>2, RequestType DEF CourseOK, FirstPhase
<1>4. CopiesOK(NewSession(r), FirstPhase(r)) /\ FirstPhase(r) \in Phases
  BY DEF CopiesOK, FirstPhase, Phases
<1> QED
  BY <1>1, <1>3, <1>4

LEMMA ReceiveInv == ASSUME IInv, NEW w \in Workers, Receive(w) PROVE IInv'
<1>1. PICK r \in Requests : Continue(w, NewSession(r), FirstPhase(r))
  BY DEF Receive, FirstPhase
<1>2. served' \in 0 .. MaxRequests /\ UNCHANGED db
  BY SessionsAssumption DEF Receive, IInv, TypeOK
<1>3. PendingOK(NewSession(r))
  BY ReceiveStep, NothingIsOK
<1> QED
  BY <1>1, <1>2, <1>3, ReceiveStep, GoesOn

\* The line a session is at.
LEMMA LineType ==
  ASSUME NEW u \in Session, NEW k \in DOMAIN u.lines
  PROVE  /\ u.lines[k].product \in Products /\ u.lines[k].item \in Nat
         /\ u.lines[k].quantity \in Int
         /\ DOMAIN u.lines = 1 .. Len(u.lines) /\ Len(u.lines) \in Nat
<1>1. u.lines \in Seq(Line)
  BY DEF Session
<1>2. u.lines[k] \in Line
  BY <1>1, LenProperties, ElementOfSeq
<1> QED
  BY <1>1, <1>2, LenProperties DEF Line

\* What LoadProduct does to a session: the product of the line is seen, and the
\* session goes on to the next line or starts over to process the lines.
LEMMA LoadProductStep ==
  ASSUME IInv, NEW w \in Workers, LoadProduct(w)
  PROVE  /\ UNCHANGED <<db, served>>
         /\ uow[w] \in Session /\ uow[w].next \in DOMAIN uow[w].lines
         /\ CurrentLine(w).product \in Products
         /\ DOMAIN uow[w].lines = 1 .. Len(uow[w].lines) /\ Len(uow[w].lines) \in Nat
         /\ \E v \in Session : \E ph \in {"products", "lines"} :
              /\ Continue(w, v, ph) /\ NothingPending(v)
              /\ SameRequest(uow[w], v)
              /\ v.rows = uow[w].rows /\ v.raised = uow[w].raised
              /\ v.resolved = uow[w].resolved
              /\ v.seen = uow[w].seen \cup {CurrentLine(w).product}
              /\ \A p \in Products :
                    v.base[p] = IF p \in v.seen \ uow[w].seen THEN onHand[p]
                                ELSE uow[w].base[p]
              /\ IF ph = "products" THEN uow[w].next < Len(uow[w].lines) /\ v.next = uow[w].next + 1
                 ELSE uow[w].next = Len(uow[w].lines) /\ v.next = 1
<1> DEFINE u0 == uow[w]
           p  == CurrentLine(w).product
<1>1. /\ TypeOK /\ u0 \in Session /\ phase[w] = "products" /\ NothingPending(u0)
      /\ u0.next \in DOMAIN u0.lines
  BY DEF LoadProduct, IInv, TypeOK, WorkerOK, CourseOK
<1>2. p \in Products /\ DOMAIN u0.lines = 1 .. Len(u0.lines) /\ Len(u0.lines) \in Nat
  BY <1>1, LineType DEF CurrentLine
<1> DEFINE u == Load(u0, {p})
<1>3. UNCHANGED <<db, served>> /\
      \E ph \in {"products", "lines"} :
         \E n \in Nat \ {0} :
             /\ Continue(w, [u EXCEPT !.next = n], ph)
             /\ IF ph = "products" THEN u0.next < Len(u0.lines) /\ n = u0.next + 1
                ELSE u0.next = Len(u0.lines) /\ n = 1
  <2>0. u.next = u0.next
    BY <1>1, <1>2, LoadOK
  <2>1. UNCHANGED <<db, served>>
    BY DEF LoadProduct
  <2>2. CASE u0.next < Len(u0.lines)
    <3>1. Continue(w, [u EXCEPT !.next = @ + 1], "products")
      BY <2>2 DEF LoadProduct
    <3>2. [u EXCEPT !.next = @ + 1] = [u EXCEPT !.next = u0.next + 1]
      BY <2>0
    <3>3. u0.next + 1 \in Nat \ {0}
      BY <1>1 DEF Session
    <3> QED
      BY <3>1, <3>2, <3>3, <2>1, <2>2
  <2>3. CASE ~(u0.next < Len(u0.lines))
    <3>1. Continue(w, [u EXCEPT !.next = 1], "lines")
      BY <2>3 DEF LoadProduct
    <3>2. u0.next = Len(u0.lines) /\ 1 \in Nat \ {0} /\ "lines" # "products"
      BY <1>1, <1>2, <2>3
    <3> HIDE DEF u
    <3> QED
      BY <3>1, <3>2, <2>1
  <2> QED
    BY <2>2, <2>3
<1>4. /\ u \in Session /\ NothingPending(u) /\ SameRequest(u0, u)
      /\ u.rows = u0.rows /\ u.raised = u0.raised /\ u.resolved = u0.resolved
      /\ u.seen = u0.seen \cup {p}
      /\ \A q \in Products : u.base[q] = IF q \in {p} \ u0.seen THEN onHand[q] ELSE u0.base[q]
  BY <1>1, <1>2, LoadOK
<1> HIDE DEF u
<1>5. PICK ph \in {"products", "lines"}, n \in Nat \ {0} :
             /\ Continue(w, [u EXCEPT !.next = n], ph)
             /\ IF ph = "products" THEN u0.next < Len(u0.lines) /\ n = u0.next + 1
                ELSE u0.next = Len(u0.lines) /\ n = 1
  BY <1>3
<1> DEFINE v == [u EXCEPT !.next = n]
<1>6. v \in Session /\ v.next = n /\ v.seen = u.seen /\ v.base = u.base /\ v.stock = u.stock
      /\ v.rows = u.rows /\ v.raised = u.raised /\ v.resolved = u.resolved
  BY <1>4 DEF Session
<1>7. SameRequest(u0, v)
  BY <1>4 DEF Session, SameRequest
<1> HIDE DEF v
<1>8. NothingPending(v)
  BY <1>4, <1>6 DEF NothingPending
<1>9. Continue(w, v, ph)
  BY <1>5 DEF v
<1>10. \A q \in Products : v.base[q] = IF q \in v.seen \ u0.seen THEN onHand[q] ELSE u0.base[q]
  BY <1>4, <1>6
<1> QED
  BY <1>1, <1>2, <1>3, <1>4, <1>5, <1>6, <1>7, <1>8, <1>9, <1>10

LEMMA LoadProductInv == ASSUME IInv, NEW w \in Workers, LoadProduct(w) PROVE IInv'
<1>1. PICK v \in Session, ph \in {"products", "lines"} :
              /\ Continue(w, v, ph) /\ NothingPending(v)
              /\ SameRequest(uow[w], v)
              /\ IF ph = "products" THEN uow[w].next < Len(uow[w].lines) /\ v.next = uow[w].next + 1
                 ELSE uow[w].next = Len(uow[w].lines) /\ v.next = 1
  BY LoadProductStep
<1>2. CourseOK(uow[w], "products") /\ phase[w] = "products"
  BY DEF IInv, WorkerOK, LoadProduct
<1>3. CourseOK(v, ph)
  BY <1>1, <1>2, LoadProductStep DEF CourseOK, SameRequest
<1>4. CopiesOK(v, ph) /\ ph \in Phases
  BY <1>1, <1>2 DEF CopiesOK, CourseOK, SameRequest, Phases
<1>5. served' \in 0 .. MaxRequests
  BY LoadProductStep DEF IInv, TypeOK
<1> QED
  BY <1>1, <1>3, <1>4, <1>5, LoadProductStep, NothingIsOK, GoesOn

LEMMA LoadSaleStep ==
  ASSUME IInv, NEW w \in Workers, LoadSale(w)
  PROVE  /\ UNCHANGED <<db, served>> /\ uow[w] \in Session /\ uow[w].sale \in DOMAIN sales
         /\ \E v \in Session :
              /\ Continue(w, v, "items") /\ NothingPending(v)
              /\ v.op = uow[w].op /\ v.sale = uow[w].sale /\ v.lines = uow[w].lines
              /\ v.next = uow[w].next /\ v.seen = uow[w].seen /\ v.base = uow[w].base
              /\ v.rows = uow[w].rows /\ v.raised = uow[w].raised /\ v.resolved = uow[w].resolved
              /\ v.status = sales[uow[w].sale].status
<1> DEFINE u == uow[w]
           s == sales[u.sale]
           v == [u EXCEPT !.status = s.status, !.total = s.total_amount]
<1>1. /\ u \in Session /\ NothingPending(u) /\ u.sale \in DOMAIN sales /\ TypeOK
  BY DEF IInv, TypeOK, WorkerOK, CourseOK, LoadSale
<1>2. s.status \in Status /\ s.total_amount \in Int
  BY <1>1, StoredSale DEF Sale
<1>3. Continue(w, v, "items") /\ UNCHANGED <<db, served>>
  BY DEF LoadSale
<1>4. v \in Session /\ v.stock = u.stock
      /\ v.op = u.op /\ v.sale = u.sale /\ v.lines = u.lines
      /\ v.next = u.next /\ v.seen = u.seen /\ v.base = u.base
      /\ v.rows = u.rows /\ v.raised = u.raised /\ v.resolved = u.resolved
      /\ v.status = s.status
  BY <1>1, <1>2 DEF Session
<1> HIDE DEF v
<1>5. NothingPending(v)
  BY <1>1, <1>4 DEF NothingPending
<1> QED
  BY <1>1, <1>3, <1>4, <1>5

LEMMA LoadSaleInv == ASSUME IInv, NEW w \in Workers, LoadSale(w) PROVE IInv'
<1>1. PICK v \in Session :
              /\ Continue(w, v, "items") /\ NothingPending(v)
              /\ v.op = uow[w].op /\ v.sale = uow[w].sale /\ v.lines = uow[w].lines
              /\ v.next = uow[w].next
  BY LoadSaleStep
<1>2. CourseOK(uow[w], "sale") /\ phase[w] = "sale"
  BY DEF IInv, WorkerOK, LoadSale
<1>3. CourseOK(v, "items") /\ CopiesOK(v, "items") /\ "items" \in Phases
  BY <1>1, <1>2, LoadSaleStep DEF CourseOK, CopiesOK, Phases
<1>4. served' \in 0 .. MaxRequests
  BY LoadSaleStep DEF IInv, TypeOK
<1> QED
  BY <1>1, <1>3, <1>4, LoadSaleStep, NothingIsOK, GoesOn

LEMMA LoadItemsStep ==
  ASSUME IInv, NEW w \in Workers, LoadItems(w)
  PROVE  LET stored == sales[uow[w].sale].items IN
         /\ UNCHANGED <<db, served>> /\ uow[w] \in Session /\ phase[w] = "items"
         /\ uow[w].op \in {"VOID", "RETURN"} /\ uow[w].sale \in DOMAIN sales
         /\ uow[w].status = "COMPLETED"
         /\ \E v \in Session :
              /\ Continue(w, v, "lines") /\ NothingPending(v)
              /\ v.op = uow[w].op /\ v.sale = uow[w].sale /\ v.next = uow[w].next
              /\ v.rows = uow[w].rows /\ v.raised = uow[w].raised
              /\ v.resolved = uow[w].resolved /\ v.status = uow[w].status
              /\ v.loaded = stored /\ v.items = stored
              /\ v.op = "RETURN" => v.lines = uow[w].lines
              /\ v.op = "VOID" =>
                    /\ DOMAIN v.lines = DOMAIN stored
                    /\ \A k \in DOMAIN stored : /\ v.lines[k].product = stored[k].product
                                                /\ v.lines[k].quantity = stored[k].quantity
              /\ v.seen = uow[w].seen \cup {stored[k].product : k \in DOMAIN stored}
              /\ \A p \in Products :
                    v.base[p] = IF p \in v.seen \ uow[w].seen THEN onHand[p]
                                ELSE uow[w].base[p]
<1> DEFINE u0     == uow[w]
           stored == sales[u0.sale].items
           ps     == {stored[k].product : k \in DOMAIN stored}
           u      == Load(u0, ps)
           asked  == [k \in DOMAIN stored |-> [product  |-> stored[k].product,
                                               item     |-> k,
                                               quantity |-> stored[k].quantity]]
           lines  == IF u0.op = "RETURN" THEN u0.lines ELSE asked
           v      == [u EXCEPT !.loaded = stored, !.items = stored, !.lines = lines]
<1>1. /\ TypeOK /\ u0 \in Session /\ phase[w] = "items" /\ NothingPending(u0)
      /\ u0.op \in {"VOID", "RETURN"} /\ u0.sale \in DOMAIN sales /\ Alterable(u0)
  BY DEF LoadItems, IInv, TypeOK, WorkerOK, CourseOK, CopiesOK
<1>2. /\ stored \in Seq(Item) /\ DOMAIN stored = 1 .. Len(stored) /\ Len(stored) \in Nat
      /\ \A k \in DOMAIN stored : stored[k] \in Item
  BY <1>1, StoredSale, LenProperties
<1>3. ps \in SUBSET Products
  BY <1>2 DEF Item
<1>4. asked \in Seq(Line)
  <2>1. ASSUME NEW k \in DOMAIN stored PROVE asked[k] \in Line
    <3>1. stored[k] \in Item /\ k \in Nat
      BY <1>2
    <3>2. stored[k].product \in Products /\ stored[k].quantity \in Int
      BY <3>1 DEF Item
    <3> QED
      BY <3>1, <3>2 DEF Line
  <2>2. asked \in [DOMAIN stored -> Line]
    BY <2>1
  <2> QED
    BY <1>2, <2>2, SeqDef
<1>13. /\ DOMAIN asked = DOMAIN stored
      /\ \A k \in DOMAIN stored : /\ asked[k].product = stored[k].product
                                  /\ asked[k].quantity = stored[k].quantity
  OBVIOUS
<1>5. /\ u \in Session /\ NothingPending(u) /\ SameRequest(u0, u) /\ u.next = u0.next
      /\ u.rows = u0.rows /\ u.raised = u0.raised /\ u.resolved = u0.resolved
      /\ u.seen = u0.seen \cup ps
      /\ \A p \in Products : u.base[p] = IF p \in ps \ u0.seen THEN onHand[p] ELSE u0.base[p]
  BY <1>1, <1>3, LoadOK
<1>6. UNCHANGED <<db, served>> /\ Continue(w, v, "lines")
  <2>1. u.lines = u0.lines /\ u.op = u0.op
    BY <1>5 DEF SameRequest
  <2> QED
    BY <2>1 DEF LoadItems
<1>7. lines \in Seq(Line)
  BY <1>1, <1>4 DEF Session
<1> HIDE DEF u, asked, lines
<1>8. /\ v \in Session /\ v.op = u.op /\ v.sale = u.sale /\ v.next = u.next
      /\ v.rows = u.rows /\ v.raised = u.raised /\ v.resolved = u.resolved
      /\ v.status = u.status /\ v.loaded = stored /\ v.items = stored /\ v.lines = lines
      /\ v.seen = u.seen /\ v.base = u.base /\ v.stock = u.stock
  BY <1>2, <1>5, <1>7 DEF Session
<1> HIDE DEF v
<1>9. NothingPending(v)
  BY <1>5, <1>8 DEF NothingPending
<1>10. /\ v.op = u0.op /\ v.sale = u0.sale /\ v.next = u0.next /\ v.status = u0.status
       /\ v.seen = u0.seen \cup ps
       /\ \A p \in Products : v.base[p] = IF p \in v.seen \ u0.seen THEN onHand[p]
                                          ELSE u0.base[p]
  BY <1>5, <1>8 DEF SameRequest
<1>11. v.op = "RETURN" => v.lines = u0.lines
  BY <1>8, <1>10 DEF lines
<1>12. v.op = "VOID" => /\ DOMAIN v.lines = DOMAIN stored
                        /\ \A k \in DOMAIN stored : /\ v.lines[k].product = stored[k].product
                                                    /\ v.lines[k].quantity = stored[k].quantity
  BY <1>8, <1>10, <1>13 DEF lines
<1> HIDE DEF stored
<1> QED
  BY <1>1, <1>5, <1>6, <1>8, <1>9, <1>10, <1>11, <1>12 DEF stored, Alterable

LEMMA LoadItemsInv == ASSUME IInv, NEW w \in Workers, LoadItems(w) PROVE IInv'
<1> DEFINE stored == sales[uow[w].sale].items
<1>1. PICK v \in Session :
              /\ Continue(w, v, "lines") /\ NothingPending(v)
              /\ v.op = uow[w].op /\ v.sale = uow[w].sale
              /\ v.loaded = stored /\ v.items = stored
              /\ v.op = "RETURN" => v.lines = uow[w].lines
              /\ v.op = "VOID" =>
                    /\ DOMAIN v.lines = DOMAIN stored
                    /\ \A k \in DOMAIN stored : v.lines[k].quantity = stored[k].quantity
  BY LoadItemsStep
<1>2. /\ CourseOK(uow[w], "items") /\ phase[w] = "items" /\ uow[w].sale \in DOMAIN sales
      /\ uow[w].op \in {"VOID", "RETURN"}
  BY LoadItemsStep DEF IInv, WorkerOK
<1>3. \A k \in DOMAIN stored : /\ stored[k].quantity \in Nat /\ stored[k].return_items \in Nat
                               /\ stored[k].returned_qty <= stored[k].quantity
  BY <1>2, StoredSale DEF IInv, ReturnedWithinSold, Item
<1> HIDE DEF stored
<1>4. Counted(v.lines)
  BY <1>1, <1>2, <1>3 DEF Counted, CourseOK
<1>5. CourseOK(v, "lines")
  BY <1>1, <1>2, <1>4 DEF CourseOK
<1>6. CopiesOK(v, "lines") /\ "lines" \in Phases
  BY <1>1, <1>2, <1>3 DEF CopiesOK, Phases, stored
<1>7. served' \in 0 .. MaxRequests /\ UNCHANGED db
  BY LoadItemsStep DEF IInv, TypeOK
<1> QED
  BY <1>1, <1>5, <1>6, <1>7, NothingIsOK, GoesOn

-----------------------------------------------------------------------------
\* The steps that process a line

LEMMA BookReturnOK ==
  ASSUME NEW item \in Item, NEW q \in Nat, q <= Returnable(item),
         NEW new, new = BookReturn(item, q)
  PROVE  /\ new \in Item
         /\ new.product = item.product /\ new.quantity = item.quantity
         /\ new.returned_qty = item.returned_qty + q /\ new.returned_qty <= item.quantity
         /\ new.return_items = item.return_items + q
<1> DEFINE flag == item.is_returned \/ item.returned_qty + q >= item.quantity
<1>1. flag \in BOOLEAN
  OBVIOUS
<1>2. new = [item EXCEPT !.returned_qty = item.returned_qty + q, !.is_returned = flag,
                         !.return_items = item.return_items + q]
  BY DEF BookReturn, Item
<1> HIDE DEF flag
<1>3. /\ item.returned_qty \in Nat /\ item.return_items \in Nat /\ item.quantity \in Nat
      /\ q <= item.quantity - item.returned_qty
  BY DEF Item, Returnable
<1>4. item.returned_qty + q \in Nat /\ item.return_items + q \in Nat
  BY <1>3
<1>5. new \in Item
  BY <1>1, <1>2, <1>4 DEF Item
<1>6. /\ new.product = item.product /\ new.quantity = item.quantity
      /\ new.returned_qty = item.returned_qty + q
      /\ new.return_items = item.return_items + q
  BY <1>2 DEF Item
<1>7. new.returned_qty <= item.quantity
  BY <1>3, <1>6
<1> QED
  BY <1>5, <1>6, <1>7

\* A session that has booked a return on one of its items, or nothing at all.
Booked(u, v) ==
    /\ v.op = u.op /\ v.sale = u.sale /\ v.lines = u.lines /\ v.next = u.next
    /\ v.seen = u.seen /\ v.base = u.base /\ v.stock = u.stock /\ v.rows = u.rows
    /\ v.raised = u.raised /\ v.resolved = u.resolved
    /\ v.loaded = u.loaded /\ v.status = u.status
    /\ DOMAIN v.items = DOMAIN u.items
    /\ \A k \in DOMAIN u.items : \E q \in Nat :
          /\ v.items[k].product = u.items[k].product
          /\ v.items[k].quantity = u.items[k].quantity
          /\ v.items[k].returned_qty = u.items[k].returned_qty + q
          /\ q > 0 => v.items[k].returned_qty <= u.items[k].quantity
          /\ v.items[k].return_items = u.items[k].return_items + q

\* The movement is what the line says.
Meant(line, u0, u, p, kind, change) ==
    /\ kind = u.op
    /\ u.op = "SALE" => change = -Whole(line.quantity)
    /\ u.op \in {"VOID", "RETURN"} => change = Whole(line.quantity)
    /\ u.op = "RETURN" => \E k \in DOMAIN u.items :
          /\ p = u.items[k].product
          /\ u.items[k].return_items = u0.items[k].return_items + line.quantity
          /\ \A i \in DOMAIN u.items \ {k} :
                u.items[i].return_items = u0.items[i].return_items

\* The session as it is when MoveLine moves the product of the line.
Booking(w, u, p, kind, change) ==
    /\ u \in Session /\ Booked(uow[w], u)
    /\ p \in Products /\ kind \in Kinds /\ change \in Int /\ Directed(u, change)
    /\ IF u.op = "RETURN" THEN \E k \in DOMAIN u.items : p = u.items[k].product
                          ELSE p = CurrentLine(w).product
    /\ Meant(CurrentLine(w), uow[w], u, p, kind, change)
    /\ MoveLine(w, u, p, kind, change)

\* The four operations that process a line without storing anything.
MovesLine(w) == DeductStock(w) \/ RestoreVoided(w) \/ ReturnLine(w) \/ Restock(w)

LEMMA MovesLineBooks ==
  ASSUME IInv, NEW w \in Workers, MovesLine(w)
  PROVE  /\ uow[w] \in Session /\ phase[w] = "lines" /\ uow[w].next \in DOMAIN uow[w].lines
         /\ uow[w].op \in {"SALE", "VOID", "RETURN", "RESTOCK"}
         /\ \E u, p, kind, change : Booking(w, u, p, kind, change)
<1> DEFINE u0   == uow[w]
           line == CurrentLine(w)
<1>1. /\ u0 \in Session /\ phase[w] = "lines" /\ WorkerOK(w)
      /\ u0.op \in {"SALE", "VOID", "RETURN", "RESTOCK"} /\ u0.next <= Len(u0.lines)
  BY DEF IInv, TypeOK, MovesLine, DeductStock, RestoreVoided, ReturnLine, Restock, AtLine
<1>2. u0.next \in DOMAIN u0.lines
  <2>1. u0.lines \in Seq(Line) /\ u0.next \in Nat \ {0}
    BY <1>1 DEF Session
  <2> QED
    BY <1>1, <2>1, LenProperties
<1>3. line.product \in Products /\ line.item \in Nat /\ line.quantity \in Int
  BY <1>1, <1>2, LineType DEF CurrentLine
<1>4. u0.op \in {"SALE", "VOID", "RETURN"} => line.quantity \in Nat
  BY <1>1, <1>2 DEF WorkerOK, CourseOK, Counted, CurrentLine
<1>5. \A u \in {u0} : Booked(u0, u)
  <2>1. \A k \in DOMAIN u0.items : u0.items[k] \in Item
    BY <1>1, LenProperties, ElementOfSeq DEF Session
  <2> QED
    BY <2>1 DEF Booked, Item
<1>6. CASE DeductStock(w)
  <2> DEFINE u == [u0 EXCEPT !.amount = @ + line.quantity]
  <2>1. /\ u0.op = "SALE"
        /\ MoveLine(w, u, line.product, "SALE", Sold(line))
    BY <1>6 DEF DeductStock, AtLine
  <2>2. u \in Session /\ Booked(u0, u) /\ u.op = u0.op
    <3>1. u0.amount + line.quantity \in Int
      BY <1>1, <1>3 DEF Session
    <3>2. u \in Session
      BY <1>1, <3>1 DEF Session
    <3>3. Booked(u0, u0)
      BY <1>5
    <3>4. Booked(u0, u)
      BY <1>1, <3>3 DEF Session, Booked
    <3> QED
      BY <3>2, <3>4 DEF Booked
  <2>3. Sold(line) \in Int /\ Sold(line) <= 0
    BY <1>4, <2>1, WholeNat DEF Sold
  <2> HIDE DEF u, line
  <2>4. Booking(w, u, line.product, "SALE", Sold(line))
    BY <1>3, <2>1, <2>2, <2>3 DEF Booking, Meant, Sold, Directed, Kinds, line
  <2> QED
    BY <1>1, <1>2, <2>4
<1>7. CASE RestoreVoided(w)
  <2>1. u0.op = "VOID" /\ MoveLine(w, u0, line.product, "VOID", Whole(line.quantity))
    BY <1>7 DEF RestoreVoided, AtLine
  <2>2. Whole(line.quantity) \in Nat
    BY <1>4, <2>1, WholeNat
  <2>3. Booking(w, u0, line.product, "VOID", Whole(line.quantity))
    BY <1>1, <1>3, <1>5, <2>1, <2>2 DEF Booking, Meant, Directed, Kinds
  <2> QED
    BY <1>1, <1>2, <2>3
<1>8. CASE ReturnLine(w)
  <2> DEFINE k    == line.item
             item == u0.items[k]
             new  == BookReturn(item, line.quantity)
             u    == [u0 EXCEPT !.amount = @ + line.quantity, !.items[k] = new]
  <2>1. /\ u0.op = "RETURN" /\ k \in DOMAIN u0.items /\ line.quantity <= Returnable(item)
        /\ MoveLine(w, u, item.product, "RETURN", Whole(line.quantity))
    BY <1>8 DEF ReturnLine, AtLine
  <2>2. line.quantity \in Nat /\ u0.items \in Seq(Item) /\ DOMAIN u0.items = 1 .. Len(u0.items)
        /\ \A i \in DOMAIN u0.items : u0.items[i] \in Item
    BY <1>1, <1>4, <2>1, LenProperties, ElementOfSeq DEF Session
  <2>3. /\ new \in Item /\ new.product = item.product /\ new.quantity = item.quantity
        /\ new.returned_qty = item.returned_qty + line.quantity
        /\ new.returned_qty <= item.quantity
        /\ new.return_items = item.return_items + line.quantity
    BY <2>1, <2>2, BookReturnOK
  <2> DEFINE items == [u0.items EXCEPT ![k] = new]
  <2>4. items \in Seq(Item) /\ DOMAIN items = DOMAIN u0.items /\ items[k] = new
        /\ \A i \in DOMAIN u0.items : i # k => items[i] = u0.items[i]
    BY <2>1, <2>2, <2>3, ExceptSeq
  <2>5. u = [u0 EXCEPT !.amount = u0.amount + line.quantity, !.items = items]
    BY <1>1 DEF Session
  <2> HIDE DEF new, items, line
  <2>6. u0.amount + line.quantity \in Int
    BY <1>1, <2>2 DEF Session
  <2>7. u \in Session /\ u.items = items
    BY <1>1, <2>4, <2>5, <2>6 DEF Session
  <2>8. Booked(u0, u)
    <3>1. \A i \in DOMAIN u0.items : \E q \in Nat :
             /\ items[i].product = u0.items[i].product
             /\ items[i].quantity = u0.items[i].quantity
             /\ items[i].returned_qty = u0.items[i].returned_qty + q
             /\ q > 0 => items[i].returned_qty <= u0.items[i].quantity
             /\ items[i].return_items = u0.items[i].return_items + q
      <4> SUFFICES ASSUME NEW i \in DOMAIN u0.items, i # k
                   PROVE  /\ items[i] = u0.items[i] /\ 0 \in Nat
                          /\ u0.items[i].returned_qty = u0.items[i].returned_qty + 0
                          /\ u0.items[i].return_items = u0.items[i].return_items + 0
        BY <2>2, <2>3, <2>4
      <4>1. items[i] = u0.items[i] /\ u0.items[i] \in Item
        BY <2>2, <2>4
      <4> QED
        BY <4>1 DEF Item
    <3>2. /\ u.op = u0.op /\ u.sale = u0.sale /\ u.lines = u0.lines /\ u.next = u0.next
          /\ u.seen = u0.seen /\ u.base = u0.base /\ u.stock = u0.stock /\ u.rows = u0.rows
          /\ u.raised = u0.raised /\ u.resolved = u0.resolved
          /\ u.loaded = u0.loaded /\ u.status = u0.status
      BY <1>1, <2>5 DEF Session
    <3> QED
      BY <2>4, <2>7, <3>1, <3>2 DEF Booked
  <2>9. Whole(line.quantity) \in Nat
    BY <2>2, WholeNat
  <2> HIDE DEF u
  <2>10. Booking(w, u, item.product, "RETURN", Whole(line.quantity))
    <3>1. u.op = "RETURN" /\ k \in DOMAIN u.items /\ u.items[k].product = item.product
      BY <2>1, <2>3, <2>4, <2>7, <2>8 DEF Booked
    <3>2. item.product \in Products
      BY <2>1, <2>2 DEF Item
    <3>3. Meant(line, u0, u, item.product, "RETURN", Whole(line.quantity))
      BY <2>1, <2>3, <2>4, <2>7, <3>1 DEF Meant
    <3> QED
      BY <2>1, <2>7, <2>8, <2>9, <3>1, <3>2, <3>3 DEF Booking, Directed, Kinds, line
  <2> QED
    BY <1>1, <1>2, <2>10
<1>9. CASE Restock(w)
  <2>1. u0.op = "RESTOCK" /\ line.quantity > 0
        /\ MoveLine(w, u0, line.product, "RESTOCK", line.quantity)
    BY <1>9 DEF Restock, AtLine
  <2>2. Booking(w, u0, line.product, "RESTOCK", line.quantity)
    BY <1>1, <1>3, <1>5, <2>1 DEF Booking, Meant, Directed, Kinds
  <2> QED
    BY <1>1, <1>2, <2>2
<1> QED
  BY <1>6, <1>7, <1>8, <1>9 DEF MovesLine

LEMMA MovesLineStep ==
  ASSUME IInv, NEW w \in Workers, NEW u, NEW p, NEW kind, NEW change,
         Booking(w, u, p, kind, change)
  PROVE  /\ UNCHANGED <<db, served>>
         /\ \E v \in Session : /\ Continue(w, v, "lines") /\ PendingOK(v)
                               /\ LineMoved(u, v, p, kind, change)
<1>1. PendingOK(u)
  <2>1. PendingOK(uow[w])
    BY DEF IInv, WorkerOK
  <2> QED
    BY <2>1 DEF Booking, Booked, PendingOK, ChainsOK, MovesOK, Directed
<1> QED
  BY <1>1, MoveLineOK DEF IInv, Booking

LEMMA MovesLineInv == ASSUME IInv, NEW w \in Workers, MovesLine(w) PROVE IInv'
<1>1. /\ uow[w] \in Session /\ phase[w] = "lines" /\ uow[w].next \in DOMAIN uow[w].lines
      /\ uow[w].op \in {"SALE", "VOID", "RETURN", "RESTOCK"}
  BY MovesLineBooks
<1>2. PICK u, p, kind, change : Booking(w, u, p, kind, change)
  BY MovesLineBooks
<1>3. PICK v \in Session : /\ Continue(w, v, "lines") /\ PendingOK(v)
                           /\ LineMoved(u, v, p, kind, change)
  BY <1>2, MovesLineStep
<1>4. CourseOK(uow[w], "lines") /\ CopiesOK(uow[w], "lines") /\ Booked(uow[w], u)
  BY <1>1, <1>2 DEF IInv, WorkerOK, Booking
<1>5. v.next # 1 /\ v.op = uow[w].op /\ v.lines = uow[w].lines
  <2>1. v.next = uow[w].next + 1 /\ uow[w].next \in Nat \ {0}
    BY <1>1, <1>3, <1>4 DEF LineMoved, Booked, Session
  <2> QED
    BY <2>1, <1>3, <1>4 DEF LineMoved, SameRequest, Booked
<1>6. CourseOK(v, "lines")
  BY <1>1, <1>4, <1>5 DEF CourseOK
<1>7. CopiesOK(v, "lines")
  <2> SUFFICES ASSUME v.op \in {"VOID", "RETURN"}
               PROVE  CopiesOK(v, "lines")
    BY DEF CopiesOK
  <2>1. /\ v.items = u.items /\ v.loaded = uow[w].loaded /\ v.sale = uow[w].sale
        /\ DOMAIN u.items = DOMAIN uow[w].items
    BY <1>3, <1>4 DEF LineMoved, SameRequest, Booked
  <2> DEFINE stored == sales[uow[w].sale].items
  <2>2. /\ uow[w].sale \in DOMAIN sales
        /\ DOMAIN uow[w].loaded = DOMAIN stored /\ DOMAIN uow[w].items = DOMAIN stored
        /\ \A k \in DOMAIN uow[w].items :
              /\ uow[w].items[k].product = stored[k].product
              /\ uow[w].items[k].quantity = stored[k].quantity
              /\ uow[w].items[k].returned_qty <= stored[k].quantity
              /\ uow[w].items[k].return_items >= uow[w].loaded[k].return_items
    BY <1>4, <1>5 DEF CopiesOK
  <2>3. \A k \in DOMAIN uow[w].items : uow[w].items[k] \in Item /\ uow[w].loaded[k] \in Item
    <3>1. uow[w].items \in Seq(Item) /\ uow[w].loaded \in Seq(Item)
      BY <1>1 DEF Session
    <3> QED
      BY <2>2, <3>1, LenProperties, ElementOfSeq
  <2> HIDE DEF stored
  <2>4. ASSUME NEW k \in DOMAIN u.items
        PROVE  /\ u.items[k].product = stored[k].product
               /\ u.items[k].quantity = stored[k].quantity
               /\ u.items[k].returned_qty <= u.items[k].quantity
               /\ u.items[k].return_items >= uow[w].loaded[k].return_items
    <3>1. PICK q \in Nat : /\ u.items[k].product = uow[w].items[k].product
                           /\ u.items[k].quantity = uow[w].items[k].quantity
                           /\ u.items[k].returned_qty = uow[w].items[k].returned_qty + q
                           /\ q > 0 => u.items[k].returned_qty <= uow[w].items[k].quantity
                           /\ u.items[k].return_items = uow[w].items[k].return_items + q
      BY <1>4, <2>1 DEF Booked
    <3>2. uow[w].items[k] \in Item /\ uow[w].loaded[k] \in Item
      BY <2>1, <2>3
    <3>3. /\ uow[w].items[k].returned_qty \in Nat /\ uow[w].items[k].return_items \in Nat
          /\ uow[w].loaded[k].return_items \in Nat /\ uow[w].items[k].quantity \in Nat
      BY <3>2 DEF Item
    <3> QED
      BY <2>1, <2>2, <3>1, <3>3
  <2> QED
    BY <2>1, <2>2, <2>4 DEF CopiesOK, stored
<1>8. served' \in 0 .. MaxRequests /\ UNCHANGED db /\ "lines" \in Phases
  BY <1>2, MovesLineStep DEF IInv, TypeOK, Phases
<1> QED
  BY <1>3, <1>6, <1>7, <1>8, GoesOn

-----------------------------------------------------------------------------
\* The steps that store something, and those that give up

\* What adjust does to its session before it writes the stock: v has the movement
\* and the alert it raises or resolves.
Adjusted(u, m, v, p, change) ==
    /\ v \in Session /\ m \in Session /\ p \in Products /\ change \in Int
    /\ WriteStock(v) /\ ChainsOK(v) /\ MovesOK(v) /\ v.rows[p] # <<>>
    /\ v.seen = u.seen /\ v.base = u.base /\ v.stock = m.stock
    /\ m.stock = [u.stock EXCEPT ![p] = u.stock[p] + change]
    /\ m.raised = u.raised /\ m.resolved = u.resolved /\ m.base = u.base
    /\ Triggered(m)[p] \in Seq(BOOLEAN) /\ Alerted(m, v, p, Triggered(m)[p])
    /\ v.rows[p] = <<JournalRow(u, p, "ADJUSTMENT", change)>>
    /\ \A q \in Products \ {p} : v.rows[q] = <<>> /\ v.raised[q] = 0 /\ v.resolved[q] = {}

LEMMA AdjustStep ==
  ASSUME IInv, NEW w \in Workers, Adjust(w)
  PROVE  /\ Close(w) /\ UNCHANGED sales
         /\ uow[w] \in Session /\ NothingPending(uow[w]) /\ phase[w] = "lines"
         /\ uow[w].op \in {"COUNT", "CHANGE"} /\ uow[w].next \in DOMAIN uow[w].lines
         /\ \E v, m, change : Adjusted(uow[w], m, v, CurrentLine(w).product, change)
<1> DEFINE u0     == uow[w]
           line   == CurrentLine(w)
           p      == line.product
           change == IF u0.op = "COUNT" THEN line.quantity - u0.stock[p] ELSE line.quantity
<1>1. /\ TypeOK /\ u0 \in Session /\ WorkerOK(w) /\ phase[w] = "lines"
      /\ u0.op \in {"COUNT", "CHANGE"} /\ u0.next <= Len(u0.lines)
  BY DEF IInv, TypeOK, Adjust, AtLine
<1>2. u0.next \in DOMAIN u0.lines
  <2>1. u0.lines \in Seq(Line) /\ u0.next \in Nat \ {0}
    BY <1>1 DEF Session
  <2> QED
    BY <1>1, <2>1, LenProperties
<1>3. p \in Products /\ line.quantity \in Int
  BY <1>1, <1>2, LineType DEF CurrentLine
<1>4. change \in Int
  BY <1>1, <1>3 DEF Session
<1>5. NothingPending(u0) /\ PendingOK(u0)
  BY <1>1 DEF WorkerOK, CourseOK
<1>6. /\ Close(w) /\ UNCHANGED sales /\ Enough(u0, p, change)
      /\ \E v \in HandleLowStock(Move(u0, p, "ADJUSTMENT", change), p,
                                 Triggered(Move(u0, p, "ADJUSTMENT", change))[p]) :
            WriteStock(v)
  BY DEF Adjust
<1> HIDE DEF change, p, u0, line
<1> DEFINE m == Move(u0, p, "ADJUSTMENT", change)
<1>7. "ADJUSTMENT" \in Kinds
  BY DEF Kinds
<1>8. /\ m \in Session /\ SameRequest(u0, m) /\ m.seen = u0.seen /\ m.base = u0.base
      /\ m.raised = u0.raised /\ m.resolved = u0.resolved
      /\ m.stock = [u0.stock EXCEPT ![p] = u0.stock[p] + change]
      /\ m.rows = [u0.rows EXCEPT ![p] = Append(u0.rows[p],
                                                JournalRow(u0, p, "ADJUSTMENT", change))]
      /\ m.rows[p] # <<>> /\ ChainsOK(m) /\ MovesOK(m)
  <2>1. u0 \in Session /\ p \in Products /\ PendingOK(u0) /\ NothingPending(u0)
        /\ Enough(u0, p, change) /\ m = Move(u0, p, "ADJUSTMENT", change)
    BY <1>1, <1>3, <1>5, <1>6
  <2> HIDE DEF m
  <2> QED
    BY <1>4, <1>7, <2>1, MoveOK
<1> HIDE DEF m
<1>9. PICK v \in HandleLowStock(m, p, Triggered(m)[p]) : WriteStock(v)
  BY <1>6 DEF m
<1>10. Triggered(m)[p] \in Seq(BOOLEAN)
  <2>1. alerts[p] \in Seq(BOOLEAN)
    BY <1>1, <1>3 DEF TypeOK
  <2>2. AfterUpdate(alerts[p], onHand[p], m.stock[p], Threshold[p]) \in Seq(BOOLEAN)
    BY <2>1, AfterUpdateType
  <2> QED
    BY <1>3, <2>1, <2>2 DEF Triggered
<1>11. /\ v \in Session /\ SameRequest(m, v)
       /\ v.seen = m.seen /\ v.base = m.base /\ v.stock = m.stock /\ v.rows = m.rows
       /\ \A q \in Products \ {p} : /\ v.raised[q] = m.raised[q]
                                    /\ v.resolved[q] = m.resolved[q]
       /\ Alerted(m, v, p, Triggered(m)[p])
  BY <1>3, <1>8, <1>9, <1>10, HandleOK
<1>12. ChainsOK(v) /\ MovesOK(v)
  BY <1>8, <1>11 DEF ChainsOK, MovesOK
<1>13. \A q \in Products \ {p} : /\ v.rows[q] = <<>> /\ v.raised[q] = 0 /\ v.resolved[q] = {}
  <2>1. u0.rows \in [Products -> Seq(Row)]
    BY <1>1 DEF Session
  <2>2. \A q \in Products \ {p} : m.rows[q] = u0.rows[q]
    BY <1>8, <2>1
  <2> QED
    BY <1>5, <1>8, <1>11, <2>2 DEF NothingPending
<1>14. v.rows[p] = <<JournalRow(u0, p, "ADJUSTMENT", change)>>
  <2>1. u0.rows \in [Products -> Seq(Row)]
    BY <1>1 DEF Session
  <2>2. u0.rows[p] = <<>>
    BY <1>3, <1>5 DEF NothingPending
  <2>3. m.rows[p] = Append(<<>>, JournalRow(u0, p, "ADJUSTMENT", change))
    BY <1>3, <1>8, <2>1, <2>2
  <2> QED
    BY <1>11, <2>3
<1>15. Adjusted(u0, m, v, p, change)
  BY <1>3, <1>4, <1>8, <1>9, <1>10, <1>11, <1>12, <1>13, <1>14 DEF Adjusted
<1> QED
  BY <1>1, <1>2, <1>5, <1>6, <1>15 DEF u0, p, line

LEMMA AdjustInv == ASSUME IInv, NEW w \in Workers, Adjust(w) PROVE IInv'
<1>1. PICK v \in Session : WriteStock(v) /\ MovesOK(v)
  BY AdjustStep DEF Adjusted
<1>2. Close(w) /\ UNCHANGED sales
  BY AdjustStep
<1>3. StoreOK'
  BY <1>1, <1>2, StockStored DEF StoreOK, IInv, TypeOK, ReturnedWithinSold
<1>4. KeepsSales
  BY <1>2 DEF KeepsSales
<1> QED
  BY <1>2, <1>3, <1>4, Ends

LEMMA CommitRestockInv == ASSUME IInv, NEW w \in Workers, CommitRestock(w) PROVE IInv'
<1>1. uow[w] \in Session /\ MovesOK(uow[w]) /\ WriteStock(uow[w]) /\ Close(w) /\ UNCHANGED sales
  BY DEF CommitRestock, IInv, TypeOK, WorkerOK, PendingOK
<1>2. StoreOK'
  BY <1>1, StockStored DEF StoreOK, IInv, TypeOK, ReturnedWithinSold
<1>3. KeepsSales
  BY <1>1 DEF KeepsSales
<1> QED
  BY <1>1, <1>2, <1>3, Ends

\* The sale that CommitSale inserts.
NewSale(u) == [status       |-> "COMPLETED",
               items        |-> [k \in DOMAIN u.lines |->
                                    [product      |-> u.lines[k].product,
                                     quantity     |-> u.lines[k].quantity,
                                     returned_qty |-> 0,
                                     is_returned  |-> FALSE,
                                     return_items |-> 0]],
               total_amount |-> u.amount + u.adjustment]

LEMMA NewSaleType ==
  ASSUME NEW u \in Session, Counted(u.lines)
  PROVE  /\ NewSale(u) \in Sale /\ DOMAIN NewSale(u).items = DOMAIN u.lines
         /\ \A k \in DOMAIN u.lines :
               /\ NewSale(u).items[k].product = u.lines[k].product
               /\ NewSale(u).items[k].returned_qty = 0
               /\ NewSale(u).items[k].return_items = 0
               /\ NewSale(u).items[k].quantity \in Nat
<1> DEFINE items == NewSale(u).items
<1>1. u.lines \in Seq(Line) /\ DOMAIN u.lines = 1 .. Len(u.lines) /\ Len(u.lines) \in Nat
  BY LenProperties DEF Session
<1>2. DOMAIN items = DOMAIN u.lines
  BY DEF NewSale
<1>3. ASSUME NEW k \in DOMAIN u.lines
      PROVE  /\ items[k] \in Item
             /\ items[k].product = u.lines[k].product
             /\ items[k].returned_qty = 0 /\ items[k].return_items = 0
             /\ items[k].quantity \in Nat
  <2>1. items[k] = [product |-> u.lines[k].product, quantity |-> u.lines[k].quantity,
                    returned_qty |-> 0, is_returned |-> FALSE, return_items |-> 0]
    BY DEF NewSale
  <2>2. u.lines[k].product \in Products /\ u.lines[k].quantity \in Nat
    BY LineType DEF Counted
  <2> HIDE DEF items
  <2>3. items[k] \in Item
    BY <2>1, <2>2 DEF Item
  <2> QED
    BY <2>1, <2>2, <2>3
<1>4. items \in Seq(Item)
  <2>1. items = [k \in DOMAIN u.lines |-> items[k]]
    BY DEF NewSale
  <2> HIDE DEF items
  <2>2. items \in [1 .. Len(u.lines) -> Item]
    BY <1>1, <1>3, <2>1
  <2> QED
    BY <1>1, <2>2, SeqDef
<1>5. NewSale(u) = [status |-> "COMPLETED", items |-> items,
                    total_amount |-> u.amount + u.adjustment]
  BY DEF NewSale
<1>6. u.amount + u.adjustment \in Int
  BY DEF Session
<1> HIDE DEF items
<1>7. NewSale(u) \in Sale
  BY <1>4, <1>5, <1>6 DEF Sale, Status
<1> QED
  BY <1>2, <1>3, <1>7 DEF items

LEMMA CommitSaleStep ==
  ASSUME IInv, NEW w \in Workers, CommitSale(w)
  PROVE  /\ uow[w] \in Session /\ Counted(uow[w].lines) /\ phase[w] = "lines"
         /\ uow[w].op = "SALE" /\ uow[w].next > Len(uow[w].lines)
         /\ WriteStock(uow[w]) /\ Close(w)
         /\ sales' \in Seq(Sale) /\ DOMAIN sales = 1 .. Len(sales)
         /\ Len(sales) \in Nat /\ DOMAIN sales' = 1 .. Len(sales) + 1
         /\ sales'[Len(sales) + 1] = NewSale(uow[w])
         /\ \A s \in DOMAIN sales : sales'[s] = sales[s]
<1>1. /\ uow[w] \in Session /\ uow[w].op = "SALE" /\ phase[w] = "lines"
      /\ uow[w].next > Len(uow[w].lines) /\ sales \in Seq(Sale)
      /\ WriteStock(uow[w]) /\ Close(w) /\ sales' = Append(sales, NewSale(uow[w]))
  BY DEF CommitSale, LinesDone, IInv, TypeOK, NewSale
<1>2. Counted(uow[w].lines)
  BY <1>1 DEF IInv, WorkerOK, CourseOK
<1>3. NewSale(uow[w]) \in Sale
  BY <1>1, <1>2, NewSaleType
<1> QED
  BY <1>1, <1>2, <1>3, AppendProperties, LenProperties

LEMMA CommitSaleInv == ASSUME IInv, NEW w \in Workers, CommitSale(w) PROVE IInv'
<1>1. /\ uow[w] \in Session /\ Counted(uow[w].lines)
      /\ WriteStock(uow[w]) /\ Close(w)
      /\ sales' \in Seq(Sale) /\ DOMAIN sales = 1 .. Len(sales)
      /\ Len(sales) \in Nat /\ DOMAIN sales' = 1 .. Len(sales) + 1
      /\ sales'[Len(sales) + 1] = NewSale(uow[w])
      /\ \A s \in DOMAIN sales : sales'[s] = sales[s]
  BY CommitSaleStep
<1>2. ReturnedWithinSold'
  <2> SUFFICES ASSUME NEW s \in DOMAIN sales', NEW k \in DOMAIN sales'[s].items
               PROVE  sales'[s].items[k].returned_qty <= sales'[s].items[k].quantity
    BY DEF ReturnedWithinSold
  <2>1. CASE s \in DOMAIN sales
    BY <1>1, <2>1 DEF IInv, ReturnedWithinSold
  <2>2. CASE s = Len(sales) + 1
    <3>1. k \in DOMAIN uow[w].lines /\ sales'[s].items[k] = NewSale(uow[w]).items[k]
      BY <1>1, <2>2, NewSaleType
    <3>2. /\ NewSale(uow[w]).items[k].returned_qty = 0
          /\ NewSale(uow[w]).items[k].quantity \in Nat
      BY <1>1, <3>1, NewSaleType
    <3> QED
      BY <3>1, <3>2
  <2> QED
    BY <1>1, <2>1, <2>2
<1>3. StoreOK'
  <2>1. MovesOK(uow[w])
    BY DEF IInv, WorkerOK, PendingOK
  <2> QED
    BY <1>1, <1>2, <2>1, StockStored DEF StoreOK
<1>4. KeepsSales
  BY <1>1 DEF KeepsSales
<1> QED
  BY <1>1, <1>3, <1>4, Ends

LEMMA CommitVoidStep ==
  ASSUME IInv, NEW w \in Workers, CommitVoid(w)
  PROVE  /\ uow[w] \in Session /\ WriteStock(uow[w]) /\ Close(w) /\ phase[w] = "lines"
         /\ uow[w].op = "VOID" /\ uow[w].sale \in DOMAIN sales
         /\ sales' \in Seq(Sale) /\ DOMAIN sales' = DOMAIN sales
         /\ \A s \in DOMAIN sales : /\ sales'[s].items = sales[s].items
                                    /\ s # uow[w].sale => sales'[s] = sales[s]
<1> DEFINE s0  == uow[w].sale
           new == [sales[s0] EXCEPT !.status = "VOIDED"]
<1>1. /\ uow[w] \in Session /\ uow[w].op = "VOID" /\ s0 \in DOMAIN sales /\ TypeOK
      /\ WriteStock(uow[w]) /\ Close(w) /\ phase[w] = "lines"
      /\ sales' = [sales EXCEPT ![s0].status = "VOIDED"]
  BY DEF CommitVoid, LinesDone, IInv, TypeOK, WorkerOK, CopiesOK
<1>2. sales \in Seq(Sale) /\ sales[s0] \in Sale
  BY <1>1, StoredSale DEF TypeOK
<1>3. new \in Sale /\ new.items = sales[s0].items
  BY <1>2 DEF Sale, Status
<1>4. sales' = [sales EXCEPT ![s0] = new]
  BY <1>1
<1> HIDE DEF new, s0
<1>5. sales' \in Seq(Sale) /\ DOMAIN sales' = DOMAIN sales
      /\ \A s \in DOMAIN sales : sales'[s] = IF s = s0 THEN new ELSE sales[s]
  BY <1>1, <1>2, <1>3, <1>4, ExceptSeq
<1> QED
  BY <1>1, <1>3, <1>5 DEF s0

LEMMA CommitVoidInv == ASSUME IInv, NEW w \in Workers, CommitVoid(w) PROVE IInv'
<1>1. /\ uow[w] \in Session /\ WriteStock(uow[w]) /\ Close(w)
      /\ sales' \in Seq(Sale) /\ DOMAIN sales' = DOMAIN sales
      /\ \A s \in DOMAIN sales : sales'[s].items = sales[s].items
  BY CommitVoidStep
<1>2. KeepsSales
  BY <1>1 DEF KeepsSales
<1>3. ReturnedWithinSold'
  BY <1>1 DEF IInv, ReturnedWithinSold
<1>4. MovesOK(uow[w])
  BY DEF IInv, WorkerOK, PendingOK
<1>5. StoreOK'
  BY <1>1, <1>3, <1>4, StockStored DEF StoreOK
<1> QED
  BY <1>1, <1>2, <1>5, Ends

\* An item as a return writes it.
LEMMA WriteItemOK ==
  ASSUME NEW item \in Item, NEW old \in Item, NEW copy \in Item,
         copy.return_items >= old.return_items, copy.quantity = item.quantity,
         copy.returned_qty <= copy.quantity, item.returned_qty <= item.quantity,
         NEW new, new = WriteItem(item, old, copy)
  PROVE  /\ new \in Item /\ new.product = item.product /\ new.quantity = item.quantity
         /\ new.returned_qty <= new.quantity
         /\ new.returned_qty = IF copy.returned_qty # old.returned_qty THEN copy.returned_qty
                               ELSE item.returned_qty
         /\ new.return_items = item.return_items + (copy.return_items - old.return_items)
<1> DEFINE flag == IF copy.is_returned # old.is_returned THEN copy.is_returned
                   ELSE item.is_returned
           qty  == IF copy.returned_qty # old.returned_qty THEN copy.returned_qty
                   ELSE item.returned_qty
           rows == item.return_items + (copy.return_items - old.return_items)
<1>1. /\ item.is_returned \in BOOLEAN /\ copy.is_returned \in BOOLEAN
      /\ item.returned_qty \in Nat /\ copy.returned_qty \in Nat /\ old.returned_qty \in Nat
      /\ item.return_items \in Nat /\ copy.return_items \in Nat /\ old.return_items \in Nat
      /\ item.quantity \in Nat
  BY DEF Item
<1>2. flag \in BOOLEAN
  BY <1>1, Zenon
<1>3. qty \in Nat /\ qty <= item.quantity /\ rows \in Nat
  BY <1>1
<1>4. new = [item EXCEPT !.returned_qty = qty, !.is_returned = flag, !.return_items = rows]
  BY DEF WriteItem, Item
<1> HIDE DEF flag
<1>5. new \in Item
  <2> HIDE DEF qty, rows
  <2> QED
    BY <1>2, <1>3, <1>4 DEF Item
<1>6. /\ new.product = item.product /\ new.quantity = item.quantity
      /\ new.returned_qty = qty /\ new.return_items = rows
  BY <1>4 DEF Item
<1> QED
  BY <1>3, <1>5, <1>6

LEMMA CommitReturnStep ==
  ASSUME IInv, NEW w \in Workers, CommitReturn(w)
  PROVE  /\ uow[w] \in Session /\ WriteStock(uow[w]) /\ Close(w) /\ phase[w] = "lines"
         /\ uow[w].op = "RETURN" /\ uow[w].sale \in DOMAIN sales
         /\ sales' \in Seq(Sale) /\ DOMAIN sales' = DOMAIN sales
         /\ \A s \in DOMAIN sales : s # uow[w].sale => sales'[s] = sales[s]
         /\ LET old == sales[uow[w].sale].items
                new == sales'[uow[w].sale].items IN
            /\ DOMAIN new = DOMAIN old
            /\ \A k \in DOMAIN old :
                  /\ old[k] \in Item /\ uow[w].loaded[k] \in Item /\ uow[w].items[k] \in Item
                  /\ k \in DOMAIN uow[w].items
                  /\ new[k].product = old[k].product /\ new[k].quantity = old[k].quantity
                  /\ new[k].returned_qty <= new[k].quantity
                  /\ new[k].returned_qty =
                        IF uow[w].items[k].returned_qty # uow[w].loaded[k].returned_qty
                        THEN uow[w].items[k].returned_qty ELSE old[k].returned_qty
                  /\ new[k].return_items = old[k].return_items +
                        (uow[w].items[k].return_items - uow[w].loaded[k].return_items)
<1> DEFINE u    == uow[w]
           s0   == u.sale
           old  == sales[s0].items
           new  == [k \in DOMAIN old |-> WriteItem(old[k], u.loaded[k], u.items[k])]
           mark == IF Refunded(u) THEN "REFUNDED" ELSE sales[s0].status
           sale == [sales[s0] EXCEPT !.items = new, !.status = mark]
<1>1. /\ u \in Session /\ u.op = "RETURN" /\ phase[w] = "lines" /\ TypeOK
      /\ WriteStock(u) /\ Close(w) /\ ReturnedWithinSold /\ CopiesOK(u, "lines")
      /\ sales' = [sales EXCEPT ![s0] =
            [sales[s0] EXCEPT !.items = new, !.status = IF Refunded(u) THEN "REFUNDED" ELSE @]]
  BY DEF CommitReturn, LinesDone, IInv, TypeOK, WorkerOK
<1>2. /\ s0 \in DOMAIN sales /\ DOMAIN u.loaded = DOMAIN old /\ DOMAIN u.items = DOMAIN old
      /\ \A k \in DOMAIN u.items :
            /\ u.items[k].quantity = old[k].quantity
            /\ u.items[k].returned_qty <= u.items[k].quantity
            /\ u.items[k].return_items >= u.loaded[k].return_items
  BY <1>1 DEF CopiesOK
<1>3. /\ sales \in Seq(Sale) /\ sales[s0] \in Sale /\ old \in Seq(Item)
      /\ DOMAIN old = 1 .. Len(old) /\ Len(old) \in Nat
      /\ \A k \in DOMAIN old : old[k] \in Item
  BY <1>1, <1>2, StoredSale, LenProperties DEF TypeOK
<1>4. \A k \in DOMAIN old : u.loaded[k] \in Item /\ u.items[k] \in Item
  <2>1. u.loaded \in Seq(Item) /\ u.items \in Seq(Item)
    BY <1>1 DEF Session
  <2> QED
    BY <1>2, <2>1, LenProperties, ElementOfSeq
<1>5. \A k \in DOMAIN old : old[k].returned_qty <= old[k].quantity
  BY <1>1, <1>2 DEF ReturnedWithinSold
<1> HIDE DEF old
<1>6. ASSUME NEW k \in DOMAIN old
      PROVE  /\ new[k] \in Item
             /\ new[k].product = old[k].product /\ new[k].quantity = old[k].quantity
             /\ new[k].returned_qty <= new[k].quantity
             /\ new[k].returned_qty = IF u.items[k].returned_qty # u.loaded[k].returned_qty
                                      THEN u.items[k].returned_qty ELSE old[k].returned_qty
             /\ new[k].return_items = old[k].return_items +
                                      (u.items[k].return_items - u.loaded[k].return_items)
  <2>1. new[k] = WriteItem(old[k], u.loaded[k], u.items[k])
    OBVIOUS
  <2> HIDE DEF new
  <2> QED
    BY <1>2, <1>3, <1>4, <1>5, <2>1, WriteItemOK
<1>7. new \in Seq(Item) /\ DOMAIN new = DOMAIN old
  <2>1. new \in [DOMAIN old -> Item]
    BY <1>6
  <2> HIDE DEF new
  <2> QED
    BY <1>3, <2>1, SeqDef
<1>8. mark \in Status /\ sale = [sales[s0] EXCEPT !.items = new,
                                     !.status = IF Refunded(u) THEN "REFUNDED" ELSE @]
  BY <1>3 DEF Sale, Status
<1> HIDE DEF new, mark
<1>9. sale \in Sale /\ sale.items = new
  BY <1>3, <1>7, <1>8 DEF Sale
<1>10. sales' = [sales EXCEPT ![s0] = sale]
  BY <1>1, <1>8
<1> HIDE DEF sale, s0
<1>11. sales' \in Seq(Sale) /\ DOMAIN sales' = DOMAIN sales
       /\ \A s \in DOMAIN sales : sales'[s] = IF s = s0 THEN sale ELSE sales[s]
  BY <1>2, <1>3, <1>9, <1>10, ExceptSeq
<1>12. sales'[s0].items = new
  BY <1>2, <1>9, <1>11
<1> HIDE DEF u
<1> QED
  BY <1>1, <1>2, <1>3, <1>4, <1>6, <1>7, <1>11, <1>12 DEF u, s0, old

LEMMA CommitReturnInv == ASSUME IInv, NEW w \in Workers, CommitReturn(w) PROVE IInv'
<1> DEFINE old == sales[uow[w].sale].items
           new == sales'[uow[w].sale].items
<1>1. /\ uow[w] \in Session /\ WriteStock(uow[w]) /\ Close(w)
      /\ uow[w].sale \in DOMAIN sales
      /\ sales' \in Seq(Sale) /\ DOMAIN sales' = DOMAIN sales
      /\ \A s \in DOMAIN sales : s # uow[w].sale => sales'[s] = sales[s]
      /\ DOMAIN new = DOMAIN old
      /\ \A k \in DOMAIN old :
            /\ new[k].product = old[k].product /\ new[k].quantity = old[k].quantity
            /\ new[k].returned_qty <= new[k].quantity
  BY CommitReturnStep
<1>2. KeepsSales
  BY <1>1 DEF KeepsSales
<1>3. ReturnedWithinSold'
  BY <1>1 DEF IInv, ReturnedWithinSold
<1>4. MovesOK(uow[w])
  BY DEF IInv, WorkerOK, PendingOK
<1>5. StoreOK'
  BY <1>1, <1>3, <1>4, StockStored DEF StoreOK
<1> QED
  BY <1>1, <1>2, <1>5, Ends

LEMMA RollbackInv == ASSUME IInv, NEW w \in Workers, Rollback(w) PROVE IInv'
<1>1. Close(w) /\ UNCHANGED db
  BY DEF Rollback
<1>2. StoreOK' /\ KeepsSales
  BY <1>1 DEF StoreOK, KeepsSales, IInv, TypeOK, ReturnedWithinSold, db
<1> QED
  BY <1>1, <1>2, Ends

-----------------------------------------------------------------------------
\* Any number of workers

LEMMA Stutters == ASSUME IInv, UNCHANGED vars PROVE IInv'
<1>1. TypeOK' /\ ReturnedWithinSold'
  BY DEF IInv, TypeOK, ReturnedWithinSold, vars
<1>2. \A w \in Workers : WorkerOK(w)'
  BY DEF IInv, WorkerOK, PendingOK, ChainsOK, MovesOK, Directed, CourseOK, NothingPending,
         Counted, CopiesOK, vars
<1> QED
  BY <1>1, <1>2 DEF IInv, vars

\* Every step keeps the invariant.
LEMMA InvStep == IInv /\ [Next]_vars => IInv'
<1> SUFFICES ASSUME IInv, [Next]_vars PROVE IInv'
  OBVIOUS
<1>1. ASSUME NEW w \in Workers,
             \/ Receive(w) \/ LoadProduct(w) \/ LoadSale(w) \/ LoadItems(w)
             \/ MovesLine(w) \/ Adjust(w)
             \/ CommitRestock(w) \/ CommitSale(w) \/ CommitVoid(w) \/ CommitReturn(w)
             \/ Rollback(w)
      PROVE  IInv'
  BY <1>1, ReceiveInv, LoadProductInv, LoadSaleInv, LoadItemsInv, MovesLineInv, AdjustInv,
     CommitRestockInv, CommitSaleInv, CommitVoidInv, CommitReturnInv, RollbackInv
<1>2. CASE Quiet \/ UNCHANGED vars
  BY <1>2, Stutters DEF Quiet
<1> QED
  BY <1>1, <1>2 DEF Next, MovesLine

\* However requests interleave, sessions have read copies that fit together with
\* the rows they will write, and the stored rows stay as IInv has them.
THEOREM InvariantHolds == Spec => []IInv
  BY InvInit, InvStep, PTL DEF Spec

\* The stored rows and the sessions have their types; in particular no stored or
\* pending quantity on hand is ever negative (deduct_stock, adjust).
THEOREM TypesHold == Spec => []TypeOK
<1>1. IInv => TypeOK
  BY DEF IInv
<1> QED
  BY <1>1, InvariantHolds, PTL

\* However returns race, no sale item is booked as returned beyond what was sold
\* (returns_service.process checks every copy it writes).
THEOREM ReturnsAreWithinSold == Spec => []ReturnedWithinSold
<1>1. IInv => ReturnedWithinSold
  BY DEF IInv
<1> QED
  BY <1>1, InvariantHolds, PTL

\* However requests race, the newest journal row that moved anything shows the
\* quantity on hand: whoever commits last has written both.
THEOREM LastMoveShowsStock == Spec => []LastMoveIsStock
<1>1. ASSUME IInv PROVE LastMoveIsStock
  <2> SUFFICES ASSUME NEW p \in Products, {i \in DOMAIN ledger[p] : ledger[p][i].change # 0} # {}
               PROVE  ledger[p][Max({i \in DOMAIN ledger[p] : ledger[p][i].change # 0})].after
                         = onHand[p]
    BY DEF LastMoveIsStock
  <2> DEFINE moves == {i \in DOMAIN ledger[p] : ledger[p][i].change # 0}
  <2>1. DOMAIN ledger[p] \subseteq Nat
    BY <1>1, LenProperties DEF IInv, TypeOK
  <2>2. LastMove(ledger[p], onHand[p])
    BY <1>1 DEF IInv, NoMove
  <2>3. PICK i \in moves : /\ ledger[p][i].after = onHand[p]
                           /\ \A j \in moves : ~(j > i)
    BY <2>2 DEF LastMove
  <2>4. \A j \in moves : j <= i
    BY <2>1, <2>3
  <2>5. \A m \in moves : (\A j \in moves : m >= j) => m = i
    BY <2>1, <2>3, <2>4
  <2>6. Max(moves) = i
    BY <2>4, <2>5 DEF Max
  <2> QED
    BY <2>3, <2>6
<1> QED
  BY <1>1, InvariantHolds, PTL

-----------------------------------------------------------------------------
\* One worker: its copies are never out of date

OneWorker == \A v, w \in Workers : v = w

LEMMA SerialGoesOn ==
  ASSUME OneWorker, SerialInv, IInv', NEW w \in Workers, NEW u, NEW ph,
         Continue(w, u, ph), UNCHANGED db, ReadOK(u, ph), FreshOK(u, ph)
  PROVE  SerialInv'
<1>1. uow'[w] = u /\ phase'[w] = ph
  BY DEF Continue, SerialInv, IInv, TypeOK
<1>2. ReadOK(uow[w], phase[w])' /\ FreshOK(uow[w], phase[w])'
  BY <1>1 DEF ReadOK, FreshOK, db
<1>3. ReturnsAddUp'
  BY DEF SerialInv, ReturnsAddUp, db
<1> QED
  BY <1>2, <1>3 DEF SerialInv, OneWorker

LEMMA SerialEnds ==
  ASSUME OneWorker, SerialInv, IInv', NEW w \in Workers, Close(w), ReturnsAddUp'
  PROVE  SerialInv'
<1>1. uow'[w] = NoSession /\ phase'[w] = "idle"
  BY DEF Close, Continue, SerialInv, IInv, TypeOK
<1>2. NoSession.seen = {} /\ \A p \in Products : NoSession.rows[p] = <<>>
  BY DEF NoSession, NewSession
<1>3. ReadOK(uow[w], phase[w])' /\ FreshOK(uow[w], phase[w])'
  BY <1>1, <1>2 DEF ReadOK, FreshOK
<1> QED
  BY <1>3 DEF SerialInv, OneWorker

\* With one worker, nothing is read or pending initially.
LEMMA SerialInit == Init => SerialInv
<1> SUFFICES ASSUME Init PROVE SerialInv
  OBVIOUS
<1>1. ReturnsAddUp
  BY DEF Init, ReturnsAddUp
<1>2. NoSession.seen = {} /\ \A p \in Products : NoSession.rows[p] = <<>>
  BY DEF NoSession, NewSession
<1>3. \A w \in Workers : ReadOK(uow[w], phase[w]) /\ FreshOK(uow[w], phase[w])
  BY <1>2 DEF Init, ReadOK, FreshOK
<1> QED
  BY <1>1, <1>3, InvInit DEF SerialInv

LEMMA ReceiveSerial ==
  ASSUME OneWorker, SerialInv, NEW w \in Workers, Receive(w) PROVE SerialInv'
<1>1. PICK r \in Requests : Continue(w, NewSession(r), FirstPhase(r))
  BY DEF Receive, FirstPhase
<1>2. IInv' /\ UNCHANGED db
  BY ReceiveInv DEF SerialInv, Receive
<1>3. /\ NewSession(r).seen = {} /\ NewSession(r).next = 1
      /\ \A p \in Products : NewSession(r).rows[p] = <<>>
  BY DEF NewSession
<1>4. FirstPhase(r) \in {"sale", "products"}
  BY DEF FirstPhase
<1>5. ReadOK(NewSession(r), FirstPhase(r)) /\ FreshOK(NewSession(r), FirstPhase(r))
  BY <1>3, <1>4 DEF ReadOK, FreshOK
<1> QED
  BY <1>1, <1>2, <1>5, SerialGoesOn

LEMMA LoadProductSerial ==
  ASSUME OneWorker, SerialInv, NEW w \in Workers, LoadProduct(w) PROVE SerialInv'
<1> DEFINE u == uow[w]
           p == CurrentLine(w).product
<1>1. IInv /\ IInv'
  BY LoadProductInv DEF SerialInv
<1>2. PICK v \in Session, ph \in {"products", "lines"} :
              /\ Continue(w, v, ph) /\ SameRequest(u, v) /\ v.rows = u.rows
              /\ v.seen = u.seen \cup {p}
              /\ \A q \in Products : v.base[q] = IF q \in v.seen \ u.seen THEN onHand[q]
                                                 ELSE u.base[q]
              /\ IF ph = "products" THEN u.next < Len(u.lines) /\ v.next = u.next + 1
                 ELSE u.next = Len(u.lines) /\ v.next = 1
  BY <1>1, LoadProductStep
<1>3. /\ u \in Session /\ UNCHANGED db /\ p \in Products
      /\ DOMAIN u.lines = 1 .. Len(u.lines) /\ Len(u.lines) \in Nat
      /\ u.next \in DOMAIN u.lines
  BY <1>1, LoadProductStep
<1>4. phase[w] = "products" /\ ReadOK(u, "products") /\ u.op \notin {"VOID", "RETURN"}
  BY <1>1 DEF LoadProduct, SerialInv, IInv, WorkerOK, CourseOK
<1>5. \A k \in 1 .. u.next : u.lines[k].product \in v.seen
  <2>1. \A k \in 1 .. u.next - 1 : u.lines[k].product \in u.seen
    BY <1>4 DEF ReadOK
  <2>2. u.lines[u.next].product = p
    BY DEF CurrentLine
  <2>3. \A k \in 1 .. u.next : k \in 1 .. u.next - 1 \/ k = u.next
    BY <1>3
  <2> QED
    BY <1>2, <2>1, <2>2, <2>3
<1>6. v.lines = u.lines /\ v.op = u.op
  BY <1>2 DEF SameRequest
<1>7. /\ \A q \in v.seen : v.base[q] = onHand[q]
      /\ \A q \in Products \ v.seen : v.rows[q] = <<>>
  <2>1. u.seen \subseteq Products
    BY <1>3 DEF Session
  <2> QED
    BY <1>2, <1>3, <1>4, <2>1 DEF ReadOK
<1> HIDE DEF u, p
<1>8. ReadOK(v, ph)
  BY <1>2, <1>3, <1>4, <1>5, <1>6, <1>7 DEF ReadOK
<1>9. FreshOK(v, ph)
  BY <1>4, <1>6 DEF FreshOK
<1> QED
  BY <1>1, <1>2, <1>3, <1>8, <1>9, SerialGoesOn

LEMMA LoadSaleSerial ==
  ASSUME OneWorker, SerialInv, NEW w \in Workers, LoadSale(w) PROVE SerialInv'
<1>1. IInv /\ IInv'
  BY LoadSaleInv DEF SerialInv
<1>2. PICK v \in Session :
              /\ Continue(w, v, "items") /\ v.sale = uow[w].sale
              /\ v.seen = uow[w].seen /\ v.base = uow[w].base /\ v.rows = uow[w].rows
              /\ v.status = sales[uow[w].sale].status
  BY <1>1, LoadSaleStep
<1>3. UNCHANGED db
  BY <1>1, LoadSaleStep
<1>4. ReadOK(v, "items") /\ FreshOK(v, "items")
  BY <1>2 DEF SerialInv, ReadOK, FreshOK
<1> QED
  BY <1>1, <1>2, <1>3, <1>4, SerialGoesOn

LEMMA LoadItemsSerial ==
  ASSUME OneWorker, SerialInv, NEW w \in Workers, LoadItems(w) PROVE SerialInv'
<1> DEFINE u      == uow[w]
           stored == sales[u.sale].items
           ps     == {stored[k].product : k \in DOMAIN stored}
<1>1. IInv /\ IInv'
  BY LoadItemsInv DEF SerialInv
<1>2. /\ UNCHANGED db /\ u \in Session /\ phase[w] = "items"
      /\ u.op \in {"VOID", "RETURN"} /\ u.sale \in DOMAIN sales /\ u.status = "COMPLETED"
  BY <1>1, LoadItemsStep
<1>3. PICK v \in Session :
              /\ Continue(w, v, "lines")
              /\ v.op = u.op /\ v.sale = u.sale /\ v.rows = u.rows /\ v.status = u.status
              /\ v.loaded = stored /\ v.items = stored
              /\ v.op = "VOID" => /\ DOMAIN v.lines = DOMAIN stored
                                  /\ \A k \in DOMAIN stored :
                                        /\ v.lines[k].product = stored[k].product
                                        /\ v.lines[k].quantity = stored[k].quantity
              /\ v.seen = u.seen \cup ps
              /\ \A p \in Products : v.base[p] = IF p \in v.seen \ u.seen THEN onHand[p]
                                                 ELSE u.base[p]
  BY <1>1, LoadItemsStep
<1>4. ReadOK(u, "items") /\ FreshOK(u, "items")
  BY <1>2 DEF SerialInv
<1>5. \A k \in DOMAIN stored : stored[k].product \in v.seen
  BY <1>3
<1>6. u.seen \subseteq Products /\ v.seen \subseteq Products
  BY <1>2 DEF Session
<1>7. \A k \in DOMAIN stored : stored[k].return_items = stored[k].returned_qty
  BY <1>2 DEF SerialInv, ReturnsAddUp
<1> HIDE DEF u, stored, ps
<1>8. ReadOK(v, "lines")
  BY <1>2, <1>3, <1>4, <1>5, <1>6 DEF ReadOK
<1>9. FreshOK(v, "lines")
  <2>1. sales[v.sale].status = v.status
    BY <1>2, <1>3, <1>4 DEF FreshOK
  <2> QED
    BY <1>2, <1>3, <1>7, <2>1 DEF FreshOK, stored
<1> QED
  BY <1>1, <1>2, <1>3, <1>8, <1>9, SerialGoesOn

\* What a session moves, it has read.
LEMMA MovedIsRead ==
  ASSUME SerialInv, NEW w \in Workers, MovesLine(w), NEW u, NEW p, NEW kind, NEW change,
         Booking(w, u, p, kind, change)
  PROVE  p \in uow[w].seen
<1>1. phase[w] = "lines" /\ uow[w].next \in DOMAIN uow[w].lines /\ ReadOK(uow[w], "lines")
  BY MovesLineBooks DEF SerialInv
<1>2. u.op = uow[w].op /\ Booked(uow[w], u)
  BY DEF Booking, Booked
<1>3. CASE u.op = "RETURN"
  <2>1. PICK k \in DOMAIN u.items : p = u.items[k].product
    BY <1>3 DEF Booking
  <2>2. k \in DOMAIN uow[w].items /\ uow[w].items[k].product = p
    BY <1>2, <2>1 DEF Booked
  <2> QED
    BY <1>1, <1>2, <1>3, <2>2 DEF ReadOK
<1>4. CASE u.op # "RETURN"
  BY <1>1, <1>2, <1>4 DEF Booking, ReadOK, CurrentLine
<1> QED
  BY <1>3, <1>4

LEMMA MovesLineSerial ==
  ASSUME OneWorker, SerialInv, NEW w \in Workers, MovesLine(w) PROVE SerialInv'
<1>1. IInv /\ IInv'
  BY MovesLineInv DEF SerialInv
<1>2. uow[w] \in Session /\ phase[w] = "lines"
  BY <1>1, MovesLineBooks
<1>3. PICK u, p, kind, change : Booking(w, u, p, kind, change)
  BY <1>1, MovesLineBooks
<1>4. PICK v \in Session : /\ Continue(w, v, "lines") /\ PendingOK(v)
                           /\ LineMoved(u, v, p, kind, change)
  BY <1>1, <1>3, MovesLineStep
<1>5. UNCHANGED db
  BY <1>1, <1>3, MovesLineStep
<1>6. ReadOK(uow[w], "lines") /\ FreshOK(uow[w], "lines") /\ Booked(uow[w], u)
  BY <1>2, <1>3 DEF SerialInv, Booking
<1>7. p \in uow[w].seen
  BY <1>3, MovedIsRead
<1>8. /\ v.op = uow[w].op /\ v.sale = uow[w].sale /\ v.lines = uow[w].lines
      /\ v.seen = uow[w].seen /\ v.base = uow[w].base
      /\ v.loaded = uow[w].loaded /\ v.status = uow[w].status /\ v.items = u.items
      /\ DOMAIN v.items = DOMAIN uow[w].items
      /\ \A q \in Products \ {p} : v.rows[q] = uow[w].rows[q]
  BY <1>4, <1>6 DEF LineMoved, SameRequest, Booked
<1>9. ASSUME NEW k \in DOMAIN v.items
      PROVE  /\ v.items[k].product = uow[w].items[k].product
             /\ uow[w].items[k].return_items = uow[w].items[k].returned_qty =>
                   v.items[k].return_items = v.items[k].returned_qty
  BY <1>6, <1>8 DEF Booked
<1>10. ReadOK(v, "lines")
  BY <1>6, <1>7, <1>8, <1>9 DEF ReadOK
<1>11. FreshOK(v, "lines")
  BY <1>6, <1>8, <1>9 DEF FreshOK
<1> QED
  BY <1>1, <1>4, <1>5, <1>10, <1>11, SerialGoesOn

LEMMA CommitReturnAddsUp ==
  ASSUME SerialInv, NEW w \in Workers, CommitReturn(w)
  PROVE  ReturnsAddUp' /\ sales[uow[w].sale].status = "COMPLETED"
<1> DEFINE u   == uow[w]
           old == sales[u.sale].items
           new == sales'[u.sale].items
<1>1. IInv
  BY DEF SerialInv
<1>2. /\ u.op = "RETURN" /\ phase[w] = "lines" /\ u.sale \in DOMAIN sales
      /\ DOMAIN sales' = DOMAIN sales
      /\ \A s \in DOMAIN sales : s # u.sale => sales'[s] = sales[s]
      /\ DOMAIN new = DOMAIN old
      /\ \A k \in DOMAIN old :
            /\ old[k] \in Item /\ u.items[k] \in Item /\ k \in DOMAIN u.items
            /\ new[k].returned_qty =
                  IF u.items[k].returned_qty # u.loaded[k].returned_qty
                  THEN u.items[k].returned_qty ELSE old[k].returned_qty
            /\ new[k].return_items = old[k].return_items +
                  (u.items[k].return_items - u.loaded[k].return_items)
  BY <1>1, CommitReturnStep
<1>3. FreshOK(u, "lines")
  BY <1>2 DEF SerialInv
<1>4. /\ u.loaded = old /\ sales[u.sale].status = "COMPLETED"
      /\ \A k \in DOMAIN u.items : u.items[k].return_items = u.items[k].returned_qty
  BY <1>2, <1>3 DEF FreshOK
<1> HIDE DEF u, old, new
<1>5. \A k \in DOMAIN new : new[k].return_items = new[k].returned_qty
  <2> SUFFICES ASSUME NEW k \in DOMAIN new
               PROVE  new[k].return_items = new[k].returned_qty
    OBVIOUS
  <2>1. old[k] \in Item /\ u.items[k] \in Item
    BY <1>2
  <2>2. old[k].return_items \in Nat /\ u.items[k].return_items \in Nat
    BY <2>1 DEF Item
  <2>3. new[k].returned_qty = u.items[k].returned_qty
    BY <1>2, <1>4
  <2>4. new[k].return_items = u.items[k].return_items
    BY <1>2, <1>4, <2>2
  <2> QED
    BY <1>2, <1>4, <2>3, <2>4
<1>6. ReturnsAddUp'
  BY <1>2, <1>5 DEF SerialInv, ReturnsAddUp, new
<1> QED
  BY <1>4, <1>6 DEF u

LEMMA CommitSaleAddsUp ==
  ASSUME SerialInv, NEW w \in Workers, CommitSale(w) PROVE ReturnsAddUp'
<1>1. /\ uow[w] \in Session /\ Counted(uow[w].lines)
      /\ DOMAIN sales = 1 .. Len(sales)
      /\ Len(sales) \in Nat /\ DOMAIN sales' = 1 .. Len(sales) + 1
      /\ sales'[Len(sales) + 1] = NewSale(uow[w])
      /\ \A s \in DOMAIN sales : sales'[s] = sales[s]
  BY CommitSaleStep DEF SerialInv
<1> SUFFICES ASSUME NEW s \in DOMAIN sales', NEW k \in DOMAIN sales'[s].items
             PROVE  sales'[s].items[k].return_items = sales'[s].items[k].returned_qty
  BY DEF ReturnsAddUp
<1>2. CASE s \in DOMAIN sales
  BY <1>1, <1>2 DEF SerialInv, ReturnsAddUp
<1>3. CASE s = Len(sales) + 1
  BY <1>1, <1>3, NewSaleType
<1> QED
  BY <1>1, <1>2, <1>3

\* Every step of the one worker keeps what it has read true.
LEMMA SerialStep == OneWorker /\ SerialInv /\ [Next]_vars => SerialInv'
<1> SUFFICES ASSUME OneWorker, SerialInv, [Next]_vars PROVE SerialInv'
  OBVIOUS
<1>1. IInv /\ IInv'
  BY InvStep DEF SerialInv
<1>2. ASSUME NEW w \in Workers, Receive(w) \/ LoadProduct(w) \/ LoadSale(w) \/ LoadItems(w)
                                \/ MovesLine(w)
      PROVE  SerialInv'
  BY <1>2, ReceiveSerial, LoadProductSerial, LoadSaleSerial, LoadItemsSerial, MovesLineSerial
<1>3. ASSUME NEW w \in Workers, Adjust(w) \/ CommitRestock(w) \/ Rollback(w)
      PROVE  SerialInv'
  <2>1. Close(w) /\ UNCHANGED sales
    BY <1>3 DEF Adjust, CommitRestock, Rollback, db
  <2>2. ReturnsAddUp'
    BY <2>1 DEF SerialInv, ReturnsAddUp
  <2> QED
    BY <1>1, <2>1, <2>2, SerialEnds
<1>4. ASSUME NEW w \in Workers, CommitVoid(w) PROVE SerialInv'
  <2>1. /\ Close(w) /\ DOMAIN sales' = DOMAIN sales
        /\ \A s \in DOMAIN sales : sales'[s].items = sales[s].items
    BY <1>1, <1>4, CommitVoidStep
  <2>2. ReturnsAddUp'
    BY <2>1 DEF SerialInv, ReturnsAddUp
  <2> QED
    BY <1>1, <2>1, <2>2, SerialEnds
<1>5. ASSUME NEW w \in Workers, CommitSale(w) \/ CommitReturn(w) PROVE SerialInv'
  <2>1. Close(w) /\ ReturnsAddUp'
    BY <1>5, CommitSaleAddsUp, CommitReturnAddsUp DEF CommitSale, CommitReturn
  <2> QED
    BY <1>1, <2>1, SerialEnds
<1>6. CASE Quiet \/ UNCHANGED vars
  <2>1. UNCHANGED vars
    BY <1>6 DEF Quiet
  <2> QED
    BY <1>1, <2>1 DEF SerialInv, ReturnsAddUp, ReadOK, FreshOK, vars
<1> QED
  BY <1>2, <1>3, <1>4, <1>5, <1>6 DEF Next, MovesLine

\* A worker that has no other beside it works on copies that are still true.
THEOREM SerialInvariantHolds == OneWorker => (Spec => []SerialInv)
<1> SUFFICES ASSUME OneWorker PROVE Spec => []SerialInv
  OBVIOUS
<1>1. SerialInv /\ [Next]_vars => SerialInv'
  BY SerialStep
<1> QED
  BY <1>1, SerialInit, PTL DEF Spec

\* Requests served one at a time: the return rows of an item add up to what the
\* item says was returned.
THEOREM SerialReturnsAddUp == OneWorker => (Spec => []ReturnsAddUp)
<1> SUFFICES ASSUME OneWorker PROVE Spec => []ReturnsAddUp
  OBVIOUS
<1>1. SerialInv => ReturnsAddUp
  BY DEF SerialInv
<1>2. Spec => []SerialInv
  BY SerialInvariantHolds
<1> QED
  BY <1>1, <1>2, PTL

\* Requests served one at a time: the return rows of an item never add up to more than
\* was sold (BR-RET-02), for they add up to what was checked against it.
THEOREM SerialReturnItemsWithinSold == OneWorker => (Spec => []ReturnItemsWithinSold)
<1> SUFFICES ASSUME OneWorker PROVE Spec => []ReturnItemsWithinSold
  OBVIOUS
<1>1. SerialInv => ReturnItemsWithinSold
  BY DEF SerialInv, IInv, ReturnsAddUp, ReturnedWithinSold, ReturnItemsWithinSold
<1>2. Spec => []SerialInv
  BY SerialInvariantHolds
<1> QED
  BY <1>1, <1>2, PTL

\* Requests served one at a time: no return is booked on a sale that is voided
\* (returns_service looks at the status it has read, which is still the status).
THEOREM SerialVoidsAreFinal == OneWorker => (Spec => NoReturnOnVoided)
<1> SUFFICES ASSUME OneWorker PROVE Spec => NoReturnOnVoided
  OBVIOUS
<1> DEFINE Kept == \A s \in DOMAIN sales : sales[s].status = "VOIDED" =>
                      \A k \in DOMAIN sales[s].items :
                          sales'[s].items[k].return_items = sales[s].items[k].return_items
<1>1. SerialInv /\ [Next]_vars => [Kept]_sales
  <2> SUFFICES ASSUME SerialInv, [Next]_vars, sales' # sales PROVE Kept
    OBVIOUS
  <2>1. IInv
    BY DEF SerialInv
  <2>2. ASSUME NEW w \in Workers, CommitSale(w) PROVE Kept
    <3>1. \A s \in DOMAIN sales : sales'[s] = sales[s]
      BY <2>1, <2>2, CommitSaleStep
    <3> QED
      BY <3>1
  <2>3. ASSUME NEW w \in Workers, CommitVoid(w) PROVE Kept
    <3>1. \A s \in DOMAIN sales : sales'[s].items = sales[s].items
      BY <2>1, <2>3, CommitVoidStep
    <3> QED
      BY <3>1
  <2>4. ASSUME NEW w \in Workers, CommitReturn(w) PROVE Kept
    <3>1. \A s \in DOMAIN sales : s # uow[w].sale => sales'[s] = sales[s]
      BY <2>1, <2>4, CommitReturnStep
    <3>2. sales[uow[w].sale].status = "COMPLETED"
      BY <2>4, CommitReturnAddsUp
    <3> QED
      BY <3>1, <3>2
  <2>5. ASSUME NEW w \in Workers,
               \/ Receive(w) \/ LoadProduct(w) \/ LoadSale(w) \/ LoadItems(w)
               \/ Adjust(w) \/ CommitRestock(w) \/ Rollback(w) \/ MovesLine(w)
        PROVE  FALSE
    <3>1. CASE MovesLine(w)
      BY <3>1 DEF MovesLine, DeductStock, RestoreVoided, ReturnLine, Restock, MoveLine, db
    <3>2. CASE ~MovesLine(w)
      BY <2>5, <3>2 DEF Receive, LoadProduct, LoadSale, LoadItems, Adjust, CommitRestock,
         Rollback, db
    <3> QED
      BY <3>1, <3>2
  <2> QED
    BY <2>2, <2>3, <2>4, <2>5 DEF Next, MovesLine, Quiet, vars
<1>2. Spec => []SerialInv
  BY SerialInvariantHolds
<1> QED
  BY <1>1, <1>2, PTL DEF Spec, NoReturnOnVoided

-----------------------------------------------------------------------------
\* One worker does what StockLedger promises

\* StockLedger speaks of the same journal.
LEMMA SameJournal ==
  /\ Ledger!Row = Row
  /\ \A b, rows, e : Ledger!Chained(b, rows, e) <=> Chained(b, rows, e)
BY DEF Ledger!Row, Row, Ledger!Kinds, Kinds, Ledger!Chained, Chained

\* Writing rows that start from the stored stock is posting them.
LEMMA Posted ==
  ASSUME TypeOK, NEW u \in Session, ChainsOK(u), WriteStock(u),
         \A p \in Products : u.rows[p] = <<>> \/ u.base[p] = onHand[p]
  PROVE  Ledger!Post
<1>1. onHand' \in [Products -> Nat] /\ ledger' \in [Products -> Seq(Row)]
  BY WriteStockType
<1>2. ASSUME NEW p \in Products
      PROVE  /\ ledger'[p] = ledger[p] \o Ledger!Appended(p)
             /\ Ledger!Chained(onHand[p], Ledger!Appended(p), onHand'[p])
  <2>1. /\ ledger[p] \in Seq(Row) /\ u.rows[p] \in Seq(Row)
        /\ ledger'[p] = ledger[p] \o u.rows[p] /\ onHand'[p] = NewStock(u, p)
        /\ Chained(u.base[p], u.rows[p], u.stock[p])
    BY DEF TypeOK, Session, WriteStock, ChainsOK
  <2>2. Ledger!Appended(p) = u.rows[p]
    BY <2>1, AppendedRows DEF Ledger!Appended
  <2>3. Chained(onHand[p], u.rows[p], onHand'[p])
    <3>1. CASE u.rows[p] = <<>>
      <4>1. u.stock[p] = u.base[p]
        BY <2>1, <3>1 DEF Chained
      <4> QED
        BY <2>1, <3>1, <4>1, ChainedEmpty DEF NewStock
    <3>2. CASE u.base[p] = onHand[p]
      BY <2>1, <3>2 DEF NewStock
    <3> QED
      BY <3>1, <3>2
  <2> QED
    BY <2>1, <2>2, <2>3, SameJournal
<1> QED
  BY <1>1, <1>2, SameJournal DEF Ledger!Post

\* One request at a time, the backend's stock path posts movements as StockLedger
\* says: no session starts from a quantity another one has replaced.
THEOREM SerialSessionsPostMovements == OneWorker => (Spec => LedgerSpec)
<1> SUFFICES ASSUME OneWorker PROVE Spec => LedgerSpec
  OBVIOUS
<1>1. Init => Ledger!Init
  BY DEF Init, Ledger!Init
<1>2. SerialInv /\ [Next]_vars => [Ledger!Post]_<<onHand, ledger>>
  <2> SUFFICES ASSUME SerialInv, Next
               PROVE  Ledger!Post \/ UNCHANGED <<onHand, ledger>>
    BY DEF vars
  <2>1. IInv /\ TypeOK
    BY DEF SerialInv, IInv
  <2>2. ASSUME NEW w \in Workers,
               CommitRestock(w) \/ CommitSale(w) \/ CommitVoid(w) \/ CommitReturn(w)
        PROVE  Ledger!Post
    <3>1. uow[w] \in Session /\ ChainsOK(uow[w]) /\ WriteStock(uow[w])
      BY <2>1, <2>2 DEF IInv, TypeOK, WorkerOK, PendingOK, CommitRestock, CommitSale,
         CommitVoid, CommitReturn
    <3>2. \A p \in Products : uow[w].rows[p] = <<>> \/ uow[w].base[p] = onHand[p]
      BY DEF SerialInv, ReadOK
    <3> QED
      BY <2>1, <3>1, <3>2, Posted
  <2>3. ASSUME NEW w \in Workers, Adjust(w) PROVE Ledger!Post
    <3> DEFINE p == CurrentLine(w).product
    <3>1. /\ uow[w] \in Session /\ phase[w] = "lines" /\ uow[w].next \in DOMAIN uow[w].lines
          /\ uow[w].op \in {"COUNT", "CHANGE"}
      BY <2>1, <2>3, AdjustStep
    <3>2. PICK v, m, change : Adjusted(uow[w], m, v, p, change)
      BY <2>1, <2>3, AdjustStep
    <3>3. ReadOK(uow[w], "lines")
      BY <3>1 DEF SerialInv
    <3>4. uow[w].base[p] = onHand[p]
      BY <3>1, <3>3 DEF ReadOK, CurrentLine
    <3> HIDE DEF p
    <3>5. \A q \in Products : v.rows[q] = <<>> \/ v.base[q] = onHand[q]
      BY <3>2, <3>4 DEF Adjusted
    <3> QED
      BY <2>1, <3>2, <3>5, Posted DEF Adjusted
  <2>4. ASSUME NEW w \in Workers,
               \/ Receive(w) \/ LoadProduct(w) \/ LoadSale(w) \/ LoadItems(w)
               \/ MovesLine(w) \/ Rollback(w)
        PROVE  UNCHANGED <<onHand, ledger>>
    <3>1. CASE MovesLine(w)
      BY <3>1 DEF MovesLine, DeductStock, RestoreVoided, ReturnLine, Restock, MoveLine, db
    <3>2. CASE ~MovesLine(w)
      BY <2>4, <3>2 DEF Receive, LoadProduct, LoadSale, LoadItems, Rollback, db
    <3> QED
      BY <3>1, <3>2
  <2> QED
    BY <2>2, <2>3, <2>4 DEF Next, MovesLine, Quiet, vars
<1>3. Spec => []SerialInv
  BY SerialInvariantHolds
<1> QED
  BY <1>1, <1>2, <1>3, PTL DEF Spec, LedgerSpec, Ledger!Spec

\* Whatever posts movements as StockLedger says, the journal leads from the
\* opening stock to the quantity on hand.
THEOREM LedgerIsWhole == Ledger!Spec => []LedgerChains
<1> DEFINE Typed == onHand \in [Products -> Nat] /\ ledger \in [Products -> Seq(Row)]
<1>1. Ledger!Init => Typed /\ LedgerChains
  BY ChainedEmpty, EmptySeq, SessionsAssumption, SameJournal
     DEF Ledger!Init, LedgerChains, Ledger!LedgerChains
<1>2. Typed /\ LedgerChains /\ [Ledger!Post]_<<onHand, ledger>> => Typed' /\ LedgerChains'
  <2> SUFFICES ASSUME Typed, LedgerChains, [Ledger!Post]_<<onHand, ledger>>
               PROVE  Typed' /\ LedgerChains'
    OBVIOUS
  <2>1. CASE Ledger!Post
    <3>1. Typed'
      BY <2>1, SameJournal DEF Ledger!Post
    <3>2. ASSUME NEW p \in Products
          PROVE  Chained(InitStock[p], ledger'[p], onHand'[p])
      <4>1. /\ ledger[p] \in Seq(Row) /\ ledger'[p] \in Seq(Row)
            /\ ledger'[p] = ledger[p] \o Ledger!Appended(p)
            /\ Chained(onHand[p], Ledger!Appended(p), onHand'[p])
            /\ Chained(InitStock[p], ledger[p], onHand[p])
        BY <2>1, <3>1, SameJournal DEF Ledger!Post, LedgerChains, Ledger!LedgerChains
      <4> DEFINE old  == ledger[p]
                 new  == ledger'[p]
                 rows == Ledger!Appended(p)
                 b    == InitStock[p]
                 m    == onHand[p]
                 e    == onHand'[p]
      <4>2. /\ old \in Seq(Row) /\ new \in Seq(Row)
            /\ rows = SubSeq(new, Len(old) + 1, Len(new)) /\ new = old \o rows
            /\ Chained(b, old, m) /\ Chained(m, rows, e)
        BY <4>1 DEF Ledger!Appended
      <4> HIDE DEF old, new, rows, b, m, e
      <4>3. Chained(b, new, e)
        BY <4>2, ChainedGrows
      <4> QED
        BY <4>3 DEF b, new, e
    <3> QED
      BY <3>1, <3>2, SameJournal DEF LedgerChains, Ledger!LedgerChains
  <2>2. CASE UNCHANGED <<onHand, ledger>>
    BY <2>2 DEF LedgerChains, Ledger!LedgerChains
  <2> QED
    BY <2>1, <2>2
<1> QED
  BY <1>1, <1>2, PTL DEF Ledger!Spec

\* Requests served one at a time: the journal of every product leads from its
\* opening stock to its quantity on hand, with no gap.
THEOREM SerialJournalIsWhole == OneWorker => (Spec => []LedgerChains)
<1> SUFFICES ASSUME OneWorker PROVE Spec => []LedgerChains
  OBVIOUS
<1>1. Spec => Ledger!Spec
  BY SerialSessionsPostMovements DEF LedgerSpec
<1> QED
  BY <1>1, LedgerIsWhole, PTL

-----------------------------------------------------------------------------
\* One worker, and the database has the trigger: alerts follow the stock

\* A session with nothing pending is not going to touch an alert.
LEMMA NothingToAlert ==
  ASSUME NEW u, NothingPending(u), NEW ph, ph # "lines" \/ u.op # "SALE" \/ u.next = 1
  PROVE  AlertingOK(u, ph)
BY DEF NothingPending, AlertingOK

LEMMA AlertGoesOn ==
  ASSUME OneWorker, AlertInv, SerialInv', NEW w \in Workers, NEW u, NEW ph,
         Continue(w, u, ph), UNCHANGED db, AlertingOK(u, ph)
  PROVE  AlertInv'
<1>1. uow'[w] = u /\ phase'[w] = ph
  BY DEF Continue, AlertInv, SerialInv, IInv, TypeOK
<1>2. AlertingOK(uow[w], phase[w])'
  BY <1>1 DEF AlertingOK, LowOnStock, db
<1>3. AlertsOK'
  BY DEF AlertInv, AlertsOK, LowStockIsAlerted, db
<1> QED
  BY <1>2, <1>3 DEF AlertInv, OneWorker

LEMMA AlertEnds ==
  ASSUME OneWorker, AlertInv, SerialInv', NEW w \in Workers, Close(w), AlertsOK'
  PROVE  AlertInv'
<1>1. uow'[w] = NoSession /\ phase'[w] = "idle"
  BY DEF Close, Continue, AlertInv, SerialInv, IInv, TypeOK
<1>2. NothingPending(NoSession)
  BY NoSessionOK
<1>3. AlertingOK(uow[w], phase[w])'
  BY <1>1, <1>2 DEF AlertingOK, NothingPending
<1> QED
  BY <1>3 DEF AlertInv, OneWorker

\* The alerts of p once the trigger has seen the UPDATE of a stock that was read
\* as it is stored: low stock keeps an OPEN one, and recovered stock has none.
LEMMA TriggerFollows ==
  ASSUME Trigger, TypeOK, AlertsOK, NEW u \in Session, NEW p \in Products \ Services,
         u.base[p] = onHand[p]
  PROVE  /\ LowOnStock(u, p) /\ OpenIn(alerts[p]) # {} => OpenIn(Triggered(u)[p]) # {}
         /\ ~LowOnStock(u, p) => OpenIn(Triggered(u)[p]) = {}
<1> DEFINE rows == alerts[p]
           new  == Triggered(u)[p]
<1>1. rows \in Seq(BOOLEAN) /\ DOMAIN rows = 1 .. Len(rows)
      /\ onHand[p] \in Nat /\ u.stock[p] \in Nat /\ Threshold[p] \in Nat
  BY LenProperties, SessionsAssumption DEF TypeOK, Session
<1>2. new = IF u.stock[p] # onHand[p] THEN AfterUpdate(rows, onHand[p], u.stock[p], Threshold[p])
            ELSE rows
  BY DEF Triggered
<1>3. onHand[p] > Threshold[p] => OpenIn(rows) = {}
  <2>1. ledger[p] = <<>> => OpenIn(rows) = {}
    BY DEF AlertsOK
  <2>2. ledger[p] # <<>> => (OpenIn(rows) # {} <=> onHand[p] <= Threshold[p])
    BY DEF AlertsOK, LowStockIsAlerted
  <2>3. onHand[p] > Threshold[p] => ~(onHand[p] <= Threshold[p])
    BY <1>1
  <2> QED
    BY <2>1, <2>2, <2>3
<1> HIDE DEF new, rows
<1>4. ASSUME LowOnStock(u, p), OpenIn(rows) # {} PROVE OpenIn(new) # {}
  <2>1. ~Recovered(onHand[p], u.stock[p], Threshold[p])
    BY <1>1, <1>4 DEF LowOnStock, Recovered
  <2>2. Raised(rows, onHand[p], u.stock[p], Threshold[p]) = rows
    BY <1>4 DEF Raised
  <2> QED
    BY <1>2, <1>4, <2>1, <2>2 DEF AfterUpdate
<1>5. ASSUME ~LowOnStock(u, p) PROVE OpenIn(new) = {}
  <2>1. u.stock[p] > Threshold[p]
    BY <1>1, <1>5 DEF LowOnStock
  <2>2. CASE onHand[p] > Threshold[p]
    <3>1. /\ ~Recovered(onHand[p], u.stock[p], Threshold[p])
          /\ ~Dropped(onHand[p], u.stock[p], Threshold[p])
      BY <1>1, <2>1, <2>2 DEF Recovered, Dropped
    <3>2. new = rows
      BY <1>2, <3>1 DEF AfterUpdate, Raised
    <3> QED
      BY <1>3, <2>2, <3>2
  <2>3. CASE ~(onHand[p] > Threshold[p])
    <3>1. Recovered(onHand[p], u.stock[p], Threshold[p]) /\ u.stock[p] # onHand[p]
      BY <1>1, <2>1, <2>3 DEF Recovered
    <3>2. new = [a \in DOMAIN rows |-> FALSE]
      BY <1>2, <3>1 DEF AfterUpdate
    <3> QED
      BY <3>2 DEF OpenIn
  <2> QED
    BY <2>2, <2>3
<1> QED
  BY <1>4, <1>5 DEF rows, new

\* Rows are only ever added to a journal.
LEMMA JournalGrows ==
  ASSUME TypeOK, NEW u \in Session, WriteStock(u), NEW p \in Products,
         ledger[p] # <<>> \/ u.rows[p] # <<>>
  PROVE  ledger'[p] # <<>>
<1>1. /\ ledger[p] \in Seq(Row) /\ u.rows[p] \in Seq(Row)
      /\ ledger'[p] = ledger[p] \o u.rows[p]
  BY DEF WriteStock, TypeOK, Session
<1>2. /\ Len(u.rows[p]) \in Nat /\ Len(ledger[p]) \in Nat
      /\ Len(u.rows[p]) # 0 \/ Len(ledger[p]) # 0
  BY <1>1, EmptySeq, LenProperties
<1>3. ledger'[p] \in Seq(Row) /\ Len(ledger'[p]) = Len(ledger[p]) + Len(u.rows[p])
  BY <1>1, ConcatProperties
<1>4. \A m, n \in Nat : m # 0 \/ n # 0 => n + m # 0
  OBVIOUS
<1>5. Len(ledger'[p]) # 0
  BY <1>2, <1>3, <1>4
<1> QED
  BY <1>3, <1>5, EmptySeq

\* What a session has to be for its commit to leave the alerts of p right.
AlertsMeant(u, p) ==
    \/ u.rows[p] = <<>> /\ u.raised[p] = 0 /\ u.resolved[p] = {}
    \/ /\ u.base[p] = onHand[p] /\ u.rows[p] # <<>>
       /\ u.raised[p] > 0 => LowOnStock(u, p)
       /\ u.resolved[p] # {} => ~LowOnStock(u, p)
       /\ LowOnStock(u, p) => u.raised[p] > 0 \/ OpenIn(Triggered(u)[p]) # {}

LEMMA AlertsStored ==
  ASSUME Trigger, TypeOK, AlertsOK, NEW u \in Session, WriteStock(u), ChainsOK(u),
         NEW p \in Products \ Services, AlertsMeant(u, p)
  PROVE  IF ledger'[p] = <<>> THEN OpenIn(alerts'[p]) = {}
         ELSE OpenIn(alerts'[p]) # {} <=> onHand'[p] <= Threshold[p]
<1> DEFINE rows == Triggered(u)[p]
<1>1. /\ onHand'[p] = NewStock(u, p) /\ ledger'[p] = ledger[p] \o u.rows[p]
      /\ alerts'[p] = WrittenAlerts(rows, u.raised[p], u.resolved[p])
      /\ ledger[p] \in Seq(Row) /\ u.rows[p] \in Seq(Row)
      /\ u.raised[p] \in Nat /\ u.resolved[p] \in SUBSET Nat
  BY DEF WriteStock, TypeOK, Session
<1>2. rows \in Seq(BOOLEAN)
  <2>1. alerts[p] \in Seq(BOOLEAN)
    BY DEF TypeOK
  <2>2. AfterUpdate(alerts[p], onHand[p], u.stock[p], Threshold[p]) \in Seq(BOOLEAN)
    BY <2>1, AfterUpdateType
  <2> QED
    BY <2>1, <2>2 DEF Triggered
<1>3. OpenIn(alerts'[p]) # {} <=> u.raised[p] > 0 \/ ~(OpenIn(rows) \subseteq u.resolved[p])
  BY <1>1, <1>2, WrittenAlertsOK
<1>4. Chained(u.base[p], u.rows[p], u.stock[p])
  BY DEF ChainsOK
<1>5. CASE u.rows[p] = <<>>
  <2>1. u.stock[p] = u.base[p] /\ u.raised[p] = 0 /\ u.resolved[p] = {}
    BY <1>4, <1>5 DEF AlertsMeant, Chained
  <2>2. ledger'[p] = ledger[p] /\ onHand'[p] = onHand[p]
    BY <1>1, <1>5, <2>1 DEF NewStock
  <2>3. rows = alerts[p]
    BY <2>1 DEF Triggered
  <2>4. OpenIn(alerts'[p]) # {} <=> OpenIn(alerts[p]) # {}
    BY <1>3, <2>1, <2>3
  <2> QED
    BY <2>2, <2>4 DEF AlertsOK, LowStockIsAlerted
<1>6. CASE u.rows[p] # <<>>
  <2>1. /\ u.base[p] = onHand[p]
        /\ u.raised[p] > 0 => LowOnStock(u, p)
        /\ u.resolved[p] # {} => ~LowOnStock(u, p)
        /\ LowOnStock(u, p) => u.raised[p] > 0 \/ OpenIn(rows) # {}
    BY <1>6 DEF AlertsMeant
  <2>2. onHand'[p] = u.stock[p]
    BY <1>1, <2>1 DEF NewStock
  <2>3. ledger'[p] # <<>>
    BY <1>6, JournalGrows
  <2>4. ~LowOnStock(u, p) => OpenIn(rows) = {}
    BY <2>1, TriggerFollows
  <2> HIDE DEF rows
  <2>5. OpenIn(alerts'[p]) # {} <=> LowOnStock(u, p)
    <3>1. CASE LowOnStock(u, p)
      BY <1>3, <2>1, <3>1
    <3>2. CASE ~LowOnStock(u, p)
      BY <1>3, <2>1, <2>4, <3>2
    <3> QED
      BY <3>1, <3>2
  <2> QED
    BY <2>2, <2>3, <2>5 DEF LowOnStock
<1> QED
  BY <1>5, <1>6

\* So a commit leaves all alerts right, if what it adds to the sales has moved.
LEMMA AlertsKept ==
  ASSUME Trigger, TypeOK, TypeOK', AlertsOK, NEW u \in Session, WriteStock(u), ChainsOK(u),
         \A p \in Products \ Services : AlertsMeant(u, p),
         \A s \in DOMAIN sales' : \A k \in DOMAIN sales'[s].items :
            LET p == sales'[s].items[k].product IN
            p \in Services \/ ledger[p] # <<>> \/ u.rows[p] # <<>>
  PROVE  AlertsOK'
<1>1. \A p \in Products \ Services :
         IF ledger'[p] = <<>> THEN OpenIn(alerts'[p]) = {}
         ELSE OpenIn(alerts'[p]) # {} <=> onHand'[p] <= Threshold[p]
  BY AlertsStored
<1>2. ASSUME NEW s \in DOMAIN sales', NEW k \in DOMAIN sales'[s].items
      PROVE  sales'[s].items[k].product \in Services
             \/ ledger'[sales'[s].items[k].product] # <<>>
  <2> DEFINE p == sales'[s].items[k].product
  <2>1. p \in Products
    <3>1. sales' \in Seq(Sale)
      BY DEF TypeOK
    <3>2. sales'[s] \in Sale
      BY <3>1, LenProperties, ElementOfSeq
    <3>3. sales'[s].items \in Seq(Item)
      BY <3>2 DEF Sale
    <3>4. sales'[s].items[k] \in Item
      BY <3>3, LenProperties, ElementOfSeq
    <3> QED
      BY <3>4 DEF Item
  <2>2. p \in Services \/ ledger[p] # <<>> \/ u.rows[p] # <<>>
    OBVIOUS
  <2> HIDE DEF p
  <2>3. p \in Services \/ ledger'[p] # <<>>
    BY <2>1, <2>2, JournalGrows
  <2> QED
    BY <2>3 DEF p
<1> QED
  BY <1>1, <1>2 DEF AlertsOK, LowStockIsAlerted

\* The alerts a session is going to raise or resolve, line by line.
LEMMA MovesLineAlerting ==
  ASSUME Trigger, OneWorker, AlertInv, NEW w \in Workers, MovesLine(w)
  PROVE  AlertInv'
<1> DEFINE u0 == uow[w]
<1>1. /\ IInv /\ SerialInv /\ AlertsOK /\ SerialInv' /\ TypeOK /\ AlertingOK(u0, phase[w])
  BY MovesLineSerial DEF AlertInv, SerialInv, IInv
<1>2. /\ u0 \in Session /\ phase[w] = "lines" /\ u0.next \in DOMAIN u0.lines
      /\ u0.op \in {"SALE", "VOID", "RETURN", "RESTOCK"}
  BY <1>1, MovesLineBooks
<1>3. PICK u, p, kind, change : Booking(w, u, p, kind, change)
  BY <1>1, MovesLineBooks
<1>4. PICK v \in Session : /\ Continue(w, v, "lines") /\ PendingOK(v)
                           /\ LineMoved(u, v, p, kind, change)
  BY <1>1, <1>3, MovesLineStep
<1>5. UNCHANGED db
  BY <1>1, <1>3, MovesLineStep
<1>6. p \in u0.seen /\ p \in Products /\ change \in Int /\ Directed(u, change)
  BY <1>1, <1>3, MovedIsRead DEF Booking
<1>7. Booked(u0, u)
  BY <1>3 DEF Booking
<1>8. /\ WorkerOK(w) /\ ReadOK(u0, "lines") /\ FreshOK(u0, "lines")
      /\ CourseOK(u0, "lines") /\ CopiesOK(u0, "lines") /\ PendingOK(u0)
  BY <1>1, <1>2 DEF SerialInv, IInv, WorkerOK
<1>9. v.op = u0.op /\ v.lines = u0.lines /\ v.next = u0.next + 1 /\ v.base = u0.base
  BY <1>4, <1>7 DEF LineMoved, SameRequest, Booked
<1>10. \A q \in Products \ {p} : /\ v.stock[q] = u0.stock[q] /\ v.rows[q] = u0.rows[q]
                                 /\ v.raised[q] = u0.raised[q]
                                 /\ v.resolved[q] = u0.resolved[q]
  BY <1>4, <1>7 DEF LineMoved, Booked
<1>11. CASE p \in Services
  <2>1. v.stock = u0.stock /\ v.rows = u0.rows /\ v.raised = u0.raised /\ v.resolved = u0.resolved
    BY <1>4, <1>7, <1>11 DEF LineMoved, Booked
  <2>2. v.op = "SALE" =>
           \A k \in 1 .. v.next - 1 : k \in DOMAIN v.lines =>
              v.lines[k].product \in Services \/ v.rows[v.lines[k].product] # <<>>
    <3> SUFFICES ASSUME v.op = "SALE", NEW k \in 1 .. v.next - 1, k \in DOMAIN v.lines
                 PROVE  v.lines[k].product \in Services \/ v.rows[v.lines[k].product] # <<>>
      OBVIOUS
    <3>1. k \in 1 .. u0.next - 1 \/ k = u0.next
      <4>1. u0.next \in Nat /\ v.next = u0.next + 1
        BY <1>2, <1>9 DEF Session
      <4> HIDE DEF u0
      <4> QED
        BY <4>1
    <3>2. CASE k = u0.next
      BY <1>3, <1>7, <1>9, <1>11, <3>2 DEF Booking, Booked, CurrentLine
    <3> QED
      BY <1>1, <1>2, <1>9, <2>1, <3>1, <3>2 DEF AlertingOK
  <2>3. AlertingOK(v, "lines")
    BY <1>1, <1>9, <2>1, <2>2 DEF AlertingOK, LowOnStock
  <2> QED
    BY <1>1, <1>4, <1>5, <2>3, AlertGoesOn
<1>13. ASSUME p \notin Services, v.rows[p] # <<>>,
              v.raised[p] > 0 => LowOnStock(v, p),
              v.resolved[p] # {} => ~LowOnStock(v, p),
              LowOnStock(v, p) => v.raised[p] > 0 \/ OpenIn(alerts[p]) # {},
              v.op \in {"VOID", "RETURN"} => v.raised[p] = 0,
              v.op = "SALE" => v.resolved[p] = {}
       PROVE  AlertInv'
  <2>1. v.op = "SALE" =>
           \A k \in 1 .. v.next - 1 : k \in DOMAIN v.lines =>
              v.lines[k].product \in Services \/ v.rows[v.lines[k].product] # <<>>
    <3> SUFFICES ASSUME v.op = "SALE", NEW k \in 1 .. v.next - 1, k \in DOMAIN v.lines
                 PROVE  v.lines[k].product \in Services \/ v.rows[v.lines[k].product] # <<>>
      OBVIOUS
    <3>1. k \in 1 .. u0.next - 1 \/ k = u0.next
      <4>1. u0.next \in Nat /\ v.next = u0.next + 1
        BY <1>2, <1>9 DEF Session
      <4> HIDE DEF u0
      <4> QED
        BY <4>1
    <3>2. CASE v.lines[k].product = p
      BY <1>13, <3>2
    <3>3. CASE v.lines[k].product # p
      <4>1. v.lines[k].product \in Products \ {p}
        BY <1>4, <3>3, LineType
      <4>2. k # u0.next
        BY <1>3, <1>7, <1>9, <3>3 DEF Booking, Booked, CurrentLine
      <4>3. u0.lines[k].product \in Services \/ u0.rows[u0.lines[k].product] # <<>>
        BY <1>1, <1>2, <1>9, <3>1, <4>2 DEF AlertingOK
      <4> QED
        BY <1>9, <1>10, <4>1, <4>3
    <3> QED
      BY <3>2, <3>3
  <2>2. ASSUME NEW q \in Products \ Services
        PROVE  /\ v.raised[q] > 0 => v.rows[q] # <<>> /\ LowOnStock(v, q)
               /\ v.resolved[q] # {} => v.rows[q] # <<>> /\ ~LowOnStock(v, q)
               /\ v.rows[q] # <<>> /\ LowOnStock(v, q) =>
                     v.raised[q] > 0 \/ OpenIn(alerts[q]) # {}
               /\ v.op \in {"VOID", "RETURN"} => v.raised[q] = 0
               /\ v.op = "SALE" => v.resolved[q] = {}
    <3>1. CASE q = p
      BY <1>13, <3>1
    <3>2. CASE q # p
      <4>1. q \in Products \ {p}
        BY <3>2
      <4>2. /\ v.stock[q] = u0.stock[q] /\ v.rows[q] = u0.rows[q]
            /\ v.raised[q] = u0.raised[q] /\ v.resolved[q] = u0.resolved[q]
        BY <1>10, <4>1
      <4>3. LowOnStock(v, q) <=> LowOnStock(u0, q)
        BY <4>2 DEF LowOnStock
      <4> QED
        BY <1>1, <1>9, <4>2, <4>3 DEF AlertingOK
    <3> QED
      BY <3>1, <3>2
  <2>3. AlertingOK(v, "lines")
    BY <2>1, <2>2 DEF AlertingOK
  <2> QED
    BY <1>1, <1>4, <1>5, <2>3, AlertGoesOn
<1>12. CASE p \notin Services
  <2>1. /\ v.stock[p] = u0.stock[p] + change /\ v.rows[p] # <<>>
        /\ Alerted(u0, v, p, alerts[p])
    BY <1>4, <1>7, <1>12 DEF LineMoved, Booked, Alerted
  <2>2. /\ u0.stock[p] \in Nat /\ v.stock[p] \in Nat /\ onHand[p] \in Nat
        /\ Threshold[p] \in Nat /\ u0.raised[p] \in Nat /\ u0.base[p] = onHand[p]
    BY <1>1, <1>2, <1>4, <1>6, <1>8, SessionsAssumption DEF Session, TypeOK, ReadOK
  <2>3. /\ Directed(u0, u0.stock[p] - onHand[p]) /\ Directed(u0, change)
        /\ Directed(u0, v.stock[p] - onHand[p])
    BY <1>4, <1>6, <1>7, <1>8, <1>9, <2>2 DEF PendingOK, Directed, Booked
  <2>4. onHand[p] > Threshold[p] => OpenIn(alerts[p]) = {}
    <3>1. ledger[p] = <<>> => OpenIn(alerts[p]) = {}
      BY <1>1, <1>6, <1>12 DEF AlertsOK
    <3>2. ledger[p] # <<>> => (OpenIn(alerts[p]) # {} <=> onHand[p] <= Threshold[p])
      BY <1>1, <1>6, <1>12 DEF AlertsOK, LowStockIsAlerted
    <3>3. onHand[p] > Threshold[p] => ~(onHand[p] <= Threshold[p])
      BY <2>2
    <3> QED
      BY <3>1, <3>2, <3>3
  <2>5. /\ u0.raised[p] > 0 => u0.rows[p] # <<>> /\ LowOnStock(u0, p)
        /\ u0.resolved[p] # {} => u0.rows[p] # <<>> /\ ~LowOnStock(u0, p)
        /\ u0.op \in {"VOID", "RETURN"} => u0.raised[p] = 0
        /\ u0.op = "SALE" => u0.resolved[p] = {}
    BY <1>1, <1>6, <1>12 DEF AlertingOK
  <2>6. LowOnStock(v, p) => v.raised[p] > 0 \/ OpenIn(alerts[p]) # {}
    BY <2>1, <2>2 DEF Alerted
  <2>7. CASE u0.op = "SALE"
    <3>1. v.stock[p] <= u0.stock[p] /\ v.stock[p] <= onHand[p]
      BY <1>6, <2>1, <2>2, <2>3, <2>7 DEF Directed
    <3>2. v.raised[p] > 0 => LowOnStock(v, p)
      <4>1. LowOnStock(u0, p) => LowOnStock(v, p)
        BY <2>2, <3>1 DEF LowOnStock
      <4> QED
        BY <2>1, <2>5, <4>1 DEF Alerted
    <3>3. v.resolved[p] = {}
      <4>1. ~LowOnStock(v, p) => OpenIn(alerts[p]) = {}
        BY <2>2, <2>4, <3>1 DEF LowOnStock
      <4> QED
        BY <2>1, <2>5, <2>7, <4>1 DEF Alerted
    <3> QED
      BY <1>9, <1>12, <1>13, <2>1, <2>6, <2>7, <3>2, <3>3
  <2>8. CASE u0.op \in {"VOID", "RETURN"}
    <3>1. u0.stock[p] <= v.stock[p] /\ onHand[p] <= v.stock[p]
      BY <1>6, <2>1, <2>2, <2>3, <2>8 DEF Directed
    <3>2. ledger[p] # <<>>
      <4> DEFINE stored == sales[u0.sale].items
      <4>1. \E k \in DOMAIN stored : p = stored[k].product
        <5>1. CASE u0.op = "RETURN"
          <6>1. PICK k \in DOMAIN u.items : p = u.items[k].product
            BY <1>3, <1>7, <5>1 DEF Booking, Booked
          <6>2. k \in DOMAIN u0.items /\ u0.items[k].product = p
            BY <1>7, <6>1 DEF Booked
          <6> QED
            BY <1>8, <5>1, <6>2 DEF CopiesOK
        <5>2. CASE u0.op = "VOID"
          <6>1. p = u0.lines[u0.next].product
            BY <1>3, <1>7, <5>2 DEF Booking, Booked, CurrentLine
          <6>2. /\ u0.loaded = stored /\ DOMAIN u0.lines = DOMAIN stored
                /\ \A k \in DOMAIN u0.lines : u0.lines[k].product = stored[k].product
            BY <1>8, <5>2 DEF FreshOK
          <6> QED
            BY <1>2, <6>1, <6>2
        <5> QED
          BY <2>8, <5>1, <5>2
      <4>2. u0.sale \in DOMAIN sales
        BY <1>8, <2>8 DEF CopiesOK
      <4> QED
        BY <1>1, <1>12, <4>1, <4>2 DEF AlertsOK
    <3>3. LowOnStock(v, p) => OpenIn(alerts[p]) # {}
      <4>1. OpenIn(alerts[p]) # {} <=> onHand[p] <= Threshold[p]
        BY <1>1, <1>6, <1>12, <3>2 DEF AlertsOK, LowStockIsAlerted
      <4> QED
        BY <2>2, <3>1, <4>1 DEF LowOnStock
    <3>4. v.raised[p] = 0
      BY <2>1, <2>5, <2>8, <3>3 DEF Alerted
    <3>5. v.resolved[p] # {} => ~LowOnStock(v, p)
      <4>1. ~LowOnStock(u0, p) => ~LowOnStock(v, p)
        BY <2>2, <3>1 DEF LowOnStock
      <4> QED
        BY <2>1, <2>5, <4>1 DEF Alerted
    <3> QED
      BY <1>9, <1>12, <1>13, <2>1, <2>6, <2>8, <3>4, <3>5
  <2>9. CASE u0.op = "RESTOCK"
    <3>1. u0.raised[p] = 0 /\ u0.resolved[p] = {}
      <4>1. DOMAIN u0.lines = {1}
        BY <1>2, <1>8, <2>9, LineType DEF CourseOK
      <4>2. NothingPending(u0)
        BY <1>2, <1>8, <4>1 DEF CourseOK
      <4> QED
        BY <1>6, <4>2 DEF NothingPending
    <3>2. v.raised[p] > 0 => LowOnStock(v, p)
      BY <2>1, <3>1 DEF Alerted
    <3>3. v.resolved[p] # {} => ~LowOnStock(v, p)
      BY <2>1, <3>1 DEF Alerted
    <3> QED
      BY <1>9, <1>12, <1>13, <2>1, <2>6, <2>9, <3>2, <3>3
  <2> QED
    BY <1>2, <2>7, <2>8, <2>9
<1> QED
  BY <1>11, <1>12

LEMMA LoadsAlerting ==
  ASSUME OneWorker, AlertInv, NEW w \in Workers,
         Receive(w) \/ LoadProduct(w) \/ LoadSale(w) \/ LoadItems(w)
  PROVE  AlertInv'
<1>1. IInv /\ SerialInv /\ SerialInv' /\ UNCHANGED db
  BY ReceiveSerial, LoadProductSerial, LoadSaleSerial, LoadItemsSerial
     DEF AlertInv, SerialInv, Receive, LoadProduct, LoadSale, LoadItems
<1>2. \E u, ph : /\ Continue(w, u, ph) /\ NothingPending(u)
                 /\ ph # "lines" \/ u.op # "SALE" \/ u.next = 1
  <2>1. CASE Receive(w)
    <3>1. PICK r \in Requests : Continue(w, NewSession(r), FirstPhase(r))
      BY <2>1 DEF Receive, FirstPhase
    <3>2. NothingPending(NewSession(r))
      BY ReceiveStep
    <3>3. FirstPhase(r) # "lines"
      BY DEF FirstPhase
    <3> QED
      BY <3>1, <3>2, <3>3
  <2>2. CASE LoadProduct(w)
    <3>1. PICK v \in Session, ph \in {"products", "lines"} :
             Continue(w, v, ph) /\ NothingPending(v) /\ (ph = "products" \/ v.next = 1)
      BY <1>1, <2>2, LoadProductStep
    <3> QED
      BY <3>1
  <2>3. CASE LoadSale(w)
    <3>1. PICK v \in Session : Continue(w, v, "items") /\ NothingPending(v)
      BY <1>1, <2>3, LoadSaleStep
    <3> QED
      BY <3>1
  <2>4. CASE LoadItems(w)
    <3>1. PICK v \in Session : /\ Continue(w, v, "lines") /\ NothingPending(v)
                               /\ v.op \in {"VOID", "RETURN"}
      BY <1>1, <2>4, LoadItemsStep
    <3>2. v.op # "SALE"
      BY <3>1
    <3> QED
      BY <3>1, <3>2
  <2> QED
    BY <2>1, <2>2, <2>3, <2>4
<1>3. PICK u, ph : /\ Continue(w, u, ph) /\ NothingPending(u)
                   /\ ph # "lines" \/ u.op # "SALE" \/ u.next = 1
  BY <1>2
<1>4. AlertingOK(u, ph)
  BY <1>3, NothingToAlert
<1> QED
  BY <1>1, <1>3, <1>4, AlertGoesOn

\* What a session has gathered line by line is what its commit needs.
LEMMA SessionMeant ==
  ASSUME Trigger, AlertInv, NEW w \in Workers, NEW p \in Products \ Services
  PROVE  AlertsMeant(uow[w], p)
<1> DEFINE u == uow[w]
<1>1. TypeOK /\ AlertsOK /\ u \in Session /\ ReadOK(u, phase[w]) /\ AlertingOK(u, phase[w])
  BY DEF AlertInv, SerialInv, IInv, TypeOK
<1>2. /\ u.raised[p] \in Nat
      /\ u.raised[p] > 0 => u.rows[p] # <<>> /\ LowOnStock(u, p)
      /\ u.resolved[p] # {} => u.rows[p] # <<>> /\ ~LowOnStock(u, p)
      /\ u.rows[p] # <<>> /\ LowOnStock(u, p) =>
            u.raised[p] > 0 \/ OpenIn(alerts[p]) # {}
  BY <1>1 DEF AlertingOK, Session
<1>3. CASE u.rows[p] = <<>>
  <2>1. ~(u.raised[p] > 0) /\ u.resolved[p] = {}
    BY <1>2, <1>3
  <2>2. u.raised[p] = 0
    BY <1>2, <2>1
  <2> QED
    BY <1>3, <2>1, <2>2 DEF AlertsMeant
<1>4. CASE u.rows[p] # <<>>
  <2>1. u.base[p] = onHand[p]
    BY <1>1, <1>4 DEF ReadOK
  <2>2. LowOnStock(u, p) /\ OpenIn(alerts[p]) # {} => OpenIn(Triggered(u)[p]) # {}
    BY <1>1, <2>1, TriggerFollows
  <2> QED
    BY <1>2, <1>4, <2>1, <2>2 DEF AlertsMeant
<1> QED
  BY <1>3, <1>4

LEMMA CommitsAlerting ==
  ASSUME Trigger, OneWorker, AlertInv, NEW w \in Workers,
         CommitRestock(w) \/ CommitSale(w) \/ CommitVoid(w) \/ CommitReturn(w)
  PROVE  AlertInv'
<1> DEFINE u == uow[w]
<1>1. /\ SerialInv /\ IInv /\ TypeOK /\ AlertsOK /\ u \in Session /\ ChainsOK(u)
      /\ AlertingOK(u, phase[w])
  BY DEF AlertInv, SerialInv, IInv, TypeOK, WorkerOK, PendingOK
<1>2. IInv' /\ SerialInv'
  BY <1>1, SerialStep DEF Next, SerialInv
<1>3. TypeOK'
  BY <1>2 DEF IInv
<1>4. WriteStock(u) /\ Close(w)
  BY DEF CommitRestock, CommitSale, CommitVoid, CommitReturn
<1>5. \A p \in Products \ Services : AlertsMeant(u, p)
  BY SessionMeant
<1>6. ASSUME NEW s \in DOMAIN sales, NEW k \in DOMAIN sales[s].items
      PROVE  LET p == sales[s].items[k].product IN
             p \in Services \/ ledger[p] # <<>> \/ u.rows[p] # <<>>
  BY <1>1 DEF AlertsOK
<1>7. ASSUME NEW s \in DOMAIN sales', NEW k \in DOMAIN sales'[s].items
      PROVE  LET p == sales'[s].items[k].product IN
             p \in Services \/ ledger[p] # <<>> \/ u.rows[p] # <<>>
  <2>1. CASE CommitRestock(w)
    <3>1. sales' = sales
      BY <2>1 DEF CommitRestock
    <3> QED
      BY <1>6, <3>1
  <2>2. CASE CommitSale(w)
    <3>1. /\ Counted(u.lines) /\ phase[w] = "lines" /\ u.op = "SALE"
          /\ u.next > Len(u.lines)
          /\ DOMAIN sales = 1 .. Len(sales) /\ Len(sales) \in Nat
          /\ DOMAIN sales' = 1 .. Len(sales) + 1
          /\ sales'[Len(sales) + 1] = NewSale(u)
          /\ \A t \in DOMAIN sales : sales'[t] = sales[t]
      BY <1>1, <2>2, CommitSaleStep
    <3>2. CASE s \in DOMAIN sales
      <4>1. sales'[s] = sales[s]
        BY <3>1, <3>2
      <4> QED
        BY <1>6, <3>2, <4>1
    <3>3. CASE s \notin DOMAIN sales
      <4>1. s = Len(sales) + 1
        BY <3>1, <3>3
      <4>2. sales'[s] = NewSale(u)
        BY <3>1, <4>1
      <4>3. k \in DOMAIN u.lines /\ sales'[s].items[k].product = u.lines[k].product
        BY <1>1, <3>1, <4>2, NewSaleType
      <4>4. /\ DOMAIN u.lines = 1 .. Len(u.lines) /\ Len(u.lines) \in Nat
            /\ u.next \in Nat \ {0}
        BY <1>1, <4>3, LineType DEF Session
      <4>5. k \in 1 .. u.next - 1
        BY <3>1, <4>3, <4>4
      <4>6. u.lines[k].product \in Services \/ u.rows[u.lines[k].product] # <<>>
        BY <1>1, <3>1, <4>3, <4>5 DEF AlertingOK
      <4> QED
        BY <4>3, <4>6
    <3> QED
      BY <3>2, <3>3
  <2>3. CASE CommitVoid(w)
    <3>1. DOMAIN sales' = DOMAIN sales /\ \A t \in DOMAIN sales : sales'[t].items = sales[t].items
      BY <1>1, <2>3, CommitVoidStep
    <3>2. s \in DOMAIN sales /\ sales'[s].items = sales[s].items
      BY <3>1
    <3> QED
      BY <1>6, <3>2
  <2>4. CASE CommitReturn(w)
    <3>1. /\ DOMAIN sales' = DOMAIN sales
          /\ \A t \in DOMAIN sales : t # u.sale => sales'[t] = sales[t]
          /\ DOMAIN sales'[u.sale].items = DOMAIN sales[u.sale].items
          /\ \A j \in DOMAIN sales[u.sale].items :
                sales'[u.sale].items[j].product = sales[u.sale].items[j].product
      BY <1>1, <2>4, CommitReturnStep
    <3>2. /\ s \in DOMAIN sales /\ k \in DOMAIN sales[s].items
          /\ sales'[s].items[k].product = sales[s].items[k].product
      <4>1. s \in DOMAIN sales
        BY <3>1
      <4>2. CASE s = u.sale
        BY <3>1, <4>1, <4>2
      <4>3. CASE s # u.sale
        <5>1. sales'[s] = sales[s]
          BY <3>1, <4>1, <4>3
        <5> QED
          BY <4>1, <5>1
      <4> QED
        BY <4>2, <4>3
    <3> QED
      BY <1>6, <3>2
  <2> QED
    BY <2>1, <2>2, <2>3, <2>4
<1>8. AlertsOK'
  BY <1>1, <1>3, <1>4, <1>5, <1>7, AlertsKept
<1> QED
  BY <1>2, <1>4, <1>8, AlertEnds

LEMMA AdjustAlerting ==
  ASSUME Trigger, OneWorker, AlertInv, NEW w \in Workers, Adjust(w)
  PROVE  AlertInv'
<1> DEFINE u == uow[w]
           p == CurrentLine(w).product
<1>1. SerialInv /\ IInv /\ TypeOK /\ AlertsOK
  BY DEF AlertInv, SerialInv, IInv
<1>2. IInv' /\ SerialInv'
  BY <1>1, SerialStep DEF Next, SerialInv
<1>3. TypeOK'
  BY <1>2 DEF IInv
<1>4. /\ Close(w) /\ UNCHANGED sales /\ u \in Session /\ NothingPending(u)
      /\ phase[w] = "lines" /\ u.op \in {"COUNT", "CHANGE"} /\ u.next \in DOMAIN u.lines
  BY <1>1, AdjustStep
<1>5. PICK v, m, change : Adjusted(u, m, v, p, change)
  BY <1>1, AdjustStep
<1>6. ReadOK(u, "lines")
  BY <1>1, <1>4 DEF SerialInv
<1>7. u.base[p] = onHand[p]
  BY <1>4, <1>6 DEF ReadOK, CurrentLine
<1> HIDE DEF p, u
<1>8. /\ v \in Session /\ WriteStock(v) /\ ChainsOK(v) /\ p \in Products
      /\ v.rows[p] # <<>> /\ v.base[p] = onHand[p]
  BY <1>5, <1>7 DEF Adjusted
<1>9. AlertsMeant(v, p)
  <2>1. m.raised[p] = 0 /\ m.resolved[p] = {}
    BY <1>4, <1>5 DEF Adjusted, NothingPending
  <2>2. Triggered(v)[p] = Triggered(m)[p]
    BY <1>5 DEF Adjusted, Triggered
  <2>3. Alerted(m, v, p, Triggered(v)[p])
    BY <1>5, <2>2 DEF Adjusted
  <2>4. /\ v.raised[p] > 0 => LowOnStock(v, p)
        /\ v.resolved[p] # {} => ~LowOnStock(v, p)
        /\ LowOnStock(v, p) => v.raised[p] > 0 \/ OpenIn(Triggered(v)[p]) # {}
    BY <2>1, <2>3 DEF Alerted
  <2> QED
    BY <1>8, <2>4 DEF AlertsMeant
<1>10. \A q \in Products \ Services : AlertsMeant(v, q)
  <2> SUFFICES ASSUME NEW q \in Products \ Services, q # p PROVE AlertsMeant(v, q)
    BY <1>9
  <2>1. v.rows[q] = <<>> /\ v.raised[q] = 0 /\ v.resolved[q] = {}
    BY <1>5 DEF Adjusted
  <2> QED
    BY <2>1 DEF AlertsMeant
<1>11. ASSUME NEW s \in DOMAIN sales', NEW k \in DOMAIN sales'[s].items
       PROVE  LET q == sales'[s].items[k].product IN
              q \in Services \/ ledger[q] # <<>> \/ v.rows[q] # <<>>
  BY <1>1, <1>4 DEF AlertsOK
<1>12. AlertsOK'
  BY <1>1, <1>3, <1>8, <1>10, <1>11, AlertsKept
<1> QED
  BY <1>2, <1>4, <1>12, AlertEnds

\* Initially no alert is open, and none is due.
LEMMA AlertInit == Init => AlertInv
<1> SUFFICES ASSUME Init PROVE AlertInv
  OBVIOUS
<1>1. AlertsOK
  BY DEF Init, AlertsOK, LowStockIsAlerted, OpenIn
<1>2. AlertingOK(NoSession, "idle")
  BY NoSessionOK, NothingToAlert
<1> QED
  BY <1>1, <1>2, SerialInit DEF AlertInv, Init

\* Every step keeps the alerts in line with the stock.
LEMMA AlertStep == Trigger /\ OneWorker /\ AlertInv /\ [Next]_vars => AlertInv'
<1> SUFFICES ASSUME Trigger, OneWorker, AlertInv, [Next]_vars PROVE AlertInv'
  OBVIOUS
<1>1. SerialInv'
  BY SerialStep DEF AlertInv
<1>2. ASSUME NEW w \in Workers,
             \/ Receive(w) \/ LoadProduct(w) \/ LoadSale(w) \/ LoadItems(w)
             \/ MovesLine(w) \/ Adjust(w)
             \/ CommitRestock(w) \/ CommitSale(w) \/ CommitVoid(w) \/ CommitReturn(w)
      PROVE  AlertInv'
  BY <1>2, LoadsAlerting, MovesLineAlerting, AdjustAlerting, CommitsAlerting
<1>3. ASSUME NEW w \in Workers, Rollback(w) PROVE AlertInv'
  <2>1. Close(w) /\ AlertsOK'
    BY <1>3 DEF Rollback, AlertInv, AlertsOK, LowStockIsAlerted, db
  <2> QED
    BY <1>1, <2>1, AlertEnds
<1>4. CASE Quiet \/ UNCHANGED vars
  <2>1. UNCHANGED vars
    BY <1>4 DEF Quiet
  <2> QED
    BY <1>1, <2>1 DEF AlertInv, AlertsOK, LowStockIsAlerted, AlertingOK, LowOnStock, vars
<1> QED
  BY <1>2, <1>3, <1>4 DEF Next, MovesLine

\* Requests served one at a time on a database with the trigger: once a product
\* has moved, it has an OPEN alert exactly while it is low on stock, however many
\* alerts the trigger and the backend raise between them.
THEOREM SerialAlertsFollowStock == OneWorker /\ Trigger => (Spec => []LowStockIsAlerted)
<1> SUFFICES ASSUME OneWorker, Trigger PROVE Spec => []LowStockIsAlerted
  OBVIOUS
<1>1. AlertInv /\ [Next]_vars => AlertInv'
  BY AlertStep
<1>2. AlertInv => LowStockIsAlerted
  BY DEF AlertInv, AlertsOK
<1> QED
  BY <1>1, <1>2, AlertInit, PTL DEF Spec

-----------------------------------------------------------------------------
\* Sums over the sale items

\* The items of p in the sales ss, and their sums.
ItemsIn(ss, p) == {i \in UNION {{s} \X DOMAIN ss[s].items : s \in DOMAIN ss} :
                      ss[i[1]].items[i[2]].product = p}
UnitsIn(ss, items) ==
    SumFunctionOnSet([i \in items |-> Whole(ss[i[1]].items[i[2]].quantity)], items)
ReturnedIn(ss, items) ==
    SumFunctionOnSet([i \in items |-> ss[i[1]].items[i[2]].return_items], items)

\* They are what the properties are about.
LEMMA SumsOfSales ==
  /\ \A p : ItemsOf(p) = ItemsIn(sales, p)
  /\ \A items : UnitsOn(items) = UnitsIn(sales, items)
  /\ \A items : ReturnedOn(items) = ReturnedIn(sales, items)
BY DEF ItemsOf, ItemsIn, UnitsOn, UnitsIn, ReturnedOn, ReturnedIn, SaleItem

\* The items of a product are finitely many pairs of a sale and a position in it.
LEMMA ItemsAre ==
  ASSUME NEW ss \in Seq(Sale), NEW p
  PROVE  /\ IsFiniteSet(ItemsIn(ss, p))
         /\ \A i \in ItemsIn(ss, p) :
               /\ i[1] \in DOMAIN ss /\ i[2] \in DOMAIN ss[i[1]].items /\ i = <<i[1], i[2]>>
               /\ ss[i[1]].items[i[2]] \in Item /\ ss[i[1]].items[i[2]].product = p
         /\ \A s \in DOMAIN ss : \A k \in DOMAIN ss[s].items :
               ss[s].items[k].product = p => <<s, k>> \in ItemsIn(ss, p)
<1> DEFINE at(s) == {s} \X DOMAIN ss[s].items
           h     == [s \in DOMAIN ss |-> at(s)]
           rng   == {at(s) : s \in DOMAIN ss}
<1>1. DOMAIN ss = 1 .. Len(ss) /\ Len(ss) \in Nat
  BY LenProperties
<1>2. ASSUME NEW s \in DOMAIN ss
      PROVE  /\ ss[s].items \in Seq(Item) /\ IsFiniteSet(at(s))
             /\ \A k \in DOMAIN ss[s].items : ss[s].items[k] \in Item
  <2>1. ss[s] \in Sale
    BY <1>1, ElementOfSeq
  <2>2. ss[s].items \in Seq(Item)
    BY <2>1 DEF Sale
  <2>3. DOMAIN ss[s].items = 1 .. Len(ss[s].items) /\ Len(ss[s].items) \in Nat
    BY <2>2, LenProperties
  <2>4. IsFiniteSet(DOMAIN ss[s].items)
    BY <2>3, FS_Interval
  <2>5. IsFiniteSet({s})
    BY FS_Singleton
  <2>6. IsFiniteSet(at(s))
    BY <2>4, <2>5, FS_Product
  <2> QED
    BY <2>2, <2>3, <2>6, ElementOfSeq
<1>3. IsFiniteSet(DOMAIN ss)
  BY <1>1, FS_Interval
<1>4. IsFiniteSet(rng)
  <2>1. h \in Surjection(DOMAIN ss, rng)
    <3>1. h \in [DOMAIN ss -> rng] /\ \A t \in rng : \E s \in DOMAIN ss : h[s] = t
      OBVIOUS
    <3> QED
      BY <3>1 DEF Surjection
  <2> HIDE DEF h, rng
  <2> QED
    BY <1>3, <2>1, FS_Surjection
<1>5. \A t \in rng : IsFiniteSet(t)
  BY <1>2
<1>6. IsFiniteSet(UNION rng)
  <2> HIDE DEF rng
  <2> QED
    BY <1>4, <1>5, FS_UNION
<1>7. IsFiniteSet(ItemsIn(ss, p))
  BY <1>6, FS_Subset DEF ItemsIn
<1>8. ASSUME NEW i \in ItemsIn(ss, p)
      PROVE  /\ i[1] \in DOMAIN ss /\ i[2] \in DOMAIN ss[i[1]].items /\ i = <<i[1], i[2]>>
             /\ ss[i[1]].items[i[2]].product = p
  BY DEF ItemsIn
<1>9. ASSUME NEW s \in DOMAIN ss, NEW k \in DOMAIN ss[s].items, ss[s].items[k].product = p
      PROVE  <<s, k>> \in ItemsIn(ss, p)
  <2>1. <<s, k>> \in at(s)
    OBVIOUS
  <2> QED
    BY <1>9, <2>1 DEF ItemsIn
<1> QED
  BY <1>2, <1>7, <1>8, <1>9

\* The sums are numbers.
LEMMA ItemSums ==
  ASSUME NEW ss \in Seq(Sale), NEW p, NEW I \in SUBSET ItemsIn(ss, p)
  PROVE  /\ IsFiniteSet(I) /\ UnitsIn(ss, I) \in Int /\ ReturnedIn(ss, I) \in Int
         /\ \A i \in I : /\ Whole(ss[i[1]].items[i[2]].quantity) \in Int
                         /\ ss[i[1]].items[i[2]].return_items \in Int
<1>1. IsFiniteSet(I)
  BY ItemsAre, FS_Subset
<1>2. ASSUME NEW i \in I
      PROVE  /\ Whole(ss[i[1]].items[i[2]].quantity) \in Int
             /\ ss[i[1]].items[i[2]].return_items \in Int
  <2>1. ss[i[1]].items[i[2]] \in Item
    BY ItemsAre
  <2>2. ss[i[1]].items[i[2]].quantity \in Int /\ ss[i[1]].items[i[2]].return_items \in Int
    BY <2>1 DEF Item
  <2>3. Whole(ss[i[1]].items[i[2]].quantity) \in Int
    BY <2>2, WholeInt
  <2> QED
    BY <2>2, <2>3
<1> DEFINE f == [i \in I |-> Whole(ss[i[1]].items[i[2]].quantity)]
           g == [i \in I |-> ss[i[1]].items[i[2]].return_items]
<1>3. \A i \in I : f[i] \in Int /\ g[i] \in Int
  BY <1>2
<1>4. SumFunctionOnSet(f, I) \in Int /\ SumFunctionOnSet(g, I) \in Int
  <2> HIDE DEF f, g
  <2> QED
    BY <1>1, <1>3, SumType
<1> QED
  BY <1>1, <1>2, <1>4 DEF UnitsIn, ReturnedIn

\* Sums are the same where the items have the same quantities.
LEMMA SameSums ==
  ASSUME NEW ss \in Seq(Sale), NEW tt, NEW p, NEW I \in SUBSET ItemsIn(ss, p)
  PROVE  /\ (\A i \in I : tt[i[1]].items[i[2]].quantity = ss[i[1]].items[i[2]].quantity)
               => UnitsIn(tt, I) = UnitsIn(ss, I)
         /\ (\A i \in I : tt[i[1]].items[i[2]].return_items = ss[i[1]].items[i[2]].return_items)
               => ReturnedIn(tt, I) = ReturnedIn(ss, I)
<1>1. IsFiniteSet(I)
  BY ItemSums
<1>2. ASSUME \A i \in I : tt[i[1]].items[i[2]].quantity = ss[i[1]].items[i[2]].quantity
      PROVE  UnitsIn(tt, I) = UnitsIn(ss, I)
  <2>1. [i \in I |-> Whole(tt[i[1]].items[i[2]].quantity)]
          = [i \in I |-> Whole(ss[i[1]].items[i[2]].quantity)]
    BY <1>2
  <2> QED
    BY <2>1 DEF UnitsIn
<1>3. ASSUME \A i \in I : tt[i[1]].items[i[2]].return_items = ss[i[1]].items[i[2]].return_items
      PROVE  ReturnedIn(tt, I) = ReturnedIn(ss, I)
  <2>1. [i \in I |-> tt[i[1]].items[i[2]].return_items]
          = [i \in I |-> ss[i[1]].items[i[2]].return_items]
    BY <1>3
  <2> QED
    BY <2>1 DEF ReturnedIn
<1> QED
  BY <1>2, <1>3

\* Items of p in two parts that have nothing in common.
Parts(ss, p, all, I, J) ==
    /\ all \subseteq ItemsIn(ss, p) /\ all = I \cup J /\ I \cap J = {}

\* Their sums.
LEMMA JoinedSums ==
  ASSUME NEW ss \in Seq(Sale), NEW p, NEW all, NEW I, NEW J, Parts(ss, p, all, I, J)
  PROVE  /\ UnitsIn(ss, all) = UnitsIn(ss, I) + UnitsIn(ss, J)
         /\ ReturnedIn(ss, all) = ReturnedIn(ss, I) + ReturnedIn(ss, J)
<1>0. /\ I \in SUBSET ItemsIn(ss, p) /\ J \in SUBSET ItemsIn(ss, p)
      /\ all \in SUBSET ItemsIn(ss, p) /\ all = I \cup J /\ I \cap J = {}
  BY DEF Parts
<1> DEFINE fAll == [i \in all |-> Whole(ss[i[1]].items[i[2]].quantity)]
           fI == [i \in I |-> Whole(ss[i[1]].items[i[2]].quantity)]
           fJ == [i \in J |-> Whole(ss[i[1]].items[i[2]].quantity)]
           gAll == [i \in all |-> ss[i[1]].items[i[2]].return_items]
           gI == [i \in I |-> ss[i[1]].items[i[2]].return_items]
           gJ == [i \in J |-> ss[i[1]].items[i[2]].return_items]
<1>1. /\ IsFiniteSet(I) /\ IsFiniteSet(J) /\ IsFiniteSet(all)
      /\ \A i \in all : fAll[i] \in Int /\ gAll[i] \in Int
  BY <1>0, ItemSums
<1>2. /\ \A i \in I : fAll[i] = fI[i] /\ gAll[i] = gI[i]
      /\ \A i \in J : fAll[i] = fJ[i] /\ gAll[i] = gJ[i]
  BY <1>0
<1>3. /\ UnitsIn(ss, I) = SumFunctionOnSet(fI, I)
      /\ UnitsIn(ss, J) = SumFunctionOnSet(fJ, J)
      /\ UnitsIn(ss, all) = SumFunctionOnSet(fAll, all)
      /\ ReturnedIn(ss, I) = SumFunctionOnSet(gI, I)
      /\ ReturnedIn(ss, J) = SumFunctionOnSet(gJ, J)
      /\ ReturnedIn(ss, all) = SumFunctionOnSet(gAll, all)
  BY DEF UnitsIn, ReturnedIn
<1>4. \A i \in I \cup J : fAll[i] \in Int /\ gAll[i] \in Int
  BY <1>0, <1>1
<1> HIDE DEF fAll, fI, fJ, gAll, gI, gJ
<1>5. /\ SumFunctionOnSet(fAll, I) = SumFunctionOnSet(fI, I)
      /\ SumFunctionOnSet(fAll, J) = SumFunctionOnSet(fJ, J)
      /\ SumFunctionOnSet(gAll, I) = SumFunctionOnSet(gI, I)
      /\ SumFunctionOnSet(gAll, J) = SumFunctionOnSet(gJ, J)
  <2>1. SumFunctionOnSet(fAll, I) = SumFunctionOnSet(fI, I)
    BY <1>1, <1>2, SumSame
  <2>2. SumFunctionOnSet(fAll, J) = SumFunctionOnSet(fJ, J)
    BY <1>1, <1>2, SumSame
  <2>3. SumFunctionOnSet(gAll, I) = SumFunctionOnSet(gI, I)
    BY <1>1, <1>2, SumSame
  <2>4. SumFunctionOnSet(gAll, J) = SumFunctionOnSet(gJ, J)
    BY <1>1, <1>2, SumSame
  <2> QED
    BY <2>1, <2>2, <2>3, <2>4
<1>6. /\ SumFunctionOnSet(fAll, I \cup J)
           = SumFunctionOnSet(fAll, I) + SumFunctionOnSet(fAll, J)
      /\ SumFunctionOnSet(gAll, I \cup J)
           = SumFunctionOnSet(gAll, I) + SumFunctionOnSet(gAll, J)
  BY <1>0, <1>1, <1>4, SumUnion
<1> QED
  BY <1>0, <1>3, <1>5, <1>6

-----------------------------------------------------------------------------
\* What a session has pending moves what its lines say

\* Sums over the lines and the items of a session are finite sums of numbers.
LEMMA SessionSums ==
  ASSUME NEW u \in Session, NEW p
  PROVE  /\ IsFiniteSet(LinesOf(u, p)) /\ IsFiniteSet(CopiesOf(u, p))
         /\ \A k \in DOMAIN u.lines : Whole(u.lines[k].quantity) \in Int
         /\ LineUnits(u, p) \in Int
<1>1. /\ DOMAIN u.lines = 1 .. Len(u.lines) /\ Len(u.lines) \in Nat
      /\ DOMAIN u.items = 1 .. Len(u.items) /\ Len(u.items) \in Nat
  BY LenProperties DEF Session
<1>2. IsFiniteSet(DOMAIN u.lines) /\ IsFiniteSet(DOMAIN u.items)
  BY <1>1, FS_Interval
<1>3. IsFiniteSet(LinesOf(u, p)) /\ IsFiniteSet(CopiesOf(u, p))
  BY <1>2, FS_Subset DEF LinesOf, CopiesOf
<1>4. \A k \in DOMAIN u.lines : Whole(u.lines[k].quantity) \in Int
  BY LineType, WholeInt
<1> DEFINE f == [k \in DOMAIN u.lines |-> Whole(u.lines[k].quantity)]
           S == LinesOf(u, p)
<1>5. \A k \in S : f[k] \in Int
  BY <1>4 DEF LinesOf
<1>6. SumFunctionOnSet(f, S) \in Int
  <2> HIDE DEF f, S
  <2> QED
    BY <1>3, <1>5, SumType DEF S
<1> QED
  BY <1>3, <1>4, <1>6 DEF LineUnits

\* A session that has processed no line has nothing to show for.
LEMMA NothingMoved ==
  ASSUME NEW u \in Session, NothingPending(u), NEW ph,
         WholeReturns /\ u.op = "RETURN" => WholeLines(u.lines),
         ph = "lines" => /\ u.next = 1
                         /\ u.op = "RETURN" => u.items = u.loaded
  PROVE  MovedOK(u, ph)
<1>1. \A p \in Products : u.rows[p] = <<>> /\ DOMAIN u.rows[p] = {}
  BY DEF NothingPending
<1>2. \A p \in Products : \A i \in DOMAIN u.rows[p] : u.rows[p][i].kind = KindOf(u.op)
  BY <1>1
<1>3. \A p \in Products : \A kinds : UnitsMoved(u.rows[p], kinds) = 0
  BY <1>1, MovedNone
<1>4. ASSUME NEW p \in Products, ph = "lines" PROVE LineUnits(u, p) = 0
  <2>1. LinesOf(u, p) = {}
    BY <1>4, LineType DEF LinesOf
  <2> QED
    BY <2>1, SumEmpty DEF LineUnits
<1>5. ASSUME NEW p \in Products, ph = "lines", u.op = "RETURN" PROVE BookedOn(u, p) = 0
  <2> DEFINE f == [k \in DOMAIN u.items |-> u.items[k].return_items - u.loaded[k].return_items]
             S == CopiesOf(u, p)
  <2>1. IsFiniteSet(S)
    BY SessionSums
  <2>2. ASSUME NEW k \in S PROVE f[k] = 0
    <3>1. k \in DOMAIN u.items /\ u.items = u.loaded
      BY <1>5 DEF CopiesOf
    <3>2. u.items[k] \in Item
      BY <3>1, ElementOfSeq, LenProperties DEF Session
    <3>3. u.items[k].return_items \in Nat
      BY <3>2 DEF Item
    <3> QED
      BY <3>1, <3>3
  <2>3. SumFunctionOnSet(f, S) = 0
    <3> HIDE DEF f, S
    <3> QED
      BY <2>1, <2>2, SumZeros
  <2> QED
    BY <2>3 DEF BookedOn
<1>6. (\A m \in Int : -m = 0 - m) /\ Scale * 0 = 0
  <2>1. Scale \in Nat
    BY SessionsAssumption
  <2>2. \A m \in Int : -m = 0 - m
    OBVIOUS
  <2>3. Scale * 0 = 0
    BY <2>1
  <2> QED
    BY <2>2, <2>3
<1> QED
  BY <1>2, <1>3, <1>4, <1>5, <1>6 DEF MovedOK

\* One more line of p adds its units; a line of another product adds nothing.
LEMMA LineUnitsGrow ==
  ASSUME NEW u \in Session, u.next \in DOMAIN u.lines, NEW v \in Session,
         v.lines = u.lines, v.next = u.next + 1, NEW p
  PROVE  LineUnits(v, p) = LineUnits(u, p)
                             + (IF u.lines[u.next].product = p
                                THEN Whole(u.lines[u.next].quantity) ELSE 0)
<1> DEFINE n == u.next
           S == LinesOf(u, p)
           f == [k \in DOMAIN u.lines |-> Whole(u.lines[k].quantity)]
<1>1. /\ IsFiniteSet(S) /\ LineUnits(u, p) \in Int
      /\ \A k \in DOMAIN u.lines : f[k] \in Int
  BY SessionSums
<1>2. \A k \in DOMAIN u.lines : k \in Nat /\ n \in Nat
  BY LineType
<1>3. n \notin S /\ S \subseteq DOMAIN u.lines
  BY <1>2 DEF LinesOf
<1>4. LinesOf(v, p) = IF u.lines[n].product = p THEN S \cup {n} ELSE S
  BY <1>2 DEF LinesOf
<1>5. /\ LineUnits(u, p) = SumFunctionOnSet(f, S)
      /\ LineUnits(v, p) = SumFunctionOnSet(f, LinesOf(v, p))
  BY DEF LineUnits
<1>6. SumFunctionOnSet(f, S \cup {n}) = f[n] + SumFunctionOnSet(f, S)
  <2>1. \A k \in S \cup {n} : f[k] \in Int
    BY <1>1, <1>3
  <2> HIDE DEF f, S, n
  <2> QED
    BY <1>1, <1>3, <2>1, SumAdd
<1>7. f[n] = Whole(u.lines[n].quantity) /\ f[n] \in Int
  BY <1>1
<1> HIDE DEF f, S
<1> QED
  BY <1>1, <1>4, <1>5, <1>6, <1>7

\* v has q more booked as returned on item k than u.
BooksMore(u, v, k, q) ==
    /\ DOMAIN u.loaded = DOMAIN u.items /\ v.loaded = u.loaded
    /\ DOMAIN v.items = DOMAIN u.items /\ k \in DOMAIN u.items /\ q \in Int
    /\ \A i \in DOMAIN u.items : v.items[i].product = u.items[i].product
    /\ v.items[k].return_items = u.items[k].return_items + q
    /\ \A i \in DOMAIN u.items \ {k} : v.items[i].return_items = u.items[i].return_items

\* What one more booked return adds.
LEMMA BookedGrows ==
  ASSUME NEW u \in Session, NEW v \in Session, NEW k, NEW q, BooksMore(u, v, k, q), NEW p
  PROVE  /\ BookedOn(u, p) \in Int
         /\ BookedOn(v, p) = BookedOn(u, p) + (IF u.items[k].product = p THEN q ELSE 0)
<1> DEFINE S == CopiesOf(u, p)
           f == [i \in DOMAIN u.items |-> u.items[i].return_items - u.loaded[i].return_items]
           g == [i \in DOMAIN v.items |-> v.items[i].return_items - v.loaded[i].return_items]
<1>0. /\ DOMAIN u.loaded = DOMAIN u.items /\ v.loaded = u.loaded
      /\ DOMAIN v.items = DOMAIN u.items /\ k \in DOMAIN u.items /\ q \in Int
      /\ \A i \in DOMAIN u.items : v.items[i].product = u.items[i].product
      /\ v.items[k].return_items = u.items[k].return_items + q
      /\ \A i \in DOMAIN u.items \ {k} : v.items[i].return_items = u.items[i].return_items
  BY DEF BooksMore
<1>1. ASSUME NEW i \in DOMAIN u.items
      PROVE  /\ u.items[i].return_items \in Nat /\ v.items[i].return_items \in Nat
             /\ u.loaded[i].return_items \in Nat
  <2>1. u.items[i] \in Item /\ v.items[i] \in Item /\ u.loaded[i] \in Item
    BY <1>0, ElementOfSeq, LenProperties DEF Session
  <2> QED
    BY <2>1 DEF Item
<1>2. \A i \in DOMAIN u.items : f[i] \in Int /\ g[i] \in Int /\ (i # k => f[i] = g[i])
  BY <1>0, <1>1
<1>3. g[k] - f[k] = q
  BY <1>0, <1>1
<1>4. IsFiniteSet(S) /\ CopiesOf(v, p) = S /\ S \subseteq DOMAIN u.items
      /\ (k \in S <=> u.items[k].product = p)
  BY <1>0, SessionSums DEF CopiesOf
<1>5. BookedOn(u, p) = SumFunctionOnSet(f, S) /\ BookedOn(v, p) = SumFunctionOnSet(g, S)
  BY <1>0, <1>4 DEF BookedOn
<1>6. \A i \in S : /\ f[i] \in Int /\ g[i] \in Int
                   /\ i # k => f[i] = g[i]
  BY <1>2, <1>4
<1> HIDE DEF f, g, S
<1>7. SumFunctionOnSet(f, S) \in Int
  BY <1>4, <1>6, SumType
<1>8. ASSUME k \in S PROVE SumFunctionOnSet(g, S) = SumFunctionOnSet(f, S) + q
  <2>1. SumFunctionOnSet(g, S) = SumFunctionOnSet(f, S) + (g[k] - f[k])
    BY <1>4, <1>6, <1>8, SumChange
  <2> QED
    BY <1>3, <2>1
<1>9. ASSUME k \notin S PROVE SumFunctionOnSet(g, S) = SumFunctionOnSet(f, S)
  <2>1. \A i \in S : f[i] = g[i]
    BY <1>6, <1>9
  <2> QED
    BY <1>4, <2>1, SumSame
<1> QED
  BY <1>0, <1>4, <1>5, <1>7, <1>8, <1>9

\* The rows of v for q say change more than those of u, if q is the product p that
\* moved, and are of one kind if those are.
LeavesRow(u, v, p, q, kind, change) ==
    /\ UnitsMoved(u.rows[q], {kind}) \in Int
    /\ UnitsMoved(v.rows[q], {kind}) = UnitsMoved(u.rows[q], {kind})
                                         + (IF p = q THEN change ELSE 0)
    /\ (\A i \in DOMAIN u.rows[q] : u.rows[q][i].kind = kind) =>
          \A i \in DOMAIN v.rows[q] : v.rows[q][i].kind = kind

\* A line that moves p leaves its units on a pending row.
LEMMA LineLeavesRow ==
  ASSUME NEW u \in Session, NEW v \in Session, NEW p \in Products, NEW kind \in Kinds,
         NEW change \in Int, LineMoved(u, v, p, kind, change), NEW q \in Products \ Services
  PROVE  LeavesRow(u, v, p, q, kind, change)
<1> USE DEF LeavesRow
<1>1. u.rows[q] \in Seq(Row) /\ u.stock[q] \in Nat /\ v.stock[q] \in Nat
  BY DEF Session
<1>2. UnitsMoved(u.rows[q], {kind}) \in Int
  BY <1>1, MovedType
<1>3. CASE p = q
  <2> DEFINE row == JournalRow(u, q, kind, change)
  <2>1. v.rows[q] = Append(u.rows[q], row) /\ v.stock[q] = u.stock[q] + change
    BY <1>3 DEF LineMoved
  <2>2. row \in Row /\ row.kind = kind /\ row.change = change
    BY <1>1, <2>1 DEF JournalRow, Movement, Row
  <2> HIDE DEF row
  <2>3. UnitsMoved(v.rows[q], {kind}) = UnitsMoved(u.rows[q], {kind}) + change
    <3>1. kind \in {kind}
      OBVIOUS
    <3> QED
      BY <1>1, <2>1, <2>2, <3>1, MovedAppend
  <2>4. ASSUME \A i \in DOMAIN u.rows[q] : u.rows[q][i].kind = kind,
               NEW i \in DOMAIN v.rows[q]
        PROVE  v.rows[q][i].kind = kind
    BY <1>1, <2>1, <2>2, <2>4, AppendProperties, LenProperties
  <2> QED
    BY <1>2, <1>3, <2>3, <2>4
<1>4. CASE p # q
  <2>1. v.rows[q] = u.rows[q]
    BY <1>4 DEF LineMoved
  <2> QED
    BY <1>2, <1>4, <2>1
<1> QED
  BY <1>3, <1>4

\* Nothing pending is on a product that is a service.
LEMMA ServiceKeepsRows ==
  ASSUME NEW u, NEW v, NEW p \in Products, NEW kind, NEW change,
         LineMoved(u, v, p, kind, change), NEW q \in Services
  PROVE  q \in Products /\ v.rows[q] = u.rows[q]
BY SessionsAssumption DEF LineMoved

\* Processing a line keeps what the rows say.
LEMMA MovesLineMoved ==
  ASSUME IInv, NEW w \in Workers, MovesLine(w), MovedOK(uow[w], phase[w])
  PROVE  /\ UNCHANGED db
         /\ \E v \in Session : Continue(w, v, "lines") /\ MovedOK(v, "lines")
<1> DEFINE o == uow[w]
           n == o.next
           line == CurrentLine(w)
<1>1. /\ o \in Session /\ phase[w] = "lines" /\ n \in DOMAIN o.lines
      /\ o.op \in {"SALE", "VOID", "RETURN", "RESTOCK"}
  BY MovesLineBooks
<1>2. PICK u, p, kind, change : Booking(w, u, p, kind, change)
  BY MovesLineBooks
<1>3. PICK v \in Session : /\ Continue(w, v, "lines") /\ PendingOK(v)
                           /\ LineMoved(u, v, p, kind, change)
  BY <1>2, MovesLineStep
<1>4. UNCHANGED db
  BY <1>2, MovesLineStep
<1>5. /\ u \in Session /\ Booked(o, u) /\ Meant(line, o, u, p, kind, change)
      /\ p \in Products /\ kind \in Kinds /\ change \in Int
      /\ u.op # "RETURN" => p = line.product
  BY <1>2 DEF Booking
<1>6. /\ v.op = o.op /\ v.lines = o.lines /\ v.next = n + 1 /\ v.loaded = o.loaded
      /\ u.op = o.op /\ u.rows = o.rows /\ v.items = u.items /\ kind = o.op
  BY <1>3, <1>5 DEF LineMoved, SameRequest, Booked, Meant
<1>7. line = o.lines[n] /\ line.quantity \in Int /\ line.product \in Products
  BY <1>1, LineType DEF CurrentLine
<1>8. /\ \A q \in Products : \A i \in DOMAIN o.rows[q] : o.rows[q][i].kind = kind
      /\ WholeReturns /\ o.op = "RETURN" => WholeLines(o.lines)
      /\ KindOf(v.op) = kind
  BY <1>1, <1>6 DEF MovedOK, KindOf
<1>9. ASSUME NEW q \in Products \ Services
      PROVE  /\ UnitsMoved(o.rows[q], {kind}) \in Int
             /\ UnitsMoved(v.rows[q], {kind}) = UnitsMoved(o.rows[q], {kind})
                                             + (IF p = q THEN change ELSE 0)
             /\ \A i \in DOMAIN v.rows[q] : v.rows[q][i].kind = kind
  <2>1. u \in Session /\ v \in Session /\ LineMoved(u, v, p, kind, change)
    BY <1>3, <1>5
  <2>2. p \in Products /\ kind \in Kinds /\ change \in Int
    BY <1>5
  <2>3. LeavesRow(u, v, p, q, kind, change)
    BY <2>1, <2>2, LineLeavesRow
  <2>4. \A i \in DOMAIN o.rows[q] : o.rows[q][i].kind = kind
    BY <1>8
  <2>5. u.rows = o.rows
    BY <1>6
  <2> QED
    BY <2>3, <2>4, <2>5 DEF LeavesRow
<1>10. ASSUME NEW q \in Services
       PROVE  \A i \in DOMAIN v.rows[q] : v.rows[q][i].kind = kind
  <2>1. q \in Products /\ v.rows[q] = u.rows[q]
    BY <1>3, <1>5, ServiceKeepsRows
  <2> QED
    BY <1>6, <1>8, <2>1
<1>11. \A q \in Products \ Services :
          /\ o.op = "SALE" => UnitsMoved(o.rows[q], {"SALE"}) = -LineUnits(o, q)
          /\ o.op = "VOID" => UnitsMoved(o.rows[q], {"VOID"}) = LineUnits(o, q)
          /\ WholeReturns /\ o.op = "RETURN" =>
                Scale * UnitsMoved(o.rows[q], {"RETURN"}) = BookedOn(o, q)
  BY <1>1 DEF MovedOK
<1>12. \A q : /\ LineUnits(o, q) \in Int
              /\ LineUnits(v, q) = LineUnits(o, q)
                                    + (IF line.product = q THEN Whole(line.quantity) ELSE 0)
  BY <1>1, <1>3, <1>6, <1>7, LineUnitsGrow, SessionSums
<1>13. Whole(line.quantity) \in Int /\ Scale \in Nat
  BY <1>7, WholeInt, SessionsAssumption
<1>14. ASSUME NEW q \in Products \ Services, v.op = "SALE"
       PROVE  UnitsMoved(v.rows[q], {"SALE"}) = -LineUnits(v, q)
  <2>1. p = line.product /\ change = -Whole(line.quantity) /\ kind = "SALE"
    BY <1>5, <1>6, <1>14 DEF Meant
  <2>2. /\ UnitsMoved(o.rows[q], {"SALE"}) = -LineUnits(o, q)
        /\ UnitsMoved(v.rows[q], {"SALE"}) = UnitsMoved(o.rows[q], {"SALE"})
                                          + (IF p = q THEN change ELSE 0)
    BY <1>6, <1>9, <1>11, <1>14, <2>1
  <2> HIDE DEF o, line
  <2> QED
    BY <1>12, <1>13, <2>1, <2>2
<1>15. ASSUME NEW q \in Products \ Services, v.op = "VOID"
       PROVE  UnitsMoved(v.rows[q], {"VOID"}) = LineUnits(v, q)
  <2>1. p = line.product /\ change = Whole(line.quantity) /\ kind = "VOID"
    BY <1>5, <1>6, <1>15 DEF Meant
  <2>2. /\ UnitsMoved(o.rows[q], {"VOID"}) = LineUnits(o, q)
        /\ UnitsMoved(v.rows[q], {"VOID"}) = UnitsMoved(o.rows[q], {"VOID"})
                                          + (IF p = q THEN change ELSE 0)
    BY <1>6, <1>9, <1>11, <1>15, <2>1
  <2> HIDE DEF o, line
  <2> QED
    BY <1>12, <1>13, <2>1, <2>2
<1>16. ASSUME NEW q \in Products \ Services, v.op = "RETURN", WholeReturns
       PROVE  Scale * UnitsMoved(v.rows[q], {"RETURN"}) = BookedOn(v, q)
  <2>1. change = Whole(line.quantity) /\ kind = "RETURN"
    BY <1>5, <1>6, <1>16 DEF Meant
  <2>2. PICK k \in DOMAIN u.items :
           /\ p = u.items[k].product
           /\ u.items[k].return_items = o.items[k].return_items + line.quantity
           /\ \A i \in DOMAIN u.items \ {k} : u.items[i].return_items = o.items[i].return_items
    BY <1>5, <1>6, <1>16 DEF Meant
  <2>3. /\ DOMAIN u.items = DOMAIN o.items
        /\ \A i \in DOMAIN o.items : u.items[i].product = o.items[i].product
    BY <1>5 DEF Booked
  <2>4. DOMAIN o.loaded = DOMAIN o.items
    BY <1>1, <1>6, <1>16 DEF IInv, WorkerOK, CopiesOK
  <2>5. /\ BookedOn(o, q) \in Int
        /\ BookedOn(v, q) = BookedOn(o, q) + (IF o.items[k].product = q
                                              THEN line.quantity ELSE 0)
    <3>1. /\ k \in DOMAIN o.items /\ DOMAIN v.items = DOMAIN o.items
          /\ v.items[k].return_items = o.items[k].return_items + line.quantity
          /\ \A i \in DOMAIN o.items \ {k} : v.items[i].return_items = o.items[i].return_items
          /\ \A i \in DOMAIN o.items : v.items[i].product = o.items[i].product
      BY <1>6, <2>2, <2>3
    <3>2. o \in Session /\ v \in Session /\ v.loaded = o.loaded /\ line.quantity \in Int
      BY <1>1, <1>6, <1>7
    <3> HIDE DEF o, line
    <3>3. BooksMore(o, v, k, line.quantity)
      BY <2>4, <3>1, <3>2 DEF BooksMore
    <3> QED
      BY <3>2, <3>3, BookedGrows
  <2>6. line.quantity = Scale * Whole(line.quantity)
    BY <1>1, <1>6, <1>7, <1>8, <1>16 DEF WholeLines
  <2>7. /\ Scale * UnitsMoved(o.rows[q], {"RETURN"}) = BookedOn(o, q)
        /\ UnitsMoved(o.rows[q], {"RETURN"}) \in Int
        /\ UnitsMoved(v.rows[q], {"RETURN"}) = UnitsMoved(o.rows[q], {"RETURN"})
                                            + (IF p = q THEN change ELSE 0)
    BY <1>6, <1>9, <1>11, <1>16, <2>1
  <2>8. o.items[k].product = p
    BY <2>2, <2>3
  <2> DEFINE m == UnitsMoved(o.rows[q], {"RETURN"})
  <2>9. Scale * (m + change) = Scale * m + Scale * change /\ Scale * (m + 0) = Scale * m + 0
    <3>1. m \in Int /\ change \in Int
      BY <1>5, <2>7
    <3> HIDE DEF m
    <3> QED
      BY <1>13, <3>1
  <2> HIDE DEF o, line
  <2> QED
    BY <1>13, <2>1, <2>5, <2>6, <2>7, <2>8, <2>9
<1>17. MovedOK(v, "lines")
  <2>1. \A q \in Products : \A i \in DOMAIN v.rows[q] : v.rows[q][i].kind = KindOf(v.op)
    BY <1>8, <1>9, <1>10
  <2>2. WholeReturns /\ v.op = "RETURN" => WholeLines(v.lines)
    BY <1>6, <1>8
  <2> HIDE DEF o, line
  <2> QED
    BY <1>14, <1>15, <1>16, <2>1, <2>2 DEF MovedOK
<1> QED
  BY <1>3, <1>4, <1>17

-----------------------------------------------------------------------------
\* The journal holds what the sale items say

\* A session that has stored nothing yet goes on.
LEMMA JournalGoesOn ==
  ASSUME JournalInv, IInv', NEW w \in Workers, NEW u, NEW ph,
         Continue(w, u, ph), UNCHANGED db, MovedOK(u, ph)
  PROVE  JournalInv'
<1>1. uow'[w] = u /\ phase'[w] = ph
      /\ \A v \in Workers \ {w} : uow'[v] = uow[v] /\ phase'[v] = phase[v]
  BY DEF Continue, JournalInv, IInv, TypeOK
<1>2. \A v \in Workers : MovedOK(uow'[v], phase'[v])
  BY <1>1 DEF JournalInv
<1>3. SoldStockIsJournaled' /\ (WholeReturns => ReturnsAreJournaled')
  <2>1. ledger' = ledger /\ sales' = sales
    BY DEF db
  <2>2. SoldStockIsJournaled' <=> SoldStockIsJournaled
    BY <2>1 DEF SoldStockIsJournaled, Journaled, UnitsOn, ItemsOf, SaleItem
  <2>3. ReturnsAreJournaled' <=> ReturnsAreJournaled
    BY <2>1 DEF ReturnsAreJournaled, Journaled, ReturnedOn, ItemsOf, SaleItem
  <2> QED
    BY <2>2, <2>3 DEF JournalInv
<1> QED
  BY <1>2, <1>3 DEF JournalInv

\* A session that is over has nothing pending.
LEMMA JournalEnds ==
  ASSUME JournalInv, IInv', NEW w \in Workers, Close(w),
         SoldStockIsJournaled', WholeReturns => ReturnsAreJournaled'
  PROVE  JournalInv'
<1>1. uow'[w] = NoSession /\ phase'[w] = "idle"
      /\ \A v \in Workers \ {w} : uow'[v] = uow[v] /\ phase'[v] = phase[v]
  BY DEF Close, Continue, JournalInv, IInv, TypeOK
<1>2. MovedOK(NoSession, "idle")
  <2>1. NoSession.op = "SALE"
    BY DEF NoSession, NewSession
  <2> QED
    BY <2>1, NoSessionOK, NothingMoved
<1>3. \A v \in Workers : MovedOK(uow'[v], phase'[v])
  BY <1>1, <1>2 DEF JournalInv
<1> QED
  BY <1>3 DEF JournalInv

\* A commit appends what the session has pending.
LEMMA JournalWritten ==
  ASSUME TypeOK, NEW u \in Session, WriteStock(u), NEW p \in Products, NEW kinds
  PROVE  /\ UnitsMoved(ledger[p], kinds) \in Int /\ UnitsMoved(u.rows[p], kinds) \in Int
         /\ UnitsMoved(ledger'[p], kinds)
              = UnitsMoved(ledger[p], kinds) + UnitsMoved(u.rows[p], kinds)
<1>1. ledger[p] \in Seq(Row) /\ u.rows[p] \in Seq(Row)
  BY DEF TypeOK, Session
<1>2. ledger'[p] = ledger[p] \o u.rows[p]
  BY DEF WriteStock
<1> QED
  BY <1>1, <1>2, MovedConcat, MovedType

\* A session has no rows of another operation.
LEMMA OtherKinds ==
  ASSUME NEW u, NEW ph, MovedOK(u, ph), NEW kinds, KindOf(u.op) \notin kinds
  PROVE  \A p \in Products : UnitsMoved(u.rows[p], kinds) = 0
<1>1. \A p \in Products : \A i \in DOMAIN u.rows[p] : u.rows[p][i].kind \notin kinds
  BY DEF MovedOK
<1> QED
  BY <1>1, MovedNone

\* Sales that name the same products have the same items of each.
LEMMA SameItems ==
  ASSUME NEW ss \in Seq(Sale), NEW tt \in Seq(Sale), DOMAIN tt = DOMAIN ss,
         \A s \in DOMAIN ss :
            /\ DOMAIN tt[s].items = DOMAIN ss[s].items
            /\ \A k \in DOMAIN ss[s].items : tt[s].items[k].product = ss[s].items[k].product,
         NEW p
  PROVE  ItemsIn(tt, p) = ItemsIn(ss, p)
<1>1. ASSUME NEW i \in ItemsIn(ss, p) PROVE i \in ItemsIn(tt, p)
  <2>1. /\ i[1] \in DOMAIN ss /\ i[2] \in DOMAIN ss[i[1]].items /\ i = <<i[1], i[2]>>
        /\ ss[i[1]].items[i[2]].product = p
    BY ItemsAre
  <2>2. <<i[1], i[2]>> \in ItemsIn(tt, p)
    BY <2>1, ItemsAre
  <2> QED
    BY <2>1, <2>2
<1>2. ASSUME NEW i \in ItemsIn(tt, p) PROVE i \in ItemsIn(ss, p)
  <2>1. /\ i[1] \in DOMAIN tt /\ i[2] \in DOMAIN tt[i[1]].items /\ i = <<i[1], i[2]>>
        /\ tt[i[1]].items[i[2]].product = p
    BY ItemsAre
  <2>2. <<i[1], i[2]>> \in ItemsIn(ss, p)
    BY <2>1, ItemsAre
  <2> QED
    BY <2>1, <2>2
<1> QED
  BY <1>1, <1>2

\* What moves neither sales nor returns leaves both sums as they are.
LEMMA OtherCommits ==
  ASSUME JournalInv, NEW u \in Session, WriteStock(u),
         \A p \in Products : \A i \in DOMAIN u.rows[p] :
             u.rows[p][i].kind \notin {"SALE", "RETURN"},
         sales' \in Seq(Sale), DOMAIN sales' = DOMAIN sales,
         \A s \in DOMAIN sales : sales'[s].items = sales[s].items
  PROVE  SoldStockIsJournaled' /\ (WholeReturns => ReturnsAreJournaled')
<1>1. TypeOK /\ sales \in Seq(Sale)
  BY DEF JournalInv, IInv, TypeOK
<1>3. ASSUME NEW p \in Products
      PROVE  /\ UnitsMoved(ledger'[p], {"SALE"}) = UnitsMoved(ledger[p], {"SALE"})
             /\ UnitsMoved(ledger'[p], {"RETURN"}) = UnitsMoved(ledger[p], {"RETURN"})
  <2>1. UnitsMoved(u.rows[p], {"SALE"}) = 0 /\ UnitsMoved(u.rows[p], {"RETURN"}) = 0
    <3>1. \A i \in DOMAIN u.rows[p] : /\ u.rows[p][i].kind \notin {"SALE"}
                                      /\ u.rows[p][i].kind \notin {"RETURN"}
      OBVIOUS
    <3> QED
      BY <3>1, MovedNone
  <2>2. /\ UnitsMoved(ledger[p], {"SALE"}) \in Int
        /\ UnitsMoved(ledger'[p], {"SALE"})
             = UnitsMoved(ledger[p], {"SALE"}) + UnitsMoved(u.rows[p], {"SALE"})
    BY <1>1, JournalWritten
  <2>3. /\ UnitsMoved(ledger[p], {"RETURN"}) \in Int
        /\ UnitsMoved(ledger'[p], {"RETURN"})
             = UnitsMoved(ledger[p], {"RETURN"}) + UnitsMoved(u.rows[p], {"RETURN"})
    BY <1>1, JournalWritten
  <2> QED
    BY <2>1, <2>2, <2>3
<1>4. ASSUME NEW p
      PROVE  /\ ItemsIn(sales', p) = ItemsIn(sales, p)
             /\ UnitsIn(sales', ItemsIn(sales, p)) = UnitsIn(sales, ItemsIn(sales, p))
             /\ ReturnedIn(sales', ItemsIn(sales, p)) = ReturnedIn(sales, ItemsIn(sales, p))
  <2>1. ItemsIn(sales', p) = ItemsIn(sales, p)
    BY <1>1, SameItems
  <2> DEFINE tt == sales'
             I  == ItemsIn(sales, p)
  <2>2. \A i \in I : tt[i[1]].items = sales[i[1]].items
    BY <1>1, ItemsAre
  <2>3. UnitsIn(tt, I) = UnitsIn(sales, I) /\ ReturnedIn(tt, I) = ReturnedIn(sales, I)
    <3>1. I \in SUBSET ItemsIn(sales, p)
      OBVIOUS
    <3>2. \A i \in I : /\ tt[i[1]].items[i[2]].quantity = sales[i[1]].items[i[2]].quantity
                       /\ tt[i[1]].items[i[2]].return_items
                            = sales[i[1]].items[i[2]].return_items
      BY <2>2
    <3> HIDE DEF tt, I
    <3> QED
      BY <1>1, <3>1, <3>2, SameSums
  <2> QED
    BY <2>1, <2>3
<1>5. SoldStockIsJournaled'
  BY <1>3, <1>4, SumsOfSales DEF JournalInv, SoldStockIsJournaled, Journaled,
                                 UnitsOn, UnitsIn, ItemsOf, ItemsIn, SaleItem
<1>6. WholeReturns => ReturnsAreJournaled'
  BY <1>3, <1>4, SumsOfSales DEF JournalInv, ReturnsAreJournaled, Journaled,
                                 ReturnedOn, ReturnedIn, ItemsOf, ItemsIn, SaleItem
<1> QED
  BY <1>5, <1>6

\* The items of a new sale add the units of its lines, and no returns.
LEMMA NewItems ==
  ASSUME NEW ss \in Seq(Sale), NEW tt \in Seq(Sale), NEW u \in Session, Counted(u.lines),
         u.next > Len(u.lines), NEW n \in Nat \ {0}, DOMAIN ss = 1 .. n - 1, DOMAIN tt = 1 .. n,
         tt[n] = NewSale(u), \A s \in DOMAIN ss : tt[s] = ss[s], NEW p
  PROVE  /\ UnitsIn(tt, ItemsIn(tt, p)) = UnitsIn(ss, ItemsIn(ss, p)) + LineUnits(u, p)
         /\ ReturnedIn(tt, ItemsIn(tt, p)) = ReturnedIn(ss, ItemsIn(ss, p))
         /\ ItemsIn(ss, p) \subseteq ItemsIn(tt, p)
         /\ \A i \in ItemsIn(tt, p) : i \in ItemsIn(ss, p) \/ i[1] = n
<1> DEFINE I == ItemsIn(ss, p)
           J == ItemsIn(tt, p)
           L == LinesOf(u, p)
           h == [k \in L |-> <<n, k>>]
           N == {h[k] : k \in L}
           f == [k \in DOMAIN u.lines |-> Whole(u.lines[k].quantity)]
           g == [i \in N |-> Whole(tt[i[1]].items[i[2]].quantity)]
           b == [i \in N |-> tt[i[1]].items[i[2]].return_items]
<1>1. /\ DOMAIN tt[n].items = DOMAIN u.lines
      /\ \A k \in DOMAIN u.lines : /\ tt[n].items[k].product = u.lines[k].product
                                   /\ tt[n].items[k].quantity = u.lines[k].quantity
                                   /\ tt[n].items[k].return_items = 0
  BY DEF NewSale
<1>2. n \in DOMAIN tt /\ n \notin DOMAIN ss /\ DOMAIN ss \subseteq DOMAIN tt
  OBVIOUS
<1>3. \A k \in DOMAIN u.lines : k \in L <=> u.lines[k].product = p
  <2>1. \A k \in DOMAIN u.lines : k < u.next
    BY LineType DEF Session
  <2> QED
    BY <2>1 DEF LinesOf
<1>4. L \subseteq DOMAIN u.lines /\ IsFiniteSet(L)
  BY SessionSums DEF LinesOf
<1>5. \A k \in L : h[k] = <<n, k>> /\ h[k] \in N
  OBVIOUS
<1>6. I \subseteq J
  <2> SUFFICES ASSUME NEW i \in I PROVE i \in J
    OBVIOUS
  <2>1. /\ i[1] \in DOMAIN ss /\ i[2] \in DOMAIN ss[i[1]].items /\ i = <<i[1], i[2]>>
        /\ ss[i[1]].items[i[2]].product = p
    BY ItemsAre
  <2>2. <<i[1], i[2]>> \in J
    BY <1>2, <2>1, ItemsAre
  <2> QED
    BY <2>1, <2>2
<1>7. \A k \in L : <<n, k>> \in J
  BY <1>1, <1>2, <1>3, <1>4, ItemsAre
<1>8. N \subseteq J
  <2> HIDE DEF J, L
  <2> QED
    BY <1>5, <1>7
<1>9. \A i \in J : i \in I \/ i \in N
  <2> SUFFICES ASSUME NEW i \in J PROVE i \in I \/ i \in N
    OBVIOUS
  <2>1. /\ i[1] \in DOMAIN tt /\ i[2] \in DOMAIN tt[i[1]].items /\ i = <<i[1], i[2]>>
        /\ tt[i[1]].items[i[2]].product = p
    BY ItemsAre
  <2>2. CASE i[1] \in DOMAIN ss
    <3>1. <<i[1], i[2]>> \in I
      BY <2>1, <2>2, ItemsAre
    <3> QED
      BY <2>1, <3>1
  <2>3. CASE i[1] = n
    <3>1. i[2] \in L
      BY <1>1, <1>3, <2>1, <2>3
    <3>2. i = h[i[2]]
      BY <1>5, <2>1, <2>3, <3>1
    <3> QED
      BY <3>1, <3>2
  <2>4. i[1] \in DOMAIN ss \/ i[1] = n
    BY <2>1
  <2> QED
    BY <2>2, <2>3, <2>4
<1>10. \A i \in N : i[1] = n /\ i[2] \in L
  BY <1>5
<1>11. I \cap N = {} /\ J = I \cup N
  <2>1. \A i \in I : i[1] # n
    BY <1>2, ItemsAre
  <2> HIDE DEF I, J, N
  <2> QED
    BY <1>6, <1>8, <1>9, <1>10, <2>1
<1>12. /\ UnitsIn(tt, J) = UnitsIn(tt, I) + UnitsIn(tt, N)
       /\ ReturnedIn(tt, J) = ReturnedIn(tt, I) + ReturnedIn(tt, N)
  <2>1. Parts(tt, p, J, I, N)
    BY <1>11 DEF Parts
  <2> HIDE DEF I, J, N
  <2> QED
    BY <2>1, JoinedSums
<1>13. UnitsIn(tt, I) = UnitsIn(ss, I) /\ ReturnedIn(tt, I) = ReturnedIn(ss, I)
  <2>1. I \in SUBSET ItemsIn(ss, p)
    OBVIOUS
  <2>2. \A i \in I : tt[i[1]] = ss[i[1]]
    BY ItemsAre
  <2> HIDE DEF I
  <2> QED
    BY <2>1, <2>2, SameSums
<1>14. IsFiniteSet(N)
  <2>1. N \in SUBSET ItemsIn(tt, p)
    BY <1>8
  <2> HIDE DEF N
  <2> QED
    BY <2>1, ItemSums
<1>15. UnitsIn(tt, N) = LineUnits(u, p)
  <2>1. \A k \in L : f[k] \in Int /\ g[h[k]] = f[k]
    BY <1>1, <1>4, <1>5, SessionSums
  <2>2. \A k, j \in L : h[k] = h[j] => k = j
    BY <1>5
  <2>3. N = {h[k] : k \in L}
    OBVIOUS
  <2>4. SumFunctionOnSet(g, N) = SumFunctionOnSet(f, L)
    <3> HIDE DEF f, g, h, N, L
    <3>1. Paired(f, g, L, N, h)
      BY <1>4, <1>14, <2>1, <2>2, <2>3 DEF Paired
    <3> QED
      BY <3>1, SumPaired
  <2> QED
    BY <2>4 DEF UnitsIn, LineUnits
<1>16. ReturnedIn(tt, N) = 0
  <2>1. \A i \in N : b[i] = 0
    BY <1>1, <1>4, <1>10
  <2>2. SumFunctionOnSet(b, N) = 0
    <3> HIDE DEF b, N
    <3> QED
      BY <1>14, <2>1, SumZeros
  <2> QED
    BY <2>2 DEF ReturnedIn
<1>17. UnitsIn(ss, I) \in Int /\ ReturnedIn(ss, I) \in Int
  BY ItemSums
<1> HIDE DEF I, J, L, N
<1>18. ReturnedIn(tt, J) = ReturnedIn(ss, I) /\ UnitsIn(tt, J) = UnitsIn(ss, I) + LineUnits(u, p)
  BY <1>12, <1>13, <1>15, <1>16, <1>17
<1>19. \A i \in J : i \in I \/ i[1] = n
  BY <1>9, <1>10
<1> QED
  BY <1>6, <1>18, <1>19 DEF I, J

\* tt is ss after the return that the session u has booked on the sale s.
Returned(ss, tt, s, u) ==
    /\ DOMAIN tt = DOMAIN ss /\ s \in DOMAIN ss
    /\ \A r \in DOMAIN ss : r # s => tt[r] = ss[r]
    /\ DOMAIN tt[s].items = DOMAIN ss[s].items /\ DOMAIN u.items = DOMAIN ss[s].items
    /\ \A k \in DOMAIN ss[s].items :
          /\ tt[s].items[k].product = ss[s].items[k].product
          /\ tt[s].items[k].quantity = ss[s].items[k].quantity
          /\ u.items[k].product = ss[s].items[k].product
          /\ u.items[k] \in Item /\ u.loaded[k] \in Item
          /\ tt[s].items[k].return_items = ss[s].items[k].return_items
                 + (u.items[k].return_items - u.loaded[k].return_items)

\* A return adds what its session has booked to the sums of the return rows.
LEMMA ReturnedItems ==
  ASSUME NEW ss \in Seq(Sale), NEW tt \in Seq(Sale), NEW s, NEW u \in Session,
         Returned(ss, tt, s, u), NEW p
  PROVE  /\ ItemsIn(tt, p) = ItemsIn(ss, p)
         /\ UnitsIn(tt, ItemsIn(tt, p)) = UnitsIn(ss, ItemsIn(ss, p))
         /\ ReturnedIn(tt, ItemsIn(tt, p)) = ReturnedIn(ss, ItemsIn(ss, p)) + BookedOn(u, p)
         /\ BookedOn(u, p) \in Int
<1> DEFINE I == ItemsIn(ss, p)
           C == CopiesOf(u, p)
           h == [k \in C |-> <<s, k>>]
           N == {h[k] : k \in C}
           R == I \ N
           e == [k \in DOMAIN u.items |-> u.items[k].return_items - u.loaded[k].return_items]
           d == [i \in N |-> u.items[i[2]].return_items - u.loaded[i[2]].return_items]
           f == [i \in N |-> ss[i[1]].items[i[2]].return_items]
           g == [i \in N |-> tt[i[1]].items[i[2]].return_items]
<1>1. /\ DOMAIN tt = DOMAIN ss /\ s \in DOMAIN ss
      /\ \A r \in DOMAIN ss : r # s => tt[r] = ss[r]
      /\ DOMAIN tt[s].items = DOMAIN ss[s].items /\ DOMAIN u.items = DOMAIN ss[s].items
      /\ \A k \in DOMAIN ss[s].items :
            /\ tt[s].items[k].product = ss[s].items[k].product
            /\ tt[s].items[k].quantity = ss[s].items[k].quantity
            /\ u.items[k].product = ss[s].items[k].product
            /\ u.items[k] \in Item /\ u.loaded[k] \in Item
            /\ tt[s].items[k].return_items = ss[s].items[k].return_items
                   + (u.items[k].return_items - u.loaded[k].return_items)
  BY DEF Returned
<1>2. ItemsIn(tt, p) = I
  <2>1. \A r \in DOMAIN ss :
           /\ DOMAIN tt[r].items = DOMAIN ss[r].items
           /\ \A k \in DOMAIN ss[r].items : tt[r].items[k].product = ss[r].items[k].product
    BY <1>1
  <2> QED
    BY <1>1, <2>1, SameItems
<1>3. UnitsIn(tt, I) = UnitsIn(ss, I)
  <2>1. ASSUME NEW i \in I
        PROVE  tt[i[1]].items[i[2]].quantity = ss[i[1]].items[i[2]].quantity
    <3>1. i[1] \in DOMAIN ss /\ i[2] \in DOMAIN ss[i[1]].items
      BY ItemsAre
    <3> QED
      BY <1>1, <3>1
  <2>2. I \in SUBSET ItemsIn(ss, p)
    OBVIOUS
  <2> HIDE DEF I
  <2> QED
    BY <2>1, <2>2, SameSums
<1>4. C \subseteq DOMAIN u.items /\ IsFiniteSet(C)
      /\ \A k \in DOMAIN u.items : k \in C <=> ss[s].items[k].product = p
  BY <1>1, SessionSums DEF CopiesOf
<1>5. \A k \in C : h[k] = <<s, k>> /\ h[k] \in N
  OBVIOUS
<1>6. N \subseteq I
  <2>1. \A k \in C : <<s, k>> \in I
    BY <1>1, <1>4, ItemsAre
  <2> HIDE DEF C, I
  <2> QED
    BY <1>5, <2>1
<1>7. \A i \in N : i[1] = s /\ i[2] \in C /\ i[2] \in DOMAIN ss[s].items
  BY <1>1, <1>4, <1>5
<1>8. \A i \in R : tt[i[1]] = ss[i[1]]
  <2> SUFFICES ASSUME NEW i \in R, i[1] = s PROVE FALSE
    <3>1. \A i \in R : i[1] \in DOMAIN ss
      BY ItemsAre
    <3> QED
      BY <1>1, <3>1
  <2>1. i[2] \in DOMAIN ss[s].items /\ i = <<s, i[2]>> /\ ss[s].items[i[2]].product = p
    BY ItemsAre
  <2>2. i[2] \in C
    BY <1>1, <1>4, <2>1
  <2>3. i = h[i[2]]
    BY <1>5, <2>1, <2>2
  <2> QED
    BY <2>2, <2>3
<1>9. IsFiniteSet(N)
  <2>1. N \in SUBSET ItemsIn(ss, p)
    BY <1>6
  <2> HIDE DEF N
  <2> QED
    BY <2>1, ItemSums
<1>10. I = R \cup N /\ R \cap N = {} /\ R \in SUBSET I /\ N \in SUBSET I
  BY <1>6
<1>11. /\ ReturnedIn(ss, I) = ReturnedIn(ss, R) + ReturnedIn(ss, N)
       /\ ReturnedIn(tt, I) = ReturnedIn(tt, R) + ReturnedIn(tt, N)
  <2>1. Parts(ss, p, I, R, N) /\ Parts(tt, p, I, R, N)
    BY <1>2, <1>10 DEF Parts
  <2> HIDE DEF I, R, N
  <2> QED
    BY <2>1, JoinedSums
<1>12. ReturnedIn(tt, R) = ReturnedIn(ss, R)
  <2>1. R \in SUBSET ItemsIn(ss, p)
    OBVIOUS
  <2> HIDE DEF R
  <2> QED
    BY <1>8, <2>1, SameSums
<1>13. ASSUME NEW k \in DOMAIN u.items PROVE e[k] \in Int
  <2>1. u.items[k] \in Item /\ u.loaded[k] \in Item
    BY <1>1, <1>13
  <2>2. u.items[k].return_items \in Nat /\ u.loaded[k].return_items \in Nat
    BY <2>1 DEF Item
  <2> QED
    BY <1>13, <2>2
<1>14. ASSUME NEW i \in N
       PROVE  f[i] \in Int /\ d[i] \in Int /\ g[i] = f[i] + d[i]
  <2>1. i[1] = s /\ i[2] \in DOMAIN ss[s].items /\ i[2] \in DOMAIN u.items
    BY <1>1, <1>7
  <2>2. d[i] = e[i[2]] /\ d[i] = u.items[i[2]].return_items - u.loaded[i[2]].return_items
    BY <1>14, <2>1
  <2>3. f[i] \in Int /\ f[i] = ss[s].items[i[2]].return_items
    <3>1. ss[i[1]].items[i[2]] \in Item
      BY <1>6, ItemsAre
    <3>2. ss[i[1]].items[i[2]].return_items \in Int
      BY <3>1 DEF Item
    <3> QED
      BY <2>1, <3>2
  <2>4. g[i] = tt[s].items[i[2]].return_items
    BY <2>1
  <2> HIDE DEF d, e, f, g
  <2> QED
    BY <1>1, <1>13, <2>1, <2>2, <2>3, <2>4
<1>15. SumFunctionOnSet(g, N) = SumFunctionOnSet(f, N) + SumFunctionOnSet(d, N)
  <2> HIDE DEF d, f, g, N
  <2> QED
    BY <1>9, <1>14, SumPlus
<1>16. SumFunctionOnSet(d, N) = SumFunctionOnSet(e, C)
  <2>1. \A k \in C : e[k] \in Int /\ d[h[k]] = e[k]
    BY <1>4, <1>5, <1>13
  <2>2. \A k, j \in C : h[k] = h[j] => k = j
    BY <1>5
  <2>3. N = {h[k] : k \in C}
    OBVIOUS
  <2> HIDE DEF d, e, h, N, C
  <2>4. Paired(e, d, C, N, h)
    BY <1>4, <1>9, <2>1, <2>2, <2>3 DEF Paired
  <2> QED
    BY <2>4, SumPaired
<1>17. SumFunctionOnSet(e, C) \in Int
  <2>1. \A k \in C : e[k] \in Int
    BY <1>4, <1>13
  <2> HIDE DEF e, C
  <2> QED
    BY <1>4, <2>1, SumType
<1>18. /\ ReturnedIn(ss, N) = SumFunctionOnSet(f, N) /\ ReturnedIn(tt, N) = SumFunctionOnSet(g, N)
       /\ BookedOn(u, p) = SumFunctionOnSet(e, C)
  BY DEF ReturnedIn, BookedOn
<1>19. ReturnedIn(ss, R) \in Int /\ ReturnedIn(ss, N) \in Int
  <2>1. R \in SUBSET ItemsIn(ss, p) /\ N \in SUBSET ItemsIn(ss, p)
    BY <1>10
  <2> HIDE DEF R, N
  <2> QED
    BY <2>1, ItemSums
<1>20. ReturnedIn(tt, I) = ReturnedIn(ss, I) + BookedOn(u, p) /\ BookedOn(u, p) \in Int
  <2> HIDE DEF I, R, N, C, d, e, f, g, h
  <2> QED
    BY <1>11, <1>12, <1>15, <1>16, <1>17, <1>18, <1>19
<1> QED
  BY <1>2, <1>3, <1>20

-----------------------------------------------------------------------------
\* What the journal says of the sale items, step by step

\* Nothing is sold, returned or moved initially.
LEMMA JournalInit == Init => JournalInv
<1> SUFFICES ASSUME Init PROVE JournalInv
  OBVIOUS
<1>1. NoSession.op = "SALE"
  BY DEF NoSession, NewSession
<1>2. \A w \in Workers : MovedOK(uow[w], phase[w])
  <2>1. MovedOK(NoSession, "idle")
    BY <1>1, NoSessionOK, NothingMoved
  <2> QED
    BY <2>1 DEF Init
<1>3. \A p \in Products : \A kinds : UnitsMoved(ledger[p], kinds) = 0
  <2>1. \A p \in Products : ledger[p] = <<>> /\ DOMAIN ledger[p] = {}
    BY DEF Init
  <2> QED
    BY <2>1, MovedNone
<1>4. \A p : ItemsOf(p) = {}
  BY DEF Init, ItemsOf
<1>5. /\ \A items : items = {} => UnitsOn(items) = 0 /\ ReturnedOn(items) = 0
      /\ Scale * 0 = 0 /\ \A m \in Int : -m = 0 - m
  <2>1. \A items : items = {} => UnitsOn(items) = 0 /\ ReturnedOn(items) = 0
    BY SumEmpty DEF UnitsOn, ReturnedOn
  <2>2. Scale * 0 = 0 /\ \A m \in Int : -m = 0 - m
    BY SessionsAssumption
  <2> QED
    BY <2>1, <2>2
<1>6. SoldStockIsJournaled
  BY <1>3, <1>4, <1>5 DEF SoldStockIsJournaled, Journaled
<1>7. ReturnsAreJournaled
  BY <1>3, <1>4, <1>5 DEF ReturnsAreJournaled, Journaled
<1> QED
  BY <1>2, <1>6, <1>7, InvInit DEF JournalInv

\* A request that is received has moved nothing.
LEMMA ReceiveJournal ==
  ASSUME JournalInv, NEW w \in Workers, Receive(w) PROVE JournalInv'
<1>1. PICK r \in Requests : Continue(w, NewSession(r), FirstPhase(r))
  BY DEF Receive, FirstPhase
<1>2. IInv' /\ UNCHANGED db
  BY ReceiveInv DEF JournalInv, Receive
<1>3. /\ NewSession(r) \in Session /\ NothingPending(NewSession(r))
      /\ NewSession(r).op = r.op /\ NewSession(r).lines = r.lines
  BY ReceiveStep DEF NewSession
<1>4. FirstPhase(r) # "lines"
  BY DEF FirstPhase
<1>5. WholeReturns /\ NewSession(r).op = "RETURN" => WholeLines(NewSession(r).lines)
  BY <1>3 DEF WholeReturns
<1>6. MovedOK(NewSession(r), FirstPhase(r))
  BY <1>3, <1>4, <1>5, NothingMoved
<1> QED
  BY <1>1, <1>2, <1>6, JournalGoesOn

\* Reading moves nothing.
LEMMA LoadsJournal ==
  ASSUME JournalInv, NEW w \in Workers, LoadProduct(w) \/ LoadSale(w) \/ LoadItems(w)
  PROVE  JournalInv'
<1> DEFINE u == uow[w]
<1>1. IInv /\ MovedOK(u, phase[w])
  BY DEF JournalInv
<1>2. IInv'
  BY <1>1, LoadProductInv, LoadSaleInv, LoadItemsInv
<1>3. WholeReturns /\ u.op = "RETURN" => WholeLines(u.lines)
  BY <1>1 DEF MovedOK
<1>4. CASE LoadProduct(w)
  <2>1. PICK v \in Session, ph \in {"products", "lines"} :
              /\ Continue(w, v, ph) /\ NothingPending(v) /\ SameRequest(u, v)
              /\ IF ph = "products" THEN u.next < Len(u.lines) /\ v.next = u.next + 1
                 ELSE u.next = Len(u.lines) /\ v.next = 1
    BY <1>1, <1>4, LoadProductStep
  <2>2. UNCHANGED db
    BY <1>1, <1>4, LoadProductStep
  <2>3. u.op # "RETURN"
    BY <1>4 DEF JournalInv, IInv, WorkerOK, CourseOK, LoadProduct
  <2>4. v.op = u.op /\ (ph = "lines" => v.next = 1)
    BY <2>1 DEF SameRequest
  <2>5. MovedOK(v, ph)
    BY <2>1, <2>3, <2>4, NothingMoved
  <2> QED
    BY <1>2, <2>1, <2>2, <2>5, JournalGoesOn
<1>5. CASE LoadSale(w)
  <2>1. PICK v \in Session : /\ Continue(w, v, "items") /\ NothingPending(v)
                             /\ v.op = u.op /\ v.lines = u.lines
    BY <1>1, <1>5, LoadSaleStep
  <2>2. UNCHANGED db
    BY <1>1, <1>5, LoadSaleStep
  <2>3. MovedOK(v, "items")
    BY <1>3, <2>1, NothingMoved
  <2> QED
    BY <1>2, <2>1, <2>2, <2>3, JournalGoesOn
<1>6. CASE LoadItems(w)
  <2>1. PICK v \in Session : /\ Continue(w, v, "lines") /\ NothingPending(v)
                             /\ v.op = u.op /\ v.next = u.next /\ v.items = v.loaded
                             /\ v.op = "RETURN" => v.lines = u.lines
    BY <1>1, <1>6, LoadItemsStep
  <2>2. UNCHANGED db /\ phase[w] = "items"
    BY <1>1, <1>6, LoadItemsStep
  <2>3. u.next = 1
    BY <2>2 DEF JournalInv, IInv, WorkerOK, CourseOK
  <2>4. MovedOK(v, "lines")
    BY <1>3, <2>1, <2>3, NothingMoved
  <2> QED
    BY <1>2, <2>1, <2>2, <2>4, JournalGoesOn
<1> QED
  BY <1>4, <1>5, <1>6


\* A line that is moved is pending in the journal.
LEMMA MovesLineJournal ==
  ASSUME JournalInv, NEW w \in Workers, MovesLine(w) PROVE JournalInv'
<1>1. IInv /\ IInv' /\ MovedOK(uow[w], phase[w])
  BY MovesLineInv DEF JournalInv
<1>2. PICK v \in Session : Continue(w, v, "lines") /\ MovedOK(v, "lines")
  BY <1>1, MovesLineMoved
<1>3. UNCHANGED db
  BY <1>1, MovesLineMoved
<1> QED
  BY <1>1, <1>2, <1>3, JournalGoesOn

\* A restock, an adjustment and a void write rows of their own kind.
LEMMA OthersJournal ==
  ASSUME JournalInv, NEW w \in Workers, Adjust(w) \/ CommitRestock(w) \/ CommitVoid(w)
  PROVE  JournalInv'
<1>1. IInv /\ IInv' /\ MovedOK(uow[w], phase[w]) /\ sales \in Seq(Sale)
  BY AdjustInv, CommitRestockInv, CommitVoidInv DEF JournalInv, IInv, TypeOK
<1>2. PICK u \in Session :
           /\ WriteStock(u)
           /\ \A p \in Products : \A i \in DOMAIN u.rows[p] :
                 u.rows[p][i].kind \notin {"SALE", "RETURN"}
  <2>1. CASE Adjust(w)
    <3> DEFINE p == CurrentLine(w).product
    <3>1. PICK v, m, change : Adjusted(uow[w], m, v, p, change)
      BY <1>1, <2>1, AdjustStep
    <3> HIDE DEF p
    <3>2. \A i \in DOMAIN v.rows[p] : v.rows[p][i].kind = "ADJUSTMENT"
      <4>1. v.rows[p] = <<JournalRow(uow[w], p, "ADJUSTMENT", change)>>
        BY <3>1 DEF Adjusted
      <4>2. JournalRow(uow[w], p, "ADJUSTMENT", change).kind = "ADJUSTMENT"
        BY DEF JournalRow, Movement
      <4> QED
        BY <4>1, <4>2
    <3>3. \A q \in Products \ {p} : DOMAIN v.rows[q] = {}
      <4>1. \A q \in Products \ {p} : v.rows[q] = <<>>
        BY <3>1 DEF Adjusted
      <4> QED
        BY <4>1
    <3> QED
      BY <3>1, <3>2, <3>3 DEF Adjusted
  <2>2. CASE CommitRestock(w) \/ CommitVoid(w)
    <3>1. uow[w] \in Session /\ WriteStock(uow[w]) /\ uow[w].op \in {"RESTOCK", "VOID"}
      BY <1>1, <2>2 DEF CommitRestock, CommitVoid, LinesDone, IInv, TypeOK
    <3>2. \A p \in Products : \A i \in DOMAIN uow[w].rows[p] :
             uow[w].rows[p][i].kind \notin {"SALE", "RETURN"}
      BY <1>1, <3>1 DEF MovedOK, KindOf
    <3> QED
      BY <3>1, <3>2
  <2> QED
    BY <2>1, <2>2
<1>3. /\ Close(w) /\ sales' \in Seq(Sale) /\ DOMAIN sales' = DOMAIN sales
      /\ \A s \in DOMAIN sales : sales'[s].items = sales[s].items
  <2>1. CASE CommitVoid(w)
    BY <1>1, <2>1, CommitVoidStep
  <2>2. CASE Adjust(w) \/ CommitRestock(w)
    BY <1>1, <2>2 DEF Adjust, CommitRestock
  <2> QED
    BY <2>1, <2>2
<1>4. SoldStockIsJournaled' /\ (WholeReturns => ReturnsAreJournaled')
  BY <1>2, <1>3, OtherCommits
<1> QED
  BY <1>1, <1>3, <1>4, JournalEnds

\* A sale takes from the stock what its items say.
LEMMA CommitSaleJournal ==
  ASSUME JournalInv, NEW w \in Workers, CommitSale(w) PROVE JournalInv'
<1> DEFINE u == uow[w]
           n == Len(sales) + 1
           tt == sales'
<1>1. IInv /\ IInv' /\ TypeOK /\ MovedOK(u, phase[w]) /\ sales \in Seq(Sale)
  BY CommitSaleInv DEF JournalInv, IInv, TypeOK
<1>2. /\ u \in Session /\ Counted(u.lines) /\ phase[w] = "lines"
      /\ u.op = "SALE" /\ u.next > Len(u.lines) /\ WriteStock(u) /\ Close(w)
      /\ tt \in Seq(Sale) /\ DOMAIN sales = 1 .. Len(sales) /\ Len(sales) \in Nat
      /\ DOMAIN tt = 1 .. Len(sales) + 1 /\ tt[Len(sales) + 1] = NewSale(u)
      /\ \A s \in DOMAIN sales : tt[s] = sales[s]
  BY <1>1, CommitSaleStep
<1>3. n \in Nat \ {0} /\ DOMAIN sales = 1 .. n - 1 /\ DOMAIN tt = 1 .. n /\ tt[n] = NewSale(u)
  BY <1>2
<1> HIDE DEF u, n, tt
<1>4. ASSUME NEW p
      PROVE  /\ UnitsIn(tt, ItemsIn(tt, p)) = UnitsIn(sales, ItemsIn(sales, p)) + LineUnits(u, p)
             /\ ReturnedIn(tt, ItemsIn(tt, p)) = ReturnedIn(sales, ItemsIn(sales, p))
  BY <1>1, <1>2, <1>3, NewItems
<1>5. ASSUME NEW p \in Products \ Services
      PROVE  /\ UnitsMoved(ledger'[p], {"SALE"}) = -UnitsIn(tt, ItemsIn(tt, p))
             /\ UnitsMoved(ledger'[p], {"RETURN"}) = UnitsMoved(ledger[p], {"RETURN"})
  <2>1. /\ UnitsMoved(ledger[p], {"SALE"}) \in Int
        /\ UnitsMoved(ledger'[p], {"SALE"})
             = UnitsMoved(ledger[p], {"SALE"}) + UnitsMoved(u.rows[p], {"SALE"})
    BY <1>1, <1>2, JournalWritten
  <2>2. /\ UnitsMoved(ledger[p], {"RETURN"}) \in Int
        /\ UnitsMoved(ledger'[p], {"RETURN"})
             = UnitsMoved(ledger[p], {"RETURN"}) + UnitsMoved(u.rows[p], {"RETURN"})
    BY <1>1, <1>2, JournalWritten
  <2>3. UnitsMoved(u.rows[p], {"RETURN"}) = 0
    <3>1. KindOf(u.op) \notin {"RETURN"}
      BY <1>2 DEF KindOf
    <3> QED
      BY <1>1, <3>1, OtherKinds DEF u
  <2>4. UnitsMoved(u.rows[p], {"SALE"}) = -LineUnits(u, p)
    BY <1>1, <1>2 DEF MovedOK
  <2>5. UnitsMoved(ledger[p], {"SALE"}) = -UnitsIn(sales, ItemsIn(sales, p))
    BY SumsOfSales DEF JournalInv, SoldStockIsJournaled, Journaled
  <2>6. LineUnits(u, p) \in Int /\ UnitsIn(sales, ItemsIn(sales, p)) \in Int
    BY <1>1, <1>2, SessionSums, ItemSums
  <2>7. \A a, b \in Int : -a + (-b) = -(a + b)
    OBVIOUS
  <2>8. UnitsMoved(ledger'[p], {"SALE"}) = -UnitsIn(tt, ItemsIn(tt, p))
    BY <1>4, <2>1, <2>4, <2>5, <2>6, <2>7
  <2>9. UnitsMoved(ledger'[p], {"RETURN"}) = UnitsMoved(ledger[p], {"RETURN"})
    BY <2>2, <2>3
  <2> QED
    BY <2>8, <2>9
<1>6. SoldStockIsJournaled'
  BY <1>5 DEF SoldStockIsJournaled, Journaled, UnitsOn, UnitsIn, ItemsOf, ItemsIn, SaleItem, tt
<1>7. ASSUME WholeReturns PROVE ReturnsAreJournaled'
  <2>1. \A p \in Products \ Services :
           Scale * UnitsMoved(ledger[p], {"RETURN"}) = ReturnedIn(sales, ItemsIn(sales, p))
    BY <1>7, SumsOfSales DEF JournalInv, ReturnsAreJournaled, Journaled
  <2>2. \A p \in Products \ Services :
           Scale * UnitsMoved(ledger'[p], {"RETURN"}) = ReturnedIn(tt, ItemsIn(tt, p))
    BY <1>4, <1>5, <2>1
  <2> QED
    BY <2>2 DEF ReturnsAreJournaled, Journaled, ReturnedOn, ReturnedIn, ItemsOf, ItemsIn,
                SaleItem, tt
<1> QED
  BY <1>1, <1>2, <1>6, <1>7, JournalEnds

\* A return puts back into the stock what its rows say, and sells nothing.
LEMMA CommitReturnJournal ==
  ASSUME JournalInv, NEW w \in Workers, CommitReturn(w) PROVE JournalInv'
<1> DEFINE u  == uow[w]
           s  == u.sale
           tt == sales'
<1>1. IInv /\ IInv' /\ TypeOK /\ MovedOK(u, phase[w]) /\ sales \in Seq(Sale) /\ WorkerOK(w)
  BY CommitReturnInv DEF JournalInv, IInv, TypeOK
<1>2. /\ u \in Session /\ WriteStock(u) /\ Close(w) /\ phase[w] = "lines" /\ u.op = "RETURN"
      /\ s \in DOMAIN sales /\ tt \in Seq(Sale) /\ DOMAIN tt = DOMAIN sales
      /\ \A r \in DOMAIN sales : r # s => tt[r] = sales[r]
      /\ DOMAIN tt[s].items = DOMAIN sales[s].items
      /\ \A k \in DOMAIN sales[s].items :
            /\ u.loaded[k] \in Item /\ u.items[k] \in Item
            /\ tt[s].items[k].product = sales[s].items[k].product
            /\ tt[s].items[k].quantity = sales[s].items[k].quantity
            /\ tt[s].items[k].return_items = sales[s].items[k].return_items
                   + (u.items[k].return_items - u.loaded[k].return_items)
  BY <1>1, CommitReturnStep
<1>3. /\ DOMAIN u.items = DOMAIN sales[s].items
      /\ \A k \in DOMAIN u.items : u.items[k].product = sales[s].items[k].product
  BY <1>1, <1>2 DEF WorkerOK, CopiesOK
<1>4. Returned(sales, tt, s, u)
  BY <1>2, <1>3 DEF Returned
<1> HIDE DEF u, s, tt
<1>5. ASSUME NEW p
      PROVE  /\ UnitsIn(tt, ItemsIn(tt, p)) = UnitsIn(sales, ItemsIn(sales, p))
             /\ ReturnedIn(tt, ItemsIn(tt, p))
                  = ReturnedIn(sales, ItemsIn(sales, p)) + BookedOn(u, p)
             /\ BookedOn(u, p) \in Int
  BY <1>1, <1>2, <1>4, ReturnedItems
<1>6. ASSUME NEW p \in Products \ Services
      PROVE  /\ UnitsMoved(ledger'[p], {"SALE"}) = -UnitsIn(tt, ItemsIn(tt, p))
             /\ WholeReturns =>
                   Scale * UnitsMoved(ledger'[p], {"RETURN"}) = ReturnedIn(tt, ItemsIn(tt, p))
  <2>1. /\ UnitsMoved(ledger[p], {"SALE"}) \in Int
        /\ UnitsMoved(ledger'[p], {"SALE"})
             = UnitsMoved(ledger[p], {"SALE"}) + UnitsMoved(u.rows[p], {"SALE"})
    BY <1>1, <1>2, JournalWritten
  <2>2. /\ UnitsMoved(ledger[p], {"RETURN"}) \in Int /\ UnitsMoved(u.rows[p], {"RETURN"}) \in Int
        /\ UnitsMoved(ledger'[p], {"RETURN"})
             = UnitsMoved(ledger[p], {"RETURN"}) + UnitsMoved(u.rows[p], {"RETURN"})
    BY <1>1, <1>2, JournalWritten
  <2>3. UnitsMoved(u.rows[p], {"SALE"}) = 0
    <3>1. KindOf(u.op) \notin {"SALE"}
      BY <1>2 DEF KindOf
    <3> QED
      BY <1>1, <3>1, OtherKinds DEF u
  <2>4. UnitsMoved(ledger[p], {"SALE"}) = -UnitsIn(sales, ItemsIn(sales, p))
    BY SumsOfSales DEF JournalInv, SoldStockIsJournaled, Journaled
  <2>5. UnitsMoved(ledger'[p], {"SALE"}) = -UnitsIn(tt, ItemsIn(tt, p))
    BY <1>5, <2>1, <2>3, <2>4
  <2>6. ASSUME WholeReturns
        PROVE  Scale * UnitsMoved(ledger'[p], {"RETURN"}) = ReturnedIn(tt, ItemsIn(tt, p))
    <3> DEFINE a == UnitsMoved(ledger[p], {"RETURN"})
               b == UnitsMoved(u.rows[p], {"RETURN"})
    <3>1. Scale * b = BookedOn(u, p)
      BY <1>1, <1>2, <2>6 DEF MovedOK
    <3>2. Scale * a = ReturnedIn(sales, ItemsIn(sales, p))
      BY <2>6, SumsOfSales DEF JournalInv, ReturnsAreJournaled, Journaled
    <3>3. a \in Int /\ b \in Int /\ UnitsMoved(ledger'[p], {"RETURN"}) = a + b /\ Scale \in Nat
      BY <2>2, SessionsAssumption
    <3> HIDE DEF a, b
    <3>4. Scale * (a + b) = Scale * a + Scale * b
      BY <3>3
    <3> QED
      BY <1>5, <3>1, <3>2, <3>3, <3>4
  <2> QED
    BY <2>5, <2>6
<1>7. SoldStockIsJournaled'
  BY <1>6 DEF SoldStockIsJournaled, Journaled, UnitsOn, UnitsIn, ItemsOf, ItemsIn, SaleItem, tt
<1>8. WholeReturns => ReturnsAreJournaled'
  BY <1>6 DEF ReturnsAreJournaled, Journaled, ReturnedOn, ReturnedIn, ItemsOf, ItemsIn,
              SaleItem, tt
<1> QED
  BY <1>1, <1>2, <1>7, <1>8, JournalEnds

\* Every step keeps the journal and the sale items together.
LEMMA JournalStep == JournalInv /\ [Next]_vars => JournalInv'
<1> SUFFICES ASSUME JournalInv, [Next]_vars PROVE JournalInv'
  OBVIOUS
<1>1. IInv /\ IInv'
  BY InvStep DEF JournalInv
<1>2. ASSUME NEW w \in Workers, Receive(w) \/ LoadProduct(w) \/ LoadSale(w) \/ LoadItems(w)
                                \/ MovesLine(w)
      PROVE  JournalInv'
  BY <1>2, ReceiveJournal, LoadsJournal, MovesLineJournal
<1>3. ASSUME NEW w \in Workers, Adjust(w) \/ CommitRestock(w) \/ CommitVoid(w)
      PROVE  JournalInv'
  BY <1>3, OthersJournal
<1>4. ASSUME NEW w \in Workers, CommitSale(w) PROVE JournalInv'
  BY <1>4, CommitSaleJournal
<1>5. ASSUME NEW w \in Workers, CommitReturn(w) PROVE JournalInv'
  BY <1>5, CommitReturnJournal
<1>6. ASSUME ledger' = ledger, sales' = sales
      PROVE  SoldStockIsJournaled' /\ (WholeReturns => ReturnsAreJournaled')
  <2>1. SoldStockIsJournaled' <=> SoldStockIsJournaled
    BY <1>6 DEF SoldStockIsJournaled, Journaled, UnitsOn, ItemsOf, SaleItem
  <2>2. ReturnsAreJournaled' <=> ReturnsAreJournaled
    BY <1>6 DEF ReturnsAreJournaled, Journaled, ReturnedOn, ItemsOf, SaleItem
  <2> QED
    BY <2>1, <2>2 DEF JournalInv
<1>7. ASSUME NEW w \in Workers, Rollback(w) PROVE JournalInv'
  <2>1. Close(w) /\ ledger' = ledger /\ sales' = sales
    BY <1>7 DEF Rollback, db
  <2> QED
    BY <1>1, <1>6, <2>1, JournalEnds
<1>8. CASE Quiet \/ UNCHANGED vars
  <2>1. UNCHANGED vars
    BY <1>8 DEF Quiet
  <2>2. ledger' = ledger /\ sales' = sales /\ uow' = uow /\ phase' = phase
    BY <2>1 DEF vars
  <2>3. \A w \in Workers : MovedOK(uow'[w], phase'[w])
    BY <2>2 DEF JournalInv
  <2> QED
    BY <1>1, <1>6, <2>2, <2>3 DEF JournalInv
<1> QED
  BY <1>2, <1>3, <1>4, <1>5, <1>7, <1>8 DEF Next, MovesLine

\* Whatever the number of workers, a session's rows move what its lines say, and
\* the journal holds what the stored sale items say.
THEOREM JournalInvariantHolds == Spec => []JournalInv
<1>1. JournalInv /\ [Next]_vars => JournalInv'
  BY JournalStep
<1> QED
  BY <1>1, JournalInit, PTL DEF Spec

\* Header, items and stock of a sale commit together: every unit on a stored sale
\* item has left the journal as a SALE movement, also after requests that raced
\* and overwrote each other's quantity on hand.
THEOREM SoldStockAlwaysJournaled == Spec => []SoldStockIsJournaled
<1>1. JournalInv => SoldStockIsJournaled
  BY DEF JournalInv
<1> QED
  BY <1>1, JournalInvariantHolds, PTL

\* Every returned quantity is restored to stock, as long as nobody returns a
\* fraction of a unit: the journal of a product has moved under RETURN what the
\* return rows of its sale items add up to, for any number of workers.
THEOREM ReturnsAlwaysRestoreStock == WholeReturns => (Spec => []ReturnsRestoreStock)
<1> SUFFICES ASSUME WholeReturns PROVE Spec => []ReturnsRestoreStock
  OBVIOUS
<1>1. JournalInv => ReturnsRestoreStock
  <2> SUFFICES ASSUME JournalInv, NEW p \in Products \ Services
               PROVE  Journaled(p, {"RETURN"}) = Whole(ReturnedOn(ItemsOf(p)))
    BY DEF ReturnsRestoreStock
  <2> DEFINE j == Journaled(p, {"RETURN"})
  <2>1. Scale * j = ReturnedOn(ItemsOf(p))
    BY DEF JournalInv, ReturnsAreJournaled
  <2>2. j \in Int
    <3>1. ledger[p] \in Seq(Row)
      BY DEF JournalInv, IInv, TypeOK
    <3> QED
      BY <3>1, MovedType DEF Journaled
  <2>3. Scale \in Nat \ {0}
    BY SessionsAssumption
  <2> HIDE DEF j
  <2>4. (Scale * j) \div Scale = j
    BY <2>2, <2>3
  <2> QED
    BY <2>1, <2>4 DEF Whole, j
<1> QED
  BY <1>1, JournalInvariantHolds, PTL

-----------------------------------------------------------------------------
\* One request at a time: what voids put back

\* The items of p in voided sales.
VoidedIn(ss, p) == {i \in ItemsIn(ss, p) : ss[i[1]].status = "VOIDED"}

\* VoidsRestoreOnce is about their units.
VoidsBalance(ss, rows, p) == UnitsMoved(rows, {"VOID"}) = UnitsIn(ss, VoidedIn(ss, p))

LEMMA VoidsAre ==
  VoidsRestoreOnce <=> \A p \in Products \ Services : VoidsBalance(sales, ledger[p], p)
BY SumsOfSales DEF VoidsRestoreOnce, Journaled, VoidsBalance, VoidedIn

\* For one worker.
VoidInv == SerialInv /\ JournalInv /\ VoidsRestoreOnce

\* Sales that keep their items' products and quantities, and are voided or not as
\* before, keep the units of the voided items.
LEMMA SameVoids ==
  ASSUME NEW ss \in Seq(Sale), NEW tt \in Seq(Sale), NEW p,
         \A i \in ItemsIn(ss, p) : /\ i \in ItemsIn(tt, p)
                                   /\ tt[i[1]].status = "VOIDED" <=> ss[i[1]].status = "VOIDED"
                                   /\ tt[i[1]].items[i[2]].quantity = ss[i[1]].items[i[2]].quantity,
         \A i \in ItemsIn(tt, p) : i \in ItemsIn(ss, p) \/ tt[i[1]].status # "VOIDED"
  PROVE  UnitsIn(tt, VoidedIn(tt, p)) = UnitsIn(ss, VoidedIn(ss, p))
<1> DEFINE V == VoidedIn(ss, p)
<1>1. VoidedIn(tt, p) = V
  BY DEF VoidedIn
<1>2. V \in SUBSET ItemsIn(ss, p)
  BY DEF VoidedIn
<1>3. \A i \in V : tt[i[1]].items[i[2]].quantity = ss[i[1]].items[i[2]].quantity
  BY <1>2
<1> HIDE DEF V
<1>4. UnitsIn(tt, V) = UnitsIn(ss, V)
  BY <1>2, <1>3, SameSums
<1> QED
  BY <1>1, <1>4 DEF V

\* What books nothing under VOID, and voids no sale, keeps the balance.
LEMMA VoidsKept ==
  ASSUME VoidInv, SerialInv', JournalInv', NEW u \in Session, WriteStock(u),
         \A p \in Products : \A i \in DOMAIN u.rows[p] : u.rows[p][i].kind # "VOID",
         \A p \in Products \ Services :
             UnitsIn(sales', VoidedIn(sales', p)) = UnitsIn(sales, VoidedIn(sales, p))
  PROVE  VoidInv'
<1>1. TypeOK
  BY DEF VoidInv, SerialInv, IInv
<1>2. ASSUME NEW p \in Products \ Services
      PROVE  UnitsMoved(ledger'[p], {"VOID"}) = UnitsIn(sales', VoidedIn(sales', p))
  <2>1. UnitsMoved(u.rows[p], {"VOID"}) = 0
    <3>1. \A i \in DOMAIN u.rows[p] : u.rows[p][i].kind \notin {"VOID"}
      OBVIOUS
    <3> QED
      BY <3>1, MovedNone
  <2>2. /\ UnitsMoved(ledger[p], {"VOID"}) \in Int
        /\ UnitsMoved(ledger'[p], {"VOID"})
             = UnitsMoved(ledger[p], {"VOID"}) + UnitsMoved(u.rows[p], {"VOID"})
    BY <1>1, JournalWritten
  <2>3. UnitsMoved(ledger[p], {"VOID"}) = UnitsIn(sales, VoidedIn(sales, p))
    BY VoidsAre DEF VoidInv, VoidsBalance
  <2> QED
    BY <2>1, <2>2, <2>3
<1>3. VoidsRestoreOnce'
  BY <1>2 DEF VoidsRestoreOnce, Journaled, UnitsOn, UnitsIn, ItemsOf, ItemsIn, SaleItem,
              VoidedIn
<1> QED
  BY <1>3 DEF VoidInv

\* A new sale is not voided.
LEMMA CommitSaleVoids ==
  ASSUME OneWorker, VoidInv, SerialInv', JournalInv', NEW w \in Workers, CommitSale(w)
  PROVE  VoidInv'
<1> DEFINE u == uow[w]
           n == Len(sales) + 1
           tt == sales'
<1>1. IInv /\ MovedOK(u, phase[w]) /\ sales \in Seq(Sale)
  BY DEF VoidInv, JournalInv, IInv, TypeOK
<1>2. /\ u \in Session /\ Counted(u.lines) /\ u.op = "SALE" /\ u.next > Len(u.lines)
      /\ WriteStock(u)
      /\ tt \in Seq(Sale) /\ DOMAIN sales = 1 .. Len(sales) /\ Len(sales) \in Nat
      /\ DOMAIN tt = 1 .. Len(sales) + 1 /\ tt[Len(sales) + 1] = NewSale(u)
      /\ \A s \in DOMAIN sales : tt[s] = sales[s]
  BY <1>1, CommitSaleStep
<1>3. n \in Nat \ {0} /\ DOMAIN sales = 1 .. n - 1 /\ DOMAIN tt = 1 .. n /\ tt[n] = NewSale(u)
  BY <1>2
<1>4. tt[n].status = "COMPLETED"
  BY <1>3 DEF NewSale
<1>5. \A p \in Products : \A i \in DOMAIN u.rows[p] : u.rows[p][i].kind # "VOID"
  BY <1>1, <1>2 DEF MovedOK, KindOf
<1> HIDE DEF u, n, tt
<1>6. ASSUME NEW p
      PROVE  UnitsIn(tt, VoidedIn(tt, p)) = UnitsIn(sales, VoidedIn(sales, p))
  <2>1. /\ UnitsIn(tt, ItemsIn(tt, p)) = UnitsIn(sales, ItemsIn(sales, p)) + LineUnits(u, p)
        /\ ReturnedIn(tt, ItemsIn(tt, p)) = ReturnedIn(sales, ItemsIn(sales, p))
        /\ ItemsIn(sales, p) \subseteq ItemsIn(tt, p)
        /\ \A i \in ItemsIn(tt, p) : i \in ItemsIn(sales, p) \/ i[1] = n
    BY <1>1, <1>2, <1>3, NewItems
  <2>2. \A i \in ItemsIn(sales, p) : tt[i[1]] = sales[i[1]]
    BY <1>1, <1>2, ItemsAre
  <2>3. \A i \in ItemsIn(tt, p) : i \in ItemsIn(sales, p) \/ tt[i[1]].status # "VOIDED"
    BY <1>4, <2>1
  <2> QED
    BY <1>1, <1>2, <2>1, <2>2, <2>3, SameVoids
<1> QED
  BY <1>2, <1>5, <1>6, VoidsKept DEF tt

\* A return neither voids a sale nor touches a voided one.
LEMMA CommitReturnVoids ==
  ASSUME OneWorker, VoidInv, SerialInv', JournalInv', NEW w \in Workers, CommitReturn(w)
  PROVE  VoidInv'
<1> DEFINE u  == uow[w]
           s  == u.sale
           tt == sales'
<1>1. IInv /\ MovedOK(u, phase[w]) /\ sales \in Seq(Sale) /\ SerialInv
  BY DEF VoidInv, JournalInv, IInv, TypeOK
<1>2. /\ u \in Session /\ WriteStock(u) /\ u.op = "RETURN"
      /\ s \in DOMAIN sales /\ tt \in Seq(Sale) /\ DOMAIN tt = DOMAIN sales
      /\ \A r \in DOMAIN sales : r # s => tt[r] = sales[r]
      /\ DOMAIN tt[s].items = DOMAIN sales[s].items
      /\ \A k \in DOMAIN sales[s].items :
            /\ tt[s].items[k].product = sales[s].items[k].product
            /\ tt[s].items[k].quantity = sales[s].items[k].quantity
  BY <1>1, CommitReturnStep
<1>3. sales[s].status = "COMPLETED"
  BY <1>1, CommitReturnAddsUp
<1>4. tt[s].status \in {"COMPLETED", "REFUNDED"}
  <2>1. sales[s] \in Sale
    BY <1>1, <1>2, LenProperties, ElementOfSeq
  <2>2. tt[s].status = IF Refunded(u) THEN "REFUNDED" ELSE sales[s].status
    BY <1>2, <2>1 DEF CommitReturn, Sale
  <2> QED
    BY <1>3, <2>2
<1>5. \A p \in Products : \A i \in DOMAIN u.rows[p] : u.rows[p][i].kind # "VOID"
  BY <1>1, <1>2 DEF MovedOK, KindOf
<1> HIDE DEF u, s, tt
<1>6. ASSUME NEW p
      PROVE  UnitsIn(tt, VoidedIn(tt, p)) = UnitsIn(sales, VoidedIn(sales, p))
  <2>1. \A r \in DOMAIN sales :
           /\ DOMAIN tt[r].items = DOMAIN sales[r].items
           /\ \A k \in DOMAIN sales[r].items :
                 /\ tt[r].items[k].product = sales[r].items[k].product
                 /\ tt[r].items[k].quantity = sales[r].items[k].quantity
           /\ tt[r].status = "VOIDED" <=> sales[r].status = "VOIDED"
    BY <1>2, <1>3, <1>4
  <2>2. ItemsIn(tt, p) = ItemsIn(sales, p)
    BY <1>1, <1>2, <2>1, SameItems
  <2>3. \A i \in ItemsIn(sales, p) :
           /\ tt[i[1]].status = "VOIDED" <=> sales[i[1]].status = "VOIDED"
           /\ tt[i[1]].items[i[2]].quantity = sales[i[1]].items[i[2]].quantity
    BY <1>1, <2>1, ItemsAre
  <2> QED
    BY <1>1, <1>2, <2>2, <2>3, SameVoids
<1> QED
  BY <1>2, <1>5, <1>6, VoidsKept DEF tt

\* tt is ss after the session u has voided the sale s.
Voided(ss, tt, s, u) ==
    /\ DOMAIN tt = DOMAIN ss /\ s \in DOMAIN ss
    /\ \A r \in DOMAIN ss : r # s => tt[r] = ss[r]
    /\ tt[s].items = ss[s].items /\ tt[s].status = "VOIDED" /\ ss[s].status # "VOIDED"
    /\ u.next > Len(u.lines) /\ DOMAIN u.lines = DOMAIN ss[s].items
    /\ \A k \in DOMAIN u.lines : /\ u.lines[k].product = ss[s].items[k].product
                                 /\ u.lines[k].quantity = ss[s].items[k].quantity

\* A void adds the lines of its session, which are the items of its sale, to the
\* units of the voided items.
LEMMA VoidedItems ==
  ASSUME NEW ss \in Seq(Sale), NEW tt \in Seq(Sale), NEW s, NEW u \in Session,
         Voided(ss, tt, s, u), NEW p
  PROVE  UnitsIn(tt, VoidedIn(tt, p)) = UnitsIn(ss, VoidedIn(ss, p)) + LineUnits(u, p)
<1> DEFINE V == VoidedIn(ss, p)
           W == VoidedIn(tt, p)
           L == LinesOf(u, p)
           h == [k \in L |-> <<s, k>>]
           N == {h[k] : k \in L}
           f == [k \in DOMAIN u.lines |-> Whole(u.lines[k].quantity)]
           g == [i \in N |-> Whole(tt[i[1]].items[i[2]].quantity)]
<1>1. /\ DOMAIN tt = DOMAIN ss /\ s \in DOMAIN ss
      /\ \A r \in DOMAIN ss : r # s => tt[r] = ss[r]
      /\ tt[s].items = ss[s].items /\ tt[s].status = "VOIDED" /\ ss[s].status # "VOIDED"
      /\ u.next > Len(u.lines) /\ DOMAIN u.lines = DOMAIN ss[s].items
      /\ \A k \in DOMAIN u.lines : /\ u.lines[k].product = ss[s].items[k].product
                                   /\ u.lines[k].quantity = ss[s].items[k].quantity
  BY DEF Voided
<1>2. ItemsIn(tt, p) = ItemsIn(ss, p)
  <2>1. \A r \in DOMAIN ss :
           /\ DOMAIN tt[r].items = DOMAIN ss[r].items
           /\ \A k \in DOMAIN ss[r].items : tt[r].items[k].product = ss[r].items[k].product
    BY <1>1
  <2> QED
    BY <1>1, <2>1, SameItems
<1>3. \A k \in DOMAIN u.lines : k \in L <=> ss[s].items[k].product = p
  <2>1. \A k \in DOMAIN u.lines : k < u.next
    BY <1>1, LineType DEF Session
  <2> QED
    BY <1>1, <2>1 DEF LinesOf
<1>4. L \subseteq DOMAIN u.lines /\ IsFiniteSet(L)
  BY SessionSums DEF LinesOf
<1>5. \A k \in L : h[k] = <<s, k>> /\ h[k] \in N
  OBVIOUS
<1>6. N \subseteq ItemsIn(ss, p)
  <2>1. \A k \in L : <<s, k>> \in ItemsIn(ss, p)
    BY <1>1, <1>3, <1>4, ItemsAre
  <2> HIDE DEF L
  <2> QED
    BY <1>5, <2>1
<1>7. \A i \in N : i[1] = s /\ i[2] \in L
  BY <1>5
<1>8. V \subseteq ItemsIn(ss, p) /\ W \subseteq ItemsIn(ss, p) /\ \A i \in V : i[1] # s
  BY <1>1, <1>2 DEF VoidedIn
<1>9. \A i \in ItemsIn(ss, p) : i[1] = s => i \in N
  <2> SUFFICES ASSUME NEW i \in ItemsIn(ss, p), i[1] = s PROVE i \in N
    OBVIOUS
  <2>1. i[2] \in DOMAIN ss[s].items /\ i = <<s, i[2]>> /\ ss[s].items[i[2]].product = p
    BY ItemsAre
  <2>2. i[2] \in L
    BY <1>1, <1>3, <2>1
  <2>3. i = h[i[2]]
    BY <1>5, <2>1, <2>2
  <2> QED
    BY <2>2, <2>3
<1>10. \A i \in ItemsIn(ss, p) : i \in W <=> i \in V \/ i \in N
  <2> SUFFICES ASSUME NEW i \in ItemsIn(ss, p) PROVE i \in W <=> i \in V \/ i \in N
    OBVIOUS
  <2>1. i[1] \in DOMAIN ss
    BY ItemsAre
  <2>2. CASE i[1] = s
    <3>1. i \in W
      BY <1>1, <1>2, <2>2 DEF VoidedIn
    <3>2. i \in N
      BY <1>9, <2>2
    <3> QED
      BY <3>1, <3>2
  <2>3. CASE i[1] # s
    <3>1. i \in W <=> i \in V
      BY <1>1, <1>2, <2>1, <2>3 DEF VoidedIn
    <3>2. i \notin N
      BY <1>7, <2>3
    <3> QED
      BY <3>1, <3>2
  <2> QED
    BY <2>2, <2>3
<1>11. Parts(tt, p, W, V, N)
  <2>1. W = V \cup N /\ V \cap N = {}
    <3> HIDE DEF V, W, N
    <3> QED
      BY <1>6, <1>7, <1>8, <1>10
  <2> QED
    BY <1>2, <1>8, <2>1 DEF Parts
<1>12. UnitsIn(tt, W) = UnitsIn(tt, V) + UnitsIn(tt, N)
  <2> HIDE DEF V, W, N
  <2> QED
    BY <1>11, JoinedSums
<1>13. UnitsIn(tt, V) = UnitsIn(ss, V)
  <2>1. V \in SUBSET ItemsIn(ss, p)
    BY <1>8
  <2>2. \A i \in V : tt[i[1]] = ss[i[1]]
    BY <1>1, <1>8, ItemsAre
  <2> HIDE DEF V
  <2> QED
    BY <2>1, <2>2, SameSums
<1>14. IsFiniteSet(N)
  <2>1. N \in SUBSET ItemsIn(ss, p)
    BY <1>6
  <2> HIDE DEF N
  <2> QED
    BY <2>1, ItemSums
<1>15. UnitsIn(tt, N) = LineUnits(u, p)
  <2>1. \A k \in L : f[k] \in Int /\ g[h[k]] = f[k]
    BY <1>1, <1>4, <1>5, SessionSums
  <2>2. \A k, j \in L : h[k] = h[j] => k = j
    BY <1>5
  <2>3. N = {h[k] : k \in L}
    OBVIOUS
  <2>4. SumFunctionOnSet(g, N) = SumFunctionOnSet(f, L)
    <3> HIDE DEF f, g, h, N, L
    <3>1. Paired(f, g, L, N, h)
      BY <1>4, <1>14, <2>1, <2>2, <2>3 DEF Paired
    <3> QED
      BY <3>1, SumPaired
  <2> QED
    BY <2>4 DEF UnitsIn, LineUnits
<1> HIDE DEF N, L
<1> QED
  BY <1>12, <1>13, <1>15

\* A void puts back what the lines of its sale had taken.
LEMMA CommitVoidVoids ==
  ASSUME OneWorker, VoidInv, SerialInv', JournalInv', NEW w \in Workers, CommitVoid(w)
  PROVE  VoidInv'
<1> DEFINE u  == uow[w]
           s  == u.sale
           tt == sales'
<1>1. IInv /\ TypeOK /\ MovedOK(u, phase[w]) /\ sales \in Seq(Sale) /\ FreshOK(u, phase[w])
  BY DEF VoidInv, SerialInv, JournalInv, IInv, TypeOK
<1>2. /\ u \in Session /\ WriteStock(u) /\ phase[w] = "lines" /\ u.op = "VOID"
      /\ s \in DOMAIN sales /\ tt \in Seq(Sale) /\ DOMAIN tt = DOMAIN sales
      /\ tt[s].items = sales[s].items
      /\ \A r \in DOMAIN sales : r # s => tt[r] = sales[r]
  BY <1>1, CommitVoidStep
<1>3. tt[s].status = "VOIDED" /\ u.next > Len(u.lines)
  <2>1. sales[s] \in Sale
    BY <1>1, <1>2, LenProperties, ElementOfSeq
  <2> QED
    BY <1>2, <2>1 DEF CommitVoid, LinesDone, Sale
<1>4. /\ sales[s].status # "VOIDED" /\ DOMAIN u.lines = DOMAIN sales[s].items
      /\ \A k \in DOMAIN u.lines : /\ u.lines[k].product = sales[s].items[k].product
                                   /\ u.lines[k].quantity = sales[s].items[k].quantity
  BY <1>1, <1>2 DEF FreshOK
<1>5. Voided(sales, tt, s, u)
  BY <1>2, <1>3, <1>4 DEF Voided
<1> HIDE DEF u, s, tt
<1>6. ASSUME NEW p \in Products \ Services
      PROVE  UnitsMoved(ledger'[p], {"VOID"}) = UnitsIn(tt, VoidedIn(tt, p))
  <2>1. UnitsMoved(u.rows[p], {"VOID"}) = LineUnits(u, p)
    BY <1>1, <1>2 DEF MovedOK
  <2>2. /\ UnitsMoved(ledger[p], {"VOID"}) \in Int
        /\ UnitsMoved(ledger'[p], {"VOID"})
             = UnitsMoved(ledger[p], {"VOID"}) + UnitsMoved(u.rows[p], {"VOID"})
    BY <1>1, <1>2, JournalWritten
  <2>3. UnitsMoved(ledger[p], {"VOID"}) = UnitsIn(sales, VoidedIn(sales, p))
    BY VoidsAre DEF VoidInv, VoidsBalance
  <2>4. UnitsIn(tt, VoidedIn(tt, p)) = UnitsIn(sales, VoidedIn(sales, p)) + LineUnits(u, p)
    BY <1>1, <1>2, <1>5, VoidedItems
  <2> QED
    BY <2>1, <2>2, <2>3, <2>4
<1>7. VoidsRestoreOnce'
  BY <1>6 DEF VoidsRestoreOnce, Journaled, UnitsOn, UnitsIn, ItemsOf, ItemsIn, SaleItem,
              VoidedIn, tt
<1> QED
  BY <1>7 DEF VoidInv

\* Every step keeps the VOID rows in line with the voided sales.
LEMMA VoidStep == OneWorker /\ VoidInv /\ [Next]_vars => VoidInv'
<1> SUFFICES ASSUME OneWorker, VoidInv, [Next]_vars PROVE VoidInv'
  OBVIOUS
<1>1. SerialInv' /\ JournalInv'
  BY SerialStep, JournalStep DEF VoidInv
<1>2. /\ IInv /\ TypeOK /\ sales \in Seq(Sale)
      /\ \A w \in Workers : uow[w] \in Session /\ MovedOK(uow[w], phase[w])
  BY DEF VoidInv, JournalInv, IInv, TypeOK
<1>3. ASSUME ledger' = ledger, sales' = sales PROVE VoidInv'
  <2>1. VoidsRestoreOnce' <=> VoidsRestoreOnce
    BY <1>3 DEF VoidsRestoreOnce, Journaled, UnitsOn, ItemsOf, SaleItem
  <2> QED
    BY <1>1, <2>1 DEF VoidInv
<1>4. ASSUME NEW w \in Workers, Receive(w) \/ LoadProduct(w) \/ LoadSale(w) \/ LoadItems(w)
                                \/ MovesLine(w) \/ Rollback(w)
      PROVE  VoidInv'
  <2>1. UNCHANGED db
    BY <1>2, <1>4, LoadProductStep, LoadSaleStep, LoadItemsStep, MovesLineMoved
       DEF Receive, Rollback
  <2> QED
    BY <1>3, <2>1 DEF db
<1>5. ASSUME NEW w \in Workers, Adjust(w) PROVE VoidInv'
  <2> DEFINE p == CurrentLine(w).product
  <2>1. PICK v, m, change : Adjusted(uow[w], m, v, p, change)
    BY <1>2, <1>5, AdjustStep
  <2> HIDE DEF p
  <2>2. \A i \in DOMAIN v.rows[p] : v.rows[p][i].kind = "ADJUSTMENT"
    <3>1. v.rows[p] = <<JournalRow(uow[w], p, "ADJUSTMENT", change)>>
      BY <2>1 DEF Adjusted
    <3>2. JournalRow(uow[w], p, "ADJUSTMENT", change).kind = "ADJUSTMENT"
      BY DEF JournalRow, Movement
    <3> QED
      BY <3>1, <3>2
  <2>3. \A q \in Products \ {p} : v.rows[q] = <<>>
    BY <2>1 DEF Adjusted
  <2>4. \A q \in Products : \A i \in DOMAIN v.rows[q] : v.rows[q][i].kind # "VOID"
    BY <2>2, <2>3
  <2>5. v \in Session /\ WriteStock(v) /\ sales' = sales
    BY <1>5, <2>1 DEF Adjusted, Adjust
  <2> QED
    BY <1>1, <2>4, <2>5, VoidsKept
<1>6. ASSUME NEW w \in Workers, CommitRestock(w) PROVE VoidInv'
  <2>1. uow[w].op = "RESTOCK" /\ WriteStock(uow[w]) /\ sales' = sales
    BY <1>6 DEF CommitRestock, LinesDone
  <2>2. \A q \in Products : \A i \in DOMAIN uow[w].rows[q] : uow[w].rows[q][i].kind # "VOID"
    BY <1>2, <2>1 DEF MovedOK, KindOf
  <2> QED
    BY <1>1, <1>2, <2>1, <2>2, VoidsKept
<1>7. ASSUME NEW w \in Workers, CommitSale(w) \/ CommitVoid(w) \/ CommitReturn(w)
      PROVE  VoidInv'
  BY <1>1, <1>7, CommitSaleVoids, CommitVoidVoids, CommitReturnVoids
<1>8. CASE Quiet \/ UNCHANGED vars
  BY <1>3, <1>8 DEF Quiet, vars
<1> QED
  BY <1>4, <1>5, <1>6, <1>7, <1>8 DEF Next, MovesLine

\* Requests served one at a time: a void puts back what the voided sale had taken,
\* and only one void of a sale does, since it finds the sale COMPLETED.
THEOREM SerialVoidsRestoreOnce == OneWorker => (Spec => []VoidsRestoreOnce)
<1> SUFFICES ASSUME OneWorker PROVE Spec => []VoidsRestoreOnce
  OBVIOUS
<1>1. Init => VoidInv
  <2> SUFFICES ASSUME Init PROVE VoidInv
    OBVIOUS
  <2>1. \A p \in Products : Journaled(p, {"VOID"}) = 0
    <3>1. \A p \in Products : \A i \in DOMAIN ledger[p] : ledger[p][i].kind \notin {"VOID"}
      BY DEF Init
    <3> QED
      BY <3>1, MovedNone DEF Journaled
  <2>2. \A p : {i \in ItemsOf(p) : sales[i[1]].status = "VOIDED"} = {}
    BY DEF Init, ItemsOf
  <2>3. \A items : items = {} => UnitsOn(items) = 0
    BY SumEmpty DEF UnitsOn
  <2>4. VoidsRestoreOnce
    BY <2>1, <2>2, <2>3 DEF VoidsRestoreOnce
  <2> QED
    BY <2>4, SerialInit, JournalInit DEF VoidInv
<1>2. VoidInv /\ [Next]_vars => VoidInv'
  BY VoidStep
<1>3. VoidInv => VoidsRestoreOnce
  BY DEF VoidInv
<1> QED
  BY <1>1, <1>2, <1>3, PTL DEF Spec

-----------------------------------------------------------------------------
\* What returns and voids put back together

\* A multiple of Scale is in whole units.
LEMMA MultipleIsWhole == ASSUME NEW n \in Int PROVE InWholeUnits(Scale * n)
<1>1. Scale \in Nat \ {0}
  BY SessionsAssumption
<1>2. (Scale * n) \div Scale = n
  BY <1>1
<1> QED
  BY <1>2 DEF InWholeUnits, Whole

LEMMA NothingIsWhole == InWholeUnits(0)
<1>1. 0 = Scale * 0
  BY SessionsAssumption
<1> QED
  BY <1>1, MultipleIsWhole

\* Whole units stay whole when they are added and taken away.
LEMMA WholeUnitsAdd ==
  ASSUME NEW a \in Int, NEW b \in Int, InWholeUnits(a), InWholeUnits(b)
  PROVE  InWholeUnits(a + b) /\ InWholeUnits(a - b)
<1> DEFINE i == Whole(a)
           j == Whole(b)
<1>1. a = Scale * i /\ b = Scale * j /\ i \in Int /\ j \in Int /\ Scale \in Int
  BY WholeInt, SessionsAssumption DEF InWholeUnits
<1> HIDE DEF i, j
<1>2. a + b = Scale * (i + j) /\ a - b = Scale * (i - j) /\ i + j \in Int /\ i - j \in Int
  BY <1>1
<1> QED
  BY <1>2, MultipleIsWhole

\* Whole units that are within a quantity are within the whole units of it.
LEMMA WholeUnitsFit ==
  ASSUME NEW q \in Nat, NEW n \in Int, Scale * n <= q
  PROVE  n <= Whole(q)
<1> DEFINE d == q \div Scale
<1>1. Scale \in Nat \ {0}
  BY SessionsAssumption
<1>2. d \in Int /\ q < Scale * (d + 1)
  BY <1>1
<1> HIDE DEF d
<1>3. CASE n > d
  <2>1. Scale * (d + 1) <= Scale * n
    BY <1>1, <1>2, <1>3
  <2>2. Scale * (d + 1) \in Int /\ Scale * n \in Int
    BY <1>1, <1>2
  <2> QED
    BY <1>2, <2>1, <2>2
<1>4. CASE n <= d
  BY <1>4 DEF Whole, d
<1> QED
  BY <1>2, <1>3, <1>4

\* A session that goes on, with nothing stored ...
LEMMA WholeGoesOn ==
  ASSUME IInv, WholeItems, NEW w \in Workers, NEW u, NEW ph, Continue(w, u, ph), UNCHANGED db,
         u.op = "RETURN" => WholeBooked(u.items) /\ WholeBooked(u.loaded)
  PROVE  WholeItems'
BY DEF IInv, TypeOK, WholeItems, WholeBooked, InWholeUnits, Continue, db

\* ... or ends, with its work stored or given up.
LEMMA WholeEnds ==
  ASSUME IInv, WholeItems, NEW w \in Workers, Close(w),
         \A s \in DOMAIN sales' : WholeBooked(sales'[s].items)
  PROVE  WholeItems'
<1>1. NoSession.op # "RETURN"
  BY DEF NoSession, NewSession
<1> QED
  BY <1>1 DEF IInv, TypeOK, WholeItems, WholeBooked, InWholeUnits, Close, Continue

LEMMA LoadsWhole ==
  ASSUME IInv, WholeItems, NEW w \in Workers,
         Receive(w) \/ LoadProduct(w) \/ LoadSale(w) \/ LoadItems(w)
  PROVE  WholeItems'
<1>1. CASE Receive(w)
  <2>1. PICK r \in Requests : Continue(w, NewSession(r), FirstPhase(r))
    BY <1>1 DEF Receive, FirstPhase
  <2>2. WholeBooked(NewSession(r).items) /\ WholeBooked(NewSession(r).loaded)
    BY DEF NewSession, WholeBooked
  <2>3. UNCHANGED db
    BY <1>1 DEF Receive
  <2> QED
    BY <2>1, <2>2, <2>3, WholeGoesOn
<1>2. CASE LoadProduct(w)
  <2>1. PICK v \in Session : \E ph \in {"products", "lines"} :
           Continue(w, v, ph) /\ SameRequest(uow[w], v)
    BY <1>2, LoadProductStep
  <2>2. UNCHANGED db
    BY <1>2, LoadProductStep
  <2>3. v.op = "RETURN" => WholeBooked(v.items) /\ WholeBooked(v.loaded)
    BY <2>1 DEF SameRequest, WholeItems
  <2> QED
    BY <2>1, <2>2, <2>3, WholeGoesOn
<1>3. CASE LoadSale(w)
  <2> DEFINE v == [uow[w] EXCEPT !.status = sales[uow[w].sale].status,
                                 !.total  = sales[uow[w].sale].total_amount]
  <2>1. Continue(w, v, "items") /\ UNCHANGED db /\ uow[w] \in Session
    BY <1>3 DEF LoadSale, IInv, TypeOK
  <2>2. v.op = uow[w].op /\ v.items = uow[w].items /\ v.loaded = uow[w].loaded
    BY <2>1 DEF Session
  <2> HIDE DEF v
  <2>3. v.op = "RETURN" => WholeBooked(v.items) /\ WholeBooked(v.loaded)
    BY <2>2 DEF WholeItems
  <2> QED
    BY <2>1, <2>3, WholeGoesOn
<1>4. CASE LoadItems(w)
  <2>1. /\ UNCHANGED db /\ uow[w].sale \in DOMAIN sales
        /\ \E v \in Session : /\ Continue(w, v, "lines")
                              /\ v.loaded = sales[uow[w].sale].items
                              /\ v.items = sales[uow[w].sale].items
    BY <1>4, LoadItemsStep
  <2>2. PICK v \in Session : /\ Continue(w, v, "lines")
                             /\ v.loaded = sales[uow[w].sale].items
                             /\ v.items = sales[uow[w].sale].items
    BY <2>1
  <2>3. WholeBooked(v.items) /\ WholeBooked(v.loaded)
    BY <2>1, <2>2 DEF WholeItems
  <2> QED
    BY <2>1, <2>2, <2>3, WholeGoesOn
<1> QED
  BY <1>1, <1>2, <1>3, <1>4

\* A line of a return books whole units.
LEMMA MovesLineWhole ==
  ASSUME WholeReturns, IInv, WholeItems, NEW w \in Workers, MovesLine(w),
         MovedOK(uow[w], phase[w])
  PROVE  WholeItems'
<1>1. uow[w] \in Session /\ uow[w].next \in DOMAIN uow[w].lines
  BY MovesLineBooks
<1>2. PICK u, p, kind, change : Booking(w, u, p, kind, change)
  BY MovesLineBooks
<1>3. UNCHANGED db /\ \E v \in Session : Continue(w, v, "lines") /\ SameRequest(u, v)
  BY <1>2, MovesLineStep DEF LineMoved
<1>4. PICK v \in Session : Continue(w, v, "lines") /\ SameRequest(u, v)
  BY <1>3
<1>5. ASSUME v.op = "RETURN" PROVE WholeBooked(v.items) /\ WholeBooked(v.loaded)
  <2> DEFINE line == CurrentLine(w)
  <2>1. /\ v.items = u.items /\ v.loaded = uow[w].loaded /\ DOMAIN u.items = DOMAIN uow[w].items
        /\ u.op = "RETURN" /\ uow[w].op = "RETURN"
    BY <1>2, <1>4, <1>5 DEF SameRequest, Booking, Booked
  <2>2. InWholeUnits(line.quantity)
    BY <1>1, <2>1 DEF MovedOK, WholeLines, CurrentLine, InWholeUnits
  <2>3. PICK k \in DOMAIN u.items :
           /\ u.items[k].return_items = uow[w].items[k].return_items + line.quantity
           /\ \A i \in DOMAIN u.items \ {k} :
                 u.items[i].return_items = uow[w].items[i].return_items
    BY <1>2, <2>1 DEF Booking, Meant
  <2> HIDE DEF line
  <2>4. \A i \in DOMAIN uow[w].items : InWholeUnits(uow[w].items[i].return_items)
    BY <2>1 DEF WholeItems, WholeBooked
  <2>5. InWholeUnits(u.items[k].return_items)
    <3>1. uow[w].items[k].return_items \in Int
      <4>1. uow[w].items \in Seq(Item) /\ k \in DOMAIN uow[w].items
        BY <1>1, <2>1 DEF Session
      <4>2. uow[w].items[k] \in Item
        BY <4>1, LenProperties, ElementOfSeq
      <4> QED
        BY <4>2 DEF Item
    <3>2. line.quantity \in Int
      BY <1>1, LineType DEF CurrentLine, line
    <3> QED
      BY <2>1, <2>2, <2>3, <2>4, <3>1, <3>2, WholeUnitsAdd
  <2>6. WholeBooked(u.items)
    BY <2>1, <2>3, <2>4, <2>5 DEF WholeBooked
  <2> QED
    BY <2>1, <2>6 DEF WholeItems
<1> QED
  BY <1>3, <1>4, <1>5, WholeGoesOn

LEMMA CommitsWhole ==
  ASSUME IInv, WholeItems, NEW w \in Workers, CommitSale(w) \/ CommitVoid(w) \/ CommitReturn(w)
  PROVE  WholeItems'
<1>1. CASE CommitSale(w)
  <2>1. /\ Close(w) /\ DOMAIN sales = 1 .. Len(sales) /\ Len(sales) \in Nat
        /\ DOMAIN sales' = 1 .. Len(sales) + 1 /\ sales'[Len(sales) + 1] = NewSale(uow[w])
        /\ \A s \in DOMAIN sales : sales'[s] = sales[s]
    BY <1>1, CommitSaleStep
  <2>2. WholeBooked(NewSale(uow[w]).items)
    BY NothingIsWhole DEF NewSale, WholeBooked
  <2>3. ASSUME NEW s \in DOMAIN sales' PROVE WholeBooked(sales'[s].items)
    BY <2>1, <2>2, <2>3 DEF WholeItems
  <2> QED
    BY <2>1, <2>3, WholeEnds
<1>2. CASE CommitVoid(w)
  <2>1. /\ Close(w) /\ DOMAIN sales' = DOMAIN sales
        /\ \A s \in DOMAIN sales : sales'[s].items = sales[s].items
    BY <1>2, CommitVoidStep
  <2>2. \A s \in DOMAIN sales' : WholeBooked(sales'[s].items)
    BY <2>1 DEF WholeItems
  <2> QED
    BY <2>1, <2>2, WholeEnds
<1>3. CASE CommitReturn(w)
  <2> DEFINE u   == uow[w]
             old == sales[u.sale].items
             new == sales'[u.sale].items
  <2>1. /\ Close(w) /\ phase[w] = "lines" /\ u.op = "RETURN" /\ u.sale \in DOMAIN sales
        /\ DOMAIN sales' = DOMAIN sales
        /\ \A s \in DOMAIN sales : s # u.sale => sales'[s] = sales[s]
        /\ DOMAIN new = DOMAIN old
        /\ \A k \in DOMAIN old :
              /\ k \in DOMAIN u.items
              /\ old[k] \in Item /\ u.loaded[k] \in Item /\ u.items[k] \in Item
              /\ new[k].return_items = old[k].return_items +
                                          (u.items[k].return_items - u.loaded[k].return_items)
    BY <1>3, CommitReturnStep
  <2>2. DOMAIN u.loaded = DOMAIN old
    BY <2>1 DEF IInv, WorkerOK, CopiesOK
  <2>3. WholeBooked(old) /\ WholeBooked(u.items) /\ WholeBooked(u.loaded)
    BY <2>1 DEF WholeItems
  <2>4. ASSUME NEW k \in DOMAIN new PROVE InWholeUnits(new[k].return_items)
    <3> DEFINE a == old[k].return_items
               b == u.items[k].return_items
               c == u.loaded[k].return_items
    <3>1. InWholeUnits(a) /\ InWholeUnits(b) /\ InWholeUnits(c)
      BY <2>1, <2>2, <2>3 DEF WholeBooked
    <3>2. new[k].return_items = a + (b - c)
      BY <2>1
    <3>3. a \in Int /\ b \in Int /\ c \in Int /\ b - c \in Int
      BY <2>1 DEF Item
    <3> HIDE DEF a, b, c
    <3>4. InWholeUnits(b - c)
      BY <3>1, <3>3, WholeUnitsAdd
    <3>5. InWholeUnits(a + (b - c))
      BY <3>1, <3>3, <3>4, WholeUnitsAdd
    <3> QED
      BY <3>2, <3>5
  <2>5. WholeBooked(new)
    BY <2>4 DEF WholeBooked
  <2>6. \A s \in DOMAIN sales' : WholeBooked(sales'[s].items)
    BY <2>1, <2>5 DEF WholeItems
  <2> QED
    BY <2>1, <2>6, WholeEnds
<1> QED
  BY <1>1, <1>2, <1>3

\* While nobody returns a fraction of a unit, no step makes one of what was returned.
LEMMA WholeStep == WholeReturns /\ JournalInv /\ WholeItems /\ [Next]_vars => WholeItems'
<1> SUFFICES ASSUME WholeReturns, JournalInv, WholeItems, [Next]_vars PROVE WholeItems'
  OBVIOUS
<1>1. IInv /\ \A w \in Workers : MovedOK(uow[w], phase[w])
  BY DEF JournalInv
<1>2. ASSUME NEW w \in Workers, Adjust(w) \/ CommitRestock(w) \/ Rollback(w) PROVE WholeItems'
  <2>1. Close(w) /\ sales' = sales
    BY <1>2 DEF Adjust, CommitRestock, Rollback, db
  <2>2. \A s \in DOMAIN sales' : WholeBooked(sales'[s].items)
    BY <2>1 DEF WholeItems
  <2> QED
    BY <1>1, <2>1, <2>2, WholeEnds
<1>3. CASE Quiet \/ UNCHANGED vars
  BY <1>3 DEF Quiet, vars, WholeItems, WholeBooked, InWholeUnits
<1> QED
  BY <1>1, <1>2, <1>3, LoadsWhole, MovesLineWhole, CommitsWhole DEF Next, MovesLine

\* What a product's items sold and had returned, and the units of the voided ones.
LEMMA RestoredSums ==
  ASSUME IInv, ReturnsAddUp, WholeItems, ~ReturnsOnVoided, NEW p,
         NEW back \in Int, Scale * back = ReturnedOn(ItemsOf(p)),
         NEW void, void = UnitsOn({i \in ItemsOf(p) : sales[i[1]].status = "VOIDED"})
  PROVE  void \in Int /\ UnitsOn(ItemsOf(p)) \in Int /\ back + void <= UnitsOn(ItemsOf(p))
<1> DEFINE I    == ItemsOf(p)
           V    == {i \in I : sales[i[1]].status = "VOIDED"}
           R    == I \ V
           sold == [i \in I |-> Whole(SaleItem(i).quantity)]
           rows == [i \in I |-> SaleItem(i).return_items]
           part == [i \in I |-> CHOOSE n \in Int : rows[i] = Scale * n]
           kept == [i \in I |-> sold[i] - part[i]]
<1>1. sales \in Seq(Sale) /\ I = ItemsIn(sales, p)
  BY SumsOfSales DEF IInv, TypeOK
<1>2. /\ IsFiniteSet(I)
      /\ \A i \in I : /\ i[1] \in DOMAIN sales /\ i[2] \in DOMAIN sales[i[1]].items
                      /\ SaleItem(i) \in Item
  BY <1>1, ItemsAre DEF SaleItem
<1>3. Scale \in Nat \ {0}
  BY SessionsAssumption
<1>4. ASSUME NEW i \in I
      PROVE  /\ sold[i] \in Int /\ rows[i] \in Int /\ part[i] \in Int
             /\ rows[i] = Scale * part[i] /\ part[i] <= sold[i]
             /\ i \in V => part[i] = 0
  <2> DEFINE item == SaleItem(i)
  <2>1. item \in Item /\ item.quantity \in Nat /\ item.return_items \in Nat
    BY <1>2 DEF Item
  <2>2. /\ InWholeUnits(item.return_items)
        /\ item.return_items <= item.quantity
        /\ sales[i[1]].status = "VOIDED" => ~(item.return_items > 0)
    <3>1. i[1] \in DOMAIN sales /\ i[2] \in DOMAIN sales[i[1]].items
      BY <1>2
    <3>2. item = sales[i[1]].items[i[2]]
      BY DEF SaleItem
    <3> HIDE DEF item
    <3>3. item.return_items = item.returned_qty /\ item.returned_qty <= item.quantity
      BY <3>1, <3>2 DEF ReturnsAddUp, ReturnedWithinSold, IInv
    <3>4. InWholeUnits(item.return_items)
      BY <3>1, <3>2 DEF WholeItems, WholeBooked
    <3>5. sales[i[1]].status = "VOIDED" => ~(item.return_items > 0)
      BY <3>1, <3>2 DEF ReturnsOnVoided
    <3> QED
      BY <3>3, <3>4, <3>5
  <2>3. sold[i] = Whole(item.quantity) /\ rows[i] = item.return_items
    OBVIOUS
  <2>4. \E n \in Int : rows[i] = Scale * n
    BY <2>1, <2>2, <2>3, WholeNat DEF InWholeUnits
  <2>5. part[i] \in Int /\ rows[i] = Scale * part[i]
    <3>1. part[i] = CHOOSE n \in Int : rows[i] = Scale * n
      OBVIOUS
    <3> HIDE DEF part, rows
    <3> QED
      BY <2>4, <3>1
  <2>6. i \in V => sales[i[1]].status = "VOIDED"
    OBVIOUS
  <2> HIDE DEF item, sold, rows, part, V
  <2>7. sold[i] \in Int /\ rows[i] \in Int
    BY <2>1, <2>3, WholeNat
  <2>8. part[i] <= sold[i]
    BY <2>1, <2>2, <2>3, <2>5, WholeUnitsFit
  <2>9. i \in V => part[i] = 0
    <3>1. i \in V => Scale * part[i] = 0
      BY <2>1, <2>2, <2>3, <2>5, <2>6
    <3> QED
      BY <1>3, <2>5, <3>1
  <2> QED
    BY <2>5, <2>7, <2>8, <2>9
<1>5. /\ UnitsOn(I) = SumFunctionOnSet(sold, I) /\ ReturnedOn(I) = SumFunctionOnSet(rows, I)
      /\ void = UnitsOn(V)
  BY DEF UnitsOn, ReturnedOn
<1>6. /\ IsFiniteSet(V) /\ IsFiniteSet(R) /\ I = R \cup V /\ R \cap V = {} /\ V \subseteq I
  BY <1>2, FS_Subset
<1>7. UnitsOn(V) = SumFunctionOnSet(sold, V)
  <2> DEFINE f == [i \in V |-> Whole(SaleItem(i).quantity)]
  <2>1. \A i \in V : f[i] = sold[i]
    OBVIOUS
  <2>2. UnitsOn(V) = SumFunctionOnSet(f, V)
    BY DEF UnitsOn
  <2> HIDE DEF f, sold, V
  <2> QED
    BY <1>6, <2>1, <2>2, SumSame
<1>8. \A i \in I : kept[i] \in Nat /\ sold[i] = part[i] + kept[i]
  <2>1. \A i \in I : kept[i] = sold[i] - part[i]
    OBVIOUS
  <2> HIDE DEF kept, sold, part, rows
  <2> QED
    BY <1>4, <2>1
<1> HIDE DEF I, V, R, sold, rows, part, kept
<1>9. SumFunctionOnSet(rows, I) = Scale * SumFunctionOnSet(part, I)
  BY <1>2, <1>3, <1>4, SumScaled
<1>10. /\ SumFunctionOnSet(sold, I) = SumFunctionOnSet(sold, R) + SumFunctionOnSet(sold, V)
       /\ SumFunctionOnSet(part, I) = SumFunctionOnSet(part, R) + SumFunctionOnSet(part, V)
  BY <1>4, <1>6, SumUnion
<1>11. SumFunctionOnSet(part, V) = 0
  BY <1>4, <1>6, SumZeros
<1>12. SumFunctionOnSet(sold, R) = SumFunctionOnSet(part, R) + SumFunctionOnSet(kept, R)
  <2>1. \A i \in R : part[i] \in Int /\ kept[i] \in Int /\ sold[i] = part[i] + kept[i]
    BY <1>4, <1>6, <1>8
  <2> QED
    BY <1>6, <2>1, SumPlus
<1>13. SumFunctionOnSet(kept, R) \in Nat
  BY <1>6, <1>8, SumNat
<1>14. /\ SumFunctionOnSet(part, I) \in Int /\ SumFunctionOnSet(part, R) \in Int
       /\ SumFunctionOnSet(sold, V) \in Int /\ SumFunctionOnSet(sold, I) \in Int
  BY <1>2, <1>4, <1>6, SumType
<1>15. back = SumFunctionOnSet(part, I)
  <2> DEFINE n == SumFunctionOnSet(part, I)
  <2>1. Scale * back = Scale * n /\ n \in Int
    BY <1>5, <1>9, <1>14 DEF I
  <2> HIDE DEF n
  <2>2. (Scale * back) \div Scale = back /\ (Scale * n) \div Scale = n
    BY <1>3, <2>1
  <2> QED
    BY <2>1, <2>2 DEF n
<1> QED
  BY <1>5, <1>7, <1>10, <1>11, <1>12, <1>13, <1>14, <1>15 DEF I

\* Requests served one at a time, in whole units: returns and voids together put back
\* more of a product than sales took only if a sale was voided after some of it had been
\* returned (RestoredUnlessVoided).
THEOREM SerialRestoredWithinSold ==
  OneWorker /\ WholeReturns => (Spec => []RestoredUnlessVoided)
<1> SUFFICES ASSUME OneWorker, WholeReturns PROVE Spec => []RestoredUnlessVoided
  OBVIOUS
<1>1. Init => WholeItems
  <2>1. NoSession.op # "RETURN"
    BY DEF NoSession, NewSession
  <2> QED
    BY <2>1 DEF Init, WholeItems
<1>2. JournalInv /\ WholeItems /\ [Next]_vars => WholeItems'
  BY WholeStep
<1>3. SerialInv /\ JournalInv /\ VoidsRestoreOnce /\ WholeItems => RestoredUnlessVoided
  <2> SUFFICES ASSUME SerialInv, JournalInv, VoidsRestoreOnce, WholeItems, ~ReturnsOnVoided,
                      NEW p \in Products \ Services
               PROVE  Journaled(p, {"SALE", "RETURN", "VOID"}) <= 0
    BY DEF RestoredUnlessVoided, RestoredWithinSold
  <2> DEFINE taken == Journaled(p, {"SALE"})
             back  == Journaled(p, {"RETURN"})
             void  == Journaled(p, {"VOID"})
             units == UnitsOn(ItemsOf(p))
  <2>1. ledger[p] \in Seq(Row)
    BY DEF JournalInv, IInv, TypeOK
  <2>2. Journaled(p, {"SALE", "RETURN", "VOID"}) = taken + back + void /\ back \in Int
    <3>1. {"SALE", "RETURN", "VOID"} = ({"SALE"} \cup {"RETURN"}) \cup {"VOID"}
      OBVIOUS
    <3>2. {"SALE"} \cap {"RETURN"} = {} /\ ({"SALE"} \cup {"RETURN"}) \cap {"VOID"} = {}
      OBVIOUS
    <3>3. UnitsMoved(ledger[p], {"SALE"} \cup {"RETURN"}) = taken + back
      BY <2>1, <3>2, MovedUnion DEF Journaled
    <3>4. UnitsMoved(ledger[p], ({"SALE"} \cup {"RETURN"}) \cup {"VOID"}) = (taken + back) + void
      BY <2>1, <3>2, <3>3, MovedUnion DEF Journaled
    <3> QED
      BY <2>1, <3>1, <3>4, MovedType DEF Journaled
  <2>3. taken = -units /\ Scale * back = ReturnedOn(ItemsOf(p))
    BY DEF JournalInv, SoldStockIsJournaled, ReturnsAreJournaled
  <2>4. void = UnitsOn({i \in ItemsOf(p) : sales[i[1]].status = "VOIDED"})
    BY DEF VoidsRestoreOnce
  <2>5. IInv /\ ReturnsAddUp
    BY DEF SerialInv
  <2> HIDE DEF taken, back, void, units
  <2>6. void \in Int /\ units \in Int /\ back + void <= units
    BY <2>2, <2>3, <2>4, <2>5, RestoredSums DEF units
  <2> QED
    BY <2>2, <2>3, <2>6
<1> QED
  BY <1>1, <1>2, <1>3, SerialInvariantHolds, JournalInvariantHolds, SerialVoidsRestoreOnce, PTL
     DEF Spec
=============================================================================
