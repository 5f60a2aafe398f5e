------------------------------ MODULE DialogForm ------------------------------
(***************************************************************************)
(* One dialog over a list, opened and closed by the user, and the requests *)
(* it posts, while the rows of the list are edited elsewhere as well.      *)
(*                                                                         *)
(* Init chooses a dialog from the table of Dialogs.  A dialog that opens   *)
(* for a row copies the row as the browser has cached it, which may be     *)
(* outdated.  Its requests outlive it: their answers find it closed, or    *)
(* open for something else, and their success closes it all the same.      *)
(* The fields' values are told apart by who wrote them.                    *)
(*                                                                         *)
(* A definition named Operator_Change is a variant of Operator with a      *)
(* plausible mistake in it; no specification uses it.                      *)
(***************************************************************************)
EXTENDS Naturals, SequencesExt, Dialogs

CONSTANTS
    Rows,           \* the rows of the list
    New,            \* what a dialog for a new row is open for
    MaxOpenings,    \* bound: times the dialog is opened
    MaxPosts,       \* bound: requests posted
    MaxEdits        \* bound: edits of the rows made elsewhere

VARIABLES
    dialog,         \* the dialog
    rows,           \* the rows as the server has them
    shown,          \* the rows as the browser has cached them
    open,           \* whether the dialog is open
    target,         \* the row that is being edited, or New
    form,           \* the fields, with the opening that last set each one
    loaded,         \* the row that was loaded, which an edit is compared with
    opening,        \* which opening of the dialog it is
    openedFor,      \* what each opening was for
    inflight,       \* the requests posted and not answered
    stored,         \* the requests stored, by opening
    lost,           \* the openings of which a stored request went unanswered
    posts,          \* requests posted
    edits           \* edits made elsewhere

screen == <<open, target, form, loaded>>
past   == <<opening, openedFor>>
bounds == <<posts, edits>>
server == <<rows, stored>>
vars   == <<dialog, rows, shown, open, target, form, loaded, opening, openedFor, inflight,
            stored, lost, posts, edits>>

ASSUME DialogFormAssumption ==
    /\ New \notin Rows
    /\ {MaxOpenings, MaxPosts, MaxEdits} \subseteq Nat

Openings == 1..MaxOpenings
Targets  == (IF "row" \in dialog.targets THEN Rows ELSE {})
            \cup (IF "new" \in dialog.targets THEN {New} ELSE {})

\* Who wrote a field: nobody yet, the user of this browser, or somebody else.
Writers == {"blank", "old", "me", "them"}
Row     == [Fields -> Writers]
OldRow  == [f \in Fields |-> "old"]
Blank   == [f \in Fields |-> "blank"]
Form    == [Fields -> [writer : Writers, opening : 0..MaxOpenings]]

EmptyForm == [f \in Fields |-> [writer |-> "blank", opening |-> 0]]

Init == /\ dialog \in Dialogs
        /\ rows = [r \in Rows |-> OldRow] /\ shown = [r \in Rows |-> OldRow]
        /\ open = FALSE /\ target = New
        /\ form = EmptyForm /\ loaded = Blank
        /\ opening = 0 /\ openedFor = [o \in Openings |-> New]
        /\ inflight = <<>>
        /\ stored = [o \in Openings |-> 0]
        /\ lost = {}
        /\ posts = 0 /\ edits = 0
-----------------------------------------------------------------------------
\* The user

\* What an opening loads: the row, unless the dialog is about an event or a new row.
Content(t) == IF t \in Rows /\ dialog.sends # "event" THEN shown[t] ELSE Blank
Set(t)     == IF t # New THEN dialog.loads ELSE IF open THEN dialog.renews ELSE Fields

Load(t) == form' = [f \in Fields |->
                      IF f \in Set(t)
                      THEN [writer |-> Content(t)[f], opening |-> opening + 1]
                      ELSE form[f]]

Open(t) ==
    /\ ~open \/ dialog.inline
    /\ opening < MaxOpenings
    /\ open' = TRUE
    /\ target' = t
    /\ loaded' = Content(t)
    /\ opening' = opening + 1
    /\ openedFor' = [openedFor EXCEPT ![opening + 1] = t]
    /\ Load(t)
    /\ UNCHANGED <<dialog, server, shown, inflight, lost, bounds>>

Type(f) ==
    /\ open
    /\ form' = [form EXCEPT ![f] = [writer |-> "me", opening |-> opening]]
    /\ UNCHANGED <<dialog, server, shown, open, target, loaded, past, inflight, lost, bounds>>

\* Cancel and X, which are never disabled, empty the form.
Close ==
    /\ open
    /\ open' = FALSE
    /\ target' = New
    /\ form' = EmptyForm /\ loaded' = Blank
    /\ UNCHANGED <<dialog, server, shown, past, inflight, lost, bounds>>
-----------------------------------------------------------------------------
\* The request

\* The fields that an edit writes.
Payload_All == Fields
Payload == IF dialog.sends = "changed" /\ target # New
           THEN {f \in Fields : form[f].writer # loaded[f]} ELSE Fields

Post == /\ posts < MaxPosts
        /\ posts' = posts + 1
        /\ inflight' = Append(inflight, [opening |-> opening, target |-> target, form |-> form,
                                         fields |-> Payload, stored |-> FALSE])
        /\ UNCHANGED <<dialog, server, shown, screen, past, lost, edits>>

Submit_Unguarded == open /\ Post
Submit ==
    /\ open
    /\ dialog.guarded => inflight = <<>>
    /\ Post

EditsRow(r) == dialog.sends # "event" /\ r.target # New

Process(n) ==
    LET r == inflight[n] IN
    /\ ~r.stored
    /\ stored' = [stored EXCEPT ![r.opening] = @ + 1]
    /\ rows' = IF EditsRow(r)
               THEN [rows EXCEPT ![r.target] =
                       [f \in Fields |-> IF f \in r.fields THEN r.form[f].writer
                                                           ELSE rows[r.target][f]]]
               ELSE rows
    /\ inflight' = [inflight EXCEPT ![n].stored = TRUE]
    /\ UNCHANGED <<dialog, shown, screen, past, lost, bounds>>

\* onSuccess: the dialog is closed, whatever it is open for by now.  A form that is
\* loaded anew by every opening is as good as empty.
Succeeds_ForgetsTarget(n) ==
    /\ inflight[n].stored
    /\ inflight' = RemoveAt(inflight, n)
    /\ target' = New
    /\ UNCHANGED <<dialog, server, shown, open, form, loaded, past, lost, bounds>>
Succeeds(n) ==
    /\ inflight[n].stored
    /\ inflight' = RemoveAt(inflight, n)
    /\ open' = FALSE
    /\ target' = New
    /\ form' = IF dialog.loads = Fields THEN EmptyForm ELSE form
    /\ loaded' = Blank
    /\ UNCHANGED <<dialog, server, shown, past, lost, bounds>>

\* onError: a message.  The server refused the request, or has stored it and the
\* answer was lost.
Fails(n) ==
    /\ inflight' = RemoveAt(inflight, n)
    /\ lost' = IF inflight[n].stored THEN lost \cup {inflight[n].opening} ELSE lost
    /\ UNCHANGED <<dialog, server, shown, screen, past, bounds>>
-----------------------------------------------------------------------------
OtherEdit(r, f) ==
    /\ edits < MaxEdits
    /\ edits' = edits + 1
    /\ rows' = [rows EXCEPT ![r][f] = "them"]
    /\ UNCHANGED <<dialog, stored, shown, screen, past, inflight, lost, posts>>

Refetch ==
    /\ shown # rows
    /\ shown' = rows
    /\ UNCHANGED <<dialog, server, screen, past, inflight, lost, bounds>>

Next ==
    \/ \E t \in Targets : Open(t)
    \/ \E f \in Fields : Type(f)
    \/ Close
    \/ Submit
    \/ \E n \in DOMAIN inflight : Process(n) \/ Succeeds(n) \/ Fails(n)
    \/ \E r \in Rows, f \in Fields : OtherEdit(r, f)
    \/ Refetch

Spec == Init /\ [][Next]_vars
-----------------------------------------------------------------------------
\* Properties

\* TypeOK: the state is of the right kind.
Request == [opening : Openings, target : Rows \cup {New}, form : Form,
            fields : SUBSET Fields, stored : BOOLEAN]
TypeOK ==
    /\ dialog \in Dialogs
    /\ rows \in [Rows -> Row] /\ shown \in [Rows -> Row]
    /\ open \in BOOLEAN /\ target \in Rows \cup {New}
    /\ form \in Form /\ loaded \in Row
    /\ opening \in 0..MaxOpenings /\ openedFor \in [Openings -> Rows \cup {New}]
    /\ inflight \in Seq(Request)
    /\ stored \in [Openings -> Nat]
    /\ lost \subseteq Openings
    /\ posts \in 0..MaxPosts /\ edits \in 0..MaxEdits

\* OneWritePerOpening: where the button waits for the page's request, one opening
\* stores one request, however often it is submitted, unless an answer is lost; also
\* when the dialog is closed and opened again while its request is under way.
OneWritePerOpening ==
    dialog.guarded => \A o \in Openings \ lost : stored[o] <= 1

\* NeverTwice: the same of every dialog, and whatever is lost.
NeverTwice == \A o \in Openings : stored[o] <= 1

\* SentToItsRow: what is sent to a row, or as a new one, was loaded from that row, or
\* typed, in an opening for it.  Row, form and dialog are separate pieces of state,
\* which answers to older requests and further openings reset in part.  Claimed of the
\* forms that an opening for a row fills; of new rows, where an opening fills the form
\* that is open already, too.
Own(r) == /\ openedFor[r.opening] = r.target
          /\ \A f \in Fields : r.form[f].opening = r.opening
SentToItsRow ==
    dialog.loads = Fields =>
        \A n \in DOMAIN inflight :
            inflight[n].target # New \/ dialog.renews = Fields => Own(inflight[n])

\* NothingLeftOver: the same of every form.
NothingLeftOver == \A n \in DOMAIN inflight : Own(inflight[n])

\* KeepsOthersEdits: a dialog that sends what has changed never turns back a field
\* that somebody else has edited, however outdated the row that it was loaded from.
TurnsBack == \E r \in Rows, f \in Fields : rows[r][f] = "them" /\ rows'[r][f] = "old"
KeepsOthersEdits == [][dialog.sends = "changed" => ~TurnsBack]_vars

\* EveryEditIsKept: the same of every dialog.
EveryEditIsKept == [][~TurnsBack]_vars

\* OwnSuccessCloses: the opening that a success closes is the one that posted it.
OwnSuccessCloses ==
    [][\A n \in DOMAIN inflight : Succeeds(n) /\ open => inflight[n].opening = opening]_vars
=============================================================================
