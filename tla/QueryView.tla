------------------------------ MODULE QueryView ------------------------------
(***************************************************************************)
(* One query of a page, its entries in the query cache, and one write of   *)
(* the user: what the page shows of what the server has, while fetches,    *)
(* answers, page changes and the write interleave.                         *)
(*                                                                         *)
(* ListInit chooses a query and a write from the tables of Pages; pairs    *)
(* that behave alike are one kind.  The cache is that of React Query 5: an *)
(* entry is fetched when a page starts to show it and it is missing or     *)
(* stale, and goes on being fetched when the page turns away; a write's    *)
(* success marks the entries under its keys stale and fetches again the    *)
(* one that is shown, but leaves alone a first fetch that is under way.    *)
(* An answer always clears the mark.                                       *)
(*                                                                         *)
(* A list is two pages of one row under a wide filter and one under a      *)
(* narrow one.                                                             *)
(*                                                                         *)
(* The specification is ListSpec, so that its proofs and those of          *)
(* DialogForm can share a module.  A definition named Operator_Change is a *)
(* variant of Operator with a plausible mistake; no specification uses it. *)
(***************************************************************************)
EXTENDS Naturals, SequencesExt, Pages

CONSTANTS
    MaxPage,    \* bound: the page number reached
    MaxEntries  \* bound: the entries known or being fetched

VARIABLES
    kind,       \* what the query and the write have to do with each other
    written,    \* whether the server has stored the write
    removed,    \* whether the write took a row off the list
    phase,      \* where the write is
    cache,      \* the entries of the query, by filter and page
    fetching,   \* the answers on their way
    missed,     \* the entries whose fetch the success of the write left alone
    mounted,    \* whether a page that shows the query is open
    at,         \* the filter and the page number that it shows
    typing      \* whether a text was typed that does not filter yet

listVars == <<kind, written, removed, phase, cache, fetching, missed, mounted, at, typing>>
user == <<mounted, at, typing>>
write == <<written, removed, phase>>

ASSUME QueryViewAssumption == MaxPage \in Nat \ {0, 1} /\ MaxEntries \in Nat \ {0}

\* A write concerns a query if it changes what the query reads, and covers it if it
\* invalidates a prefix of the query's key.
Concerns(w, q) == w.changes \cap q.reads # {}
Covers_Whole(w, q) == q.key \in w.invalidates
Covers(w, q) == \E k \in w.invalidates : IsPrefix(k, q.key)

Kind(w, q) == [filters |-> q.filters, pager |-> q.pager, covered |-> Covers(w, q),
               own |-> w.page = q.page /\ q.table]
Kinds == {Kind(p[1], p[2]) : p \in {p \in Writes \X Queries : Concerns(p[1], p[2])}}

FilterSet == {"wide", "narrow"}
Keys      == FilterSet \X (1..MaxPage)
First     == <<"wide", 1>>
Versions  == {0, 1}                     \* before and after the write

None == [version |-> 0, state |-> "none"]   \* no entry, no fetch
Entry == [version : Versions, state : {"none", "fresh", "stale", "failed"}]

\* The rows, and so the pages, that the server has for a filter.
Total(filter, version) ==
    IF filter = "wide" THEN IF version = 1 /\ removed THEN 1 ELSE 2 ELSE 1

\* What is served under a key, with a request that may not say which.
Served(k) == IF kind.filters.sent THEN k ELSE First
TotalPages(k) == Total(Served(k)[1], cache[k].version)
RowsOnPage(k) == Served(k)[2] <= TotalPages(k)

Known(k) == cache[k].state # "none"
Used     == {k \in Keys : Known(k) \/ fetching[k] # None}
Version  == IF written THEN 1 ELSE 0

ListInit ==
    /\ kind \in Kinds
    /\ written = FALSE /\ removed = FALSE /\ phase = "idle"
    /\ cache = [k \in Keys |-> None]
    /\ fetching = [k \in Keys |-> None]
    /\ missed = {}
    /\ mounted = FALSE /\ at = First /\ typing = FALSE
-----------------------------------------------------------------------------
\* The query

Answer == [version |-> Version, state |-> "fresh"]

\* A page starts to show the entry of k: it is fetched unless it is fresh or already
\* being fetched.  A fetch reads the server when it starts.
StartsToShow(k) ==
    /\ Cardinality(Used \cup {k}) <= MaxEntries
    /\ fetching' = IF cache[k].state # "fresh" /\ fetching[k] = None
                   THEN [fetching EXCEPT ![k] = Answer] ELSE fetching

\* A page opens with its first page and no filter; a tab that was hidden returns to
\* where it was.
Mount == /\ ~mounted
         /\ mounted' = TRUE
         /\ at' \in {at, First}
         /\ typing' = FALSE
         /\ StartsToShow(at')
         /\ UNCHANGED <<kind, write, cache, missed>>

Unmount == /\ mounted
           /\ mounted' = FALSE
           /\ typing' = FALSE
           /\ UNCHANGED <<kind, write, cache, fetching, missed, at>>

Go(k) == /\ mounted
         /\ at' = k
         /\ StartsToShow(k)
         /\ UNCHANGED <<kind, write, cache, missed, mounted>>

Other(filter) == IF filter = "wide" THEN "narrow" ELSE "wide"

Filtered(how) == <<Other(at[1]), IF how = "resets" THEN 1 ELSE at[2]>>

\* Typing in the search field, choosing in a select.
TypeText ==
    /\ kind.pager # NoPager
    /\ IF kind.filters.typed = "debounced"
       THEN Go(<<at[1], 1>>) /\ typing' = ~typing
       ELSE Go(Filtered(kind.filters.typed)) /\ UNCHANGED typing
Choose_KeepsPage == kind.pager # NoPager /\ Go(Filtered("keeps")) /\ UNCHANGED typing
Choose == /\ kind.pager # NoPager
          /\ Go(Filtered(kind.filters.chosen))
          /\ UNCHANGED typing

\* 300 ms after the last keystroke the text filters, on the page that is open by then.
Settles == typing /\ Go(Filtered("keeps")) /\ typing' = FALSE

\* A list without an entry has no rows and counts one page; the three tabs of
\* InventoryPage show their pagers even so.
PagesCounted == IF Known(at) THEN TotalPages(at) ELSE 1
PagerShown == \/ kind.pager.shown = "always"
              \/ kind.pager.shown = "unless loading" /\ (Known(at) \/ fetching[at] = None)
              \/ kind.pager.shown = "rows" /\ Known(at) /\ TotalPages(at) > 0
              \/ kind.pager.shown = "several" /\ PagesCounted > 1

Previous == PagerShown /\ at[2] > 1 /\ Go(<<at[1], at[2] - 1>>) /\ UNCHANGED typing
Next_ == /\ PagerShown
         /\ IF kind.pager.stops = "on the last page" THEN at[2] # PagesCounted
                                                     ELSE at[2] < PagesCounted
         /\ at[2] < MaxPage
         /\ Go(<<at[1], at[2] + 1>>)
         /\ UNCHANGED typing

Arrives(k) == /\ fetching[k] # None
              /\ cache' = [cache EXCEPT ![k] = fetching[k]]
              /\ fetching' = [fetching EXCEPT ![k] = None]
              /\ UNCHANGED <<kind, write, missed, user>>

\* The fetch and its retry fail: what was known stays, as stale as it was.
FetchFails(k) ==
    /\ fetching[k] # None
    /\ fetching' = [fetching EXCEPT ![k] = None]
    /\ cache' = [cache EXCEPT ![k].state = IF @ = "none" THEN "none" ELSE "failed"]
    /\ UNCHANGED <<kind, write, missed, user>>

\* The stale time is over.
Age(k) == /\ cache[k].state = "fresh"
          /\ cache' = [cache EXCEPT ![k].state = "stale"]
          /\ UNCHANGED <<kind, write, fetching, missed, user>>
\* Five minutes after it was last shown, an entry is collected.
Collect(k) == /\ Known(k) /\ fetching[k] = None
              /\ ~(mounted /\ k = at)
              /\ cache' = [cache EXCEPT ![k] = None]
              /\ missed' = missed \ {k}
              /\ UNCHANGED <<kind, write, fetching, user>>
-----------------------------------------------------------------------------
\* The write

Send == /\ phase = "idle" /\ ~written
        /\ phase' = "sent"
        /\ UNCHANGED <<kind, written, removed, cache, fetching, missed, user>>

Store == /\ phase = "sent"
         /\ phase' = "stored"
         /\ written' = TRUE
         /\ removed' \in BOOLEAN
         /\ UNCHANGED <<kind, cache, fetching, missed, user>>

\* onSuccess, which runs whatever page is open: entries become stale, and the fetch
\* of the one that is shown starts again.
Invalidated(k) == IF cache[k].state = "fresh" THEN [cache[k] EXCEPT !.state = "stale"]
                                              ELSE cache[k]
Refetches_UnlessFetching(k) == mounted /\ k = at /\ fetching[k] = None
Refetches_Never(k) == FALSE
Refetches(k) == mounted /\ k = at /\ (Known(k) \/ fetching[k] = None)
WriteSucceeds ==
    /\ phase = "stored"
    /\ phase' = "confirmed"
    /\ IF kind.covered
       THEN /\ cache' = [k \in Keys |-> Invalidated(k)]
            /\ fetching' = [k \in Keys |-> IF Refetches(k) THEN Answer ELSE fetching[k]]
            /\ missed' = {k \in Keys : fetching[k] # None
                                       /\ ~(mounted /\ k = at /\ Known(k))}
       ELSE UNCHANGED <<cache, fetching, missed>>
    /\ UNCHANGED <<kind, written, removed, user>>

\* onError: a message.  The write may have been stored.
WriteFails ==
    /\ phase \in {"sent", "stored"}
    /\ phase' = "failed"
    /\ UNCHANGED <<kind, written, removed, cache, fetching, missed, user>>

ListNext ==
    \/ Mount \/ Unmount \/ TypeText \/ Settles \/ Choose \/ Previous \/ Next_
    \/ \E k \in Keys : Arrives(k) \/ FetchFails(k) \/ Age(k) \/ Collect(k)
    \/ Send \/ Store \/ WriteSucceeds \/ WriteFails

\* A fetch ends: the client gives up after 30 seconds.
ListSpec ==
    /\ ListInit /\ [][ListNext]_listVars
    /\ \A k \in Keys : WF_listVars(Arrives(k) \/ FetchFails(k))
-----------------------------------------------------------------------------
\* Properties

\* ListTypeOK: the state is of the right kind, and nothing is known of the write before
\* the server has it.
ListTypeOK ==
    /\ kind \in Kinds
    /\ written \in BOOLEAN /\ removed \in BOOLEAN
    /\ phase \in {"idle", "sent", "stored", "confirmed", "failed"}
    /\ cache \in [Keys -> Entry] /\ fetching \in [Keys -> Entry]
    /\ missed \subseteq Keys
    /\ mounted \in BOOLEAN /\ at \in Keys /\ typing \in BOOLEAN
    /\ \A k \in Keys : cache[k].version <= Version /\ fetching[k].version <= Version

Old(k) == Known(k) /\ cache[k].version = 0

\* TablesAdmitWrites: after the success of a write, no entry of a table of its own
\* page, or of its own tab where a page is made of tabs (Pages), passes for fresh
\* without it, whichever pages and filters were visited and whichever fetches were
\* under way; except that of a first fetch, or a hidden one, that the success
\* overtook.  The keys that each page invalidates make it so.
TablesAdmitWrites ==
    phase = "confirmed" /\ kind.own =>
        \A k \in Keys \ missed : Old(k) => cache[k].state # "fresh"

\* AllAdmitWrites, AndNoneIsMissed: the same of every query that reads what a write
\* changes, those of sibling tabs among them, and without the exception.
AllAdmitWrites ==
    phase = "confirmed" => \A k \in Keys \ missed : Old(k) => cache[k].state # "fresh"
AndNoneIsMissed ==
    phase = "confirmed" /\ kind.own => \A k \in Keys : Old(k) => cache[k].state # "fresh"

\* FiltersKeepRows: where both kinds of filters return to page 1 as they filter, a list
\* never shows an empty page while its filter has rows, unless a write took the rows.
Stranded == Known(at) /\ TotalPages(at) > 0 /\ ~RowsOnPage(at)
FiltersKeepRows ==
    kind.filters.typed = "resets" /\ kind.filters.chosen = "resets" /\ ~removed => ~Stranded

\* NeverStranded, NeverTrapped: the same of every list and write, and that a list that
\* shows an empty page at least shows a pager to leave it by.
NeverStranded == ~Stranded
NeverTrapped  == Stranded => PagerShown

\* AnswersFit: what is shown under a page and a filter is of that page and filter.
AnswersFit == Known(at) => Served(at) = at

\* WritesAreShown: once a write has succeeded, what its page shows of its tables
\* contains it in the end, unless the page is left, a fetch fails or is missed,
\* however the user moves about.  Fetching again on success and on every move to a
\* stale entry make it so.
WritesAreShown ==
    phase = "confirmed" /\ kind.own ~>
        \/ ~mounted \/ at \in missed
        \/ cache[at].version = 1 \/ cache[at].state \in {"none", "failed"}
=============================================================================
