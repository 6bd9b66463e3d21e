----------------------------- MODULE SearchPage -----------------------------
(***************************************************************************)
(* The search page of the web client: the filters it holds, the address    *)
(* that is to say the same, the box that is searched once the typing       *)
(* pauses, the sheet that edits a draft, and the results, which stay on    *)
(* the screen until the next ones come.                                    *)
(*                                                                         *)
(* A filter is one of three: what is typed (q); the types, which stand for *)
(* all that is chosen in the sidebar, of one value or of several; and the  *)
(* page, for the keys a new set of filters starts without: an absent page  *)
(* is the first.  The layout and the saving of a search are left out, and  *)
(* so is the time the router takes.  The sidebar disables what is counted  *)
(* with zero, but the facets only count what occurs, so nothing is.        *)
(***************************************************************************)
EXTENDS Integers, Sequences, FiniteSets

CONSTANTS
    Types,             \* the values of a filter that takes several
    PagesFound(_, _),  \* the pages there are, by what is typed and the types
    Addresses,         \* the page may be opened at, or sent to
    MaxActs            \* bounds what the visitor does

\* What may stand in the box, and what is left of it when it is trimmed.
Texts   == {"", "a", "a "}
Trim(t) == IF t = "a " THEN "a" ELSE t
SearchTexts == {Trim(t) : t \in Texts}

\* Array.from(new Set(...)): no value twice.
Lists == {l \in Seq(Types) : \A i, j \in DOMAIN l : l[i] = l[j] => i = j}
LastPage == 2

ASSUME SearchPageAssumption ==
    /\ \A q \in SearchTexts, t \in Types :
          {PagesFound(q, <<>>), PagesFound(q, <<t>>)} \subseteq 0..LastPage
    /\ Addresses \subseteq [q : SearchTexts, types : Lists, page : 0..LastPage \ {1}]
    /\ MaxActs \in Nat

VARIABLES
    filters, draft,            \* the store, which outlives the page
    url,                       \* what the address says, in the same form
    appliedQuery,              \* what was last read from it or written to it
    term, debounced,           \* what is in the box, and what it was when the typing paused
    sheet,                     \* the sheet is open
    shown,                     \* the filters whose results are on the screen
    acts,
    \* history
    moved,                     \* the address was changed from elsewhere
    base,                      \* the filters as they were when the draft was taken
    outrun,                    \* the page was chosen from other results, or by the address
    retyped                    \* what was searched last was typed again before a pause

searchPageVars == <<filters, draft, url, appliedQuery, term, debounced, sheet, shown, acts, moved, base, outrun, retyped>>

FilterSets == [q : SearchTexts, types : Lists, page : 0..LastPage]
Initial == [q |-> "", types |-> <<>>, page |-> 1]     \* INITIAL
Away    == [q |-> "elsewhere", types |-> <<>>, page |-> 0]

SearchPageTypeOK ==
    /\ {filters, draft, base} \subseteq FilterSets
    /\ url \in FilterSets \cup {Away} /\ appliedQuery \in FilterSets \cup {Away}
    /\ shown \in FilterSets \cup {Away}
    /\ {term, debounced} \subseteq Texts
    /\ {sheet, moved, outrun, retyped} \subseteq BOOLEAN
    /\ acts \in 0..MaxActs
    \* Elsewhere there is no box, no sheet and nothing to show.
    /\ url = Away => appliedQuery = Away /\ ~sheet /\ shown = Away

SearchPageInit ==
    /\ filters = Initial /\ draft = Initial /\ base = Initial
    /\ url = Away /\ appliedQuery = Away /\ shown = Away
    /\ term = "" /\ debounced = ""
    /\ sheet = FALSE /\ acts = 0
    /\ moved = FALSE /\ outrun = FALSE /\ retyped = FALSE

-----------------------------------------------------------------------------
(* Filters and addresses *)

PageOf(f) == IF f.page = 0 THEN 1 ELSE f.page
Same(f, g) == f.q = g.q /\ f.types = g.types /\ PageOf(f) = PageOf(g)

\* deserializeFilters, of an address whose keys each have one value or several.
Parse(u) == [u EXCEPT !.page = IF @ > 1 THEN @ ELSE 0]

\* Object.fromEntries keeps the last value of a key that is repeated.
Entries(u) == [u EXCEPT !.types = IF @ = <<>> THEN @ ELSE <<@[Len(@)]>>]

\* What the page makes of an address it is opened at.
Seed(u) == Parse(Entries(u))

\* Mutant: a change of the filters leaves the page where it is.
KeepPage(f) == f

\* withPageReset, and the patches of the components, which say so themselves.
ResetPage(f) == [f EXCEPT !.page = 1]

\* Of a list that has t, and has it once.
Without(l, t) ==
    LET i == CHOOSE k \in DOMAIN l : l[k] = t
    IN  SubSeq(l, 1, i - 1) \o SubSeq(l, i + 1, Len(l))

\* toggleIn: the last one off clears the key.
Toggled(f, t) ==
    ResetPage([f EXCEPT !.types = IF \E i \in DOMAIN @ : @[i] = t
                                  THEN Without(@, t) ELSE Append(@, t)])

\* The store changes, and the box follows a query that is changed.
Become(f) ==
    /\ filters' = f
    /\ IF f.q # filters.q THEN term' = f.q /\ retyped' = FALSE
       ELSE UNCHANGED <<term, retyped>>

Here == url # Away
ActOn == acts < MaxActs /\ acts' = acts + 1

-----------------------------------------------------------------------------
(* Coming and going *)

\* The box appears with the old query; then the address is read, and then written with
\* the filters the page was first drawn with.
Enter(u) ==
    /\ ~Here /\ ActOn
    /\ LET old == filters
       IN  /\ filters' = Seed(u) /\ draft' = filters' /\ base' = filters'
           /\ url' = old /\ appliedQuery' = old
           /\ debounced' = old.q
    /\ term' = filters'.q
    /\ outrun' = (PageOf(u) > 1)
    /\ moved' = FALSE /\ retyped' = FALSE
    /\ UNCHANGED <<sheet, shown>>

\* The address is changed while the page is there: by the search box of the header, a
\* link or a step back.  It was read once.
Navigate(u) ==
    /\ Here /\ ActOn /\ u # url
    /\ url' = u /\ moved' = TRUE
    /\ UNCHANGED <<filters, draft, appliedQuery, term, debounced, sheet, shown, base,
                   outrun, retyped>>

LeaveSearch ==
    /\ Here /\ ActOn
    /\ url' = Away /\ appliedQuery' = Away /\ shown' = Away
    /\ sheet' = FALSE
    /\ moved' = FALSE
    /\ UNCHANGED <<filters, draft, term, debounced, base, outrun, retyped>>

\* The effect on the query string.
WriteUrl ==
    /\ Here /\ filters # appliedQuery
    /\ url' = filters /\ appliedQuery' = filters
    /\ moved' = FALSE
    /\ UNCHANGED <<filters, draft, term, debounced, sheet, shown, acts, base, outrun,
                   retyped>>

-----------------------------------------------------------------------------
(* The box *)

Type(t) ==
    /\ Here /\ ~sheet /\ t # term /\ ActOn
    /\ term' = t
    /\ retyped' = (t = debounced /\ Trim(t) # filters.q)
    /\ UNCHANGED <<filters, draft, url, appliedQuery, debounced, sheet, shown, moved, base,
                   outrun>>

\* The typing pauses: what is new in the box is searched.
Debounce ==
    /\ Here /\ debounced # term
    /\ debounced' = term
    /\ LET next == Trim(term)
       IN  IF next # filters.q
           THEN Become(ResetPage([filters EXCEPT !.q = next])) /\ outrun' = FALSE
           ELSE UNCHANGED <<filters, term, outrun, retyped>>
    /\ UNCHANGED <<draft, url, appliedQuery, sheet, shown, acts, moved, base>>

-----------------------------------------------------------------------------
(* The filters *)

ToggleType(t) ==
    /\ Here /\ ~sheet /\ ActOn
    /\ Become(Toggled(filters, t))
    /\ outrun' = FALSE
    /\ UNCHANGED <<draft, url, appliedQuery, debounced, sheet, shown, moved, base>>

\* "Clear all": offered while a filter counts, and where nothing was found.
ClearAll ==
    /\ Here /\ ~sheet /\ ActOn
    /\ \/ filters.types # <<>>
       \/ shown # Away /\ PagesFound(shown.q, shown.types) < PageOf(shown)
    /\ Become(Initial) /\ draft' = Initial
    /\ outrun' = FALSE
    /\ UNCHANGED <<url, appliedQuery, debounced, sheet, shown, moved, base>>

\* Mutant: the sheet opens with the draft of the last time.
DraftAsItWas == draft

DraftTaken == filters

OpenSheet ==
    /\ Here /\ ~sheet /\ ActOn
    /\ sheet' = TRUE /\ draft' = DraftTaken /\ base' = filters
    /\ UNCHANGED <<filters, url, appliedQuery, term, debounced, shown, moved, outrun,
                   retyped>>

ToggleDraft(t) ==
    /\ sheet /\ ActOn
    /\ draft' = Toggled(draft, t)
    /\ UNCHANGED <<filters, url, appliedQuery, term, debounced, sheet, shown, moved, base,
                   outrun, retyped>>

ClearDraft ==
    /\ sheet /\ draft.types # <<>> /\ ActOn
    /\ draft' = Initial
    /\ UNCHANGED <<filters, url, appliedQuery, term, debounced, sheet, shown, moved, base,
                   outrun, retyped>>

\* "Show results": the sheet stays.
ApplyDraft ==
    /\ sheet /\ ActOn
    /\ Become([draft EXCEPT !.page = 1])
    /\ base' = filters'
    /\ outrun' = FALSE
    /\ UNCHANGED <<draft, url, appliedQuery, debounced, sheet, shown, moved>>

CloseSheet ==
    /\ sheet /\ sheet' = FALSE
    /\ UNCHANGED <<filters, draft, url, appliedQuery, term, debounced, shown, acts, moved,
                   base, outrun, retyped>>

-----------------------------------------------------------------------------
(* The results *)

\* useSearch: the results of the filters there are now; until they
\* come, those before them stay.
ShowResults ==
    /\ Here /\ shown # filters
    /\ shown' = filters
    /\ UNCHANGED <<filters, draft, url, appliedQuery, term, debounced, sheet, acts, moved,
                   base, outrun, retyped>>

Results == IF shown = Away THEN 0 ELSE PagesFound(shown.q, shown.types)

\* The links to the pages of what is shown.
GoToPage(p) ==
    /\ shown # Away /\ ~sheet /\ Results > 1 /\ PageOf(shown) <= Results
    /\ p \in 1..Results /\ p # filters.page /\ ActOn
    /\ filters' = [filters EXCEPT !.page = p]
    /\ outrun' = (outrun \/ ~Same([shown EXCEPT !.page = 1], [filters EXCEPT !.page = 1]))
    /\ UNCHANGED <<draft, url, appliedQuery, term, debounced, sheet, shown, moved, base,
                   retyped>>

-----------------------------------------------------------------------------
SearchPageNext ==
    \/ \E u \in Addresses : Enter(u) \/ Navigate(u)
    \/ LeaveSearch \/ WriteUrl \/ Debounce
    \/ \E t \in Texts : Type(t)
    \/ \E t \in Types : ToggleType(t) \/ ToggleDraft(t)
    \/ ClearAll \/ OpenSheet \/ ClearDraft \/ ApplyDraft \/ CloseSheet
    \/ ShowResults
    \/ \E p \in 1..LastPage : GoToPage(p)

SearchPageSpec == SearchPageInit /\ [][SearchPageNext]_searchPageVars
-----------------------------------------------------------------------------
(* What the page promises *)

Settled == Here /\ appliedQuery = filters /\ debounced = term

\* The page agrees with itself when it comes to rest: the box says what is searched, the
\* address says the filters, unless it was changed from elsewhere, and where nothing is
\* shown nothing matches, unless the page was chosen from other results or by the address.
BoxSaysQuery == Trim(term) = filters.q \/ retyped
UrlSaysFilters == url = filters \/ moved
EmptyMeansNone ==
    shown = filters /\ Results < PageOf(shown) => Results = 0 \/ outrun

PageAgrees == Settled => BoxSaysQuery /\ UrlSaysFilters /\ EmptyMeansNone

\* A draft that is appliedQuery changes what was changed in it and nothing else, unless a
\* query was searched after it was taken.
DraftLosesNothing ==
    [][ApplyDraft /\ base.q = filters.q =>
          /\ draft.q # "" => filters'.q = filters.q
          /\ draft.types = base.types => filters'.types = filters.types]_searchPageVars

\* "The URL is the source of truth so results pages stay shareable": whoever opens the
\* address the page has come to rest at searches for the same.
LinkShowsTheSame == Settled /\ ~moved => Same(Seed(url), filters)
=============================================================================
