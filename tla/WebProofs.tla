------------------------------- MODULE WebProofs -------------------------------
(***************************************************************************)
(* Of SearchPage: that the list shown, the address and the filters agree,  *)
(* and that a draft loses nothing.  Of WebQueries: that an answer shown    *)
(* as fresh is true.  Of WebClient: that a refresh keeps the person, and   *)
(* that the favourites shown are the account's once all calls are          *)
(* answered.  Of ChatWidget: that nothing shows as under way when nothing  *)
(* is, that what was announced whole shows whole, and that a new chat is   *)
(* new.                                                                    *)
(***************************************************************************)
EXTENDS SearchPage, WebQueries, WebClient, ChatWidget,
        SequenceTheorems, FiniteSetTheorems, TLAPS

-----------------------------------------------------------------------------
\* SearchPage: what is on the page, the address and the draft agree.

-----------------------------------------------------------------------------
(* Filters, whatever the lists of types in them *)

IsFilter(f) == f \in [q : SearchTexts, types : {f.types}, page : 0..LastPage]

\* What a change of the filters does to them, and to the box.
FilterFields(f, g) == g.q = f.q /\ g.types = f.types

LEMMA TrimIsStable ==
    /\ \A t \in Texts : Trim(t) \in SearchTexts
    /\ \A t \in SearchTexts : t \in Texts /\ Trim(t) = t
BY DEF Texts, Trim, SearchTexts

LEMMA MadeFilters ==
    ASSUME NEW f, IsFilter(f)
    PROVE  /\ \A q \in SearchTexts : /\ IsFilter([f EXCEPT !.q = q]) /\ [f EXCEPT !.q = q].q = q
                                     /\ [f EXCEPT !.q = q].types = f.types
           /\ \A p \in 0..LastPage : /\ IsFilter([f EXCEPT !.page = p]) /\ [f EXCEPT !.page = p].page = p
                                     /\ FilterFields(f, [f EXCEPT !.page = p])
           /\ \A l : IsFilter([f EXCEPT !.types = l]) /\ [f EXCEPT !.types = l].q = f.q
           /\ f.q \in SearchTexts /\ f.page \in 0..LastPage
BY DEF IsFilter, FilterFields

LEMMA FirstFilters == IsFilter(Initial) /\ Initial.q = "" /\ Initial.page = 1 /\ Initial.types = <<>>
BY DEF IsFilter, Initial, SearchTexts, Texts, Trim, LastPage

LEMMA AwayIsNoFilter == \A f : IsFilter(f) => f # Away
<1>1. Away.q \notin SearchTexts
  BY DEF Away, SearchTexts, Texts, Trim
<1>2. QED
  BY <1>1, MadeFilters

LEMMA PagesOfFilters == \A f : f.page \in 0..LastPage => PageOf(f) \in Nat /\ (PageOf(f) = 1 \/ PageOf(f) > 1)
BY DEF PageOf, LastPage

\* A list of types is turned on or off on the first page.
LEMMA ToggledFilters ==
    ASSUME NEW f, IsFilter(f), NEW t
    PROVE  IsFilter(Toggled(f, t)) /\ Toggled(f, t).q = f.q /\ Toggled(f, t).page = 1
<1>1. PICK l : Toggled(f, t) = [[f EXCEPT !.types = l] EXCEPT !.page = 1]
  BY DEF Toggled, ResetPage
<1>2. PICK g : g = [f EXCEPT !.types = l]
  OBVIOUS
<1>3. IsFilter(g) /\ g.q = f.q
  BY <1>2, MadeFilters
<1>4. 1 \in 0..LastPage
  BY DEF LastPage
<1>5. /\ IsFilter([g EXCEPT !.page = 1]) /\ [g EXCEPT !.page = 1].page = 1
      /\ FilterFields(g, [g EXCEPT !.page = 1])
  BY <1>3, <1>4, MadeFilters
<1>6. QED
  BY <1>1, <1>2, <1>3, <1>5 DEF FilterFields

LEMMA AddressesAreFilters == \A u \in Addresses : IsFilter(u) /\ u.page \in 0..LastPage \ {1}
BY SearchPageAssumption DEF IsFilter

\* What the page makes of an address is on the address's page.
LEMMA SeededFilters ==
    ASSUME NEW u \in Addresses
    PROVE  IsFilter(Seed(u)) /\ PageOf(Seed(u)) = PageOf(u)
<1>1. IsFilter(u) /\ u.page \in 0..LastPage \ {1}
  BY AddressesAreFilters
<1>2. PICK g : g = Entries(u)
  OBVIOUS
<1>3. IsFilter(g) /\ g.page = u.page
  BY <1>1, <1>2 DEF Entries, IsFilter
<1>4. PICK p : p = IF g.page > 1 THEN g.page ELSE 0
  OBVIOUS
<1>5. Seed(u) = [g EXCEPT !.page = p]
  BY <1>2, <1>4 DEF Seed, Parse
<1>6. p \in 0..LastPage
  BY <1>1, <1>3, <1>4 DEF LastPage
<1>7. IsFilter(Seed(u)) /\ Seed(u).page = p
  BY <1>3, <1>5, <1>6, MadeFilters
<1>8. QED
  BY <1>1, <1>3, <1>4, <1>7 DEF PageOf, LastPage

-----------------------------------------------------------------------------
(* What holds of the page all the time *)

PageTypes ==
    /\ IsFilter(filters) /\ IsFilter(draft)
    /\ term \in Texts /\ debounced \in Texts
    /\ shown = Away \/ IsFilter(shown)
    /\ url = Away => ~sheet

Addressed == Here => url = appliedQuery \/ moved

\* The box says what is searched, once the typing pauses.
Boxed == debounced = term => Trim(term) = filters.q \/ retyped

\* The page was chosen among those there are.
OnAPage == PageOf(filters) = 1 \/ PageOf(filters) <= PagesFound(filters.q, filters.types) \/ outrun

\* While the sheet is open the filters keep their types, and a draft its query or none.
Drafted == sheet => filters.types = base.types /\ draft.q \in {base.q, ""}

PageInv == PageTypes /\ Addressed /\ Boxed /\ OnAPage /\ Drafted

\* When the filters change and the box follows.
LEMMA Becoming ==
    ASSUME PageTypes, NEW f, IsFilter(f), Become(f)
    PROVE  /\ filters' = f /\ term' \in Texts
           /\ \/ term' = f.q /\ Trim(term') = f.q
              \/ f.q = filters.q /\ term' = term /\ retyped' = retyped
<1>1. filters' = f
  BY DEF Become
<1>2. CASE f.q # filters.q
  <2>1. term' = f.q
    BY <1>2 DEF Become
  <2>2. f.q \in SearchTexts
    BY MadeFilters
  <2>3. QED
    BY <1>1, <2>1, <2>2, TrimIsStable
<1>3. CASE f.q = filters.q
  <2>1. term' = term /\ retyped' = retyped
    BY <1>3 DEF Become
  <2>2. QED
    BY <1>1, <1>3, <2>1 DEF PageTypes
<1>4. QED
  BY <1>2, <1>3

\* A change of the filters that leads back to the first page, with no sheet about.
LEMMA BecomingHolds ==
    ASSUME PageInv, NEW f, IsFilter(f), f.page = 1, Become(f), IsFilter(draft'),
           UNCHANGED <<debounced, shown, sheet, url, appliedQuery, moved>>, Drafted'
    PROVE  PageInv'
<1>1. /\ filters' = f /\ term' \in Texts
      /\ \/ term' = f.q /\ Trim(term') = f.q
         \/ f.q = filters.q /\ term' = term /\ retyped' = retyped
  BY Becoming DEF PageInv
<1>2. PageTypes'
  BY <1>1 DEF PageInv, PageTypes
<1>3. Addressed'
  BY DEF PageInv, Addressed, Here
<1>4. Boxed'
  BY <1>1 DEF PageInv, Boxed
<1>5. OnAPage'
  BY <1>1 DEF OnAPage, PageOf
<1>6. QED
  BY <1>2, <1>3, <1>4, <1>5 DEF PageInv

LEMMA PageInvInit == SearchPageInit => PageInv
<1>1. SUFFICES ASSUME SearchPageInit
               PROVE  PageInv
  OBVIOUS
<1>2. filters = Initial /\ draft = Initial /\ term = "" /\ debounced = ""
  BY <1>1 DEF SearchPageInit
<1>3. "" \in Texts /\ Trim("") = ""
  BY DEF Texts, Trim
<1>4. QED
  BY <1>1, <1>2, <1>3, FirstFilters
     DEF SearchPageInit, PageInv, PageTypes, Addressed, Boxed, OnAPage, Drafted, Here, PageOf

LEMMA PageInvNext == PageInv /\ [SearchPageNext]_searchPageVars => PageInv'
<1>1. SUFFICES ASSUME PageTypes, Addressed, Boxed, OnAPage, Drafted, [SearchPageNext]_searchPageVars
               PROVE  PageInv'
  BY DEF PageInv
<1>2. 1 \in 0..LastPage /\ Away.q \notin SearchTexts
  BY DEF LastPage, Away, SearchTexts, Texts, Trim
<1> USE DEF PageInv, PageTypes
<1>3. ASSUME NEW u \in Addresses, Enter(u)
      PROVE  PageInv'
  <2>0. u.page \in 0..LastPage
    BY AddressesAreFilters
  <2>1. IsFilter(Seed(u)) /\ PageOf(Seed(u)) = PageOf(u) /\ PageOf(u) \in Nat /\ (PageOf(u) = 1 \/ PageOf(u) > 1)
    BY <2>0, SeededFilters, PagesOfFilters
  <2>2. /\ filters' = Seed(u) /\ draft' = Seed(u) /\ term' = Seed(u).q /\ debounced' = filters.q
        /\ url' = filters /\ appliedQuery' = filters /\ outrun' = (PageOf(u) > 1)
        /\ sheet' = sheet /\ shown' = shown /\ ~sheet
    BY <1>1, <1>3 DEF Enter, Here
  <2>3. PageTypes'
    BY <1>1, <2>1, <2>2, TrimIsStable, MadeFilters
  <2>4. Boxed'
    BY <2>1, <2>2, TrimIsStable, MadeFilters DEF Boxed
  <2>5. OnAPage'
    BY <2>1, <2>2 DEF OnAPage, PageOf, LastPage
  <2>6. QED
    BY <2>2, <2>3, <2>4, <2>5 DEF Addressed, Drafted
<1>4. ASSUME NEW u \in Addresses, Navigate(u)
      PROVE  PageInv'
  BY <1>1, <1>4, AddressesAreFilters, AwayIsNoFilter DEF Navigate, Addressed, Boxed, OnAPage, Drafted, Here
<1>5. CASE LeaveSearch
  BY <1>1, <1>5 DEF LeaveSearch, Addressed, Boxed, OnAPage, Drafted, Here
<1>6. CASE WriteUrl
  BY <1>1, <1>6, AwayIsNoFilter DEF WriteUrl, Addressed, Boxed, OnAPage, Drafted, Here
<1>7. CASE Debounce
  <2>1. PICK next \in SearchTexts : next = Trim(term)
    BY <1>1, TrimIsStable
  <2>2. CASE next = filters.q
    BY <1>1, <1>7, <2>1, <2>2 DEF Debounce, Addressed, Boxed, OnAPage, Drafted, Here
  <2>3. CASE next # filters.q
    <3>1. PICK g : g = [filters EXCEPT !.q = next]
      OBVIOUS
    <3>2. PICK f : f = [g EXCEPT !.page = 1]
      OBVIOUS
    <3>3. IsFilter(g) /\ g.q = next /\ g.types = filters.types
      BY <1>1, <3>1, MadeFilters
    <3>4. IsFilter(f) /\ f.q = next /\ f.types = filters.types /\ f.page = 1
      BY <1>2, <3>2, <3>3, MadeFilters DEF FilterFields
    <3>5. /\ Become(f) /\ debounced' = term /\ outrun' = FALSE
          /\ UNCHANGED <<draft, url, appliedQuery, sheet, shown, acts, moved, base>>
      BY <1>7, <2>1, <2>3, <3>1, <3>2 DEF Debounce, ResetPage
    <3>6. filters' = f /\ term' = next
      BY <2>3, <3>4, <3>5 DEF Become
    <3>7. QED
      BY <1>1, <2>1, <3>4, <3>5, <3>6, TrimIsStable
         DEF Addressed, Boxed, OnAPage, Drafted, Here, PageOf
  <2>4. QED
    BY <2>2, <2>3
<1>8. ASSUME NEW t \in Texts, Type(t)
      PROVE  PageInv'
  BY <1>1, <1>8 DEF Type, Addressed, Boxed, OnAPage, Drafted, Here
<1>9. ASSUME NEW t \in Types, ToggleType(t)
      PROVE  PageInv'
  <2>1. IsFilter(Toggled(filters, t)) /\ Toggled(filters, t).page = 1
    BY <1>1, ToggledFilters
  <2>2. Drafted'
    BY <1>9 DEF ToggleType, Drafted
  <2>3. QED
    BY <1>1, <1>9, <2>1, <2>2, BecomingHolds DEF ToggleType
<1>10. ASSUME NEW t \in Types, ToggleDraft(t)
       PROVE  PageInv'
  <2>1. IsFilter(Toggled(draft, t)) /\ Toggled(draft, t).q = draft.q
    BY <1>1, ToggledFilters
  <2>2. QED
    BY <1>1, <1>10, <2>1 DEF ToggleDraft, Addressed, Boxed, OnAPage, Drafted, Here
<1>11. CASE ClearAll
  <2>1. Drafted'
    BY <1>11 DEF ClearAll, Drafted
  <2>2. QED
    BY <1>1, <1>11, <2>1, FirstFilters, BecomingHolds DEF ClearAll
<1>12. CASE OpenSheet
  BY <1>1, <1>12 DEF OpenSheet, DraftTaken, Addressed, Boxed, OnAPage, Drafted, Here
<1>13. CASE ClearDraft
  BY <1>1, <1>13, FirstFilters DEF ClearDraft, Addressed, Boxed, OnAPage, Drafted, Here
<1>14. CASE ApplyDraft
  <2>1. PICK f : f = [draft EXCEPT !.page = 1]
    OBVIOUS
  <2>2. IsFilter(f) /\ f.q = draft.q /\ f.types = draft.types /\ f.page = 1
    BY <1>1, <1>2, <2>1, MadeFilters DEF FilterFields
  <2>3. Become(f) /\ base' = filters' /\ draft' = draft /\ filters' = f
    BY <1>14, <2>1 DEF ApplyDraft, Become
  <2>4. Drafted'
    BY <2>2, <2>3 DEF Drafted
  <2>5. QED
    BY <1>1, <1>14, <2>2, <2>3, <2>4, BecomingHolds DEF ApplyDraft
<1>15. CASE CloseSheet
  BY <1>1, <1>15 DEF CloseSheet, Addressed, Boxed, OnAPage, Drafted, Here
<1>16. CASE ShowResults
  BY <1>1, <1>16 DEF ShowResults, Addressed, Boxed, OnAPage, Drafted, Here
<1>17. ASSUME NEW p \in 1..LastPage, GoToPage(p)
       PROVE  PageInv'
  <2>1. PICK f : f = [filters EXCEPT !.page = p]
    OBVIOUS
  <2>2. p \in 0..LastPage
    BY DEF LastPage
  <2>3. IsFilter(f) /\ f.q = filters.q /\ f.types = filters.types /\ f.page = p
    BY <1>1, <2>1, <2>2, MadeFilters DEF FilterFields
  <2>4. /\ filters' = f /\ ~sheet /\ shown # Away /\ p \in 1..Results
        /\ outrun' = (outrun \/ ~Same([shown EXCEPT !.page = 1], [filters EXCEPT !.page = 1]))
        /\ UNCHANGED <<draft, url, appliedQuery, term, debounced, sheet, shown, moved, base, retyped>>
    BY <1>17, <2>1 DEF GoToPage
  <2>5. Same([shown EXCEPT !.page = 1], [filters EXCEPT !.page = 1]) => shown.q = filters.q /\ shown.types = filters.types
    BY <1>1, <1>2, <2>4, MadeFilters DEF Same, FilterFields
  <2>6. OnAPage'
    <3>1. CASE outrun'
      BY <3>1 DEF OnAPage
    <3>2. CASE ~outrun'
      <4>1. Results = PagesFound(f.q, f.types)
        BY <2>3, <2>4, <2>5, <3>2 DEF Results
      <4>2. p <= PagesFound(f.q, f.types) /\ PageOf(f) = p
        BY <2>3, <2>4, <4>1 DEF PageOf
      <4>3. QED
        BY <2>4, <4>2 DEF OnAPage
    <3>3. QED
      BY <3>1, <3>2
  <2>7. QED
    BY <1>1, <2>3, <2>4, <2>6 DEF Addressed, Boxed, Drafted, Here
<1>18. CASE UNCHANGED searchPageVars
  BY <1>1, <1>18 DEF searchPageVars, Addressed, Boxed, OnAPage, Drafted, Here
<1>19. QED
  BY <1>1, <1>3, <1>4, <1>5, <1>6, <1>7, <1>8, <1>9, <1>10, <1>11, <1>12, <1>13, <1>14, <1>15,
     <1>16, <1>17, <1>18 DEF SearchPageNext

LEMMA PageInvHolds == SearchPageSpec => []PageInv
<1>1. QED
  BY PageInvInit, PageInvNext, PTL DEF SearchPageSpec

-----------------------------------------------------------------------------
(* The types of the page *)

LEMMA ShortLists == <<>> \in Lists /\ \A t \in Types : <<t>> \in Lists
<1>1. ASSUME NEW t \in Types PROVE <<t>> \in Lists
  <2>1. <<t>> \in Seq(Types) /\ DOMAIN <<t>> = {1}
    OBVIOUS
  <2>2. QED BY <2>1 DEF Lists
<1>2. <<>> \in Lists
  <2>1. <<>> \in Seq(Types) /\ DOMAIN <<>> = {}
    OBVIOUS
  <2>2. QED BY <2>1 DEF Lists
<1>3. QED BY <1>1, <1>2

LEMMA LongerLists ==
    ASSUME NEW l \in Lists, NEW t \in Types, \A i \in DOMAIN l : l[i] # t
    PROVE  Append(l, t) \in Lists
<1> DEFINE m == Append(l, t)
<1>1. l \in Seq(Types) /\ DOMAIN l = 1..Len(l) /\ Len(l) \in Nat
  BY LenProperties DEF Lists
<1>2. m \in Seq(Types) /\ Len(m) = Len(l) + 1 /\ DOMAIN m = 1..Len(l) + 1
  BY <1>1
<1>3. m[Len(l) + 1] = t /\ \A i \in 1..Len(l) : m[i] = l[i]
  BY <1>1
<1>4. \A i, j \in DOMAIN l : l[i] = l[j] => i = j
  BY DEF Lists
<1> HIDE DEF m
<1>5. ASSUME NEW i \in DOMAIN m, NEW j \in DOMAIN m, m[i] = m[j] PROVE i = j
  <2>1. (i \in DOMAIN l \/ i = Len(l) + 1) /\ (j \in DOMAIN l \/ j = Len(l) + 1)
    BY <1>1, <1>2
  <2>2. QED BY <1>1, <1>3, <1>4, <1>5, <2>1
<1>6. m \in Lists
  BY <1>2, <1>5 DEF Lists
<1>7. QED BY <1>6 DEF m

LEMMA PartsOfLists ==
    ASSUME NEW S, NEW l \in Seq(S), NEW a \in Nat, NEW b \in Nat, a <= b, b <= Len(l)
    PROVE  /\ SubSeq(l, a + 1, b) \in Seq(S) /\ Len(SubSeq(l, a + 1, b)) = b - a
           /\ \A k \in 1..b - a : SubSeq(l, a + 1, b)[k] = l[a + k]
<1>1. PICK m \in Int : m = a + 1
  OBVIOUS
<1>2. Len(l) \in Nat /\ b \in Int /\ \A k \in m..b : l[k] \in S
  <2>1. Len(l) \in Nat /\ \A k \in 1..Len(l) : l[k] \in S
    BY LenProperties, ElementOfSeq
  <2>2. QED BY <1>1, <2>1
<1>3. /\ SubSeq(l, m, b) \in Seq(S) /\ Len(SubSeq(l, m, b)) = IF m <= b THEN b - m + 1 ELSE 0
      /\ \A k \in 1..b - m + 1 : SubSeq(l, m, b)[k] = l[m + k - 1]
  BY <1>2, SubSeqProperties
<1>4. b - m + 1 = b - a /\ (~(m <= b) => b - a = 0) /\ \A k \in 1..b - a : m + k - 1 = a + k
  BY <1>1
<1>5. QED BY <1>1, <1>3, <1>4

LEMMA ShorterLists ==
    ASSUME NEW l \in Lists, NEW t, \E i \in DOMAIN l : l[i] = t
    PROVE  Without(l, t) \in Lists /\ \A i \in DOMAIN Without(l, t) : Without(l, t)[i] # t
<1>1. /\ l \in Seq(Types) /\ DOMAIN l = 1..Len(l) /\ Len(l) \in Nat
      /\ \A i, j \in DOMAIN l : l[i] = l[j] => i = j
  BY LenProperties DEF Lists
<1>2. \A i \in 1..Len(l) : l[i] \in Types
  BY <1>1, ElementOfSeq
<1>3. PICK i \in DOMAIN l : l[i] = t /\ i = CHOOSE k \in DOMAIN l : l[k] = t
  OBVIOUS
<1> DEFINE before == SubSeq(l, 1, i - 1)
           after  == SubSeq(l, i + 1, Len(l))
           m      == before \o after
<1>4. Without(l, t) = m
  BY <1>3 DEF Without
<1>5. i \in 1..Len(l) /\ i - 1 \in Nat /\ i - 1 \in Int /\ i + 1 \in Int /\ Len(l) - i \in Nat /\ Len(l) \in Int
  BY <1>1
<1>6. before \in Seq(Types) /\ Len(before) = i - 1 /\ \A k \in 1..i - 1 : before[k] = l[k]
  <2>1. 0 <= i - 1 /\ i - 1 <= Len(l) /\ 0 \in Nat
    BY <1>1, <1>5
  <2>2. /\ SubSeq(l, 0 + 1, i - 1) \in Seq(Types) /\ Len(SubSeq(l, 0 + 1, i - 1)) = (i - 1) - 0
        /\ \A k \in 1..(i - 1) - 0 : SubSeq(l, 0 + 1, i - 1)[k] = l[0 + k]
    BY <1>1, <1>5, <2>1, PartsOfLists
  <2>3. 0 + 1 = 1 /\ (i - 1) - 0 = i - 1 /\ \A k \in 1..i - 1 : 0 + k = k
    BY <1>5
  <2>4. QED BY <2>2, <2>3
<1>7. after \in Seq(Types) /\ Len(after) = Len(l) - i /\ \A k \in 1..Len(l) - i : after[k] = l[i + k]
  <2>1. PICK n \in Nat : n = Len(l)
    BY <1>1
  <2>2. i \in Nat /\ i <= n /\ n <= Len(l)
    BY <1>1, <1>5, <2>1
  <2>3. /\ SubSeq(l, i + 1, n) \in Seq(Types) /\ Len(SubSeq(l, i + 1, n)) = n - i
        /\ \A k \in 1..n - i : SubSeq(l, i + 1, n)[k] = l[i + k]
    BY <1>1, <2>2, PartsOfLists
  <2>4. QED BY <2>1, <2>3
<1> HIDE DEF before, after
<1>8. /\ m \in Seq(Types) /\ Len(m) = Len(l) - 1
      /\ \A k \in 1..Len(l) - 1 : m[k] = IF k < i THEN l[k] ELSE l[k + 1]
  <2>1. /\ m \in Seq(Types) /\ Len(m) = Len(before) + Len(after)
        /\ \A k \in 1..Len(before) + Len(after) :
              m[k] = IF k <= Len(before) THEN before[k] ELSE after[k - Len(before)]
    BY <1>6, <1>7, ConcatProperties
  <2>2. Len(m) = Len(l) - 1
    BY <1>1, <1>5, <1>6, <1>7, <2>1
  <2> HIDE DEF m
  <2>3. ASSUME NEW k \in 1..Len(l) - 1 PROVE m[k] = IF k < i THEN l[k] ELSE l[k + 1]
    <3>0. Len(before) = i - 1 /\ Len(before) + Len(after) = Len(l) - 1
      BY <1>1, <1>5, <1>6, <1>7
    <3>1. m[k] = IF k <= i - 1 THEN before[k] ELSE after[k - (i - 1)]
      BY <2>1, <3>0
    <3>2. CASE k < i
      <4>1. k \in 1..i - 1
        BY <1>1, <1>5, <3>2
      <4>2. QED BY <1>1, <1>5, <1>6, <3>1, <3>2, <4>1
    <3>3. CASE ~(k < i)
      <4>1. k - (i - 1) \in 1..Len(l) - i /\ i + (k - (i - 1)) = k + 1 /\ ~(k <= i - 1)
        BY <1>1, <1>5, <3>3
      <4>2. QED BY <1>7, <3>1, <3>3, <4>1
    <3>4. QED BY <3>2, <3>3
  <2>4. QED BY <2>1, <2>2, <2>3
<1>9. DOMAIN m = 1..Len(l) - 1
  BY <1>8, LenProperties
<1> HIDE DEF m
<1>10. ASSUME NEW k \in DOMAIN m
       PROVE  \E h \in DOMAIN l : m[k] = l[h] /\ h # i /\ h = IF k < i THEN k ELSE k + 1
  <2>1. k \in 1..Len(l) - 1
    BY <1>9
  <2>2. CASE k < i
    <3>1. k \in DOMAIN l /\ k # i
      BY <1>1, <1>5, <2>1, <2>2
    <3>2. QED BY <1>8, <2>1, <2>2, <3>1
  <2>3. CASE ~(k < i)
    <3>1. k + 1 \in DOMAIN l /\ k + 1 # i
      BY <1>1, <1>5, <2>1, <2>3
    <3>2. QED BY <1>8, <2>1, <2>3, <3>1
  <2>4. QED BY <2>2, <2>3
<1>11. ASSUME NEW k \in DOMAIN m, NEW h \in DOMAIN m, m[k] = m[h] PROVE k = h
  <2>1. PICK x \in DOMAIN l : m[k] = l[x] /\ x = IF k < i THEN k ELSE k + 1
    BY <1>10
  <2>2. PICK y \in DOMAIN l : m[h] = l[y] /\ y = IF h < i THEN h ELSE h + 1
    BY <1>10
  <2>3. x = y
    BY <1>1, <1>11, <2>1, <2>2
  <2>4. QED BY <1>1, <1>5, <1>9, <2>1, <2>2, <2>3
<1>12. m \in Lists
  BY <1>8, <1>11 DEF Lists
<1>13. \A k \in DOMAIN m : m[k] # t
  BY <1>1, <1>3, <1>10
<1>14. QED BY <1>4, <1>12, <1>13

\* What is made of one filter.
LEMMA TypedFilters ==
    ASSUME NEW f \in FilterSets
    PROVE  /\ f.q \in SearchTexts /\ f.types \in Lists /\ f.page \in 0..LastPage
           /\ \A q \in SearchTexts : [f EXCEPT !.q = q] \in FilterSets
           /\ \A l \in Lists : [f EXCEPT !.types = l] \in FilterSets
           /\ \A p \in 0..LastPage : [f EXCEPT !.page = p] \in FilterSets
           /\ ResetPage(f) \in FilterSets
<1>1. /\ f.q \in SearchTexts /\ f.types \in Lists /\ f.page \in 0..LastPage
      /\ \A q \in SearchTexts : [f EXCEPT !.q = q] \in FilterSets
      /\ \A l \in Lists : [f EXCEPT !.types = l] \in FilterSets
      /\ \A p \in 0..LastPage : [f EXCEPT !.page = p] \in FilterSets
  BY DEF FilterSets
<1>2. 1 \in 0..LastPage
  BY DEF LastPage
<1>3. QED BY <1>1, <1>2 DEF ResetPage

LEMMA TypedToggles ==
    ASSUME NEW f \in FilterSets, NEW t \in Types
    PROVE  Toggled(f, t) \in FilterSets
<1>1. PICK l : l = IF \E i \in DOMAIN f.types : f.types[i] = t THEN Without(f.types, t) ELSE Append(f.types, t)
  OBVIOUS
<1>2. l \in Lists
  BY <1>1, TypedFilters, LongerLists, ShorterLists
<1>3. PICK g : g = [f EXCEPT !.types = l]
  OBVIOUS
<1>4. g \in FilterSets
  BY <1>2, <1>3, TypedFilters
<1>5. Toggled(f, t) = ResetPage(g)
  BY <1>1, <1>3 DEF Toggled
<1>6. QED BY <1>4, <1>5, TypedFilters

LEMMA TypedSeeds ==
    ASSUME NEW u \in Addresses
    PROVE  u \in FilterSets /\ Seed(u) \in FilterSets
<1>1. u \in FilterSets
  BY SearchPageAssumption DEF FilterSets
<1>2. Entries(u) \in FilterSets
  <2> DEFINE l == u.types
  <2>1. l \in Lists /\ l \in Seq(Types) /\ Len(l) \in Nat
    BY <1>1, TypedFilters, LenProperties DEF Lists
  <2>2. l # <<>> => <<l[Len(l)]>> \in Lists
    <3>1. l # <<>> => Len(l) \in 1..Len(l)
      BY <2>1, EmptySeq
    <3>2. QED BY <2>1, <3>1, ElementOfSeq, ShortLists
  <2>3. (IF l = <<>> THEN l ELSE <<l[Len(l)]>>) \in Lists
    BY <2>1, <2>2
  <2>4. QED BY <1>1, <2>3, TypedFilters DEF Entries
<1>3. PICK g \in FilterSets : g = Entries(u)
  BY <1>2
<1>4. (IF g.page > 1 THEN g.page ELSE 0) \in 0..LastPage
  <2>1. g.page \in 0..LastPage
    BY TypedFilters
  <2>2. QED BY <2>1 DEF LastPage
<1>5. Seed(u) = [g EXCEPT !.page = IF g.page > 1 THEN g.page ELSE 0]
  BY <1>3 DEF Seed, Parse
<1>6. QED BY <1>1, <1>3, <1>4, <1>5, TypedFilters

LEMMA TypedBecoming ==
    ASSUME SearchPageTypeOK, NEW f \in FilterSets, Become(f)
    PROVE  filters' = f /\ filters' \in FilterSets /\ term' \in Texts /\ retyped' \in BOOLEAN
<1>1. f.q \in Texts
  BY TypedFilters, TrimIsStable
<1>2. QED BY <1>1 DEF Become, SearchPageTypeOK

\* Whatever types there are, no list of them ever holds one twice.
THEOREM PageTypesHold == SearchPageSpec => []SearchPageTypeOK
<1> DEFINE T == SearchPageTypeOK
<1>1. Initial \in FilterSets /\ "" \in Texts /\ 1 \in 0..LastPage /\ 0 \in 0..MaxActs
  <2>1. "" \in Texts
    BY DEF Texts
  <2>2. Trim("") = ""
    BY DEF Trim
  <2>3. "" \in SearchTexts
    BY <2>1, <2>2 DEF SearchTexts
  <2>4. 1 \in 0..LastPage
    BY DEF LastPage
  <2>5. 0 \in 0..MaxActs
    BY SearchPageAssumption
  <2>6. Initial \in FilterSets
    BY <2>3, <2>4, ShortLists DEF Initial, FilterSets
  <2>7. QED BY <2>1, <2>4, <2>5, <2>6
<1>2. SearchPageInit => T
  BY <1>1 DEF SearchPageInit, SearchPageTypeOK
<1>3. ASSUME T, [SearchPageNext]_searchPageVars PROVE T'
  <2>1. MaxActs \in Nat /\ (ActOn => acts' \in 0..MaxActs)
    BY <1>3, SearchPageAssumption DEF ActOn, SearchPageTypeOK
  <2>2. /\ {filters, draft, base} \subseteq FilterSets /\ url \in FilterSets \cup {Away}
        /\ appliedQuery \in FilterSets \cup {Away} /\ shown \in FilterSets \cup {Away}
        /\ {term, debounced} \subseteq Texts /\ {sheet, moved, outrun, retyped} \subseteq BOOLEAN
        /\ acts \in 0..MaxActs /\ (url = Away => appliedQuery = Away /\ ~sheet /\ shown = Away)
    BY <1>3 DEF SearchPageTypeOK
  <2>3. \A f \in FilterSets : f # Away
    <3>1. Away.q \notin SearchTexts
      BY DEF Away, SearchTexts, Texts, Trim
    <3>2. QED BY <3>1, TypedFilters
  <2>4. ASSUME NEW u \in Addresses, Enter(u) PROVE T'
    <3>1. Seed(u) \in FilterSets /\ Seed(u).q \in Texts /\ filters.q \in Texts
      BY <2>2, TypedSeeds, TypedFilters, TrimIsStable
    <3>2. /\ filters' = Seed(u) /\ draft' = Seed(u) /\ base' = Seed(u) /\ term' = Seed(u).q
          /\ url' = filters /\ appliedQuery' = filters /\ debounced' = filters.q
          /\ acts' \in 0..MaxActs /\ moved' = FALSE /\ retyped' = FALSE
          /\ sheet' = sheet /\ shown' = shown
      BY <2>1, <2>4 DEF Enter
    <3>3. outrun' \in BOOLEAN
      BY <2>4 DEF Enter
    <3>4. QED BY <2>2, <2>3, <3>1, <3>2, <3>3 DEF SearchPageTypeOK
  <2>5. ASSUME NEW u \in Addresses, Navigate(u) PROVE T'
    BY <2>1, <2>2, <2>3, <2>5, TypedSeeds DEF Navigate, SearchPageTypeOK
  <2>6. CASE LeaveSearch
    BY <2>1, <2>2, <2>6 DEF LeaveSearch, SearchPageTypeOK
  <2>7. CASE WriteUrl
    BY <2>1, <2>2, <2>3, <2>7 DEF WriteUrl, SearchPageTypeOK
  <2>8. CASE Debounce
    <3>1. PICK next \in SearchTexts : next = Trim(term)
      BY <2>2, TrimIsStable
    <3>2. CASE next = filters.q
      BY <2>2, <2>8, <3>1, <3>2 DEF Debounce, SearchPageTypeOK
    <3>3. CASE next # filters.q
      <4>1. PICK f : f = ResetPage([filters EXCEPT !.q = next])
        OBVIOUS
      <4>2. f \in FilterSets
        BY <2>2, <4>1, TypedFilters
      <4>3. Become(f) /\ outrun' = FALSE /\ debounced' = term
        BY <2>8, <3>1, <3>3, <4>1 DEF Debounce
      <4>4. filters' \in FilterSets /\ term' \in Texts /\ retyped' \in BOOLEAN
        BY <1>3, <4>2, <4>3, TypedBecoming
      <4>5. QED BY <2>2, <2>8, <4>3, <4>4 DEF Debounce, SearchPageTypeOK
    <3>4. QED BY <3>2, <3>3
  <2>9. ASSUME NEW t \in Texts, Type(t) PROVE T'
    BY <2>1, <2>2, <2>9 DEF Type, SearchPageTypeOK
  <2>10. ASSUME NEW t \in Types, ToggleType(t) PROVE T'
    <3>1. Toggled(filters, t) \in FilterSets
      BY <2>2, TypedToggles
    <3>2. filters' \in FilterSets /\ term' \in Texts /\ retyped' \in BOOLEAN
      BY <1>3, <2>10, <3>1, TypedBecoming DEF ToggleType
    <3>3. QED BY <2>1, <2>2, <2>10, <3>2 DEF ToggleType, SearchPageTypeOK
  <2>11. ASSUME NEW t \in Types, ToggleDraft(t) PROVE T'
    <3>1. Toggled(draft, t) \in FilterSets
      BY <2>2, TypedToggles
    <3>2. QED BY <2>1, <2>2, <2>11, <3>1 DEF ToggleDraft, SearchPageTypeOK
  <2>12. CASE ClearAll
    <3>1. filters' \in FilterSets /\ term' \in Texts /\ retyped' \in BOOLEAN
      BY <1>1, <1>3, <2>12, TypedBecoming DEF ClearAll
    <3>2. QED BY <1>1, <2>1, <2>2, <2>12, <3>1 DEF ClearAll, SearchPageTypeOK
  <2>13. CASE OpenSheet
    BY <2>1, <2>2, <2>13 DEF OpenSheet, DraftTaken, Here, SearchPageTypeOK
  <2>14. CASE ClearDraft
    BY <1>1, <2>1, <2>2, <2>14 DEF ClearDraft, SearchPageTypeOK
  <2>15. CASE ApplyDraft
    <3>1. [draft EXCEPT !.page = 1] \in FilterSets
      BY <1>1, <2>2, TypedFilters
    <3>2. filters' \in FilterSets /\ term' \in Texts /\ retyped' \in BOOLEAN
      BY <1>3, <2>15, <3>1, TypedBecoming DEF ApplyDraft
    <3>3. QED BY <2>1, <2>2, <2>15, <3>2 DEF ApplyDraft, SearchPageTypeOK
  <2>16. CASE CloseSheet
    BY <2>2, <2>16 DEF CloseSheet, SearchPageTypeOK
  <2>17. CASE ShowResults
    BY <2>2, <2>17 DEF ShowResults, Here, SearchPageTypeOK
  <2>18. ASSUME NEW p \in 1..LastPage, GoToPage(p) PROVE T'
    <3>1. [filters EXCEPT !.page = p] \in FilterSets
      <4>1. p \in 0..LastPage
        BY DEF LastPage
      <4>2. QED BY <2>2, <4>1, TypedFilters
    <3>2. QED BY <2>1, <2>2, <2>18, <3>1 DEF GoToPage, SearchPageTypeOK
  <2>19. CASE UNCHANGED searchPageVars
    BY <2>2, <2>19 DEF searchPageVars, SearchPageTypeOK
  <2>20. QED
    BY <1>3, <2>4, <2>5, <2>6, <2>7, <2>8, <2>9, <2>10, <2>11, <2>12, <2>13, <2>14, <2>15,
       <2>16, <2>17, <2>18, <2>19 DEF SearchPageNext
<1>4. QED BY <1>2, <1>3, PTL DEF SearchPageSpec

-----------------------------------------------------------------------------
(* The page at rest *)

\* At rest the box, the address and the results agree, whatever was typed, chosen, left
\* and found again: for any types and any search that finds a number of pages.
THEOREM PagesAgree ==
    ASSUME \A q \in SearchTexts, l \in Lists : PagesFound(q, l) \in Nat
    PROVE  SearchPageSpec => []PageAgrees
<1>1. ASSUME PageInv, Settled
      PROVE  BoxSaysQuery /\ UrlSaysFilters
  BY <1>1 DEF PageInv, Settled, Addressed, Boxed, BoxSaysQuery, UrlSaysFilters
<1>2. ASSUME PageInv, SearchPageTypeOK, Settled, shown = filters, Results < PageOf(shown)
      PROVE  Results = 0 \/ outrun
  <2>1. filters # Away /\ IsFilter(filters)
    BY <1>2, AwayIsNoFilter DEF PageInv, PageTypes
  <2>2. Results = PagesFound(filters.q, filters.types)
    BY <1>2, <2>1 DEF Results
  <2>3. filters.q \in SearchTexts /\ filters.types \in Lists
    BY <1>2, <2>1 DEF SearchPageTypeOK, FilterSets
  <2>4. Results \in Nat
    BY <2>2, <2>3
  <2>5. PageOf(filters) \in Nat
    BY <2>1, MadeFilters, PagesOfFilters
  <2>6. QED
    BY <1>2, <2>2, <2>4, <2>5 DEF PageInv, OnAPage
<1>3. PageInv /\ SearchPageTypeOK => PageAgrees
  BY <1>1, <1>2 DEF PageAgrees, EmptyMeansNone
<1>4. QED
  BY <1>3, PageInvHolds, PageTypesHold, PTL

\* An applied draft changes what was changed in it and nothing else, unless a query was
\* searched after it was taken.
THEOREM DraftsLoseNothing == SearchPageSpec => DraftLosesNothing
<1>1. ASSUME PageInv, ApplyDraft, base.q = filters.q
      PROVE  /\ draft.q # "" => filters'.q = filters.q
             /\ draft.types = base.types => filters'.types = filters.types
  <2>1. sheet /\ filters' = [draft EXCEPT !.page = 1]
    BY <1>1 DEF ApplyDraft, Become
  <2>2. filters'.q = draft.q /\ filters'.types = draft.types
    BY <1>1, <2>1 DEF PageInv, PageTypes, IsFilter
  <2>3. QED
    BY <1>1, <2>1, <2>2 DEF PageInv, Drafted
<1>2. PageInv =>
        [ApplyDraft /\ base.q = filters.q =>
            /\ draft.q # "" => filters'.q = filters.q
            /\ draft.types = base.types => filters'.types = filters.types]_searchPageVars
  BY <1>1
<1>3. QED
  BY <1>2, PageInvHolds, PTL DEF DraftLosesNothing

-----------------------------------------------------------------------------
\* WebQueries: what is shown as fresh is what the server has.

USE QueriesAssumption

-----------------------------------------------------------------------------
(* Changes that concern a key space make it ask again *)

\* A change that makes another answer has a hook that invalidates it, or overlooks it.
LEMMA ConcernedIsTold ==
    ASSUME NEW m \in Hooks, space \in Spaces, Concerns(m)
    PROVE  space \in Invalidates(m) \/ Overlooked(m)
<1>1. m.on \in {"properties", "compounds", "developers", "areas", "favorites", "saved-searches", "leads", "auth"}
  BY DEF Hooks, Hook
<1>2. CASE m.on = space
  BY <1>2 DEF Invalidates
<1>3. ASSUME m.on # space, m.on \in MadeOf(space)
      PROVE  space \in Invalidates(m) \/ Overlooked(m)
  <2>1. CASE m.on = "properties"
    BY <1>3, <2>1 DEF MadeOf, Invalidates, Overlooked
  <2>2. CASE m.on # "properties"
    BY <1>3, <2>2 DEF MadeOf, Overlooked
  <2>3. QED
    BY <2>1, <2>2
<1>4. CASE m.on \in Carried(space) /\ (m.op = "update" \/ (m.op = "delete" /\ space # "compounds"))
  <2>1. CASE space = "compounds"
    BY <1>4, <2>1 DEF Carried, Invalidates
  <2>2. CASE space # "compounds"
    BY <1>4, <2>2 DEF Carried, Overlooked
  <2>3. QED
    BY <2>1, <2>2
<1>5. CASE m = [op |-> "create", on |-> "leads"] /\ space \in {"properties", "favorites"}
  BY <1>5 DEF Overlooked
<1>6. QED
  BY <1>2, <1>3, <1>4, <1>5 DEF Concerns

-----------------------------------------------------------------------------
(* Entries, with what the server has made and who is signed in *)

\* What an answer that shows those seen does not, its reader was not told of.
Accounted(seen, made, how) ==
    \A m \in made \ seen : Concerns(m) => how[m] \in {"served", "lost"} \/ Overlooked(m)

\* What was read for somebody is for whoever is signed in.
ReadFor(who, missed, reader) ==
    space \in Personal => who = reader \/ reader = Stranger \/ Login \in missed

EntryFits(e, made, how, reader) ==
    /\ e.fresh => /\ Accounted(e.shows \cup e.stale, made, how)
                  /\ ReadFor(e.by, e.stale, reader)
    /\ e.fetch = "read" => Accounted(e.got \cup e.late, made, how)
    /\ e.fetch # "none" => ReadFor(e.for, e.late, reader)

LEMMA AskedAgain ==
    ASSUME NEW e \in Entry, NEW who \in Visitors \cup {Stranger}
    PROVE  /\ Asks(e, who) \in Entry
           /\ Asks(e, who).fetch = "asked" /\ Asks(e, who).for = who
           /\ Asks(e, who).fresh = e.fresh /\ Asks(e, who).shows = e.shows
           /\ Asks(e, who).stale = e.stale /\ Asks(e, who).by = e.by
<1>1. PICK x : x = [e EXCEPT !.fetch = "asked", !.got = {}, !.for = who, !.tries = 0, !.late = {}]
  OBVIOUS
<1>2. 0 \in 0..MaxRetries
  BY DEF MaxRetries
<1>3. /\ x.fetch = "asked" /\ x.for = who /\ x.fresh = e.fresh /\ x.shows = e.shows
      /\ x.stale = e.stale /\ x.by = e.by
  BY <1>1 DEF Entry
<1>4. x \in Entry
  BY <1>1, <1>2 DEF Entry
<1>5. QED
  BY <1>1, <1>3, <1>4 DEF Asks

LEMMA AskedFits ==
    ASSUME NEW e \in Entry, NEW who \in Visitors \cup {Stranger}, NEW made, NEW how,
           EntryFits(e, made, how, who)
    PROVE  EntryFits(Asks(e, who), made, how, who)
<1>1. PICK x : x = Asks(e, who)
  OBVIOUS
<1>2. /\ x.fetch = "asked" /\ x.for = who /\ x.fresh = e.fresh /\ x.shows = e.shows
      /\ x.stale = e.stale /\ x.by = e.by
  BY <1>1, AskedAgain
<1>3. EntryFits(x, made, how, who)
  BY <1>2 DEF EntryFits, ReadFor
<1>4. QED
  BY <1>1, <1>3

LEMMA Silenced ==
    ASSUME NEW e \in Entry
    PROVE  /\ Silent(e) \in Entry
           /\ Silent(e).fetch = "none" /\ Silent(e).fresh = e.fresh /\ Silent(e).shows = e.shows
           /\ Silent(e).stale = e.stale /\ Silent(e).by = e.by
<1>1. PICK x : x = [e EXCEPT !.fetch = "none", !.got = {}, !.for = Stranger, !.tries = 0, !.late = {}]
  OBVIOUS
<1>2. 0 \in 0..MaxRetries
  BY DEF MaxRetries
<1>3. /\ x.fetch = "none" /\ x.fresh = e.fresh /\ x.shows = e.shows
      /\ x.stale = e.stale /\ x.by = e.by
  BY <1>1 DEF Entry
<1>4. x \in Entry
  BY <1>1, <1>2 DEF Entry
<1>5. QED
  BY <1>1, <1>3, <1>4 DEF Silent

LEMMA NoEntryFits == NoEntry \in Entry /\ ~NoEntry.fresh /\ NoEntry.fetch = "none"
BY DEF NoEntry, Entry, MaxRetries

\* An entry that is invalidated is not fresh, and a call that goes on remembers why.
LEMMA InvalidatedIsNotFresh ==
    ASSUME NEW e \in Entry, NEW why \in Hooks \cup {Login}, NEW enabled, NEW who \in Visitors \cup {Stranger},
           NEW x, x = Invalidated(e, why, enabled, who)
    PROVE  /\ x \in Entry /\ ~x.fresh
           /\ \/ x.fetch = "asked" /\ x.for = who
              \/ x.fetch = e.fetch /\ x.for = e.for /\ x.got = e.got /\ x.late = e.late \cup {why}
              \/ x.fetch = "none"
<1>1. PICK old : old = [e EXCEPT !.fresh = FALSE]
  OBVIOUS
<1>2. /\ old \in Entry /\ ~old.fresh /\ old.fetch = e.fetch /\ old.for = e.for /\ old.got = e.got
      /\ old.late = e.late /\ e.late \in SUBSET (Hooks \cup {Login})
  BY <1>1 DEF Entry
<1>3. \/ x = Asks(old, who)
      \/ x = [old EXCEPT !.late = old.late \cup {why}]
      \/ x = old /\ e.fetch = "none"
  BY <1>1 DEF Invalidated
<1>4. CASE x = Asks(old, who)
  BY <1>2, <1>4, AskedAgain
<1>5. CASE x = [old EXCEPT !.late = old.late \cup {why}]
  <2>1. /\ x \in Entry /\ ~x.fresh /\ x.fetch = old.fetch /\ x.for = old.for /\ x.got = old.got
        /\ x.late = old.late \cup {why}
    BY <1>2, <1>5 DEF Entry
  <2>2. QED
    BY <1>2, <2>1
<1>6. CASE x = old /\ e.fetch = "none"
  BY <1>2, <1>6
<1>7. QED
  BY <1>3, <1>4, <1>5, <1>6

-----------------------------------------------------------------------------
(* Everything the cache relies on *)

QueriesTypes ==
    /\ space \in Spaces /\ user \in Visitors \cup {Stranger} /\ entry \in Entry
    /\ applied \subseteq Known /\ Known \subseteq Hooks
    /\ hook = [m \in Known |-> hook[m]]
    \* What the server has refused, or not heard of, it has not made.
    /\ \A m \in applied : hook[m] \in {"served", "done", "lost"}

QueriesInv == QueriesTypes /\ EntryFits(entry, applied, hook, user)

LEMMA QueriesInvInit == QueriesInit => QueriesInv
<1>1. SUFFICES ASSUME QueriesInit
               PROVE  QueriesInv
  OBVIOUS
<1>2. entry = NoEntry /\ applied = {} /\ hook = [m \in {} |-> "sent"]
  BY <1>1 DEF QueriesInit
<1>3. Known = {}
  BY <1>2 DEF Known
<1>4. QED
  BY <1>1, <1>2, <1>3, NoEntryFits DEF QueriesInit, QueriesInv, QueriesTypes, EntryFits

\* A step of the entry alone.
LEMMA EntrySteps ==
    ASSUME QueriesInv, UNCHANGED <<space, hook, applied>>, user' \in Visitors \cup {Stranger},
           NEW x \in Entry, entry' = x, EntryFits(x, applied, hook, user')
    PROVE  QueriesInv'
BY DEF QueriesInv, QueriesTypes, EntryFits, Accounted, ReadFor, Concerns, Overlooked, Known

\* What a change that settles or is lost leaves to account for.
LEMMA ChangeTold ==
    ASSUME QueriesInv, NEW m \in Known, UNCHANGED <<space, user, applied>>,
           NEW how, Marks(m, how), NEW told, Tell(m, told),
           m \in applied => how = "lost" \/ (how = "done" /\ told)
    PROVE  QueriesInv'
<1>1. PICK H, x : H = hook' /\ x = entry'
  OBVIOUS
<1>2. /\ H = [n \in Known |-> IF n = m THEN how ELSE hook[n]]
      /\ x = IF space \in Invalidates(m) /\ (told \/ m.op = "toggle")
             THEN Invalidated(entry, m, Enabled(user), user) ELSE entry
      /\ m \in Hooks /\ entry \in Entry /\ user \in Visitors \cup {Stranger}
  BY <1>1 DEF Marks, Tell, QueriesInv, QueriesTypes
<1>3. ASSUME NEW seen, Accounted(seen, applied, hook),
             \/ m \in seen
             \/ m \notin applied
             \/ how = "lost"
             \/ space \notin Invalidates(m)
      PROVE  Accounted(seen, applied, H)
  <2>1. SUFFICES ASSUME NEW n \in applied \ seen, Concerns(n)
                 PROVE  H[n] \in {"served", "lost"} \/ Overlooked(n)
    BY DEF Accounted
  <2>2. n \in Known
    BY DEF QueriesInv, QueriesTypes
  <2>3. CASE n # m
    BY <1>2, <1>3, <2>1, <2>2, <2>3 DEF Accounted
  <2>4. CASE n = m
    BY <1>2, <1>3, <2>1, <2>2, <2>4, ConcernedIsTold DEF QueriesInv, QueriesTypes
  <2>5. QED
    BY <2>3, <2>4
<1>4. EntryFits(x, applied, H, user) /\ x \in Entry
  <2>1. EntryFits(entry, applied, hook, user)
    BY DEF QueriesInv
  <2>2. CASE ~(space \in Invalidates(m) /\ (told \/ m.op = "toggle"))
    <3>1. m \notin applied \/ how = "lost" \/ space \notin Invalidates(m)
      BY <2>2
    <3>2. \A seen : Accounted(seen, applied, hook) => Accounted(seen, applied, H)
      BY <3>1, <1>3
    <3>3. x = entry
      BY <1>2, <2>2
    <3>4. QED
      BY <2>1, <3>2, <3>3, <1>2 DEF EntryFits
  <2>3. CASE space \in Invalidates(m) /\ (told \/ m.op = "toggle")
    <3>1. /\ x \in Entry /\ ~x.fresh
          /\ \/ x.fetch = "asked" /\ x.for = user
             \/ x.fetch = entry.fetch /\ x.for = entry.for /\ x.got = entry.got /\ x.late = entry.late \cup {m}
             \/ x.fetch = "none"
      BY <1>2, <2>3, InvalidatedIsNotFresh
    <3>2. ASSUME x.fetch = "read"
          PROVE  Accounted(x.got \cup x.late, applied, H)
      <4>1. Accounted(entry.got \cup entry.late, applied, hook)
        BY <2>1, <3>1, <3>2 DEF EntryFits
      <4>2. Accounted(x.got \cup x.late, applied, hook) /\ m \in x.got \cup x.late
        BY <3>1, <3>2, <4>1 DEF Accounted
      <4>3. QED
        BY <4>2, <1>3
    <3>3. x.fetch # "none" => ReadFor(x.for, x.late, user)
      BY <2>1, <3>1 DEF EntryFits, ReadFor
    <3>4. QED
      BY <3>1, <3>2, <3>3 DEF EntryFits
  <2>4. QED
    BY <1>2, <2>2, <2>3
<1>5. /\ Known' = Known
      /\ \A n \in applied : H[n] \in {"served", "done", "lost"}
  BY <1>1, <1>2 DEF Known, QueriesInv, QueriesTypes
<1>6. EntryFits(entry, applied, hook, user)'
  BY <1>1, <1>4 DEF EntryFits, Accounted, ReadFor, Concerns, Overlooked
<1>7. QED
  BY <1>1, <1>2, <1>4, <1>5, <1>6 DEF QueriesInv, QueriesTypes

LEMMA QueriesInvNext == QueriesInv /\ [QueriesNext]_queriesVars => QueriesInv'
<1>1. SUFFICES ASSUME QueriesInv, [QueriesNext]_queriesVars
               PROVE  QueriesInv'
  OBVIOUS
<1>2. /\ entry \in Entry /\ user \in Visitors \cup {Stranger} /\ space \in Spaces
      /\ EntryFits(entry, applied, hook, user)
      /\ applied \in SUBSET Hooks
  BY <1>1 DEF QueriesInv, QueriesTypes
<1>3. CASE Open
  <2>1. PICK e : e = [entry EXCEPT !.open = TRUE]
    OBVIOUS
  <2>2. e \in Entry /\ EntryFits(e, applied, hook, user)
    BY <1>2, <2>1 DEF Entry, EntryFits
  <2>3. PICK x \in {e, Asks(e, user)} : Entered(x)
    BY <1>3, <2>1 DEF Open
  <2>4. x \in Entry /\ EntryFits(x, applied, hook, user)
    BY <1>2, <2>2, AskedAgain, AskedFits
  <2>5. QED
    BY <1>1, <1>2, <2>3, <2>4, EntrySteps DEF Entered
<1>4. CASE Close
  <2>1. PICK e : e = Silent(entry) /\ e \in Entry /\ EntryFits(e, applied, hook, user)
    BY <1>2, Silenced DEF EntryFits
  <2>2. PICK x : x = [e EXCEPT !.open = FALSE]
    OBVIOUS
  <2>3. x \in Entry /\ EntryFits(x, applied, hook, user)
    BY <2>1, <2>2 DEF Entry, EntryFits
  <2>4. Entered(x)
    BY <1>4, <2>1, <2>2 DEF Close
  <2>5. QED
    BY <1>1, <1>2, <2>3, <2>4, EntrySteps DEF Entered
<1>5. CASE Reconnect
  <2>1. PICK x : x = Asks(entry, user)
    OBVIOUS
  <2>2. x \in Entry /\ EntryFits(x, applied, hook, user)
    BY <1>2, <2>1, AskedAgain, AskedFits
  <2>3. Entered(x)
    BY <1>5, <2>1 DEF Reconnect
  <2>4. QED
    BY <1>1, <1>2, <2>2, <2>3, EntrySteps DEF Entered
<1>6. CASE ReadServer
  <2>1. PICK x : x = [entry EXCEPT !.fetch = "read", !.got = applied]
    OBVIOUS
  <2>2. /\ x \in Entry /\ x.fetch = "read" /\ x.got = applied /\ x.late = entry.late /\ x.for = entry.for
        /\ x.fresh = entry.fresh /\ x.shows = entry.shows /\ x.stale = entry.stale /\ x.by = entry.by
    BY <1>2, <2>1 DEF Entry
  <2>3. entry.fetch = "asked" /\ Entered(x)
    BY <1>6, <2>1 DEF ReadServer
  <2>4. EntryFits(x, applied, hook, user)
    BY <1>2, <2>2, <2>3 DEF EntryFits, Accounted
  <2>5. QED
    BY <1>1, <1>2, <2>2, <2>3, <2>4, EntrySteps DEF Entered
<1>7. CASE Receive
  <2>1. PICK e : e = Silent(entry) /\ e \in Entry /\ e.fetch = "none"
    BY <1>2, Silenced
  <2>2. PICK x : x = [e EXCEPT !.has = TRUE, !.fresh = TRUE, !.shows = entry.got,
                               !.by = entry.for, !.stale = entry.late]
    OBVIOUS
  <2>3. /\ x.fetch = "none" /\ x.shows = entry.got /\ x.by = entry.for /\ x.stale = entry.late
    BY <2>1, <2>2 DEF Entry
  <2>4. x \in Entry
    BY <1>2, <2>1, <2>2 DEF Entry
  <2>5. entry.fetch = "read" /\ Entered(x)
    BY <1>7, <2>1, <2>2 DEF Receive
  <2>6. EntryFits(x, applied, hook, user)
    BY <1>2, <2>3, <2>5 DEF EntryFits
  <2>7. QED
    BY <1>1, <1>2, <2>4, <2>5, <2>6, EntrySteps DEF Entered
<1>8. CASE FailFetch
  <2>1. CASE Entered(Silent(entry))
    <3>1. PICK x : x = Silent(entry) /\ x \in Entry /\ EntryFits(x, applied, hook, user)
      BY <1>2, Silenced DEF EntryFits
    <3>2. QED
      BY <1>1, <1>2, <2>1, <3>1, EntrySteps DEF Entered
  <2>2. CASE ~Entered(Silent(entry))
    <3>1. PICK n \in 0..MaxRetries : n = entry.tries + 1
      BY <1>2, <1>8, <2>2 DEF FailFetch, Entry, MaxRetries
    <3>2. PICK x : x = [entry EXCEPT !.fetch = "asked", !.got = {}, !.for = user, !.tries = n]
      OBVIOUS
    <3>3. /\ x \in Entry /\ x.fetch = "asked" /\ x.for = user /\ x.fresh = entry.fresh
          /\ x.shows = entry.shows /\ x.stale = entry.stale /\ x.by = entry.by
      BY <1>2, <3>2 DEF Entry
    <3>4. Entered(x)
      BY <1>8, <2>2, <3>1, <3>2 DEF FailFetch
    <3>5. EntryFits(x, applied, hook, user)
      BY <1>2, <3>3 DEF EntryFits, ReadFor
    <3>6. QED
      BY <1>1, <1>2, <3>3, <3>4, <3>5, EntrySteps DEF Entered
  <2>3. QED
    BY <2>1, <2>2
<1>9. CASE Age
  <2>1. PICK x : x = [entry EXCEPT !.fresh = FALSE]
    OBVIOUS
  <2>2. x \in Entry /\ EntryFits(x, applied, hook, user)
    BY <1>2, <2>1 DEF Entry, EntryFits
  <2>3. Entered(x)
    BY <1>9, <2>1 DEF Age
  <2>4. QED
    BY <1>1, <1>2, <2>2, <2>3, EntrySteps DEF Entered
<1>10. CASE Collect
  <2>1. Entered(NoEntry) /\ NoEntry \in Entry /\ EntryFits(NoEntry, applied, hook, user)
    BY <1>10, NoEntryFits DEF Collect, EntryFits
  <2>2. QED
    BY <1>1, <1>2, <2>1, EntrySteps DEF Entered
<1>11. ASSUME NEW m \in Hooks, Send(m)
       PROVE  QueriesInv'
  <2>1. PICK H : H = hook'
    OBVIOUS
  <2>2. H = [n \in Known \cup {m} |-> IF n = m THEN "sent" ELSE hook[n]] /\ m \notin Known
        /\ UNCHANGED <<space, entry, user, applied>>
    BY <1>11, <2>1 DEF Send, Marks
  <2>3. \A n \in applied : H[n] = hook[n] /\ n \in Known
    BY <1>1, <2>2 DEF QueriesInv, QueriesTypes
  <2>4. EntryFits(entry, applied, H, user)
    BY <1>2, <2>3 DEF EntryFits, Accounted
  <2>5. EntryFits(entry, applied, hook, user)'
    BY <2>1, <2>2, <2>4 DEF EntryFits, Accounted, ReadFor, Concerns, Overlooked
  <2>6. Known' = Known \cup {m}
    BY <2>1, <2>2 DEF Known
  <2>7. QED
    BY <1>1, <2>1, <2>2, <2>3, <2>5, <2>6 DEF QueriesInv, QueriesTypes
<1>12. ASSUME NEW m \in Known, ServeChange(m)
       PROVE  QueriesInv'
  <2>1. PICK H, A, how : /\ H = hook' /\ A = applied' /\ Marks(m, how) /\ how \in {"served", "refused"}
                         /\ A = IF how = "served" THEN applied \cup {m} ELSE applied
    BY <1>12 DEF ServeChange
  <2>2. /\ H = [n \in Known |-> IF n = m THEN how ELSE hook[n]]
        /\ UNCHANGED <<space, entry, user>> /\ m \notin applied
    BY <1>1, <1>12, <2>1 DEF ServeChange, Marks, QueriesInv, QueriesTypes
  <2>3. \A n \in A : n \in Known /\ (n = m => how = "served") /\ (n # m => n \in applied)
    BY <1>1, <2>1, <2>2 DEF QueriesInv, QueriesTypes
  <2>4. EntryFits(entry, A, H, user)
    BY <1>2, <2>2, <2>3 DEF EntryFits, Accounted
  <2>5. EntryFits(entry, applied, hook, user)'
    BY <2>1, <2>2, <2>4 DEF EntryFits, Accounted, ReadFor, Concerns, Overlooked
  <2>6. Known' = Known
    BY <2>1, <2>2 DEF Known
  <2>7. QED
    BY <1>1, <2>1, <2>2, <2>3, <2>5, <2>6 DEF QueriesInv, QueriesTypes
<1>13. ASSUME NEW m \in Known, SettleChange(m)
       PROVE  QueriesInv'
  <2>1. m \in applied => hook[m] = "served"
    BY <1>1, <1>13 DEF SettleChange, QueriesInv, QueriesTypes
  <2>2. QED
    BY <1>1, <1>13, <2>1, ChangeTold DEF SettleChange
<1>14. ASSUME NEW m \in Known, LoseChange(m)
       PROVE  QueriesInv'
  BY <1>1, <1>14, ChangeTold DEF LoseChange
<1>15. ASSUME NEW m \in Known, ServeLost(m)
       PROVE  QueriesInv'
  <2>1. PICK A : A = applied' /\ A = applied \cup {m}
    BY <1>15 DEF ServeLost
  <2>2. UNCHANGED <<space, entry, user, hook>> /\ hook[m] = "lost"
    BY <1>15 DEF ServeLost
  <2>3. EntryFits(entry, A, hook, user)
    BY <1>2, <2>1, <2>2 DEF EntryFits, Accounted
  <2>4. EntryFits(entry, applied, hook, user)'
    BY <2>1, <2>2, <2>3 DEF EntryFits, Accounted, ReadFor, Concerns, Overlooked
  <2>5. QED
    BY <1>1, <2>1, <2>2, <2>4 DEF QueriesInv, QueriesTypes, Known
<1>16. ASSUME NEW who \in Visitors, LogsIn(who)
       PROVE  QueriesInv'
  <2>1. PICK e : e = Invalidated(entry, Login, Enabled(user), who)
    OBVIOUS
  <2>2. /\ e \in Entry /\ ~e.fresh
        /\ \/ e.fetch = "asked" /\ e.for = who
           \/ e.fetch = entry.fetch /\ e.for = entry.for /\ e.got = entry.got /\ e.late = entry.late \cup {Login}
           \/ e.fetch = "none"
    BY <1>2, <2>1, InvalidatedIsNotFresh
  <2>3. EntryFits(e, applied, hook, who)
    BY <1>2, <2>2 DEF EntryFits, ReadFor, Accounted
  <2>4. PICK x \in {e, Asks(e, who)} : entry' = x
    BY <1>16, <2>1 DEF LogsIn
  <2>5. x \in Entry /\ EntryFits(x, applied, hook, who)
    BY <2>2, <2>3, <2>4, AskedAgain, AskedFits
  <2>6. user' = who /\ UNCHANGED <<space, hook, applied>>
    BY <1>16 DEF LogsIn
  <2>7. QED
    BY <1>1, <2>4, <2>5, <2>6, EntrySteps
<1>17. CASE LogsOut
  <2>1. NoEntry \in Entry /\ \A reader : EntryFits(NoEntry, applied, hook, reader)
    BY NoEntryFits DEF EntryFits
  <2>2. QED
    BY <1>1, <1>17, <2>1, EntrySteps DEF LogsOut
<1>18. CASE SessionEnds
  <2>1. EntryFits(entry, applied, hook, Stranger)
    BY <1>2 DEF EntryFits, ReadFor
  <2>2. PICK x : x = entry
    OBVIOUS
  <2>3. QED
    BY <1>1, <1>2, <1>18, <2>1, <2>2, EntrySteps DEF SessionEnds
<1>19. CASE UNCHANGED queriesVars
  BY <1>1, <1>19
     DEF queriesVars, QueriesInv, QueriesTypes, EntryFits, Accounted, ReadFor, Concerns, Overlooked, Known
<1>20. QED
  BY <1>1, <1>3, <1>4, <1>5, <1>6, <1>7, <1>8, <1>9, <1>10, <1>11, <1>12, <1>13, <1>14, <1>15, <1>16,
     <1>17, <1>18, <1>19 DEF QueriesNext

\* What the cache takes for fresh shows every change that concerns it and is for whoever
\* is signed in: for any visitors and any number of changes, logins, failures and retries,
\* in any order.
THEOREM FreshAnswersAreTrue == QueriesSpec => []FreshIsTrue
<1>1. QueriesInv => FreshIsTrue
  BY DEF QueriesInv, EntryFits, Accounted, ReadFor, Overlooked, FreshIsTrue
<1>2. QED
  BY <1>1, QueriesInvInit, QueriesInvNext, PTL DEF QueriesSpec

-----------------------------------------------------------------------------
(* What an entry consists of *)

EntryHolds(e, made, known) ==
    /\ e.shows \cup e.got \subseteq made /\ e.late \cup e.stale \subseteq known \cup {Login}
    /\ e.fetch # "none" => e.open
    /\ e.fresh => e.has

LEMMA AskedHolds ==
    ASSUME NEW e \in Entry, NEW who, NEW made, NEW known, EntryHolds(e, made, known)
    PROVE  e.open => EntryHolds(Asks(e, who), made, known)
<1>1. PICK x : x = [e EXCEPT !.fetch = "asked", !.got = {}, !.for = who, !.tries = 0, !.late = {}]
  OBVIOUS
<1>2. /\ x.shows = e.shows /\ x.got = {} /\ x.late = {} /\ x.stale = e.stale /\ x.open = e.open
      /\ x.fresh = e.fresh /\ x.has = e.has
  BY <1>1 DEF Entry
<1>3. e.open => EntryHolds(x, made, known)
  BY <1>2 DEF EntryHolds
<1>4. QED BY <1>1, <1>3 DEF Asks

LEMMA SilentHolds ==
    ASSUME NEW e \in Entry, NEW made, NEW known, EntryHolds(e, made, known)
    PROVE  /\ EntryHolds(Silent(e), made, known) /\ Silent(e).fetch = "none"
           /\ Silent(e) \in Entry
<1>1. PICK x : x = [e EXCEPT !.fetch = "none", !.got = {}, !.for = Stranger, !.tries = 0, !.late = {}]
  OBVIOUS
<1>2. /\ x.shows = e.shows /\ x.got = {} /\ x.late = {} /\ x.stale = e.stale /\ x.fetch = "none"
      /\ x.fresh = e.fresh /\ x.has = e.has
  BY <1>1 DEF Entry
<1>3. EntryHolds(x, made, known)
  BY <1>2 DEF EntryHolds
<1>4. QED BY <1>1, <1>2, <1>3, Silenced DEF Silent

LEMMA InvalidatedHolds ==
    ASSUME NEW e \in Entry, NEW why, NEW enabled, NEW who, NEW made, NEW known,
           why \in known \cup {Login}, EntryHolds(e, made, known)
    PROVE  EntryHolds(Invalidated(e, why, enabled, who), made, known)
<1>1. PICK old : old = [e EXCEPT !.fresh = FALSE]
  OBVIOUS
<1>2. /\ old \in Entry /\ ~old.fresh /\ old.shows = e.shows /\ old.got = e.got /\ old.late = e.late
      /\ old.stale = e.stale /\ old.open = e.open /\ old.fetch = e.fetch
  BY <1>1 DEF Entry
<1>3. EntryHolds(old, made, known)
  BY <1>2 DEF EntryHolds
<1>4. PICK x : x = [old EXCEPT !.late = old.late \cup {why}]
  OBVIOUS
<1>5. /\ x.shows = old.shows /\ x.got = old.got /\ x.late = old.late \cup {why} /\ x.fresh = old.fresh
      /\ x.stale = old.stale /\ x.open = old.open /\ x.fetch = old.fetch
  BY <1>2, <1>4 DEF Entry
<1>6. EntryHolds(x, made, known)
  BY <1>2, <1>3, <1>5 DEF EntryHolds
<1>7. old.open => EntryHolds(Asks(old, who), made, known)
  BY <1>2, <1>3, AskedHolds
<1>8. QED BY <1>1, <1>2, <1>3, <1>4, <1>6, <1>7 DEF Invalidated

\* What changes no more than the server and the hooks.
LEMMA MoreHolds ==
    ASSUME NEW e, NEW made, NEW known, NEW more, NEW longer,
           EntryHolds(e, made, known), made \subseteq more, known \subseteq longer
    PROVE  EntryHolds(e, more, longer)
BY DEF EntryHolds

Answers == {"sent", "served", "refused", "done", "lost"}
QueriesTyped ==
    /\ QueriesInv /\ space \in Watched /\ hook \in [Known -> Answers]
    /\ EntryHolds(entry, applied, Known)

LEMMA MarksTyped ==
    ASSUME NEW m, NEW how \in Answers, hook \in [Known -> Answers], Marks(m, how)
    PROVE  hook' \in [Known' -> Answers] /\ Known' = Known \cup {m}
BY DEF Marks, Known

\* Nothing is asked for that nobody uses, nothing is fresh that is not there, and an answer
\* shows nothing that the server has not made.
THEOREM QueriesTypesHold == QueriesSpec => []QueriesTypeOK
<1> DEFINE T == QueriesTyped
<1>1. QueriesInit => T
  <2> SUFFICES ASSUME QueriesInit PROVE T
    OBVIOUS
  <2>1. entry = NoEntry /\ hook = [m \in {} |-> "sent"] /\ applied = {} /\ space \in Watched
    BY DEF QueriesInit
  <2>2. EntryHolds(NoEntry, applied, Known)
    BY DEF EntryHolds, NoEntry
  <2>3. Known = {} /\ hook \in [{} -> Answers]
    BY <2>1 DEF Known
  <2>4. QED BY <2>1, <2>2, <2>3, QueriesInvInit DEF QueriesTyped
<1>2. ASSUME T, [QueriesNext]_queriesVars PROVE T'
  <2>1. /\ QueriesInv' /\ entry \in Entry /\ space \in Watched /\ hook \in [Known -> Answers]
        /\ EntryHolds(entry, applied, Known) /\ applied \subseteq Known /\ QueriesInv
        /\ user \in Visitors \cup {Stranger}
    BY <1>2, QueriesInvNext DEF QueriesTyped, QueriesInv, QueriesTypes
  <2>2. ASSUME NEW e, EntryHolds(e, applied, Known), Entered(e) PROVE T'
    BY <2>1, <2>2 DEF Entered, QueriesTyped, Known
  <2>3. CASE Open
    <3>1. PICK e : e = [entry EXCEPT !.open = TRUE]
      OBVIOUS
    <3>2. e \in Entry /\ EntryHolds(e, applied, Known) /\ e.open
      BY <2>1, <3>1 DEF EntryHolds, Entry
    <3>3. EntryHolds(Asks(e, user), applied, Known)
      BY <3>2, AskedHolds
    <3>4. Entered(e) \/ Entered(Asks(e, user))
      BY <2>3, <3>1 DEF Open
    <3>5. QED BY <2>2, <3>2, <3>3, <3>4
  <2>4. CASE Close
    <3>1. PICK e : e = Silent(entry)
      OBVIOUS
    <3>2. EntryHolds(e, applied, Known) /\ e.fetch = "none" /\ e \in Entry
      BY <2>1, <3>1, SilentHolds
    <3>3. EntryHolds([e EXCEPT !.open = FALSE], applied, Known)
      BY <3>2 DEF EntryHolds, Entry
    <3>4. QED BY <2>2, <2>4, <3>1, <3>3 DEF Close
  <2>5. CASE Reconnect
    BY <2>1, <2>2, <2>5, AskedHolds DEF Reconnect
  <2>6. CASE ReadServer
    <3>1. EntryHolds([entry EXCEPT !.fetch = "read", !.got = applied], applied, Known)
      BY <2>1, <2>6 DEF ReadServer, EntryHolds, Entry
    <3>2. QED BY <2>2, <2>6, <3>1 DEF ReadServer
  <2>7. CASE Receive
    <3>1. PICK e : e = Silent(entry)
      OBVIOUS
    <3>2. EntryHolds(e, applied, Known) /\ e.fetch = "none" /\ e \in Entry
      BY <2>1, <3>1, SilentHolds
    <3>3. PICK x : x = [e EXCEPT !.has = TRUE, !.fresh = TRUE, !.shows = entry.got, !.by = entry.for,
                                 !.stale = entry.late]
      OBVIOUS
    <3>4. /\ x.has /\ x.shows = entry.got /\ x.stale = entry.late /\ x.got = e.got /\ x.late = e.late
          /\ x.fetch = "none"
      BY <3>2, <3>3 DEF Entry
    <3>5. EntryHolds(x, applied, Known)
      BY <2>1, <3>2, <3>4 DEF EntryHolds
    <3>6. QED BY <2>2, <2>7, <3>1, <3>3, <3>5 DEF Receive
  <2>8. CASE FailFetch
    <3>1. EntryHolds(Silent(entry), applied, Known)
      BY <2>1, SilentHolds
    <3>2. PICK x : x = [entry EXCEPT !.fetch = "asked", !.got = {}, !.for = user, !.tries = entry.tries + 1]
      OBVIOUS
    <3>3. /\ x.shows = entry.shows /\ x.got = {} /\ x.late = entry.late /\ x.stale = entry.stale
          /\ x.open = entry.open /\ x.fresh = entry.fresh /\ x.has = entry.has
      BY <2>1, <3>2 DEF Entry
    <3>4. entry.fetch # "none" => EntryHolds(x, applied, Known)
      BY <2>1, <3>3 DEF EntryHolds
    <3>5. entry.fetch # "none" /\ (Entered(Silent(entry)) \/ Entered(x))
      BY <2>8, <3>2 DEF FailFetch
    <3>6. QED BY <2>2, <3>1, <3>4, <3>5
  <2>9. CASE Age
    <3>1. EntryHolds([entry EXCEPT !.fresh = FALSE], applied, Known)
      BY <2>1 DEF EntryHolds, Entry
    <3>2. QED BY <2>2, <2>9, <3>1 DEF Age
  <2>10. EntryHolds(NoEntry, applied, Known)
    BY DEF EntryHolds, NoEntry
  <2>11. CASE Collect
    BY <2>2, <2>10, <2>11 DEF Collect
  <2>12. ASSUME NEW m \in Hooks, Send(m) PROVE T'
    <3>1. "sent" \in Answers
      BY DEF Answers
    <3>2. hook' \in [Known' -> Answers] /\ Known' = Known \cup {m} /\ UNCHANGED <<space, entry, user, applied>>
      BY <2>1, <2>12, <3>1, MarksTyped DEF Send
    <3>3. EntryHolds(entry', applied', Known')
      BY <2>1, <3>2, MoreHolds
    <3>4. QED BY <2>1, <3>2, <3>3 DEF QueriesTyped
  <2>13. ASSUME NEW m \in Known, ServeChange(m) PROVE T'
    <3>1. {"served", "refused"} \subseteq Answers
      BY DEF Answers
    <3>2. /\ hook' \in [Known' -> Answers] /\ Known' = Known /\ UNCHANGED <<space, entry, user>>
          /\ applied \subseteq applied'
      BY <2>1, <2>13, <3>1, MarksTyped DEF ServeChange
    <3>3. EntryHolds(entry', applied', Known')
      BY <2>1, <3>2, MoreHolds
    <3>4. QED BY <2>1, <3>2, <3>3 DEF QueriesTyped
  <2>14. ASSUME NEW m \in Known, NEW told, Tell(m, told) PROVE EntryHolds(entry', applied, Known)
    <3>1. EntryHolds(Invalidated(entry, m, Enabled(user), user), applied, Known)
      BY <2>1, <2>14, InvalidatedHolds
    <3>2. QED BY <2>1, <2>14, <3>1 DEF Tell
  <2>15. ASSUME NEW m \in Known, SettleChange(m) \/ LoseChange(m) PROVE T'
    <3>1. {"done", "lost"} \subseteq Answers
      BY DEF Answers
    <3>2. /\ hook' \in [Known' -> Answers] /\ Known' = Known /\ UNCHANGED <<space, user, applied>>
      <4>1. Marks(m, "done") \/ Marks(m, "lost")
        BY <2>15 DEF SettleChange, LoseChange
      <4>2. hook' \in [Known' -> Answers] /\ Known' = Known
        BY <2>1, <3>1, <4>1, MarksTyped
      <4>3. QED BY <2>15, <4>2 DEF SettleChange, LoseChange
    <3>3. Tell(m, hook[m] = "served") \/ Tell(m, FALSE)
      BY <2>15 DEF SettleChange, LoseChange
    <3>4. EntryHolds(entry', applied', Known')
      BY <2>14, <3>2, <3>3, Zenon
    <3>5. QED BY <2>1, <3>2, <3>4 DEF QueriesTyped
  <2>16. ASSUME NEW m \in Known, ServeLost(m) PROVE T'
    <3>1. UNCHANGED <<space, entry, user, hook>> /\ applied \subseteq applied' /\ Known' = Known
      BY <2>16 DEF ServeLost, Known
    <3>2. EntryHolds(entry', applied', Known')
      BY <2>1, <3>1, MoreHolds
    <3>3. QED BY <2>1, <3>1, <3>2 DEF QueriesTyped
  <2>17. ASSUME NEW who \in Visitors, LogsIn(who) PROVE T'
    <3>1. PICK e : e = Invalidated(entry, Login, Enabled(user), who)
      OBVIOUS
    <3>2. e \in Entry /\ EntryHolds(e, applied, Known)
      BY <2>1, <3>1, InvalidatedIsNotFresh, InvalidatedHolds
    <3>3. e.open => EntryHolds(Asks(e, who), applied, Known)
      BY <3>2, AskedHolds
    <3>4. /\ UNCHANGED <<space, hook, applied>>
          /\ entry' = IF e.open /\ e.fetch = "none" THEN Asks(e, who) ELSE e
      BY <2>17, <3>1 DEF LogsIn
    <3>5. EntryHolds(entry', applied, Known)
      BY <3>2, <3>3, <3>4
    <3>6. QED BY <2>1, <3>4, <3>5 DEF QueriesTyped, Known
  <2>18. CASE LogsOut
    BY <2>1, <2>10, <2>18 DEF LogsOut, QueriesTyped, Known
  <2>19. CASE SessionEnds
    BY <2>1, <2>19 DEF SessionEnds, QueriesTyped, Known
  <2>20. CASE UNCHANGED queriesVars
    BY <2>1, <2>20 DEF queriesVars, QueriesTyped, Known
  <2>21. QED
    BY <1>2, <2>3, <2>4, <2>5, <2>6, <2>7, <2>8, <2>9, <2>11, <2>12, <2>13, <2>15, <2>16, <2>17,
       <2>18, <2>19, <2>20 DEF QueriesNext
<1>3. T => QueriesTypeOK
  <2> SUFFICES ASSUME T PROVE QueriesTypeOK
    OBVIOUS
  <2>1. entry \in Entry /\ user \in Visitors \cup {Stranger} /\ applied \subseteq Known /\ Known \subseteq Hooks
    BY DEF QueriesTyped, QueriesInv, QueriesTypes
  <2>2. DOMAIN entry = DOMAIN NoEntry
    BY <2>1 DEF Entry, NoEntry
  <2>3. /\ {entry.has, entry.fresh, entry.open} \subseteq BOOLEAN
        /\ {entry.by, entry.for} \subseteq Visitors \cup {Stranger}
        /\ entry.fetch \in {"none", "asked", "read"} /\ entry.tries \in 0..MaxRetries
    BY <2>1 DEF Entry
  <2>4. QED BY <2>1, <2>2, <2>3 DEF QueriesTyped, EntryHolds, Answers, QueriesTypeOK
<1>4. QED BY <1>1, <1>2, <1>3, PTL DEF QueriesSpec

-----------------------------------------------------------------------------
\* WebClient: a refresh keeps the person, and the favourites shown are the account's.

HIDE QueriesAssumption
USE WebAssumption

-----------------------------------------------------------------------------
(* Calls *)

\* What a call that is under way is made of.
CallFits(c) ==
    c.at # "idle" =>
        /\ c.who \in People /\ c.kind # "none"
        /\ FavCall(c) => c.p \in Props
        /\ c.kind = "remove" => c.p \in c.old
        /\ (c.kind # "sync" \/ c.at \in {"sent", "served"}) => c.todo = {}

IsCall(c) == c \in WebCall /\ CallFits(c)

\* d is c a little later: its state, its token and what is known of it may differ.
Later(d, c) ==
    /\ d.kind = c.kind /\ d.p = c.p /\ d.old = c.old /\ d.found = c.found /\ d.todo = c.todo

Alike(d, c) == Later(d, c) /\ d.at = c.at /\ d.who = c.who

LEMMA NoCallIsCall == IsCall(NoCall) /\ NoCall.at = "idle"
BY DEF IsCall, NoCall, WebCall, CallFits

LEMMA CallParts ==
    ASSUME NEW c \in WebCall
    PROVE  /\ c.at \in {"idle", "sent", "pushing", "denied", "served", "failed"}
           /\ c.kind \in {"none", "add", "remove", "sync", "login", "logout"}
           /\ c.who \in People \cup {NoOne} /\ c.good \in BOOLEAN /\ c.retried \in BOOLEAN
           /\ c.p \in Props \cup {"none"} /\ c.alone \in BOOLEAN
           /\ c.old \in SUBSET Props /\ c.found \in SUBSET Props /\ c.todo \in SUBSET Props
BY DEF WebCall

\* A call moves on.
LEMMA MovedCall ==
    ASSUME NEW c \in WebCall, NEW a \in {"sent", "pushing", "denied", "served", "failed"}
    PROVE  /\ [c EXCEPT !.at = a] \in WebCall /\ [c EXCEPT !.at = a].at = a
           /\ [c EXCEPT !.at = a].who = c.who /\ [c EXCEPT !.at = a].alone = c.alone
           /\ Later([c EXCEPT !.at = a], c)
<1>1. PICK d : d = [c EXCEPT !.at = a]
  OBVIOUS
<1>2. d.at = a /\ d \in WebCall
  BY <1>1 DEF WebCall
<1>3. d.who = c.who /\ d.alone = c.alone /\ d.kind = c.kind /\ d.p = c.p
  BY <1>1 DEF WebCall
<1>4. d.old = c.old /\ d.found = c.found /\ d.todo = c.todo
  BY <1>1 DEF WebCall
<1>5. QED
  BY <1>1, <1>2, <1>3, <1>4 DEF Later

LEMMA CrossedCall ==
    ASSUME NEW c \in WebCall
    PROVE  /\ [c EXCEPT !.alone = FALSE] \in WebCall /\ ~[c EXCEPT !.alone = FALSE].alone
           /\ Alike([c EXCEPT !.alone = FALSE], c)
<1>1. PICK d : d = [c EXCEPT !.alone = FALSE]
  OBVIOUS
<1>2. ~d.alone /\ d \in WebCall
  BY <1>1 DEF WebCall
<1>3. d.who = c.who /\ d.at = c.at /\ d.kind = c.kind /\ d.p = c.p
  BY <1>1 DEF WebCall
<1>4. d.old = c.old /\ d.found = c.found /\ d.todo = c.todo
  BY <1>1 DEF WebCall
<1>5. QED
  BY <1>1, <1>2, <1>3, <1>4 DEF Later, Alike

LEMMA StartedCall ==
    ASSUME NEW c \in WebCall, NEW b \in BOOLEAN
    PROVE  LET d == [c EXCEPT !.at = "sent", !.alone = b] IN
           d \in WebCall /\ d.at = "sent" /\ d.alone = b /\ d.who = c.who /\ Later(d, c)
<1>1. PICK d : d = [c EXCEPT !.at = "sent", !.alone = b]
  OBVIOUS
<1>2. d.alone = b /\ d.at = "sent" /\ d \in WebCall
  BY <1>1 DEF WebCall
<1>3. d.who = c.who /\ d.kind = c.kind /\ d.p = c.p
  BY <1>1 DEF WebCall
<1>4. d.old = c.old /\ d.found = c.found /\ d.todo = c.todo
  BY <1>1 DEF WebCall
<1>5. QED
  BY <1>1, <1>2, <1>3, <1>4 DEF Later

LEMMA ExpiredCall ==
    ASSUME NEW c \in WebCall
    PROVE  LET d == [c EXCEPT !.good = FALSE] IN
           d \in WebCall /\ d.alone = c.alone /\ Alike(d, c)
<1>1. PICK d : d = [c EXCEPT !.good = FALSE]
  OBVIOUS
<1>2. d.alone = c.alone /\ d.at = c.at /\ d \in WebCall
  BY <1>1 DEF WebCall
<1>3. d.who = c.who /\ d.kind = c.kind /\ d.p = c.p
  BY <1>1 DEF WebCall
<1>4. d.old = c.old /\ d.found = c.found /\ d.todo = c.todo
  BY <1>1 DEF WebCall
<1>5. QED
  BY <1>1, <1>2, <1>3, <1>4 DEF Later, Alike

\* What a change, a sync, a login and a logout begin with.
LEMMA BearingCall ==
    ASSUME NEW c \in WebCall, me \in People \cup {NoOne}, good \in BOOLEAN, ids \in SUBSET Props
    PROVE  LET d == Bearer(c) IN
           /\ d \in WebCall /\ d.who = me /\ d.old = ids
           /\ d.at = c.at /\ d.kind = c.kind /\ d.p = c.p /\ d.found = c.found /\ d.todo = c.todo
           /\ d.alone = c.alone
<1>1. PICK d : d = Bearer(c)
  OBVIOUS
<1>2. d.who = me /\ d.old = ids /\ d \in WebCall
  BY <1>1 DEF WebCall, Bearer
<1>3. d.at = c.at /\ d.kind = c.kind /\ d.p = c.p
  BY <1>1 DEF WebCall, Bearer
<1>4. d.found = c.found /\ d.todo = c.todo /\ d.alone = c.alone
  BY <1>1 DEF WebCall, Bearer
<1>5. QED
  BY <1>1, <1>2, <1>3, <1>4

LoggingIn(who) == [Bearer(NoCall) EXCEPT !.kind = "login", !.who = who]
LoggingOut     == [Bearer(NoCall) EXCEPT !.kind = "logout"]

LEMMA NewWebCalls ==
    ASSUME me \in People \cup {NoOne}, good \in BOOLEAN, ids \in SUBSET Props
    PROVE  /\ \A p \in Props, kind \in {"add", "remove"} :
                 /\ Change(p, kind) \in WebCall /\ Change(p, kind).kind = kind
                 /\ Change(p, kind).p = p /\ Change(p, kind).who = me
                 /\ Change(p, kind).old = ids /\ Change(p, kind).todo = {}
           /\ Sync \in WebCall /\ Sync.kind = "sync" /\ Sync.who = me /\ Sync.todo = {}
           /\ \A who \in People :
                 /\ LoggingIn(who) \in WebCall /\ LoggingIn(who).kind = "login"
                 /\ LoggingIn(who).who = who /\ LoggingIn(who).todo = {}
           /\ LoggingOut \in WebCall /\ LoggingOut.kind = "logout"
           /\ LoggingOut.who = me /\ LoggingOut.todo = {}
<1>1. NoCall \in WebCall /\ NoCall.todo = {}
  BY DEF NoCall, WebCall
<1>2. ASSUME NEW p \in Props, NEW kind \in {"add", "remove"}
      PROVE  /\ Change(p, kind) \in WebCall /\ Change(p, kind).kind = kind
             /\ Change(p, kind).p = p /\ Change(p, kind).who = me
             /\ Change(p, kind).old = ids /\ Change(p, kind).todo = {}
  <2>1. PICK n : n = [NoCall EXCEPT !.kind = kind, !.p = p]
    OBVIOUS
  <2>2. n \in WebCall /\ n.kind = kind /\ n.p = p /\ n.todo = {}
    BY <2>1 DEF NoCall, WebCall
  <2>3. QED
    BY <2>1, <2>2, BearingCall DEF Change
<1>3. Sync \in WebCall /\ Sync.kind = "sync" /\ Sync.who = me /\ Sync.todo = {}
  <2>1. PICK n : n = [NoCall EXCEPT !.kind = "sync"]
    OBVIOUS
  <2>2. n \in WebCall /\ n.kind = "sync" /\ n.todo = {}
    BY <2>1 DEF NoCall, WebCall
  <2>3. QED
    BY <2>1, <2>2, BearingCall DEF Sync
<1>4. PICK n : n = Bearer(NoCall) /\ n \in WebCall /\ n.todo = {} /\ n.who = me
  BY <1>1, BearingCall
<1>5. ASSUME NEW who \in People
      PROVE  /\ LoggingIn(who) \in WebCall /\ LoggingIn(who).kind = "login"
             /\ LoggingIn(who).who = who /\ LoggingIn(who).todo = {}
  <2>1. LoggingIn(who) = [n EXCEPT !.kind = "login", !.who = who]
    BY <1>4 DEF LoggingIn
  <2>2. QED
    BY <1>4, <2>1 DEF WebCall
<1>6. /\ LoggingOut \in WebCall /\ LoggingOut.kind = "logout"
      /\ LoggingOut.who = me /\ LoggingOut.todo = {}
  <2>1. LoggingOut = [n EXCEPT !.kind = "logout"]
    BY <1>4 DEF LoggingOut
  <2>2. QED
    BY <1>4, <2>1 DEF WebCall
<1>7. QED
  BY <1>2, <1>3, <1>5, <1>6

\* A call that is sent again is the same call, with another token.
LEMMA ResumedCall ==
    ASSUME NEW c \in WebCall, IsCall(c), c.at = "denied", NEW w \in People \cup {NoOne}
    PROVE  LET d == Resumed(c, w) IN
           /\ IsCall(d) /\ Later(d, c) /\ d.at \in {"sent", "pushing", "failed"}
           /\ d.who = IF w = NoOne \/ c.kind = "login" THEN c.who ELSE w
           /\ d.alone = (c.alone /\ (c.kind = "login" \/ w = c.who))
           /\ w # NoOne /\ c.todo = {} => d.at = "sent"
<1>1. PICK d : d = Resumed(c, w)
  OBVIOUS
<1>2. PICK a : a = IF w = NoOne THEN "failed" ELSE IF c.todo = {} THEN "sent" ELSE "pushing"
  OBVIOUS
<1>3. PICK o : o = IF w = NoOne \/ c.kind = "login" THEN c.who ELSE w
  OBVIOUS
<1>4. PICK b : b = (c.alone /\ (c.kind = "login" \/ w = c.who))
  OBVIOUS
<1>g. PICK g : g = (w # NoOne) /\ g \in BOOLEAN
  OBVIOUS
<1>5. d = [c EXCEPT !.at = a, !.who = o, !.good = g, !.retried = TRUE, !.alone = b]
  BY <1>1, <1>2, <1>3, <1>4, <1>g DEF Resumed
<1>6. /\ a \in {"idle", "sent", "pushing", "denied", "served", "failed"}
      /\ o \in People \cup {NoOne} /\ b \in BOOLEAN
  BY <1>2, <1>3, <1>4, CallParts
<1>7. d \in WebCall
  <2>1. c = [at |-> c.at, kind |-> c.kind, p |-> c.p, who |-> c.who, good |-> c.good,
             retried |-> c.retried, old |-> c.old, found |-> c.found, todo |-> c.todo,
             alone |-> c.alone]
    BY DEF WebCall
  <2>2. d = [at |-> a, kind |-> c.kind, p |-> c.p, who |-> o, good |-> g, retried |-> TRUE,
             old |-> c.old, found |-> c.found, todo |-> c.todo, alone |-> b]
    BY <1>5, <2>1
  <2>3. QED
    BY <1>6, <1>g, <2>2, CallParts DEF WebCall
<1>8. d.at = a /\ d.who = o /\ d.alone = b /\ d.kind = c.kind
  BY <1>5 DEF WebCall
<1>9. d.p = c.p /\ d.old = c.old /\ d.found = c.found /\ d.todo = c.todo
  BY <1>5 DEF WebCall
<1>10. CallFits(d)
  BY <1>2, <1>3, <1>8, <1>9 DEF CallFits, IsCall, FavCall
<1>11. QED
  BY <1>1, <1>2, <1>3, <1>4, <1>7, <1>8, <1>9, <1>10 DEF IsCall, Later

-----------------------------------------------------------------------------
(* What a step does to the calls *)

Calling(C) == C \in [Calls -> WebCall] /\ \A s \in Calls : IsCall(C[s])

Busy(C) == {s \in Calls : C[s].at # "idle"}

\* The calls D are the calls C, of which fewer may be known to be alone.
Stay(D, C)   == \A s \in Calls : Alike(D[s], C[s]) /\ (D[s].alone => C[s].alone)
Apart(D, C)  == \A s \in Calls : Alike(D[s], C[s]) /\ ~D[s].alone
OtherCallsKeep(D, C, s) == \A t \in Calls \ {s} : D[t] = C[t]

Started(D, C, s, c) ==
    /\ C[s].at = "idle" /\ D[s].at = "sent" /\ D[s].who = c.who /\ Later(D[s], c)
    /\ D[s].alone => Busy(C) = {}
    /\ \A t \in Calls \ {s} : Alike(D[t], C[t]) /\ ~D[t].alone

Moved(D, C, s, a) ==
    /\ C[s].at # "idle" /\ D[s].at = a /\ a # "idle"
    /\ Later(D[s], C[s]) /\ D[s].who = C[s].who /\ D[s].alone = C[s].alone
    /\ OtherCallsKeep(D, C, s)

Ended(D, C, s) == C[s].at # "idle" /\ D[s] = NoCall /\ OtherCallsKeep(D, C, s)

LEMMA CallingParts ==
    ASSUME NEW C, Calling(C), NEW s \in Calls
    PROVE  C[s] \in WebCall /\ CallFits(C[s]) /\ IsCall(C[s])
BY DEF Calling, IsCall

LEMMA AlikeIsCall ==
    ASSUME NEW c, NEW d \in WebCall, IsCall(c), Alike(d, c)
    PROVE  IsCall(d)
BY DEF IsCall, CallFits, Alike, Later, FavCall

LEMMA CrossedCalls ==
    ASSUME NEW C, Calling(C)
    PROVE  Calling(Crossed(C)) /\ Apart(Crossed(C), C)
<1>1. PICK D : D = Crossed(C)
  OBVIOUS
<1>2. ASSUME NEW s \in Calls
      PROVE  D[s] \in WebCall /\ IsCall(D[s]) /\ Alike(D[s], C[s]) /\ ~D[s].alone
  <2>1. D[s] = [C[s] EXCEPT !.alone = FALSE]
    BY <1>1 DEF Crossed
  <2>2. QED
    BY <2>1, CallingParts, CrossedCall, AlikeIsCall
<1>3. D \in [Calls -> WebCall]
  BY <1>1, <1>2 DEF Crossed
<1>4. QED
  BY <1>1, <1>2, <1>3 DEF Calling, Apart

LEMMA StartedCalls ==
    ASSUME Calling(call), NEW s \in Calls, NEW c \in WebCall, Start(s, c),
           c.who \in People, c.kind # "none", c.todo = {},
           FavCall(c) => c.p \in Props, c.kind = "remove" => c.p \in c.old
    PROVE  Calling(call') /\ Started(call', call, s, c)
<1>1. PICK K : K = Crossed(call) /\ Calling(K) /\ Apart(K, call)
  BY CrossedCalls
<1>2. PICK b : b = (Pending = {}) /\ b \in BOOLEAN
  OBVIOUS
<1>3. PICK d : d = [c EXCEPT !.at = "sent", !.alone = b]
  OBVIOUS
<1>4. d \in WebCall /\ d.at = "sent" /\ d.alone = b /\ d.who = c.who /\ Later(d, c)
  BY <1>2, <1>3, StartedCall
<1>5. IsCall(d)
  BY <1>4 DEF IsCall, CallFits, Later, FavCall
<1>6. call' = [K EXCEPT ![s] = d] /\ call[s].at = "idle"
  BY <1>1, <1>2, <1>3 DEF Start
<1>7. Calling(call')
  BY <1>1, <1>4, <1>5, <1>6 DEF Calling
<1>8. Started(call', call, s, c)
  BY <1>1, <1>2, <1>4, <1>6 DEF Started, Calling, Apart, Busy, Pending
<1>9. QED
  BY <1>7, <1>8

LEMMA RepliedCalls ==
    ASSUME Calling(call), NEW s \in Calls, NEW d \in WebCall, IsCall(d), Reply(s, d)
    PROVE  Calling(call') /\ call'[s] = d /\ OtherCallsKeep(call', call, s)
BY DEF Calling, Reply, OtherCallsKeep

LEMMA MovedCalls ==
    ASSUME Calling(call), NEW s \in Calls, call[s].at # "idle",
           NEW a \in {"sent", "pushing", "denied", "served", "failed"},
           a \in {"sent", "served"} => call[s].kind # "sync" \/ call[s].todo = {},
           Reply(s, [call[s] EXCEPT !.at = a])
    PROVE  Calling(call') /\ Moved(call', call, s, a)
<1>1. PICK d : d = [call[s] EXCEPT !.at = a]
  OBVIOUS
<1>2. /\ d \in WebCall /\ d.at = a /\ d.who = call[s].who /\ d.alone = call[s].alone
      /\ Later(d, call[s])
  BY <1>1, CallingParts, MovedCall
<1>3. IsCall(d)
  BY <1>2, CallingParts DEF IsCall, CallFits, Later, FavCall
<1>4. QED
  BY <1>1, <1>2, <1>3, RepliedCalls DEF Moved

LEMMA EndedCalls ==
    ASSUME Calling(call), NEW s \in Calls, call[s].at # "idle", EndCall(s)
    PROVE  Calling(call') /\ Ended(call', call, s)
BY NoCallIsCall DEF EndCall, Calling, Ended, OtherCallsKeep, IsCall

\* A sync that has been told the account's favourites.
Listed(d, c, known) ==
    /\ d.kind = c.kind /\ d.p = c.p /\ d.old = c.old /\ d.who = c.who /\ d.alone = c.alone
    /\ d.at = (IF c.old \ known = {} THEN "served" ELSE "pushing")
    /\ d.found = known /\ d.todo = c.old \ known

LEMMA ListedCall ==
    ASSUME NEW c \in WebCall, NEW a \in {"served", "pushing"},
           NEW known \in SUBSET Props, NEW missing \in SUBSET Props
    PROVE  [c EXCEPT !.at = a, !.found = known, !.todo = missing, !.retried = FALSE] \in WebCall
<1>1. PICK d : d = [c EXCEPT !.at = a, !.found = known, !.todo = missing, !.retried = FALSE]
  OBVIOUS
<1>2. d = [at |-> a, kind |-> c.kind, p |-> c.p, who |-> c.who, good |-> c.good, retried |-> FALSE,
           old |-> c.old, found |-> known, todo |-> missing, alone |-> c.alone]
  BY <1>1 DEF WebCall
<1>3. QED
  BY <1>1, <1>2, CallParts DEF WebCall

LEMMA ServedCalls ==
    ASSUME Calling(call), NEW s \in Calls, Serve(s), saved \in [People -> SUBSET Props]
    PROVE  /\ Calling(call') /\ call[s].at = "sent"
           /\ \/ call[s].kind # "sync" /\ Moved(call', call, s, "served")
              \/ /\ call[s].kind = "sync" /\ OtherCallsKeep(call', call, s)
                 /\ Listed(call'[s], call[s], saved[call[s].who])
<1>1. PICK c : c = call[s] /\ c \in WebCall /\ CallFits(c) /\ c.at = "sent"
  BY CallingParts DEF Serve
<1>2. c.who \in People
  BY <1>1 DEF CallFits
<1>3. CASE c.kind # "sync"
  <2>1. Reply(s, [call[s] EXCEPT !.at = "served"])
    BY <1>1, <1>3 DEF Serve
  <2>2. QED
    BY <1>1, <1>3, <2>1, MovedCalls
<1>4. CASE c.kind = "sync"
  <2>1. PICK known : known = saved[c.who] /\ known \in SUBSET Props
    BY <1>2
  <2>o. c.old \in SUBSET Props
    BY <1>1, CallParts
  <2>2. PICK missing : missing = c.old \ known /\ missing \in SUBSET Props
    BY <2>o
  <2>3. PICK a : a = (IF missing = {} THEN "served" ELSE "pushing") /\ a \in {"served", "pushing"}
    OBVIOUS
  <2>m. missing \in SUBSET Props
    BY <2>2
  <2>4. PICK d : d = [c EXCEPT !.at = a, !.found = known, !.todo = missing, !.retried = FALSE]
    OBVIOUS
  <2>5. Reply(s, d)
    BY <1>1, <1>4, <2>1, <2>2, <2>3, <2>4 DEF Serve
  <2>6. d \in WebCall
    BY <1>1, <2>1, <2>3, <2>4, <2>m, ListedCall
  <2>7. d.at = a /\ d.found = known /\ d.todo = missing
    BY <1>1, <2>4 DEF WebCall
  <2>8. d.kind = c.kind /\ d.p = c.p /\ d.old = c.old /\ d.who = c.who /\ d.alone = c.alone
    BY <1>1, <2>4 DEF WebCall
  <2>9. IsCall(d)
    BY <1>1, <1>4, <2>2, <2>3, <2>6, <2>7, <2>8 DEF IsCall, CallFits, FavCall
  <2>10. Listed(d, c, known)
    BY <2>2, <2>3, <2>7, <2>8 DEF Listed
  <2>11. QED
    BY <1>1, <1>4, <2>1, <2>5, <2>6, <2>9, <2>10, RepliedCalls
<1>5. QED
  BY <1>3, <1>4

\* A sync that has one listing less to push.
Lighter(d, c, p) ==
    /\ d.kind = c.kind /\ d.p = c.p /\ d.old = c.old /\ d.who = c.who /\ d.found = c.found
    /\ d.todo = c.todo \ {p} /\ d.at = (IF c.todo \ {p} = {} THEN "served" ELSE "pushing")

LEMMA PushedCalls ==
    ASSUME Calling(call), NEW s \in Calls, Push(s)
    PROVE  \E p \in call[s].todo :
              /\ Calling(call') /\ call[s].at = "pushing" /\ call[s].kind = "sync"
              /\ OtherCallsKeep(call', call, s) /\ Lighter(call'[s], call[s], p)
              /\ \/ /\ saved' = [saved EXCEPT ![call[s].who] = @ \cup {p}]
                    /\ call'[s].alone => call[s].alone
                 \/ ~call'[s].alone /\ UNCHANGED saved
<1>1. PICK c : c = call[s] /\ c \in WebCall /\ CallFits(c) /\ c.at = "pushing"
  BY CallingParts DEF Push
<1>2. PICK p, rest, next :
          /\ p \in c.todo
          /\ rest = c.todo \ {p}
          /\ next = [c EXCEPT !.todo = rest, !.at = IF rest = {} THEN "served" ELSE "pushing"]
          /\ \/ saved' = [saved EXCEPT ![c.who] = @ \cup {p}] /\ Reply(s, next)
             \/ Reply(s, [next EXCEPT !.alone = FALSE]) /\ UNCHANGED saved
  BY <1>1 DEF Push
<1>3. PICK a : a = (IF rest = {} THEN "served" ELSE "pushing")
  OBVIOUS
<1>4. next = [c EXCEPT !.todo = rest, !.at = a] /\ rest \in SUBSET Props
  BY <1>1, <1>2, <1>3, CallParts
<1>5. next \in WebCall /\ next.todo = rest /\ next.at = a /\ next.alone = c.alone
  BY <1>1, <1>3, <1>4 DEF WebCall
<1>6. next.kind = c.kind /\ next.p = c.p /\ next.old = c.old /\ next.who = c.who /\ next.found = c.found
  BY <1>1, <1>4 DEF WebCall
<1>7. c.kind = "sync"
  BY <1>1, <1>2 DEF CallFits
<1>8. IsCall(next)
  BY <1>1, <1>3, <1>5, <1>6, <1>7 DEF IsCall, CallFits, FavCall
<1>9. Lighter(next, c, p)
  BY <1>2, <1>3, <1>5, <1>6 DEF Lighter
<1>10. CASE saved' = [saved EXCEPT ![c.who] = @ \cup {p}] /\ Reply(s, next)
  BY <1>1, <1>2, <1>5, <1>7, <1>8, <1>9, <1>10, RepliedCalls
<1>11. CASE Reply(s, [next EXCEPT !.alone = FALSE]) /\ UNCHANGED saved
  <2>1. PICK d : d = [next EXCEPT !.alone = FALSE]
    OBVIOUS
  <2>2. d \in WebCall /\ ~d.alone /\ Alike(d, next)
    BY <1>5, <2>1, CrossedCall
  <2>3. IsCall(d) /\ Lighter(d, c, p)
    BY <1>8, <1>9, <2>2, AlikeIsCall DEF Alike, Later, Lighter
  <2>4. QED
    BY <1>1, <1>2, <1>7, <1>11, <2>1, <2>2, <2>3, RepliedCalls
<1>12. QED
  BY <1>2, <1>10, <1>11

\* What becomes of a call when a refresh is answered: those that waited for it are resumed.
Taken(d, c, who) ==
    /\ c.at # "denied" => d = c
    /\ c.at = "denied" =>
          /\ Later(d, c) /\ d.at \in {"sent", "pushing", "failed"}
          /\ d.who = (IF who = NoOne \/ c.kind = "login" THEN c.who ELSE who)
          /\ d.alone => c.alone /\ (c.kind = "login" \/ who = c.who)
          /\ c.kind # "sync" => d.at # "pushing"

LEMMA ResumedCalls ==
    ASSUME Calling(call), ApplyRefresh, refresh.who \in People \cup {NoOne}
    PROVE  Calling(call') /\ \A s \in Calls : Taken(call'[s], call[s], refresh.who)
<1>1. PICK D : D = call'
  OBVIOUS
<1>2. D = [s \in Calls |-> IF call[s].at = "denied" THEN Resumed(call[s], refresh.who) ELSE call[s]]
  BY <1>1 DEF ApplyRefresh
<1>3. ASSUME NEW s \in Calls
      PROVE  D[s] \in WebCall /\ IsCall(D[s]) /\ Taken(D[s], call[s], refresh.who)
  <2>1. call[s] \in WebCall /\ IsCall(call[s]) /\ CallFits(call[s])
    BY CallingParts
  <2>2. CASE call[s].at # "denied"
    BY <1>2, <2>1, <2>2 DEF Taken
  <2>3. CASE call[s].at = "denied"
    <3>1. D[s] = Resumed(call[s], refresh.who)
      BY <1>2, <2>3
    <3>2. call[s].kind # "sync" => call[s].todo = {}
      BY <2>1, <2>3 DEF CallFits
    <3>3. call[s].todo = {} => D[s].at # "pushing"
      BY <2>1, <2>3, <3>1 DEF Resumed, WebCall
    <3>4. /\ IsCall(D[s]) /\ Later(D[s], call[s]) /\ D[s].at \in {"sent", "pushing", "failed"}
          /\ D[s].who = (IF refresh.who = NoOne \/ call[s].kind = "login" THEN call[s].who
                         ELSE refresh.who)
      BY <2>1, <2>3, <3>1, ResumedCall
    <3>5. D[s].alone = (call[s].alone /\ (call[s].kind = "login" \/ refresh.who = call[s].who))
      BY <2>1, <2>3, <3>1, ResumedCall
    <3>6. D[s].alone => call[s].alone /\ (call[s].kind = "login" \/ refresh.who = call[s].who)
      BY <3>5
    <3>7. QED
      BY <2>3, <3>2, <3>3, <3>4, <3>6 DEF Taken, IsCall
  <2>4. QED
    BY <2>2, <2>3
<1>4. D \in [Calls -> WebCall]
  BY <1>2, <1>3
<1>5. QED
  BY <1>1, <1>3, <1>4 DEF Calling

\* After a login, and a page load, a sync takes the call's place.
Synching(d, who) == d.kind = "sync" /\ d.at = "sent" /\ d.who = who /\ d.todo = {}

FirstSync(who, old, b) ==
    [NoCall EXCEPT !.kind = "sync", !.at = "sent", !.who = who, !.good = TRUE, !.old = old, !.alone = b]

LEMMA SynchingCall ==
    ASSUME NEW who \in People, NEW old \in SUBSET Props, NEW b \in BOOLEAN
    PROVE  /\ IsCall(FirstSync(who, old, b)) /\ Synching(FirstSync(who, old, b), who)
           /\ FirstSync(who, old, b).alone <=> b
<1>1. PICK d : d = FirstSync(who, old, b)
  OBVIOUS
<1>2. d = [at |-> "sent", kind |-> "sync", p |-> "none", who |-> who, good |-> TRUE,
           retried |-> FALSE, old |-> old, found |-> {}, todo |-> {}, alone |-> b]
  BY <1>1 DEF NoCall, FirstSync
<1>3. d \in WebCall
  BY <1>2 DEF WebCall
<1>4. d.at = "sent" /\ d.kind = "sync" /\ d.who = who /\ d.todo = {}
  BY <1>2
<1>5. d.alone <=> b
  BY <1>2
<1>6. IsCall(d) /\ Synching(d, who)
  BY <1>3, <1>4 DEF IsCall, CallFits, FavCall, Synching
<1>7. QED
  BY <1>1, <1>5, <1>6

LEMMA LoggedInCalls ==
    ASSUME Calling(call), NEW s \in Calls, ReceiveLogIn(s), call[s].at = "served", ids \in SUBSET Props
    PROVE  /\ Calling(call') /\ call[s].kind = "login"
           /\ Synching(call'[s], call[s].who) /\ (call'[s].alone => Busy(call) = {s})
           /\ \A t \in Calls \ {s} : Alike(call'[t], call[t]) /\ ~call'[t].alone
           /\ me' = call[s].who /\ good' = TRUE /\ stirred' = TRUE /\ astray' = FALSE /\ Cross
           /\ call[s].who \in People
<1>1. PICK K : K = Crossed(call) /\ Calling(K) /\ Apart(K, call)
  BY CrossedCalls
<1>2. call[s].kind = "login" /\ call[s].who \in People
  BY CallingParts DEF ReceiveLogIn, CallFits
<1>3. PICK b : b = (Pending = {s}) /\ b \in BOOLEAN
  OBVIOUS
<1>4. me' = call[s].who /\ good' = TRUE /\ stirred' = TRUE /\ astray' = FALSE /\ Cross
  BY DEF ReceiveLogIn
<1>5. PICK d : d = FirstSync(call[s].who, ids, b)
  OBVIOUS
<1>6. call' = [K EXCEPT ![s] = d]
  BY <1>1, <1>3, <1>4, <1>5 DEF ReceiveLogIn, FirstSync
<1>7. IsCall(d) /\ (d.alone <=> b) /\ Synching(d, call[s].who)
  BY <1>2, <1>3, <1>5, SynchingCall
<1>8. Calling(call')
  BY <1>1, <1>6, <1>7 DEF Calling, IsCall
<1>9. call'[s] = d /\ \A t \in Calls \ {s} : call'[t] = K[t]
  BY <1>1, <1>6 DEF Calling
<1>10. Synching(call'[s], call[s].who) /\ (call'[s].alone => Busy(call) = {s})
  BY <1>3, <1>7, <1>9 DEF Busy, Pending
<1>11. QED
  BY <1>1, <1>2, <1>4, <1>8, <1>9, <1>10 DEF Apart

\* The page is loaded again: of the calls there is a sync at most.
LEMMA ReloadedCalls ==
    ASSUME Calling(call), Reload, me \in People \cup {NoOne}, good \in BOOLEAN, ids \in SUBSET Props
    PROVE  /\ Calling(call')
           /\ \E s \in Calls : /\ \A t \in Calls \ {s} : call'[t] = NoCall
                             /\ (call'[s] = NoCall \/ Synching(call'[s], me))
<1>1. PICK s \in Calls : call' = [x \in Calls |-> IF x = s /\ me # NoOne
                                                THEN [Sync EXCEPT !.at = "sent", !.alone = TRUE] ELSE NoCall]
  BY DEF Reload
<1>2. PICK d : d = [Sync EXCEPT !.at = "sent", !.alone = TRUE]
  OBVIOUS
<1>3. Sync \in WebCall /\ Sync.kind = "sync" /\ Sync.who = me /\ Sync.todo = {}
  BY NewWebCalls
<1>4. d \in WebCall /\ d.at = "sent" /\ d.who = me /\ d.kind = "sync" /\ d.todo = {}
  BY <1>2, <1>3, StartedCall DEF Later
<1>5. me # NoOne => IsCall(d) /\ Synching(d, me)
  BY <1>4 DEF IsCall, CallFits, FavCall, Synching
<1>6. \A t \in Calls : call'[t] = IF t = s /\ me # NoOne THEN d ELSE NoCall
  BY <1>1, <1>2
<1>7. \A t \in Calls : IsCall(call'[t])
  BY <1>5, <1>6, NoCallIsCall
<1>8. call' \in [Calls -> WebCall]
  BY <1>1, <1>7 DEF IsCall
<1>9. QED
  BY <1>5, <1>6, <1>7, <1>8 DEF Calling

-----------------------------------------------------------------------------
(* Types *)

WebTypes == WebTypeOK /\ Calling(call)

AnyDenied(C) == \E s \in Calls : C[s].at = "denied"

LEMMA RefreshMoves ==
    ASSUME refresh \in [at : {"none", "sent", "answered"}, who : People \cup {NoOne}, crossed : BOOLEAN]
    PROVE  /\ refresh.at \in {"none", "sent", "answered"} /\ refresh.who \in People \cup {NoOne}
           /\ Cross => /\ refresh' \in [at : {"none", "sent", "answered"}, who : People \cup {NoOne},
                                        crossed : BOOLEAN]
                       /\ refresh'.at = refresh.at /\ refresh'.who = refresh.who
                       /\ refresh.at # "none" => refresh'.crossed
<1>1. PICK b : b = (refresh.crossed \/ refresh.at # "none") /\ b \in BOOLEAN
  OBVIOUS
<1>2. Cross => refresh' = [refresh EXCEPT !.crossed = b]
  BY <1>1 DEF Cross
<1>3. QED
  BY <1>1, <1>2

\* What a step leaves well typed, given what it does to the calls.
LEMMA TypedStep ==
    ASSUME WebTypes, Calling(call'), AnyDenied(call') <=> AnyDenied(call),
           UNCHANGED refresh \/ Cross,
           saved' \in [People -> SUBSET Props], cookie' \in People \cup {NoOne},
           me' \in People \cup {NoOne}, good' \in BOOLEAN, me' = NoOne => ~good',
           ids' \in SUBSET Props, actions' \in 0..MaxActions, stirred' \in BOOLEAN, astray' \in BOOLEAN
    PROVE  WebTypes'
<1>1. refresh' \in [at : {"none", "sent", "answered"}, who : People \cup {NoOne}, crossed : BOOLEAN]
      /\ refresh'.at = refresh.at
  BY RefreshMoves DEF WebTypes, WebTypeOK
<1>2. QED
  BY <1>1 DEF WebTypes, WebTypeOK, AnyDenied, Calling

LEMMA TypeParts ==
    ASSUME WebTypes
    PROVE  /\ saved \in [People -> SUBSET Props] /\ cookie \in People \cup {NoOne}
           /\ me \in People \cup {NoOne} /\ good \in BOOLEAN /\ (me = NoOne => ~good)
           /\ ids \in SUBSET Props /\ actions \in 0..MaxActions
           /\ stirred \in BOOLEAN /\ astray \in BOOLEAN /\ Calling(call)
           /\ refresh.at \in {"none", "sent", "answered"} /\ refresh.who \in People \cup {NoOne}
           /\ AnyDenied(call) <=> refresh.at # "none"
BY RefreshMoves DEF WebTypes, WebTypeOK, AnyDenied

LEMMA SavedMore ==
    ASSUME saved \in [People -> SUBSET Props], NEW who \in People, NEW new \in SUBSET Props
    PROVE  [saved EXCEPT ![who] = new] \in [People -> SUBSET Props]
OBVIOUS

LEMMA StayDenied ==
    ASSUME NEW C, NEW D
    PROVE  /\ Stay(D, C) \/ Apart(D, C) => (AnyDenied(D) <=> AnyDenied(C))
           /\ \A c : \A s \in Calls : Started(D, C, s, c) => (AnyDenied(D) <=> AnyDenied(C))
           /\ \A s \in Calls : /\ C[s].at # "denied" /\ D[s].at # "denied" /\ OtherCallsKeep(D, C, s)
                            => (AnyDenied(D) <=> AnyDenied(C))
BY DEF Stay, Apart, Started, OtherCallsKeep, Alike, AnyDenied

LEMMA TypesBegin == WebInit => WebTypes
<1>1. SUFFICES ASSUME WebInit PROVE WebTypes
  OBVIOUS
<1>2. \A s \in Calls : call[s] = NoCall /\ IsCall(call[s])
  BY <1>1, NoCallIsCall DEF WebInit
<1>3. call \in [Calls -> WebCall]
  BY <1>1, NoCallIsCall DEF WebInit, IsCall
<1>4. Calling(call) /\ ~AnyDenied(call)
  BY <1>2, <1>3, NoCallIsCall DEF Calling, AnyDenied
<1>5. /\ refresh \in [at : {"none", "sent", "answered"}, who : People \cup {NoOne}, crossed : BOOLEAN]
      /\ refresh.at = "none"
  BY <1>1 DEF WebInit, NoRefresh
<1>6. actions \in 0..MaxActions
  BY <1>1 DEF WebInit
<1>7. /\ cookie \in People \cup {NoOne} /\ me \in People \cup {NoOne} /\ good \in BOOLEAN /\ ~good
      /\ ids \subseteq Props /\ stirred \in BOOLEAN /\ astray \in BOOLEAN /\ saved \in [People -> SUBSET Props]
  BY <1>1 DEF WebInit
<1>8. QED
  BY <1>3, <1>4, <1>5, <1>6, <1>7 DEF WebTypes, WebTypeOK, AnyDenied

LEMMA WebTypesStep == WebTypes /\ [WebNext]_webVars => WebTypes'
<1>1. SUFFICES ASSUME WebTypes, [WebNext]_webVars PROVE WebTypes'
  OBVIOUS
<1>a. Acts => actions' \in 0..MaxActions
  BY <1>1, TypeParts DEF Acts
<1>2. ASSUME NEW p \in Props, Toggle(p)
      PROVE  WebTypes'
  <2>1. ids' \in SUBSET Props
    BY <1>1, <1>2, TypeParts DEF Toggle
  <2>2. CASE me = NoOne /\ call' = Crossed(call) /\ stirred' = (stirred \/ Pending # {})
    <3>1. Calling(call') /\ Apart(call', call)
      BY <1>1, <2>2, TypeParts, CrossedCalls
    <3>2. stirred' \in BOOLEAN
      BY <2>2
    <3>3. QED
      BY <1>1, <1>2, <1>a, <2>1, <3>1, <3>2, TypeParts, StayDenied, TypedStep DEF Toggle
  <2>3. ASSUME me # NoOne, NEW s \in Calls, NEW kind \in {"add", "remove"},
               Start(s, Change(p, kind)), kind = "remove" => p \in ids
        PROVE  WebTypes'
    <3>1. PICK c : c = Change(p, kind)
      OBVIOUS
    <3>2. c \in WebCall /\ c.kind = kind /\ c.p = p /\ c.who = me /\ c.old = ids /\ c.todo = {}
      BY <1>1, <3>1, TypeParts, NewWebCalls
    <3>3. Calling(call') /\ Started(call', call, s, c)
      BY <1>1, <2>3, <3>1, <3>2, TypeParts, StartedCalls
    <3>4. stirred' \in BOOLEAN
      BY <2>3 DEF Start
    <3>5. QED
      BY <1>1, <1>2, <1>a, <2>1, <3>3, <3>4, TypeParts, StayDenied, TypedStep DEF Toggle
  <2>4. QED
    BY <1>2, <2>2, <2>3 DEF Toggle
<1>3. ASSUME NEW who \in People, NEW p \in Props, Elsewhere(who, p)
      PROVE  WebTypes'
  <2>1. Calling(call') /\ Apart(call', call)
    BY <1>1, <1>3, TypeParts, CrossedCalls DEF Elsewhere
  <2>2. PICK new \in SUBSET Props : saved' = [saved EXCEPT ![who] = new]
    BY <1>1, <1>3, TypeParts DEF Elsewhere
  <2>3. saved' \in [People -> SUBSET Props]
    BY <1>1, <2>2, TypeParts, SavedMore
  <2>4. QED
    BY <1>1, <1>3, <1>a, <2>1, <2>3, TypeParts, StayDenied, TypedStep DEF Elsewhere
<1>4. ASSUME NEW who \in People, LogIn(who)
      PROVE  WebTypes'
  <2>1. PICK s \in Calls : Start(s, LoggingIn(who))
    BY <1>4 DEF LogIn, LoggingIn
  <2>2. LoggingIn(who) \in WebCall /\ LoggingIn(who).kind = "login"
        /\ LoggingIn(who).who = who /\ LoggingIn(who).todo = {}
    BY <1>1, TypeParts, NewWebCalls
  <2>3. Calling(call') /\ Started(call', call, s, LoggingIn(who))
    BY <1>1, <2>1, <2>2, TypeParts, StartedCalls DEF FavCall
  <2>4. stirred' \in BOOLEAN
    BY <2>1 DEF Start
  <2>5. QED
    BY <1>1, <1>4, <1>a, <2>3, <2>4, TypeParts, StayDenied, TypedStep DEF LogIn
<1>5. ASSUME LogOut PROVE WebTypes'
  <2>1. PICK s \in Calls : Start(s, LoggingOut)
    BY <1>5 DEF LogOut, LoggingOut
  <2>2. LoggingOut \in WebCall /\ LoggingOut.kind = "logout"
        /\ LoggingOut.who = me /\ LoggingOut.todo = {}
    BY <1>1, TypeParts, NewWebCalls
  <2>3. me \in People
    BY <1>1, <1>5, TypeParts DEF LogOut
  <2>4. Calling(call') /\ Started(call', call, s, LoggingOut)
    BY <1>1, <2>1, <2>2, <2>3, TypeParts, StartedCalls DEF FavCall
  <2>5. stirred' \in BOOLEAN
    BY <2>1 DEF Start
  <2>6. QED
    BY <1>1, <1>5, <1>a, <2>4, <2>5, TypeParts, StayDenied, TypedStep DEF LogOut
<1>6. ASSUME Reload PROVE WebTypes'
  <2>1. Calling(call') /\ ~AnyDenied(call')
    BY <1>1, <1>6, TypeParts, ReloadedCalls, NoCallIsCall DEF AnyDenied, Synching
  <2>2. astray' \in BOOLEAN /\ stirred' \in BOOLEAN
    BY <1>6 DEF Reload
  <2>3. refresh' = NoRefresh /\ UNCHANGED <<saved, cookie, me, good, ids>> /\ actions' \in 0..MaxActions
    BY <1>6, <1>a DEF Reload
  <2>4. QED
    BY <1>1, <2>1, <2>2, <2>3 DEF WebTypes, WebTypeOK, AnyDenied, Calling, NoRefresh
<1>7. ASSUME ExpireTokens PROVE WebTypes'
  <2>1. ASSUME NEW s \in Calls
        PROVE  IsCall(call'[s]) /\ Alike(call'[s], call[s]) /\ (call'[s].alone => call[s].alone)
    <3>1. call'[s] = [call[s] EXCEPT !.good = FALSE]
      BY <1>7 DEF ExpireTokens
    <3>2. QED
      BY <1>1, <3>1, TypeParts, CallingParts, ExpiredCall, AlikeIsCall
  <2>2. Calling(call')
    BY <1>7, <2>1 DEF ExpireTokens, Calling, IsCall
  <2>3. Stay(call', call)
    BY <2>1 DEF Stay
  <2>4. QED
    BY <1>1, <1>7, <1>a, <2>2, <2>3, TypeParts, StayDenied, TypedStep DEF ExpireTokens
<1>8. ASSUME ServeRefresh PROVE WebTypes'
  <2>1. PICK who \in People \cup {NoOne} : /\ refresh' = [refresh EXCEPT !.at = "answered", !.who = who]
                                         /\ cookie' \in People \cup {NoOne}
    BY <1>1, <1>8, TypeParts DEF ServeRefresh
  <2>2. refresh' \in [at : {"none", "sent", "answered"}, who : People \cup {NoOne}, crossed : BOOLEAN]
        /\ refresh'.at = "answered"
    BY <1>1, <2>1 DEF WebTypes, WebTypeOK
  <2>3. refresh.at # "none" /\ UNCHANGED <<saved, me, good, ids, call, actions, stirred, astray>>
    BY <1>8 DEF ServeRefresh
  <2>4. QED
    BY <1>1, <2>1, <2>2, <2>3 DEF WebTypes, WebTypeOK, Calling
<1>9. ASSUME ApplyRefresh PROVE WebTypes'
  <2>1. Calling(call') /\ \A s \in Calls : Taken(call'[s], call[s], refresh.who)
    BY <1>1, <1>9, TypeParts, ResumedCalls
  <2>2. ~AnyDenied(call')
    BY <2>1 DEF AnyDenied, Taken
  <2>3. me' \in People \cup {NoOne} /\ (me' = NoOne => ~good') /\ good' \in BOOLEAN
    BY <1>1, <1>9, TypeParts DEF ApplyRefresh
  <2>4. stirred' \in BOOLEAN /\ astray' \in BOOLEAN /\ refresh' = NoRefresh
        /\ UNCHANGED <<saved, cookie, ids, actions>>
    BY <1>9 DEF ApplyRefresh
  <2>5. QED
    BY <1>1, <2>1, <2>2, <2>3, <2>4 DEF WebTypes, WebTypeOK, AnyDenied, Calling, NoRefresh
<1>10. ASSUME NEW s \in Calls, Serve(s) PROVE WebTypes'
  <2>1. PICK c : c = call[s] /\ c \in WebCall /\ CallFits(c) /\ c.at = "sent"
    BY <1>1, <1>10, TypeParts, CallingParts DEF Serve
  <2>2. c.who \in People /\ (FavCall(c) => c.p \in Props)
    BY <2>1 DEF CallFits
  <2>3. saved' \in [People -> SUBSET Props]
    <3>1. CASE c.kind = "add"
      <4>1. saved' = [saved EXCEPT ![c.who] = saved[c.who] \cup {c.p}]
        BY <1>10, <2>1, <3>1 DEF Serve
      <4>2. QED
        BY <1>1, <2>2, <3>1, <4>1, TypeParts, SavedMore DEF FavCall
    <3>2. CASE c.kind = "remove"
      <4>1. saved' = [saved EXCEPT ![c.who] = saved[c.who] \ {c.p}]
        BY <1>10, <2>1, <3>2 DEF Serve
      <4>2. QED
        BY <1>1, <2>2, <4>1, TypeParts, SavedMore
    <3>3. CASE c.kind \notin {"add", "remove"}
      BY <1>1, <1>10, <2>1, <3>3, TypeParts DEF Serve
    <3>4. QED
      BY <3>1, <3>2, <3>3
  <2>4. cookie' \in People \cup {NoOne}
    BY <1>1, <1>10, <2>1, <2>2, TypeParts DEF Serve, CookieAfter
  <2>5. Calling(call') /\ OtherCallsKeep(call', call, s) /\ call'[s].at # "denied" /\ call[s].at # "denied"
    BY <1>1, <1>10, TypeParts, ServedCalls DEF Moved, Listed
  <2>6. UNCHANGED <<me, good, ids, refresh, actions, stirred, astray>>
    BY <1>10 DEF Serve
  <2>7. QED
    BY <1>1, <2>3, <2>4, <2>5, <2>6, TypeParts, StayDenied, TypedStep
<1>11. ASSUME NEW s \in Calls, Push(s) PROVE WebTypes'
  <2>1. PICK p \in call[s].todo :
          /\ Calling(call') /\ call[s].at = "pushing" /\ OtherCallsKeep(call', call, s)
          /\ Lighter(call'[s], call[s], p)
          /\ saved' = [saved EXCEPT ![call[s].who] = @ \cup {p}] \/ UNCHANGED saved
    BY <1>1, <1>11, TypeParts, PushedCalls
  <2>2. call[s].who \in People /\ p \in Props
    BY <1>1, <2>1, TypeParts, CallingParts, CallParts DEF CallFits
  <2>3. saved' \in [People -> SUBSET Props]
    BY <1>1, <2>1, <2>2, TypeParts, SavedMore
  <2>4. call'[s].at # "denied" /\ UNCHANGED <<cookie, me, good, ids, refresh, actions, stirred, astray>>
    BY <1>11, <2>1 DEF Lighter, Push
  <2>5. QED
    BY <1>1, <2>1, <2>3, <2>4, TypeParts, StayDenied, TypedStep
<1>12. ASSUME NEW s \in Calls, Deny(s) PROVE WebTypes'
  <2>1. CASE Reply(s, [call[s] EXCEPT !.at = "failed"]) /\ UNCHANGED refresh
    <3>1. Calling(call') /\ Moved(call', call, s, "failed") /\ call[s].at # "denied"
      BY <1>1, <1>12, <2>1, TypeParts, MovedCalls DEF Deny
    <3>2. QED
      BY <1>1, <1>12, <2>1, <3>1, TypeParts, StayDenied, TypedStep DEF Deny, Moved
  <2>2. CASE /\ Reply(s, [call[s] EXCEPT !.at = "denied"])
             /\ refresh' = IF refresh.at = "none" THEN [NoRefresh EXCEPT !.at = "sent"] ELSE refresh
    <3>1. Calling(call') /\ Moved(call', call, s, "denied")
      BY <1>1, <1>12, <2>2, TypeParts, MovedCalls DEF Deny
    <3>2. AnyDenied(call')
      BY <3>1 DEF AnyDenied, Moved
    <3>3. /\ refresh' \in [at : {"none", "sent", "answered"}, who : People \cup {NoOne}, crossed : BOOLEAN]
          /\ refresh'.at # "none"
      BY <1>1, <2>2 DEF WebTypes, WebTypeOK, NoRefresh
    <3>4. UNCHANGED <<saved, cookie, me, good, ids, actions, stirred, astray>>
      BY <1>12 DEF Deny
    <3>5. QED
      BY <1>1, <3>1, <3>2, <3>3, <3>4 DEF WebTypes, WebTypeOK, AnyDenied, Calling
  <2>3. QED
    BY <1>12, <2>1, <2>2 DEF Deny
<1>13. ASSUME NEW s \in Calls, Break(s) PROVE WebTypes'
  <2>1. Calling(call') /\ Moved(call', call, s, "failed") /\ call[s].at # "denied"
    BY <1>1, <1>13, TypeParts, MovedCalls DEF Break
  <2>2. stirred' \in BOOLEAN
    BY <1>1, <1>13, TypeParts DEF Break
  <2>3. QED
    BY <1>1, <1>13, <2>1, <2>2, TypeParts, StayDenied, TypedStep DEF Break, Moved
<1>14. ASSUME NEW s \in Calls, EndCall(s), call[s].at \in {"served", "failed"},
              saved' = saved, cookie' = cookie, actions' = actions, UNCHANGED refresh \/ Cross,
              me' \in People \cup {NoOne}, good' \in BOOLEAN, me' = NoOne => ~good',
              ids' \in SUBSET Props, stirred' \in BOOLEAN, astray' \in BOOLEAN
       PROVE  WebTypes'
  <2>1. Calling(call') /\ Ended(call', call, s)
    BY <1>1, <1>14, TypeParts, EndedCalls
  <2>2. QED
    BY <1>1, <1>14, <2>1, TypeParts, StayDenied, TypedStep, NoCallIsCall DEF Ended
<1>15. ASSUME NEW s \in Calls, ReceiveChange(s) PROVE WebTypes'
  <2>1. ids' \in SUBSET Props /\ stirred' \in BOOLEAN
    BY <1>1, <1>15, TypeParts, CallingParts, CallParts DEF ReceiveChange, RollBack
  <2>2. /\ call[s].at \in {"served", "failed"} /\ EndCall(s)
        /\ UNCHANGED <<saved, cookie, me, good, refresh, actions, astray>>
    BY <1>15 DEF ReceiveChange
  <2>3. astray' \in BOOLEAN /\ good' \in BOOLEAN /\ me' \in People \cup {NoOne} /\ (me' = NoOne => ~good')
    BY <1>1, <2>2, TypeParts
  <2>4. QED
    BY <1>14, <2>1, <2>2, <2>3
<1>16. ASSUME NEW s \in Calls, ReceiveSync(s) PROVE WebTypes'
  <2>1. ids' \in SUBSET Props /\ stirred' \in BOOLEAN
    BY <1>1, <1>16, TypeParts, CallingParts, CallParts DEF ReceiveSync
  <2>2. /\ call[s].at \in {"served", "failed"} /\ EndCall(s)
        /\ UNCHANGED <<saved, cookie, me, good, refresh, actions, astray>>
    BY <1>16 DEF ReceiveSync
  <2>3. astray' \in BOOLEAN /\ good' \in BOOLEAN /\ me' \in People \cup {NoOne} /\ (me' = NoOne => ~good')
    BY <1>1, <2>2, TypeParts
  <2>4. QED
    BY <1>14, <2>1, <2>2, <2>3
<1>17. ASSUME NEW s \in Calls, ReceiveLogIn(s) PROVE WebTypes'
  <2>1. CASE call[s].at = "served"
    <3>1. /\ Calling(call') /\ Synching(call'[s], call[s].who)
          /\ \A t \in Calls \ {s} : Alike(call'[t], call[t])
          /\ me' = call[s].who /\ good' = TRUE /\ stirred' = TRUE /\ astray' = FALSE /\ Cross
          /\ call[s].who \in People
      BY <1>1, <1>17, <2>1, TypeParts, LoggedInCalls
    <3>2. AnyDenied(call') <=> AnyDenied(call)
      BY <2>1, <3>1 DEF AnyDenied, Alike, Synching
    <3>3. UNCHANGED <<saved, cookie, ids, actions>>
      BY <1>17 DEF ReceiveLogIn
    <3>4. QED
      BY <1>1, <3>1, <3>2, <3>3, TypeParts, TypedStep
  <2>2. CASE call[s].at # "served"
    <3>1. /\ call[s].at = "failed" /\ EndCall(s) /\ astray' = TRUE
          /\ UNCHANGED <<saved, cookie, me, good, ids, refresh, actions, stirred>>
      BY <1>17, <2>2 DEF ReceiveLogIn
    <3>2. /\ astray' \in BOOLEAN /\ good' \in BOOLEAN /\ me' \in People \cup {NoOne} /\ (me' = NoOne => ~good')
          /\ ids' \in SUBSET Props /\ stirred' \in BOOLEAN
      BY <1>1, <3>1, TypeParts
    <3>3. QED
      BY <1>14, <3>1, <3>2
  <2>3. QED
    BY <2>1, <2>2
<1>18. ASSUME NEW s \in Calls, ReceiveLogOut(s) PROVE WebTypes'
  <2>1. astray' \in BOOLEAN /\ stirred' \in BOOLEAN
    BY <1>18 DEF ReceiveLogOut
  <2>2. QED
    BY <1>1, <1>14, <1>18, <2>1, TypeParts DEF ReceiveLogOut
<1>19. CASE UNCHANGED webVars
  BY <1>1, <1>19 DEF WebTypes, WebTypeOK, webVars, Calling
<1>20. QED
  BY <1>1, <1>2, <1>3, <1>4, <1>5, <1>6, <1>7, <1>8, <1>9, <1>10, <1>11, <1>12, <1>13, <1>15, <1>16,
     <1>17, <1>18, <1>19 DEF WebNext

-----------------------------------------------------------------------------
(* Whom the session is of *)

Auths(C) == {s \in Calls : C[s].at # "idle" /\ AuthCall(C[s])}

\* One login or logout at a time, and when it has been served the cookie is what it made
\* of it, or has been dropped.
OneAuth(C) == \A s, t \in Auths(C) : s = t

Cookied(C, k) ==
    \A s \in Auths(C) : C[s].at = "served" =>
        /\ C[s].kind = "login"  => k \in {C[s].who, NoOne}
        /\ C[s].kind = "logout" => k = NoOne

\* With no login or logout under way, and none astray, the cookie is that of whoever
\* is signed in, and so is what a refresh got for it.
CookieIsOurs == ~astray /\ Auths(call) = {} => cookie \in {me, NoOne}
Refreshed    == ~astray /\ Auths(call) = {} /\ refresh.at = "answered" /\ ~refresh.crossed =>
                 refresh.who \in {me, NoOne}

PersonInv == OneAuth(call) /\ Cookied(call, cookie) /\ CookieIsOurs /\ Refreshed

\* The logins and logouts under way are the same, and no more of them have been served.
SameAuths(D, C) ==
    /\ Auths(D) = Auths(C)
    /\ \A s \in Auths(C) : /\ D[s].kind = C[s].kind /\ (D[s].at = "served" => C[s].at = "served")
                           /\ C[s].kind = "login" => D[s].who = C[s].who

LEMMA AuthsOfSteps ==
    ASSUME NEW C, NEW D
    PROVE  /\ Stay(D, C) \/ Apart(D, C) => SameAuths(D, C)
           /\ \A s \in Calls : \A a : Moved(D, C, s, a) /\ a # "served" => SameAuths(D, C)
           /\ \A s \in Calls : Moved(D, C, s, "served") /\ ~AuthCall(C[s]) => SameAuths(D, C)
           /\ \A s \in Calls : Ended(D, C, s) /\ ~AuthCall(C[s]) => SameAuths(D, C)
           /\ \A c : \A s \in Calls : Started(D, C, s, c) /\ ~AuthCall(c) => SameAuths(D, C)
           /\ \A s \in Calls : /\ OtherCallsKeep(D, C, s) /\ C[s].kind = "sync" /\ D[s].kind = "sync"
                            => SameAuths(D, C)
           /\ \A w : (\A s \in Calls : Taken(D[s], C[s], w)) => SameAuths(D, C)
<1>1. Stay(D, C) \/ Apart(D, C) => SameAuths(D, C)
  BY DEF Stay, Apart, SameAuths, Auths, Alike, Later, AuthCall
<1>2. ASSUME NEW s \in Calls, NEW a, Moved(D, C, s, a), a # "served" \/ ~AuthCall(C[s])
      PROVE  SameAuths(D, C)
  BY <1>2 DEF Moved, OtherCallsKeep, SameAuths, Auths, Later, AuthCall
<1>3. ASSUME NEW s \in Calls, Ended(D, C, s), ~AuthCall(C[s])
      PROVE  SameAuths(D, C)
  BY <1>3, NoCallIsCall DEF Ended, OtherCallsKeep, SameAuths, Auths
<1>4. ASSUME NEW s \in Calls, NEW c, Started(D, C, s, c), ~AuthCall(c)
      PROVE  SameAuths(D, C)
  BY <1>4 DEF Started, SameAuths, Auths, Alike, Later, AuthCall
<1>5. ASSUME NEW s \in Calls, OtherCallsKeep(D, C, s), C[s].kind = "sync", D[s].kind = "sync"
      PROVE  SameAuths(D, C)
  BY <1>5 DEF OtherCallsKeep, SameAuths, Auths, AuthCall
<1>6. ASSUME NEW w, \A s \in Calls : Taken(D[s], C[s], w)
      PROVE  SameAuths(D, C)
  BY <1>6 DEF Taken, SameAuths, Auths, Later, AuthCall
<1>7. QED
  BY <1>1, <1>2, <1>3, <1>4, <1>5, <1>6

LEMMA SameCookies ==
    ASSUME NEW C, NEW D, SameAuths(D, C), NEW k, NEW l, k \in {l, NoOne}, OneAuth(C), Cookied(C, l)
    PROVE  OneAuth(D) /\ Cookied(D, k)
<1>1. OneAuth(D)
  BY DEF SameAuths, OneAuth
<1>2. ASSUME NEW s \in Auths(D), D[s].at = "served"
      PROVE  /\ D[s].kind = "login"  => k \in {D[s].who, NoOne}
             /\ D[s].kind = "logout" => k = NoOne
  <2>1. s \in Auths(C) /\ C[s].at = "served" /\ C[s].kind = D[s].kind
        /\ (D[s].kind = "login" => C[s].who = D[s].who)
    BY <1>2 DEF SameAuths
  <2>2. /\ D[s].kind = "login"  => l \in {D[s].who, NoOne}
        /\ D[s].kind = "logout" => l = NoOne
    BY <2>1 DEF Cookied
  <2>3. QED
    BY <2>2
<1>3. QED
  BY <1>1, <1>2 DEF Cookied

\* A step that leaves the logins and logouts, the cookie and the person alone.
LEMMA PersonKept ==
    ASSUME PersonInv, SameAuths(call', call), UNCHANGED <<cookie, me, astray>>,
           refresh' = refresh \/ refresh'.at # "answered"
    PROVE  PersonInv'
<1>1. OneAuth(call') /\ Cookied(call', cookie)
  BY SameCookies DEF PersonInv
<1>2. Auths(call') = Auths(call)
  BY DEF SameAuths
<1>3. Auths(call)' = Auths(call') /\ OneAuth(call)' = OneAuth(call') /\ Cookied(call, cookie)' = Cookied(call', cookie')
  BY DEF Auths, OneAuth, Cookied
<1>4. QED
  BY <1>1, <1>2, <1>3 DEF PersonInv, CookieIsOurs, Refreshed

LEMMA PersonPrimes ==
    ASSUME NEW D, D = call'
    PROVE  /\ Auths(call)' = Auths(D) /\ OneAuth(call)' = OneAuth(D)
           /\ Cookied(call, cookie)' = Cookied(D, cookie')
BY DEF Auths, OneAuth, Cookied

LEMMA PersonBegins == WebInit => PersonInv
BY NoCallIsCall DEF WebInit, PersonInv, OneAuth, Cookied, CookieIsOurs, Refreshed, Auths, NoRefresh

LEMMA PersonStep == PersonInv /\ WebTypes /\ WebTypes' /\ [WebNext]_webVars => PersonInv'
<1>1. SUFFICES ASSUME PersonInv, WebTypes, WebTypes', [WebNext]_webVars PROVE PersonInv'
  OBVIOUS
<1>2. Calling(call) /\ Calling(call')
  BY <1>1 DEF WebTypes
<1>p. /\ Auths(call)' = Auths(call') /\ OneAuth(call)' = OneAuth(call')
      /\ Cookied(call, cookie)' = Cookied(call', cookie')
  BY PersonPrimes
<1>3. ASSUME NEW p \in Props, Toggle(p)
      PROVE  PersonInv'
  <2>1. CASE call' = Crossed(call)
    BY <1>1, <1>2, <1>3, <2>1, CrossedCalls, AuthsOfSteps, PersonKept DEF Toggle
  <2>2. ASSUME me # NoOne, NEW s \in Calls, NEW kind \in {"add", "remove"},
               Start(s, Change(p, kind)), kind = "remove" => p \in ids
        PROVE  PersonInv'
    <3>1. PICK c : c = Change(p, kind)
      OBVIOUS
    <3>2. c \in WebCall /\ c.kind = kind /\ c.p = p /\ c.who = me /\ c.old = ids /\ c.todo = {}
      BY <1>1, <3>1, TypeParts, NewWebCalls
    <3>3. Started(call', call, s, c)
      BY <1>1, <2>2, <3>1, <3>2, TypeParts, StartedCalls
    <3>4. ~AuthCall(c)
      BY <3>2 DEF AuthCall
    <3>5. SameAuths(call', call)
      BY <3>3, <3>4, AuthsOfSteps
    <3>6. QED
      BY <1>1, <1>3, <3>5, PersonKept DEF Toggle
  <2>3. QED
    BY <1>3, <2>1, <2>2 DEF Toggle
<1>4. ASSUME NEW who \in People, NEW p \in Props, Elsewhere(who, p)
      PROVE  PersonInv'
  BY <1>1, <1>2, <1>4, CrossedCalls, AuthsOfSteps, PersonKept DEF Elsewhere
<1>5. ASSUME NEW s \in Calls, NEW c \in WebCall, Start(s, c), NoAuthCall, AuthCall(c),
             c.who \in People, c.todo = {}, UNCHANGED <<cookie, me, refresh, astray>>
      PROVE  PersonInv'
  <2>1. Started(call', call, s, c)
    BY <1>2, <1>5, StartedCalls DEF AuthCall, FavCall
  <2>2. Auths(call) = {}
    BY <1>5 DEF NoAuthCall, Auths, Pending
  <2>3. Auths(call') = {s} /\ call'[s].at = "sent"
    BY <1>5, <2>1, <2>2 DEF Started, Auths, Alike, Later, AuthCall
  <2>4. OneAuth(call') /\ Cookied(call', cookie')
    BY <2>3 DEF OneAuth, Cookied
  <2>5. QED
    BY <1>p, <2>3, <2>4 DEF PersonInv, CookieIsOurs, Refreshed
<1>6. ASSUME NEW who \in People, LogIn(who)
      PROVE  PersonInv'
  <2>1. PICK s \in Calls : Start(s, LoggingIn(who))
    BY <1>6 DEF LogIn, LoggingIn
  <2>2. LoggingIn(who) \in WebCall /\ LoggingIn(who).kind = "login"
        /\ LoggingIn(who).who = who /\ LoggingIn(who).todo = {}
    BY <1>1, TypeParts, NewWebCalls
  <2>3. QED
    BY <1>5, <1>6, <2>1, <2>2 DEF LogIn, AuthCall
<1>7. ASSUME LogOut PROVE PersonInv'
  <2>1. PICK s \in Calls : Start(s, LoggingOut)
    BY <1>7 DEF LogOut, LoggingOut
  <2>2. LoggingOut \in WebCall /\ LoggingOut.kind = "logout"
        /\ LoggingOut.who = me /\ LoggingOut.todo = {}
    BY <1>1, TypeParts, NewWebCalls
  <2>3. me \in People
    BY <1>1, <1>7, TypeParts DEF LogOut
  <2>4. QED
    BY <1>5, <1>7, <2>1, <2>2, <2>3 DEF LogOut, AuthCall
<1>8. ASSUME Reload PROVE PersonInv'
  <2>1. Auths(call') = {}
    BY <1>1, <1>8, TypeParts, ReloadedCalls, NoCallIsCall DEF Auths, AuthCall, Synching
  <2>2. OneAuth(call') /\ Cookied(call', cookie')
    BY <2>1 DEF OneAuth, Cookied
  <2>3. ~astray' => ~astray /\ Auths(call) = {}
    BY <1>8 DEF Reload, Auths, Pending
  <2>4. refresh'.at = "none" /\ UNCHANGED <<cookie, me>>
    BY <1>8 DEF Reload, NoRefresh
  <2>5. QED
    BY <1>1, <1>p, <2>1, <2>2, <2>3, <2>4 DEF PersonInv, CookieIsOurs, Refreshed
<1>9. ASSUME ExpireTokens PROVE PersonInv'
  <2>1. ASSUME NEW s \in Calls
        PROVE  Alike(call'[s], call[s]) /\ (call'[s].alone => call[s].alone)
    <3>1. call'[s] = [call[s] EXCEPT !.good = FALSE]
      BY <1>9 DEF ExpireTokens
    <3>2. QED
      BY <1>2, <3>1, CallingParts, ExpiredCall
  <2>2. Stay(call', call)
    BY <2>1 DEF Stay
  <2>3. QED
    BY <1>1, <1>9, <2>2, AuthsOfSteps, PersonKept DEF ExpireTokens
<1>10. ASSUME ServeRefresh PROVE PersonInv'
  <2>1. call' = call /\ UNCHANGED <<me, astray>> /\ cookie' \in {cookie, NoOne}
    BY <1>10 DEF ServeRefresh
  <2>2. OneAuth(call') /\ Cookied(call', cookie')
    BY <1>1, <2>1 DEF PersonInv, Cookied
  <2>3. refresh'.who \in {cookie, NoOne} /\ refresh'.crossed = refresh.crossed
    BY <1>1, <1>10 DEF ServeRefresh, WebTypes, WebTypeOK
  <2>4. QED
    BY <1>1, <1>p, <2>1, <2>2, <2>3 DEF PersonInv, CookieIsOurs, Refreshed
<1>11. ASSUME ApplyRefresh PROVE PersonInv'
  <2>1. \A s \in Calls : Taken(call'[s], call[s], refresh.who)
    BY <1>1, <1>2, <1>11, TypeParts, ResumedCalls
  <2>2. SameAuths(call', call) /\ Auths(call') = Auths(call)
    BY <2>1, AuthsOfSteps DEF SameAuths
  <2>3. OneAuth(call') /\ Cookied(call', cookie)
    BY <1>1, <2>2, SameCookies DEF PersonInv
  <2>4. cookie' = cookie /\ me' = refresh.who /\ refresh'.at = "none" /\ refresh.at = "answered"
        /\ astray' = (astray \/ refresh.crossed \/ (refresh.who = NoOne /\ cookie # NoOne))
    BY <1>11 DEF ApplyRefresh, NoRefresh
  <2>5. QED
    BY <1>1, <1>p, <2>2, <2>3, <2>4 DEF PersonInv, CookieIsOurs, Refreshed
<1>12. ASSUME NEW s \in Calls, Serve(s) PROVE PersonInv'
  <2>1. /\ call[s].at = "sent" /\ cookie' = CookieAfter(call[s])
        /\ UNCHANGED <<me, good, ids, refresh, actions, stirred, astray>>
    BY <1>12 DEF Serve
  <2>2. CASE ~AuthCall(call[s])
    <3>1. \/ call[s].kind = "sync" /\ OtherCallsKeep(call', call, s) /\ call'[s].kind = "sync"
          \/ Moved(call', call, s, "served")
      BY <1>1, <1>2, <1>12, TypeParts, ServedCalls DEF Listed
    <3>2. SameAuths(call', call)
      BY <2>2, <3>1, AuthsOfSteps
    <3>3. cookie' = cookie
      BY <2>1, <2>2 DEF CookieAfter, AuthCall
    <3>4. QED
      BY <1>1, <2>1, <3>2, <3>3, PersonKept
  <2>3. CASE AuthCall(call[s])
    <3>1. Moved(call', call, s, "served")
      BY <1>1, <1>2, <1>12, <2>3, TypeParts, ServedCalls DEF AuthCall
    <3>2. Auths(call) = {s}
      BY <1>1, <2>1, <2>3 DEF PersonInv, OneAuth, Auths
    <3>3. Auths(call') = {s} /\ call'[s].kind = call[s].kind /\ call'[s].who = call[s].who
      BY <3>1, <3>2 DEF Auths, Moved, OtherCallsKeep, Later, AuthCall
    <3>4. OneAuth(call') /\ Cookied(call', cookie')
      BY <2>1, <2>3, <3>3 DEF OneAuth, Cookied, CookieAfter
    <3>5. QED
      BY <1>p, <3>3, <3>4 DEF PersonInv, CookieIsOurs, Refreshed
  <2>4. QED
    BY <2>2, <2>3
<1>13. ASSUME NEW s \in Calls, Push(s) PROVE PersonInv'
  <2>1. OtherCallsKeep(call', call, s) /\ call[s].kind = "sync" /\ call'[s].kind = "sync"
    BY <1>2, <1>13, PushedCalls DEF Lighter
  <2>2. QED
    BY <1>1, <1>13, <2>1, AuthsOfSteps, PersonKept DEF Push
<1>14. ASSUME NEW s \in Calls, Deny(s) PROVE PersonInv'
  <2>1. Moved(call', call, s, "failed") \/ Moved(call', call, s, "denied")
    BY <1>2, <1>14, MovedCalls DEF Deny
  <2>2. refresh' = refresh \/ refresh'.at # "answered"
    BY <1>14 DEF Deny, NoRefresh
  <2>3. SameAuths(call', call)
    BY <2>1, AuthsOfSteps
  <2>4. UNCHANGED <<cookie, me, astray>>
    BY <1>14 DEF Deny
  <2>5. QED
    BY <1>1, <2>2, <2>3, <2>4, PersonKept
<1>15. ASSUME NEW s \in Calls, Break(s) PROVE PersonInv'
  <2>1. Moved(call', call, s, "failed")
    BY <1>2, <1>15, MovedCalls DEF Break
  <2>2. QED
    BY <1>1, <1>15, <2>1, AuthsOfSteps, PersonKept DEF Break
<1>16. ASSUME NEW s \in Calls, ReceiveChange(s) \/ ReceiveSync(s) PROVE PersonInv'
  <2>1. Ended(call', call, s) /\ ~AuthCall(call[s])
    BY <1>2, <1>16, EndedCalls DEF ReceiveChange, ReceiveSync, FavCall, AuthCall
  <2>2. QED
    BY <1>1, <1>16, <2>1, AuthsOfSteps, PersonKept DEF ReceiveChange, ReceiveSync
<1>17. ASSUME NEW s \in Calls, AuthCall(call[s]), call[s].at # "idle", EndCall(s)
       PROVE  Auths(call') = {} /\ OneAuth(call') /\ \A k : Cookied(call', k)
  <2>1. Ended(call', call, s) /\ Auths(call) = {s}
    BY <1>1, <1>2, <1>17, EndedCalls DEF PersonInv, OneAuth, Auths
  <2>2. Auths(call') = {}
    BY <2>1, NoCallIsCall DEF Ended, OtherCallsKeep, Auths
  <2>3. QED
    BY <2>2 DEF OneAuth, Cookied
<1>18. Cross => refresh'.at = refresh.at /\ (refresh'.at # "none" => refresh'.crossed)
  BY <1>1, RefreshMoves DEF WebTypes, WebTypeOK
<1>19. ASSUME NEW s \in Calls, ReceiveLogIn(s) PROVE PersonInv'
  <2>1. CASE call[s].at = "served"
    <3>1. /\ call[s].kind = "login" /\ Synching(call'[s], call[s].who)
          /\ \A t \in Calls \ {s} : Alike(call'[t], call[t])
          /\ me' = call[s].who /\ Cross
      BY <1>1, <1>2, <1>19, <2>1, TypeParts, LoggedInCalls
    <3>2. Auths(call) = {s}
      BY <1>1, <2>1, <3>1 DEF PersonInv, OneAuth, Auths, AuthCall
    <3>3. Auths(call') = {}
      BY <3>1, <3>2 DEF Auths, Synching, Alike, Later, AuthCall
    <3>4. OneAuth(call') /\ Cookied(call', cookie')
      BY <3>3 DEF OneAuth, Cookied
    <3>5. cookie' \in {me', NoOne}
      BY <1>1, <1>19, <2>1, <3>1, <3>2 DEF PersonInv, Cookied, ReceiveLogIn
    <3>6. QED
      BY <1>p, <1>18, <3>1, <3>4, <3>5 DEF PersonInv, CookieIsOurs, Refreshed
  <2>2. CASE call[s].at # "served"
    <3>1. astray' = TRUE /\ EndCall(s) /\ AuthCall(call[s]) /\ call[s].at # "idle"
      BY <1>19, <2>2 DEF ReceiveLogIn, AuthCall
    <3>2. QED
      BY <1>p, <1>17, <3>1 DEF PersonInv, CookieIsOurs, Refreshed
  <2>3. QED
    BY <2>1, <2>2
<1>20. ASSUME NEW s \in Calls, ReceiveLogOut(s) PROVE PersonInv'
  <2>1. /\ EndCall(s) /\ AuthCall(call[s]) /\ call[s].at \in {"served", "failed"}
        /\ Cross /\ cookie' = cookie /\ astray' = (call[s].at = "failed")
        /\ call[s].kind = "logout"
    BY <1>20 DEF ReceiveLogOut, AuthCall
  <2>2. call[s].at = "served" => cookie = NoOne
    BY <1>1, <2>1 DEF PersonInv, Cookied, Auths
  <2>3. ~astray' => cookie' = NoOne
    BY <2>1, <2>2
  <2>4. QED
    BY <1>p, <1>17, <1>18, <2>1, <2>3 DEF PersonInv, CookieIsOurs, Refreshed
<1>21. CASE UNCHANGED webVars
  BY <1>1, <1>21 DEF PersonInv, OneAuth, Cookied, CookieIsOurs, Refreshed, Auths, webVars
<1>22. QED
  BY <1>1, <1>3, <1>4, <1>6, <1>7, <1>8, <1>9, <1>10, <1>11, <1>12, <1>13, <1>14, <1>15, <1>16,
     <1>19, <1>20, <1>21 DEF WebNext

LEMMA WebTyped == WebSpec => [](WebTypes /\ PersonInv)
<1>1. WebInit => WebTypes /\ PersonInv
  BY TypesBegin, PersonBegins
<1>2. WebTypes /\ PersonInv /\ [WebNext]_webVars => (WebTypes /\ PersonInv)'
  BY WebTypesStep, PersonStep
<1>3. QED
  BY <1>1, <1>2, PTL DEF WebSpec

\* Whatever the web client does, its state is of the types it is written with.
THEOREM WebTypesHold == WebSpec => []WebTypeOK
<1>1. WebTypes => WebTypeOK
  BY DEF WebTypes
<1>2. QED
  BY <1>1, WebTyped, PTL

\* A refresh makes nobody else of whoever is signed in (performRefresh), unless a login
\* or a logout crossed it or ended astray.
THEOREM RefreshesKeepPerson == WebSpec => RefreshKeepsPerson
<1>1. ASSUME PersonInv, [WebNext]_webVars, ApplyRefresh, me' \notin {me, NoOne}
      PROVE  refresh.crossed \/ astray \/ ~NoAuthCall
  <2>1. refresh.at = "answered" /\ me' = refresh.who
    BY <1>1 DEF ApplyRefresh
  <2>2. NoAuthCall => Auths(call) = {}
    BY DEF NoAuthCall, Auths, Pending
  <2>3. QED
    BY <1>1, <2>1, <2>2 DEF PersonInv, Refreshed
<1>2. PersonInv /\ [WebNext]_webVars =>
          [ApplyRefresh /\ me' \notin {me, NoOne} =>
              \/ refresh.crossed \/ astray
              \/ ~NoAuthCall]_webVars
  BY <1>1
<1>3. QED
  BY <1>2, WebTyped, PTL DEF WebSpec, RefreshKeepsPerson

-----------------------------------------------------------------------------
(* A call that runs by itself *)

\* A call known to be alone is the only one.
Lonely(C) == \A s, t \in Busy(C) : C[s].alone => s = t

\* A sync that has run by itself has put the list and the account's favourites together,
\* but for what is still to be pushed.
Synced(C, S) ==
    \A s \in Busy(C) :
        C[s].kind = "sync" /\ C[s].alone /\ (C[s].at = "served" \/ C[s].todo # {})
        => C[s].found \cup C[s].old = S[C[s].who] \cup C[s].todo

AloneInv == Lonely(call) /\ Synced(call, saved)

LEMMA StayAlone ==
    ASSUME NEW C, NEW D, NEW S, Lonely(C), Synced(C, S), Stay(D, C)
    PROVE  Lonely(D) /\ Synced(D, S)
BY DEF Lonely, Synced, Busy, Stay, Alike, Later

LEMMA NoneAlone ==
    ASSUME NEW C, NEW D, NEW S, Apart(D, C)
    PROVE  Lonely(D) /\ Synced(D, S)
BY DEF Lonely, Synced, Busy, Apart

LEMMA StartAlone ==
    ASSUME NEW C, NEW D, NEW S, NEW s \in Calls, NEW c, Started(D, C, s, c), c.todo = {}
    PROVE  Lonely(D) /\ Synced(D, S)
<1>1. \A t \in Calls \ {s} : ~D[t].alone /\ (t \in Busy(D) => t \in Busy(C))
  BY DEF Started, Busy, Alike
<1>2. (D[s].alone => Busy(C) = {}) /\ D[s].todo = {} /\ D[s].at = "sent"
  BY DEF Started, Later
<1>3. QED
  BY <1>1, <1>2 DEF Lonely, Synced, Busy

LEMMA MoveAlone ==
    ASSUME NEW C, NEW D, NEW S, NEW T, NEW s \in Calls, NEW a, Moved(D, C, s, a), Lonely(C), Synced(C, S),
           C[s].kind # "sync" \/ (a # "served" /\ T = S)
    PROVE  Lonely(D) /\ Synced(D, T)
<1>1. Busy(D) = Busy(C) /\ s \in Busy(C) /\ \A t \in Busy(D) : D[t].alone => C[t].alone
  BY DEF Moved, OtherCallsKeep, Busy
<1>2. Lonely(D)
  BY <1>1 DEF Lonely
<1>3. ASSUME NEW t \in Busy(D), D[t].kind = "sync", D[t].alone, D[t].at = "served" \/ D[t].todo # {}
      PROVE  D[t].found \cup D[t].old = T[D[t].who] \cup D[t].todo
  <2>1. t = s
    BY <1>1, <1>3 DEF Lonely
  <2>2. C[s].kind = "sync" /\ C[s].alone /\ C[s].todo # {} /\ T = S
    BY <1>1, <1>3, <2>1 DEF Moved, Later
  <2>3. C[s].found \cup C[s].old = S[C[s].who] \cup C[s].todo
    BY <1>1, <2>2 DEF Synced
  <2>4. QED
    BY <2>1, <2>2, <2>3 DEF Moved, Later
<1>4. QED
  BY <1>2, <1>3 DEF Synced

LEMMA EndAlone ==
    ASSUME NEW C, NEW D, NEW S, NEW s \in Calls, Ended(D, C, s), Lonely(C), Synced(C, S)
    PROVE  Lonely(D) /\ Synced(D, S)
<1>1. \A t \in Busy(D) : t \in Busy(C) /\ D[t] = C[t]
  BY NoCallIsCall DEF Ended, OtherCallsKeep, Busy
<1>2. QED
  BY <1>1 DEF Lonely, Synced

LEMMA TakeAlone ==
    ASSUME NEW C, NEW D, NEW S, NEW w, \A s \in Calls : Taken(D[s], C[s], w), Lonely(C), Synced(C, S)
    PROVE  Lonely(D) /\ Synced(D, S)
<1>1. \A s \in Busy(D) : s \in Busy(C) /\ (D[s].alone => C[s].alone)
  BY DEF Taken, Busy
<1>2. Lonely(D)
  BY <1>1 DEF Lonely
<1>3. ASSUME NEW s \in Busy(D), D[s].kind = "sync", D[s].alone, D[s].at = "served" \/ D[s].todo # {}
      PROVE  D[s].found \cup D[s].old = S[D[s].who] \cup D[s].todo
  <2>1. s \in Busy(C) /\ C[s].alone /\ C[s].kind = "sync" /\ D[s].who = C[s].who
        /\ D[s].found = C[s].found /\ D[s].old = C[s].old /\ D[s].todo = C[s].todo
        /\ (C[s].at = "served" \/ C[s].todo # {})
    BY <1>1, <1>3 DEF Taken, Later, Busy
  <2>2. QED
    BY <2>1 DEF Synced
<1>4. QED
  BY <1>2, <1>3 DEF Synced

LEMMA ListAlone ==
    ASSUME NEW C, NEW D, NEW S, NEW s \in Busy(C), OtherCallsKeep(D, C, s), Lonely(C),
           Listed(D[s], C[s], S[C[s].who])
    PROVE  Lonely(D) /\ Synced(D, S)
<1>1. Busy(D) = Busy(C) /\ \A t \in Busy(D) : D[t].alone => C[t].alone
  BY DEF OtherCallsKeep, Busy, Listed
<1>2. Lonely(D)
  BY <1>1 DEF Lonely
<1>3. D[s].found \cup D[s].old = S[D[s].who] \cup D[s].todo
  BY DEF Listed
<1>4. \A t \in Busy(D) : D[t].alone => t = s
  BY <1>1 DEF Lonely
<1>5. QED
  BY <1>2, <1>3, <1>4 DEF Synced

LEMMA PushAlone ==
    ASSUME NEW C, NEW D, NEW S, NEW T, NEW s \in Busy(C), NEW p \in C[s].todo, OtherCallsKeep(D, C, s), Lonely(C),
           Synced(C, S), Lighter(D[s], C[s], p), C[s].kind = "sync",
           D[s].alone => C[s].alone /\ T[C[s].who] = S[C[s].who] \cup {p}
    PROVE  Lonely(D) /\ Synced(D, T)
<1>1. Busy(D) = Busy(C) /\ \A t \in Busy(D) : D[t].alone => C[t].alone
  BY DEF OtherCallsKeep, Busy, Lighter
<1>2. Lonely(D)
  BY <1>1 DEF Lonely
<1>3. D[s].alone => D[s].found \cup D[s].old = T[D[s].who] \cup D[s].todo
  <2>1. SUFFICES ASSUME D[s].alone PROVE D[s].found \cup D[s].old = T[D[s].who] \cup D[s].todo
    OBVIOUS
  <2>2. C[s].alone /\ T[C[s].who] = S[C[s].who] \cup {p}
    BY <2>1
  <2>3. C[s].found \cup C[s].old = S[C[s].who] \cup C[s].todo
    BY <2>2 DEF Synced
  <2>4. D[s].who = C[s].who /\ D[s].found = C[s].found /\ D[s].old = C[s].old /\ D[s].todo = C[s].todo \ {p}
    BY DEF Lighter
  <2>5. QED
    BY <2>2, <2>3, <2>4
<1>4. \A t \in Busy(D) : D[t].alone => t = s
  BY <1>1 DEF Lonely
<1>5. QED
  BY <1>2, <1>3, <1>4 DEF Synced

LEMMA AloneBegins == WebInit => AloneInv
BY NoCallIsCall DEF WebInit, AloneInv, Lonely, Synced, Busy

LEMMA AloneStep == AloneInv /\ WebTypes /\ WebTypes' /\ [WebNext]_webVars => AloneInv'
<1>1. SUFFICES ASSUME AloneInv, WebTypes, WebTypes', [WebNext]_webVars PROVE AloneInv'
  OBVIOUS
<1>2. Calling(call) /\ Calling(call') /\ Lonely(call) /\ Synced(call, saved)
  BY <1>1 DEF WebTypes, AloneInv
<1>p. Lonely(call') /\ Synced(call', saved') => AloneInv'
  BY DEF AloneInv, Lonely, Synced, Busy
<1>3. ASSUME NEW p \in Props, Toggle(p)
      PROVE  AloneInv'
  <2>1. CASE call' = Crossed(call)
    BY <1>p, <1>2, <2>1, CrossedCalls, NoneAlone
  <2>2. ASSUME me # NoOne, NEW s \in Calls, NEW kind \in {"add", "remove"},
               Start(s, Change(p, kind)), kind = "remove" => p \in ids
        PROVE  AloneInv'
    <3>1. PICK c : c = Change(p, kind)
      OBVIOUS
    <3>2. c \in WebCall /\ c.kind = kind /\ c.p = p /\ c.who = me /\ c.old = ids /\ c.todo = {}
      BY <1>1, <3>1, TypeParts, NewWebCalls
    <3>3. Started(call', call, s, c)
      BY <1>1, <2>2, <3>1, <3>2, TypeParts, StartedCalls
    <3>4. QED
      BY <1>p, <3>2, <3>3, StartAlone
  <2>3. QED
    BY <1>3, <2>1, <2>2 DEF Toggle
<1>4. ASSUME NEW who \in People, NEW p \in Props, Elsewhere(who, p)
      PROVE  AloneInv'
  BY <1>p, <1>2, <1>4, CrossedCalls, NoneAlone DEF Elsewhere
<1>5. ASSUME NEW s \in Calls, NEW c \in WebCall, Start(s, c), AuthCall(c), c.who \in People, c.todo = {}
      PROVE  AloneInv'
  BY <1>p, <1>2, <1>5, StartedCalls, StartAlone DEF AuthCall, FavCall
<1>6. ASSUME NEW who \in People, LogIn(who)
      PROVE  AloneInv'
  <2>1. PICK s \in Calls : Start(s, LoggingIn(who))
    BY <1>6 DEF LogIn, LoggingIn
  <2>2. QED
    BY <1>1, <1>5, <2>1, TypeParts, NewWebCalls DEF AuthCall
<1>7. ASSUME LogOut PROVE AloneInv'
  <2>1. PICK s \in Calls : Start(s, LoggingOut)
    BY <1>7 DEF LogOut, LoggingOut
  <2>2. me \in People
    BY <1>1, <1>7, TypeParts DEF LogOut
  <2>3. QED
    BY <1>1, <1>5, <2>1, <2>2, TypeParts, NewWebCalls DEF AuthCall
<1>8. ASSUME Reload PROVE AloneInv'
  <2>1. PICK s \in Calls : /\ \A t \in Calls \ {s} : call'[t] = NoCall
                           /\ (call'[s] = NoCall \/ Synching(call'[s], me))
    BY <1>1, <1>8, TypeParts, ReloadedCalls
  <2>2. \A t \in Busy(call') : t = s /\ call'[t].at = "sent" /\ call'[t].todo = {}
    BY <2>1, NoCallIsCall DEF Busy, Synching
  <2>3. QED
    BY <1>p, <2>2 DEF Lonely, Synced
<1>9. ASSUME ExpireTokens PROVE AloneInv'
  <2>1. ASSUME NEW s \in Calls
        PROVE  Alike(call'[s], call[s]) /\ (call'[s].alone => call[s].alone)
    <3>1. call'[s] = [call[s] EXCEPT !.good = FALSE]
      BY <1>9 DEF ExpireTokens
    <3>2. QED
      BY <1>2, <3>1, CallingParts, ExpiredCall
  <2>2. Stay(call', call) /\ saved' = saved
    BY <1>9, <2>1 DEF Stay, ExpireTokens
  <2>3. QED
    BY <1>p, <1>2, <2>2, StayAlone
<1>10. ASSUME ServeRefresh PROVE AloneInv'
  BY <1>p, <1>2, <1>10 DEF ServeRefresh
<1>11. ASSUME ApplyRefresh PROVE AloneInv'
  <2>1. \A s \in Calls : Taken(call'[s], call[s], refresh.who)
    BY <1>1, <1>2, <1>11, TypeParts, ResumedCalls
  <2>2. saved' = saved
    BY <1>11 DEF ApplyRefresh
  <2>3. QED
    BY <1>p, <1>2, <2>1, <2>2, TakeAlone
<1>12. ASSUME NEW s \in Calls, Serve(s) PROVE AloneInv'
  <2>1. CASE call[s].kind # "sync"
    <3>1. Moved(call', call, s, "served")
      BY <1>1, <1>2, <1>12, <2>1, TypeParts, ServedCalls
    <3>2. QED
      BY <1>p, <1>2, <2>1, <3>1, MoveAlone
  <2>2. CASE call[s].kind = "sync"
    <3>1. /\ call[s].at = "sent" /\ OtherCallsKeep(call', call, s)
          /\ Listed(call'[s], call[s], saved[call[s].who])
      BY <1>1, <1>2, <1>12, <2>2, TypeParts, ServedCalls
    <3>2. saved' = saved
      BY <1>12, <2>2 DEF Serve
    <3>3. s \in Busy(call)
      BY <3>1 DEF Busy
    <3>4. QED
      BY <1>p, <1>2, <3>1, <3>2, <3>3, ListAlone
  <2>3. QED
    BY <2>1, <2>2
<1>13. ASSUME NEW s \in Calls, Push(s) PROVE AloneInv'
  <2>1. PICK p \in call[s].todo :
          /\ call[s].at = "pushing" /\ call[s].kind = "sync"
          /\ OtherCallsKeep(call', call, s) /\ Lighter(call'[s], call[s], p)
          /\ \/ /\ saved' = [saved EXCEPT ![call[s].who] = @ \cup {p}]
                /\ call'[s].alone => call[s].alone
             \/ ~call'[s].alone /\ UNCHANGED saved
    BY <1>2, <1>13, PushedCalls
  <2>2. s \in Busy(call) /\ call[s].who \in People
    BY <1>2, <2>1, CallingParts DEF Busy, CallFits
  <2>3. saved \in [People -> SUBSET Props]
    BY <1>1, TypeParts
  <2>4. call'[s].alone => call[s].alone /\ saved'[call[s].who] = saved[call[s].who] \cup {p}
    BY <2>1, <2>2, <2>3
  <2>5. QED
    BY <1>p, <1>2, <2>1, <2>2, <2>4, PushAlone
<1>14. ASSUME NEW s \in Calls, Deny(s) \/ Break(s) PROVE AloneInv'
  <2>1. PICK a \in {"failed", "denied"} : Moved(call', call, s, a)
    BY <1>2, <1>14, MovedCalls DEF Deny, Break
  <2>2. saved' = saved
    BY <1>14 DEF Deny, Break
  <2>3. QED
    BY <1>p, <1>2, <2>1, <2>2, MoveAlone
<1>15. ASSUME NEW s \in Calls, EndCall(s), call[s].at # "idle", saved' = saved PROVE AloneInv'
  BY <1>p, <1>2, <1>15, EndedCalls, EndAlone
<1>16. ASSUME NEW s \in Calls, ReceiveChange(s) \/ ReceiveSync(s) \/ ReceiveLogOut(s) PROVE AloneInv'
  BY <1>15, <1>16 DEF ReceiveChange, ReceiveSync, ReceiveLogOut
<1>17. ASSUME NEW s \in Calls, ReceiveLogIn(s) PROVE AloneInv'
  <2>1. CASE call[s].at = "served"
    <3>1. /\ Synching(call'[s], call[s].who) /\ (call'[s].alone => Busy(call) = {s})
          /\ \A t \in Calls \ {s} : Alike(call'[t], call[t]) /\ ~call'[t].alone
      BY <1>1, <1>2, <1>17, <2>1, TypeParts, LoggedInCalls
    <3>2. \A t \in Busy(call') : t # s => ~call'[t].alone /\ t \in Busy(call)
      BY <3>1 DEF Busy, Alike
    <3>3. Lonely(call')
      BY <3>1, <3>2 DEF Lonely
    <3>4. Synced(call', saved')
      BY <3>1, <3>2 DEF Synced, Synching
    <3>5. QED
      BY <1>p, <3>3, <3>4
  <2>2. CASE call[s].at # "served"
    BY <1>15, <1>17, <2>2 DEF ReceiveLogIn
  <2>3. QED
    BY <2>1, <2>2
<1>18. CASE UNCHANGED webVars
  BY <1>p, <1>2, <1>18 DEF webVars
<1>19. QED
  BY <1>1, <1>3, <1>4, <1>6, <1>7, <1>8, <1>9, <1>10, <1>11, <1>12, <1>13, <1>14, <1>16, <1>17,
     <1>18 DEF WebNext

-----------------------------------------------------------------------------
(* The favourites, while nothing has stirred them *)

\* What is under way are changes of the person's own, each of another listing, or one
\* login or logout.
Orderly(C, m) ==
    /\ \A s \in Busy(C) : \/ FavCall(C[s]) /\ C[s].who = m
                          \/ AuthCall(C[s]) /\ Busy(C) = {s}
    /\ \A s, t \in Busy(C) : C[s].p = C[t].p => s = t

\* A change shows at once, and the account has it when it has been served.
Shown(c, S, I, m) ==
    FavCall(c) => /\ c.kind = "add" <=> c.p \in I
                  /\ c.at = "served" <=> (c.p \in I <=> c.p \in S[m])

\* Where no change is under way the list and the account agree.
Untouched(C, p) == \A s \in Busy(C) : ~(FavCall(C[s]) /\ C[s].p = p)
Agreed(C, S, I, m) == m # NoOne => \A p \in Props : Untouched(C, p) => (p \in I <=> p \in S[m])

Calm(C, S, I, m) ==
    /\ Orderly(C, m) /\ Agreed(C, S, I, m)
    /\ \A s \in Busy(C) : Shown(C[s], S, I, m)

CalmInv == ~stirred => Calm(call, saved, ids, me)

\* The calls D are the calls C, or those left of them, and none has been served since.
LEMMA StillCalm ==
    ASSUME NEW C, NEW D, NEW S, NEW I, NEW m, Calm(C, S, I, m), Busy(D) = Busy(C),
           \A s \in Busy(C) : /\ D[s].kind = C[s].kind /\ D[s].p = C[s].p
                              /\ FavCall(C[s]) => /\ D[s].who = m
                                                  /\ D[s].at = "served" <=> C[s].at = "served"
    PROVE  Calm(D, S, I, m)
<1>1. \A s \in Busy(C) : (FavCall(D[s]) <=> FavCall(C[s])) /\ (AuthCall(D[s]) <=> AuthCall(C[s]))
  BY DEF FavCall, AuthCall
<1>2. Orderly(D, m)
  BY <1>1 DEF Orderly, Calm
<1>3. \A p : Untouched(D, p) <=> Untouched(C, p)
  BY <1>1 DEF Untouched
<1>4. Agreed(D, S, I, m)
  BY <1>3 DEF Agreed, Calm
<1>5. \A s \in Busy(D) : Shown(D[s], S, I, m)
  BY <1>1 DEF Shown, Calm
<1>6. QED
  BY <1>2, <1>4, <1>5 DEF Calm

LEMMA NothingCalm ==
    ASSUME NEW D, NEW S, NEW I, NEW m, Busy(D) = {}, m # NoOne => \A p \in Props : p \in I <=> p \in S[m]
    PROVE  Calm(D, S, I, m)
BY DEF Calm, Orderly, Agreed

\* A change of a listing that no other change is of.
LEMMA ChangeCalm ==
    ASSUME NEW C, NEW D, NEW S \in [People -> SUBSET Props], NEW I \in SUBSET Props, NEW J,
           NEW m \in People, Calm(C, S, I, m),
           NEW s \in Calls, NEW c, NEW p \in Props, Started(D, C, s, c),
           FavCall(c), c.p = p, c.who = m, c.kind = (IF p \in I THEN "remove" ELSE "add"),
           J = (IF p \in I THEN I \ {p} ELSE I \cup {p}),
           \A t \in Busy(C) : FavCall(C[t]) /\ C[t].p # p
    PROVE  Calm(D, S, J, m)
<1>1. Busy(D) = Busy(C) \cup {s} /\ s \notin Busy(C)
  BY DEF Started, Busy, Alike
<1>2. D[s].who = m /\ D[s].p = p /\ FavCall(D[s]) /\ D[s].at = "sent" /\ D[s].kind = c.kind
  BY DEF Started, Later, FavCall
<1>3. \A t \in Busy(C) : /\ D[t].p = C[t].p /\ FavCall(D[t]) /\ D[t].p # p /\ D[t].who = C[t].who
                         /\ D[t].at = C[t].at /\ D[t].kind = C[t].kind
  BY <1>1 DEF Started, Alike, Later, FavCall, Busy
<1>4. Orderly(D, m)
  <2>1. \A t \in Busy(C) : C[t].who = m
    BY DEF Calm, Orderly, FavCall, AuthCall
  <2>2. \A t, u \in Busy(D) : D[t].p = D[u].p => t = u
    BY <1>1, <1>2, <1>3 DEF Calm, Orderly
  <2>3. QED
    BY <1>1, <1>2, <1>3, <2>1, <2>2 DEF Orderly
<1>5. p \in J <=> p \notin I
  OBVIOUS
<1>6. \A q \in Props \ {p} : q \in J <=> q \in I
  OBVIOUS
<1>7. Untouched(C, p) /\ (p \in I <=> p \in S[m])
  BY DEF Untouched, Calm, Agreed
<1>8. \A t \in Busy(D) : Shown(D[t], S, J, m)
  <2>1. Shown(D[s], S, J, m)
    BY <1>2, <1>5, <1>7 DEF Shown, FavCall
  <2>2. ASSUME NEW t \in Busy(C) PROVE Shown(D[t], S, J, m)
    <3>1. Shown(C[t], S, I, m) /\ FavCall(C[t])
      BY DEF Calm
    <3>2. C[t].p \in J <=> C[t].p \in I
      BY <1>3
    <3>3. QED
      BY <1>3, <3>1, <3>2 DEF Shown
  <2>3. QED
    BY <1>1, <2>1, <2>2
<1>9. Agreed(D, S, J, m)
  <2>1. ASSUME NEW q \in Props, Untouched(D, q) PROVE q \in J <=> q \in S[m]
    <3>1. q # p /\ Untouched(C, q)
      BY <1>1, <1>2, <1>3, <2>1 DEF Untouched
    <3>2. q \in I <=> q \in S[m]
      BY <3>1 DEF Calm, Agreed
    <3>3. QED
      BY <1>6, <3>1, <3>2
  <2>2. QED
    BY <2>1 DEF Agreed
<1>10. QED
  BY <1>4, <1>8, <1>9 DEF Calm

\* A login or a logout when nothing else is under way.
LEMMA AuthCalm ==
    ASSUME NEW C, NEW D, NEW S, NEW I, NEW m, Calm(C, S, I, m), NEW s \in Calls, NEW c,
           Started(D, C, s, c), AuthCall(c), Busy(C) = {}
    PROVE  Calm(D, S, I, m)
<1>1. Busy(D) = {s} /\ AuthCall(D[s]) /\ ~FavCall(D[s])
  BY DEF Started, Busy, Alike, Later, AuthCall, FavCall
<1>2. \A p : Untouched(C, p) /\ Untouched(D, p)
  BY <1>1 DEF Untouched
<1>3. QED
  BY <1>1, <1>2 DEF Calm, Orderly, Agreed, Shown

\* A change is served: the account has what is shown.
LEMMA ServeCalm ==
    ASSUME NEW C, NEW D, NEW S, NEW T, NEW I, NEW m, Calm(C, S, I, m),
           NEW s \in Calls, Moved(D, C, s, "served"), FavCall(C[s]), C[s].at # "served",
           \A q : q \in T[m] <=> IF q = C[s].p THEN C[s].kind = "add" ELSE q \in S[m]
    PROVE  Calm(D, T, I, m)
<1>1. Busy(D) = Busy(C) /\ s \in Busy(C)
  BY DEF Moved, OtherCallsKeep, Busy
<1>2. /\ D[s].kind = C[s].kind /\ D[s].p = C[s].p /\ D[s].who = C[s].who /\ D[s].at = "served"
      /\ FavCall(D[s])
  BY DEF Moved, Later, FavCall
<1>3. \A t \in Busy(C) : t # s => D[t] = C[t] /\ C[t].p # C[s].p
  BY <1>1 DEF Moved, OtherCallsKeep, Calm, Orderly, Busy
<1>4. \A t \in Busy(C) : FavCall(C[t]) /\ C[t].who = m
  BY <1>1 DEF Calm, Orderly, FavCall, AuthCall
<1>5. Orderly(D, m)
  <2>1. \A t \in Busy(D) : FavCall(D[t]) /\ D[t].who = m /\ D[t].p = C[t].p
    BY <1>1, <1>2, <1>3, <1>4
  <2>2. QED
    BY <1>1, <2>1 DEF Calm, Orderly
<1>6. \A t \in Busy(D) : Shown(D[t], T, I, m)
  <2>1. Shown(D[s], T, I, m)
    <3>1. C[s].kind = "add" <=> C[s].p \in I
      BY <1>1 DEF Calm, Shown
    <3>2. C[s].p \in T[m] <=> C[s].kind = "add"
      OBVIOUS
    <3>3. QED
      BY <1>2, <3>1, <3>2 DEF Shown
  <2>2. ASSUME NEW t \in Busy(C), t # s PROVE Shown(D[t], T, I, m)
    <3>1. Shown(C[t], S, I, m) /\ D[t] = C[t] /\ C[t].p # C[s].p
      BY <1>3, <2>2 DEF Calm
    <3>2. C[t].p \in T[m] <=> C[t].p \in S[m]
      BY <3>1
    <3>3. QED
      BY <3>1, <3>2 DEF Shown
  <2>3. QED
    BY <1>1, <2>1, <2>2
<1>7. Agreed(D, T, I, m)
  <2>1. ASSUME m # NoOne, NEW q \in Props, Untouched(D, q) PROVE q \in I <=> q \in T[m]
    <3>1. q # C[s].p /\ Untouched(C, q)
      BY <1>1, <1>2, <1>3, <2>1 DEF Untouched
    <3>2. q \in I <=> q \in S[m]
      BY <2>1, <3>1 DEF Calm, Agreed
    <3>3. QED
      BY <3>1, <3>2
  <2>2. QED
    BY <2>1 DEF Agreed
<1>8. QED
  BY <1>5, <1>6, <1>7 DEF Calm

\* A change has ended: the list shows its listing as the account has it, and others as before.
LEMMA EndCalm ==
    ASSUME NEW C, NEW D, NEW S, NEW I, NEW J, NEW m, Calm(C, S, I, m),
           NEW s \in Calls, Ended(D, C, s), FavCall(C[s]),
           \A q : q \in J <=> IF q = C[s].p THEN q \in S[m] ELSE q \in I
    PROVE  Calm(D, S, J, m)
<1>1. Busy(D) = Busy(C) \ {s} /\ s \in Busy(C) /\ \A t \in Busy(D) : D[t] = C[t] /\ t \in Busy(C) /\ t # s
  BY NoCallIsCall DEF Ended, OtherCallsKeep, Busy
<1>2. \A t \in Busy(C) : FavCall(C[t]) /\ C[t].who = m /\ (t # s => C[t].p # C[s].p)
  BY <1>1 DEF Calm, Orderly, FavCall, AuthCall
<1>3. Orderly(D, m)
  BY <1>1, <1>2 DEF Calm, Orderly
<1>4. ASSUME NEW t \in Busy(D) PROVE Shown(D[t], S, J, m)
  <2>1. Shown(C[t], S, I, m) /\ D[t] = C[t] /\ C[t].p # C[s].p
    BY <1>1, <1>2 DEF Calm
  <2>2. C[t].p \in J <=> C[t].p \in I
    BY <2>1
  <2>3. QED
    BY <2>1, <2>2 DEF Shown
<1>5. Agreed(D, S, J, m)
  <2>1. ASSUME m # NoOne, NEW q \in Props, Untouched(D, q), q # C[s].p PROVE q \in J <=> q \in S[m]
    <3>1. Untouched(C, q)
      BY <1>1, <2>1 DEF Untouched
    <3>2. q \in I <=> q \in S[m]
      BY <2>1, <3>1 DEF Calm, Agreed
    <3>3. QED
      BY <2>1, <3>2
  <2>2. QED
    BY <2>1 DEF Agreed
<1>6. QED
  BY <1>3, <1>4, <1>5 DEF Calm

LEMMA CalmBegins == WebInit => CalmInv
<1>1. WebInit => Busy(call) = {}
  BY NoCallIsCall DEF WebInit, Busy
<1>2. QED
  BY <1>1, NothingCalm DEF WebInit, CalmInv

LEMMA CalmStep ==
    CalmInv /\ AloneInv /\ WebTypes /\ WebTypes' /\ [WebNext]_webVars => CalmInv'
<1>1. SUFFICES ASSUME CalmInv, AloneInv, WebTypes, WebTypes', [WebNext]_webVars, ~stirred'
               PROVE  Calm(call', saved', ids', me')
  BY DEF CalmInv, Calm, Orderly, Agreed, Shown, Untouched, Busy
<1>2. Calling(call) /\ Calling(call') /\ saved \in [People -> SUBSET Props] /\ ids \in SUBSET Props
      /\ me \in People \cup {NoOne}
  BY <1>1, TypeParts DEF WebTypes
<1>c. ~stirred => Calm(call, saved, ids, me)
  BY <1>1 DEF CalmInv
<1>k. ASSUME UNCHANGED <<saved, ids, me, stirred>>, Stay(call', call) \/ Apart(call', call)
      PROVE  Calm(call', saved', ids', me')
  <2>1. Calm(call, saved, ids, me)
    BY <1>1, <1>c, <1>k
  <2>2. Busy(call') = Busy(call) /\ \A s \in Busy(call) : Alike(call'[s], call[s])
    BY <1>k DEF Stay, Apart, Busy, Alike
  <2>3. \A s \in Busy(call) : FavCall(call[s]) => call[s].who = me
    BY <2>1 DEF Calm, Orderly, FavCall, AuthCall
  <2>4. \A s \in Busy(call) :
          /\ call'[s].kind = call[s].kind /\ call'[s].p = call[s].p
          /\ FavCall(call[s]) => /\ call'[s].who = me
                                 /\ call'[s].at = "served" <=> call[s].at = "served"
    BY <2>2, <2>3 DEF Alike, Later
  <2>5. QED
    BY <1>k, <2>1, <2>2, <2>4, StillCalm
<1>m. ASSUME UNCHANGED <<saved, ids, me, stirred>>, NEW s \in Calls, NEW a, Moved(call', call, s, a),
             a # "served", call[s].at # "served"
      PROVE  Calm(call', saved', ids', me')
  <2>1. Calm(call, saved, ids, me)
    BY <1>1, <1>c, <1>m
  <2>2. Busy(call') = Busy(call)
    BY <1>m DEF Moved, OtherCallsKeep, Busy
  <2>3. \A t \in Busy(call) : FavCall(call[t]) => call[t].who = me
    BY <2>1 DEF Calm, Orderly, FavCall, AuthCall
  <2>4. \A t \in Busy(call) :
          /\ call'[t].kind = call[t].kind /\ call'[t].p = call[t].p
          /\ FavCall(call[t]) => /\ call'[t].who = me
                                 /\ call'[t].at = "served" <=> call[t].at = "served"
    BY <1>m, <2>3 DEF Moved, OtherCallsKeep, Later, Busy
  <2>5. QED
    BY <1>m, <2>1, <2>2, <2>4, StillCalm
<1>3. ASSUME NEW p \in Props, Toggle(p)
      PROVE  Calm(call', saved', ids', me')
  <2>0. /\ ids' = (IF p \in ids THEN ids \ {p} ELSE ids \cup {p})
        /\ UNCHANGED <<saved, me>>
    BY <1>3 DEF Toggle
  <2>1. CASE me = NoOne /\ call' = Crossed(call) /\ stirred' = (stirred \/ Pending # {})
    <3>1. Busy(call') = {}
      BY <1>1, <1>2, <2>1, CrossedCalls DEF Apart, Alike, Busy, Pending
    <3>2. QED
      BY <2>0, <2>1, <3>1, NothingCalm
  <2>2. ASSUME me # NoOne, NEW s \in Calls, NEW kind,
               kind = (IF p \in ids THEN "remove" ELSE "add"), Start(s, Change(p, kind))
        PROVE  Calm(call', saved', ids', me')
    <3>1. PICK c : c = Change(p, kind)
      OBVIOUS
    <3>2. c \in WebCall /\ c.kind = kind /\ c.p = p /\ c.who = me /\ c.old = ids /\ c.todo = {}
      BY <1>1, <2>2, <3>1, TypeParts, NewWebCalls
    <3>3. Started(call', call, s, c) /\ FavCall(c)
      BY <1>1, <1>2, <2>2, <3>1, <3>2, StartedCalls DEF FavCall
    <3>4. ~stirred /\ ~InTheWay(c)
      BY <1>1, <2>2, <3>1 DEF Start
    <3>5. \A t \in Busy(call) : FavCall(call[t]) /\ call[t].p # p
      BY <3>2, <3>4 DEF InTheWay, Busy, Pending
    <3>6. QED
      BY <1>2, <1>c, <2>0, <2>2, <3>2, <3>3, <3>4, <3>5, ChangeCalm
  <2>3. QED
    BY <1>3, <2>1, <2>2 DEF Toggle
<1>4. ASSUME NEW who \in People, NEW p \in Props, Elsewhere(who, p)
      PROVE  Calm(call', saved', ids', me')
  BY <1>1, <1>4 DEF Elsewhere
<1>5. ASSUME NEW s \in Calls, NEW c \in WebCall, Start(s, c), AuthCall(c), c.who \in People, c.todo = {},
             UNCHANGED <<saved, ids, me>>
      PROVE  Calm(call', saved', ids', me')
  <2>1. Started(call', call, s, c)
    BY <1>2, <1>5, StartedCalls DEF AuthCall, FavCall
  <2>2. ~stirred /\ Busy(call) = {}
    BY <1>1, <1>5 DEF Start, InTheWay, Busy, Pending, AuthCall, FavCall
  <2>3. QED
    BY <1>5, <1>c, <2>1, <2>2, AuthCalm
<1>6. ASSUME NEW who \in People, LogIn(who)
      PROVE  Calm(call', saved', ids', me')
  <2>1. PICK s \in Calls : Start(s, LoggingIn(who)) /\ UNCHANGED <<saved, ids, me>>
    BY <1>6 DEF LogIn, LoggingIn
  <2>2. QED
    BY <1>1, <1>5, <2>1, TypeParts, NewWebCalls DEF AuthCall
<1>7. ASSUME LogOut PROVE Calm(call', saved', ids', me')
  <2>1. PICK s \in Calls : Start(s, LoggingOut) /\ UNCHANGED <<saved, ids, me>>
    BY <1>7 DEF LogOut, LoggingOut
  <2>2. me \in People
    BY <1>2, <1>7 DEF LogOut
  <2>3. QED
    BY <1>1, <1>5, <2>1, <2>2, TypeParts, NewWebCalls DEF AuthCall
<1>8. ASSUME Reload PROVE Calm(call', saved', ids', me')
  BY <1>1, <1>8 DEF Reload
<1>9. ASSUME ExpireTokens PROVE Calm(call', saved', ids', me')
  <2>1. ASSUME NEW s \in Calls
        PROVE  Alike(call'[s], call[s]) /\ (call'[s].alone => call[s].alone)
    <3>1. call'[s] = [call[s] EXCEPT !.good = FALSE]
      BY <1>9 DEF ExpireTokens
    <3>2. QED
      BY <1>2, <3>1, CallingParts, ExpiredCall
  <2>2. Stay(call', call)
    BY <2>1 DEF Stay
  <2>3. QED
    BY <1>9, <1>k, <2>2 DEF ExpireTokens
<1>10. ASSUME ServeRefresh PROVE Calm(call', saved', ids', me')
  BY <1>1, <1>10, <1>c DEF ServeRefresh
<1>11. ASSUME ApplyRefresh PROVE Calm(call', saved', ids', me')
  <2>1. \A s \in Calls : Taken(call'[s], call[s], refresh.who)
    BY <1>1, <1>2, <1>11, TypeParts, ResumedCalls
  <2>2. ~stirred /\ me' = me /\ me' = refresh.who /\ UNCHANGED <<saved, ids>>
    BY <1>1, <1>11 DEF ApplyRefresh
  <2>3. Calm(call, saved, ids, me)
    BY <1>c, <2>2
  <2>4. Busy(call') = Busy(call)
    BY <2>1 DEF Taken, Busy
  <2>5. \A t \in Busy(call) : FavCall(call[t]) => call[t].who = me /\ call[t].kind # "login"
    BY <2>3 DEF Calm, Orderly, FavCall, AuthCall
  <2>6. \A t \in Busy(call) :
          /\ call'[t].kind = call[t].kind /\ call'[t].p = call[t].p
          /\ FavCall(call[t]) => /\ call'[t].who = me
                                 /\ call'[t].at = "served" <=> call[t].at = "served"
    BY <2>1, <2>2, <2>5 DEF Taken, Later, Busy
  <2>7. QED
    BY <2>2, <2>3, <2>4, <2>6, StillCalm
<1>12. ASSUME NEW s \in Calls, Serve(s) PROVE Calm(call', saved', ids', me')
  <2>1. ~stirred /\ UNCHANGED <<me, ids>> /\ call[s].at = "sent"
    BY <1>1, <1>12 DEF Serve
  <2>2. Calm(call, saved, ids, me) /\ s \in Busy(call)
    BY <1>c, <2>1 DEF Busy
  <2>3. (FavCall(call[s]) /\ call[s].who = me) \/ (AuthCall(call[s]) /\ Busy(call) = {s})
    BY <2>2 DEF Calm, Orderly
  <2>4. Moved(call', call, s, "served")
    BY <1>1, <1>2, <1>12, <2>3, ServedCalls DEF FavCall, AuthCall
  <2>5. CASE AuthCall(call[s]) /\ Busy(call) = {s}
    <3>1. saved' = saved
      BY <1>12, <2>5 DEF Serve, AuthCall
    <3>2. Busy(call') = Busy(call) /\ call'[s].kind = call[s].kind /\ call'[s].p = call[s].p
      BY <2>4 DEF Moved, OtherCallsKeep, Busy, Later
    <3>3. ~FavCall(call[s])
      BY <2>5 DEF FavCall, AuthCall
    <3>4. \A t \in Busy(call) :
            /\ call'[t].kind = call[t].kind /\ call'[t].p = call[t].p
            /\ FavCall(call[t]) => /\ call'[t].who = me
                                   /\ call'[t].at = "served" <=> call[t].at = "served"
      BY <2>5, <3>2, <3>3
    <3>5. QED
      BY <2>1, <2>2, <3>1, <3>2, <3>4, StillCalm
  <2>6. CASE FavCall(call[s]) /\ call[s].who = me
    <3>1. me \in People
      BY <1>2, <2>1, <2>6, CallingParts DEF CallFits
    <3>2. \A q : q \in saved'[me] <=> IF q = call[s].p THEN call[s].kind = "add" ELSE q \in saved[me]
      <4>1. CASE call[s].kind = "add"
        <5>1. saved' = [saved EXCEPT ![me] = saved[me] \cup {call[s].p}]
          BY <1>12, <2>6, <4>1 DEF Serve
        <5>2. saved'[me] = saved[me] \cup {call[s].p}
          BY <1>2, <3>1, <5>1
        <5>3. QED
          BY <4>1, <5>2
      <4>2. CASE call[s].kind = "remove"
        <5>1. saved' = [saved EXCEPT ![me] = saved[me] \ {call[s].p}]
          BY <1>12, <2>6, <4>2 DEF Serve
        <5>2. saved'[me] = saved[me] \ {call[s].p}
          BY <1>2, <3>1, <5>1
        <5>3. QED
          BY <4>2, <5>2
      <4>3. QED
        BY <2>6, <4>1, <4>2 DEF FavCall
    <3>3. QED
      BY <2>1, <2>2, <2>4, <2>6, <3>2, ServeCalm
  <2>7. QED
    BY <2>3, <2>5, <2>6
<1>13. ASSUME NEW s \in Calls, Push(s) PROVE Calm(call', saved', ids', me')
  <2>1. call[s].at = "pushing" /\ call[s].kind = "sync"
    BY <1>2, <1>13, PushedCalls
  <2>2. ~stirred /\ s \in Busy(call)
    BY <1>1, <1>13, <2>1 DEF Push, Busy
  <2>3. QED
    BY <1>c, <2>1, <2>2 DEF Calm, Orderly, FavCall, AuthCall
<1>14. ASSUME NEW s \in Calls, Deny(s) PROVE Calm(call', saved', ids', me')
  <2>1. PICK a \in {"failed", "denied"} : Moved(call', call, s, a)
    BY <1>2, <1>14, MovedCalls DEF Deny
  <2>2. UNCHANGED <<saved, ids, me, stirred>> /\ call[s].at # "served"
    BY <1>14 DEF Deny
  <2>3. QED
    BY <1>m, <2>1, <2>2
<1>15. ASSUME NEW s \in Calls, Break(s) PROVE Calm(call', saved', ids', me')
  <2>1. Moved(call', call, s, "failed")
    BY <1>2, <1>15, MovedCalls DEF Break
  <2>2. UNCHANGED <<saved, ids, me, stirred>> /\ call[s].at # "served"
    BY <1>1, <1>15 DEF Break
  <2>3. QED
    BY <1>m, <2>1, <2>2
<1>16. ASSUME NEW s \in Calls, ReceiveChange(s) PROVE Calm(call', saved', ids', me')
  <2>1. /\ FavCall(call[s]) /\ call[s].at \in {"served", "failed"} /\ EndCall(s) /\ UNCHANGED <<saved, me>>
    BY <1>16 DEF ReceiveChange
  <2>f. /\ ~stirred
        /\ call[s].at = "failed" => /\ ids' = RollBack(call[s])
                                    /\ call[s].kind = "remove" => ids = call[s].old \ {call[s].p}
    <3>1. CASE call[s].at = "served"
      BY <1>1, <1>16, <3>1 DEF ReceiveChange
    <3>2. CASE call[s].at = "failed"
      <4>1. stirred' = \/ stirred \/ me # call[s].who
                       \/ call[s].kind = "remove" /\ ids # call[s].old \ {call[s].p}
        BY <1>16, <3>2 DEF ReceiveChange
      <4>2. ids' = RollBack(call[s])
        BY <1>16, <3>2 DEF ReceiveChange
      <4>3. QED
        BY <1>1, <3>2, <4>1, <4>2
    <3>3. QED
      BY <2>1, <3>1, <3>2
  <2>2. Calm(call, saved, ids, me) /\ s \in Busy(call) /\ Ended(call', call, s)
    BY <1>2, <1>c, <2>1, <2>f, EndedCalls DEF Busy
  <2>3. /\ call[s].kind = "add" <=> call[s].p \in ids
        /\ call[s].at = "served" <=> (call[s].p \in ids <=> call[s].p \in saved[me])
    BY <2>1, <2>2 DEF Calm, Shown
  <2>4. \A q : q \in ids' <=> IF q = call[s].p THEN q \in saved[me] ELSE q \in ids
    <3>1. CASE call[s].at = "served"
      <4>1. ids' = ids
        BY <1>16, <3>1 DEF ReceiveChange
      <4>2. QED
        BY <2>3, <3>1, <4>1
    <3>2. CASE call[s].at = "failed"
      <4>1. ids' = RollBack(call[s]) /\ (call[s].kind = "remove" => ids = call[s].old \ {call[s].p})
        BY <2>f, <3>2
      <4>2. CASE call[s].kind = "add"
        <5>1. ids' = ids \ {call[s].p} /\ call[s].p \notin saved[me]
          BY <2>3, <3>2, <4>1, <4>2 DEF RollBack
        <5>2. QED
          BY <5>1
      <4>3. CASE call[s].kind = "remove"
        <5>1. ids' = call[s].old /\ ids = call[s].old \ {call[s].p} /\ call[s].p \in saved[me]
          BY <2>3, <3>2, <4>1, <4>3 DEF RollBack
        <5>2. call[s].p \in call[s].old
          BY <1>2, <2>1, <4>3, CallingParts DEF CallFits
        <5>3. QED
          BY <5>1, <5>2
      <4>4. QED
        BY <2>1, <4>2, <4>3 DEF FavCall
    <3>3. QED
      BY <2>1, <3>1, <3>2
  <2>5. QED
    BY <2>1, <2>2, <2>4, EndCalm
<1>17. ASSUME NEW s \in Calls, ReceiveSync(s) PROVE Calm(call', saved', ids', me')
  <2>1. /\ call[s].kind = "sync" /\ call[s].at = "served" /\ EndCall(s) /\ UNCHANGED <<saved, me>>
        /\ ids' = call[s].found \cup call[s].old /\ call[s].alone /\ me = call[s].who
    BY <1>1, <1>17 DEF ReceiveSync
  <2>2. Ended(call', call, s) /\ call[s].todo = {}
    BY <1>2, <2>1, EndedCalls, CallingParts DEF CallFits
  <2>3. s \in Busy(call) /\ Busy(call) = {s}
    BY <1>1, <2>1 DEF AloneInv, Lonely, Busy
  <2>4. Busy(call') = {}
    BY <2>2, <2>3, NoCallIsCall DEF Ended, OtherCallsKeep, Busy
  <2>5. ids' = saved'[me']
    BY <1>1, <2>1, <2>2, <2>3 DEF AloneInv, Synced
  <2>6. QED
    BY <2>4, <2>5, NothingCalm
<1>18. ASSUME NEW s \in Calls, ReceiveLogIn(s) PROVE Calm(call', saved', ids', me')
  <2>1. /\ call[s].kind = "login" /\ call[s].at = "failed" /\ EndCall(s)
        /\ UNCHANGED <<saved, ids, me, stirred>>
    BY <1>1, <1>18 DEF ReceiveLogIn
  <2>2. Calm(call, saved, ids, me) /\ s \in Busy(call) /\ Ended(call', call, s)
    BY <1>1, <1>2, <1>c, <2>1, EndedCalls DEF Busy
  <2>3. Busy(call) = {s} /\ ~FavCall(call[s])
    BY <2>1, <2>2 DEF Calm, Orderly, FavCall
  <2>4. Busy(call') = {}
    BY <2>2, <2>3, NoCallIsCall DEF Ended, OtherCallsKeep, Busy
  <2>5. \A p : Untouched(call, p)
    BY <2>3 DEF Untouched
  <2>6. QED
    BY <2>1, <2>2, <2>4, <2>5, NothingCalm DEF Calm, Agreed
<1>19. ASSUME NEW s \in Calls, ReceiveLogOut(s) PROVE Calm(call', saved', ids', me')
  BY <1>1, <1>19 DEF ReceiveLogOut
<1>20. CASE UNCHANGED webVars
  BY <1>1, <1>20, <1>c DEF webVars
<1>21. QED
  BY <1>1, <1>3, <1>4, <1>6, <1>7, <1>8, <1>9, <1>10, <1>11, <1>12, <1>13, <1>14, <1>15, <1>16,
     <1>17, <1>18, <1>19, <1>20 DEF WebNext

\* When every call is answered the favourites shown are the account's (the optimistic
\* add and remove and their roll-back, sync), unless the list was stirred.
THEOREM FavouritesComeTogether == WebSpec => []FavouritesSettle
<1>1. WebInit => CalmInv /\ AloneInv /\ WebTypes
  BY CalmBegins, AloneBegins, TypesBegin
<1>2. CalmInv /\ AloneInv /\ WebTypes /\ [WebNext]_webVars => (CalmInv /\ AloneInv /\ WebTypes)'
  BY CalmStep, AloneStep, WebTypesStep
<1>3. CalmInv /\ WebTypes => FavouritesSettle
  <2>1. SUFFICES ASSUME CalmInv, WebTypes, Pending = {}, me # NoOne, ~stirred
                 PROVE  ids = saved[me]
    BY DEF FavouritesSettle
  <2>2. \A p : Untouched(call, p)
    BY <2>1 DEF Untouched, Busy, Pending
  <2>3. \A p \in Props : p \in ids <=> p \in saved[me]
    BY <2>1, <2>2 DEF CalmInv, Calm, Agreed
  <2>4. me \in People /\ saved \in [People -> SUBSET Props] /\ ids \in SUBSET Props
    BY <2>1, TypeParts
  <2>5. saved[me] \in SUBSET Props
    BY <2>4
  <2>6. QED
    BY <2>3, <2>4, <2>5
<1>4. QED
  BY <1>1, <1>2, <1>3, PTL DEF WebSpec

-----------------------------------------------------------------------------
\* ChatWidget: the panel shows what is under way, what has come, and nothing of an old chat.

HIDE WebAssumption
USE WidgetAssumption

-----------------------------------------------------------------------------
(* Streams and messages *)

LEMMA UnsentStream == Unsent \in Stream /\ Unsent.at = "unsent" /\ Unsent.thread = NoThread
BY DEF Unsent, Stream, NoThread

\* A stream goes on, or its panel goes: its thread and its pieces stay.
On(s, x)   == [s EXCEPT !.at = x]
Left(s, x) == [s EXCEPT !.here = FALSE, !.at = x]
States     == {"unsent", "asked", "answering", "closing", "aborted", "over"}

LEMMA StreamGoesOn ==
    ASSUME NEW s \in Stream, NEW x \in States
    PROVE  /\ On(s, x) \in Stream /\ On(s, x).at = x /\ On(s, x).here = s.here
           /\ On(s, x).thread = s.thread /\ On(s, x).pieces = s.pieces
BY DEF Stream, On, States

LEMMA StreamIsLeft ==
    ASSUME NEW s \in Stream, NEW x \in States
    PROVE  /\ Left(s, x) \in Stream /\ Left(s, x).at = x /\ ~Left(s, x).here
           /\ Left(s, x).thread = s.thread /\ Left(s, x).pieces = s.pieces
BY DEF Stream, Left, States

StreamsTyped  == send \in [Questions -> Stream]
MessagesTyped == DOMAIN messages \subseteq Questions /\ messages \in [DOMAIN messages -> Message]

WidgetTypes ==
    /\ StreamsTyped /\ MessagesTyped
    /\ rows \in [Questions -> StoredTurn]
    /\ loads \subseteq Load
    /\ threadId \in Threads \cup {NoThread} /\ cleared \in 0..MaxQuestions
    /\ abortRef \in Questions \cup {NoQuestion}
    /\ {isStreaming, activeTool, isOpen, haunted} \subseteq BOOLEAN
    /\ done \subseteq Questions /\ overrun \subseteq Questions

\* Questions are asked one after the other, and no thread goes by a later one.
FirstAsked(n) == Begun = 1..n /\ cleared <= n /\ threadId <= n

Numbered ==
    /\ \E n \in 0..MaxQuestions : FirstAsked(n)
    /\ \A a \in Questions : /\ send[a].at = "unsent" => send[a].thread = NoThread
                            /\ send[a].thread <= a /\ rows[a].thread <= a

\* Whoever shows as under way is.
Held ==
    /\ abortRef # NoQuestion => abortRef \in Listening /\ send[abortRef].here
    /\ isStreaming => Underway # {}
    /\ activeTool => \E a \in Underway : send[a].here

\* An answer that is still to come or has come is on the screen as far as it has come, or
\* whole, unless a transcript was put over it.
AsFar ==
    /\ \A a \in DOMAIN messages : messages[a].ours => messages[a].text = send[a].pieces
    /\ \A a \in done : send[a].at # "unsent" /\ send[a].pieces = Pieces
    /\ \A l \in loads : l.whole \subseteq l.shows

OnScreen(a) == a \in overrun \/ (a \in DOMAIN messages /\ (messages[a].ours \/ messages[a].text = Pieces))
Landing ==
    \A a \in Questions :
        a > cleared /\ (a \in done \/ send[a].at \in {"asked", "answering"}) => OnScreen(a)

\* After a new chat that left nothing behind, whatever is to come is of it.
New(t) == t > cleared
NewThreads ==
    /\ \A a \in Listening \cup DOMAIN messages : New(a)
    /\ \A a \in Questions : New(a) => send[a].thread = NoThread \/ New(send[a].thread)
    /\ threadId # NoThread => New(threadId) /\ \E a \in Questions : New(a) /\ send[a].thread = threadId
    /\ \A l \in loads : New(l.thread) /\ \A a \in l.shows : New(a)
NewInv == ~haunted => NewThreads

WidgetInv == WidgetTypes /\ Numbered /\ Held /\ AsFar /\ Landing /\ NewInv

-----------------------------------------------------------------------------
(* What a step does to the streams *)

\* The streams S are the streams R, of which some may have ended.
Faded(S, R) ==
    /\ S \in [Questions -> Stream]
    /\ \A a \in Questions :
          /\ S[a].thread = R[a].thread /\ S[a].pieces = R[a].pieces
          /\ \/ S[a].at = R[a].at
             \/ R[a].at # "unsent" /\ S[a].at \in {"aborted", "over"}
             \/ R[a].at \in {"asked", "answering"} /\ S[a].at = "closing"

Rest(S, R, a) == \A b \in Questions \ {a} : S[b] = R[b]

LEMMA StoppedStreams ==
    ASSUME WidgetTypes, Held
    PROVE  /\ Faded(Stopped, send)
           /\ \A a \in Questions : /\ Stopped[a].here = send[a].here
                                   /\ Stopped[a].at = IF a = abortRef THEN "aborted" ELSE send[a].at
<1>2. ASSUME NEW a \in Questions
      PROVE  /\ Stopped[a] \in Stream /\ Stopped[a].thread = send[a].thread /\ Stopped[a].pieces = send[a].pieces
             /\ Stopped[a].here = send[a].here
             /\ Stopped[a].at = IF a = abortRef THEN "aborted" ELSE send[a].at
  <2>1. PICK x : x = IF a = abortRef THEN "aborted" ELSE send[a].at
    OBVIOUS
  <2>2. send[a] \in Stream
    BY DEF WidgetTypes, StreamsTyped
  <2>3. x \in States
    BY <2>1, <2>2 DEF Stream, States
  <2>4. Stopped[a] = On(send[a], x)
    BY <2>1, <2>2 DEF Stopped, On, Stream
  <2>5. QED
    BY <2>1, <2>2, <2>3, <2>4, StreamGoesOn
<1>3. abortRef \in Questions => send[abortRef].at # "unsent"
  BY DEF Held, Listening, NoQuestion, Questions
<1>4. Stopped \in [Questions -> Stream]
  <2>1. Stopped = [a \in Questions |-> Stopped[a]]
    BY DEF Stopped
  <2>2. QED
    BY <1>2, <2>1
<1>5. QED
  BY <1>2, <1>3, <1>4 DEF Faded

LEMMA MovedStream ==
    ASSUME WidgetTypes, NEW a \in Questions, send[a].at # "unsent",
           NEW x, x = "over" \/ (x = "closing" /\ send[a].at \in {"asked", "answering"}),
           StreamMoved(a, x)
    PROVE  Faded(send', send) /\ Rest(send', send, a) /\ send'[a].at = x /\ send'[a].here = send[a].here
<1>1. PICK d : d = On(send[a], x)
  OBVIOUS
<1>2. send' = [send EXCEPT ![a] = d] /\ send[a] \in Stream
  BY <1>1 DEF StreamMoved, On, WidgetTypes, StreamsTyped
<1>3. x \in States
  BY DEF States
<1>4. /\ d \in Stream /\ d.at = x /\ d.here = send[a].here
      /\ d.thread = send[a].thread /\ d.pieces = send[a].pieces
  BY <1>1, <1>2, <1>3, StreamGoesOn
<1>5. QED
  BY <1>2, <1>4 DEF Faded, Rest, WidgetTypes, StreamsTyped

\* The panel goes, or the page is loaded again.
LeftBy(S, Fallen, x) ==
    S = [a \in Questions |-> [send[a] EXCEPT !.here = FALSE, !.at = IF a \in Fallen THEN x ELSE @]]

LEMMA LeftStreams ==
    ASSUME WidgetTypes, NEW S, NEW Fallen, NEW x \in {"aborted", "over"},
           \A a \in Questions : a \in Fallen => send[a].at # "unsent",
           LeftBy(S, Fallen, x)
    PROVE  /\ Faded(S, send)
           /\ \A a \in Questions : ~S[a].here /\ S[a].at = IF a \in Fallen THEN x ELSE send[a].at
<1>1. ASSUME NEW a \in Questions
      PROVE  /\ S[a] \in Stream /\ S[a].thread = send[a].thread /\ S[a].pieces = send[a].pieces
             /\ ~S[a].here /\ S[a].at = IF a \in Fallen THEN x ELSE send[a].at
  <2>1. PICK y : y = IF a \in Fallen THEN x ELSE send[a].at
    OBVIOUS
  <2>2. send[a] \in Stream
    BY DEF WidgetTypes, StreamsTyped
  <2>3. y \in States
    BY <2>1, <2>2 DEF Stream, States
  <2>4. S[a] = Left(send[a], y)
    BY <2>1, <2>2 DEF LeftBy, Left, Stream
  <2>5. /\ Left(send[a], y) \in Stream /\ Left(send[a], y).at = y /\ ~Left(send[a], y).here
        /\ Left(send[a], y).thread = send[a].thread /\ Left(send[a], y).pieces = send[a].pieces
    BY <2>2, <2>3, StreamIsLeft
  <2>6. S[a] \in Stream /\ S[a].thread = send[a].thread /\ S[a].pieces = send[a].pieces
    BY <2>4, <2>5
  <2>7. ~S[a].here
    BY <2>4, <2>5, Zenon
  <2>8. S[a].at = IF a \in Fallen THEN x ELSE send[a].at
    BY <2>1, <2>4, <2>5
  <2>9. QED
    BY <2>6, <2>7, <2>8
<1>2. S \in [Questions -> Stream]
  <2>1. S = [a \in Questions |-> S[a]]
    BY DEF LeftBy
  <2>2. QED
    BY <1>1, <2>1
<1>3. QED
  BY <1>1, <1>2 DEF Faded

\* Streams that have only ended are numbered as before.
LEMMA FadedNumbers ==
    ASSUME Numbered, Faded(send', send), UNCHANGED rows,
           cleared' = cleared, threadId' \in {threadId, NoThread}
    PROVE  Numbered'
<1>1. Begun' = Begun
  BY DEF Begun, Faded
<1>2. PICK n \in 0..MaxQuestions : FirstAsked(n)
  BY DEF Numbered
<1>3. FirstAsked(n)'
  BY <1>1, <1>2 DEF FirstAsked, NoThread
<1>4. QED
  BY <1>3 DEF Numbered, Faded

\* What is shown stays, as far as it has come.
SameMessages ==
    /\ MessagesTyped' /\ DOMAIN messages' = DOMAIN messages
    /\ \A b \in DOMAIN messages : /\ messages'[b].text = messages[b].text
                                  /\ messages'[b].ours = messages[b].ours

LEMMA UntouchedMessages == WidgetTypes /\ UNCHANGED messages => SameMessages
BY DEF WidgetTypes, MessagesTyped, SameMessages

LEMMA FinishedMessage ==
    ASSUME WidgetTypes, NEW a \in Questions, FinishMessage(a)
    PROVE  SameMessages /\ ~isStreaming'
<1>1. CASE ~Ours(a)
  BY <1>1, UntouchedMessages DEF FinishMessage
<1>2. CASE Ours(a)
  <2>1. PICK d : d = [messages[a] EXCEPT !.typing = FALSE]
    OBVIOUS
  <2>2. messages[a] \in Message /\ a \in DOMAIN messages
    BY <1>2 DEF Ours, WidgetTypes, MessagesTyped
  <2>3. d \in Message /\ d.text = messages[a].text /\ d.ours = messages[a].ours
    BY <2>1, <2>2 DEF Message
  <2>4. messages' = [messages EXCEPT ![a] = d]
    BY <1>2, <2>1 DEF FinishMessage
  <2>5. DOMAIN messages' = DOMAIN messages
    BY <2>4
  <2>6. \A b \in DOMAIN messages : messages'[b] = IF b = a THEN d ELSE messages[b]
    BY <2>4
  <2>7. messages' \in [DOMAIN messages' -> Message]
    BY <2>2, <2>3, <2>4, <2>5 DEF WidgetTypes, MessagesTyped
  <2>8. QED
    BY <2>3, <2>5, <2>6, <2>7 DEF SameMessages, WidgetTypes, MessagesTyped, FinishMessage
<1>3. QED
  BY <1>1, <1>2

LEMMA LooksAtThread ==
    ASSUME NEW t \in Threads \cup {NoThread}, NEW D, NEW l \in Looks(t, D)
    PROVE  /\ l \in Load /\ l.thread = t /\ t # NoThread /\ ~l.read
           /\ l.shows = {} /\ l.whole = {}
<1>1. l = [thread |-> t, read |-> FALSE, shows |-> {}, whole |-> {}] /\ t # NoThread
  BY DEF Looks
<1>2. QED
  BY <1>1 DEF Load

LEMMA FadedTexts ==
    ASSUME WidgetTypes, AsFar, Faded(send', send), SameMessages, done' = done,
           \A l \in loads' : l.whole \subseteq l.shows
    PROVE  AsFar'
<1>1. \A a \in DOMAIN messages' : messages'[a].ours => messages'[a].text = send'[a].pieces
  BY DEF AsFar, Faded, SameMessages, MessagesTyped
<1>2. \A a \in done' : a \in Questions => send'[a].at # "unsent" /\ send'[a].pieces = Pieces
  BY DEF AsFar, Faded
<1>3. QED
  BY <1>1, <1>2 DEF AsFar, WidgetTypes

LEMMA FadedLands ==
    ASSUME Landing, Faded(send', send), SameMessages, done' = done,
           cleared' = cleared, overrun' = overrun
    PROVE  Landing'
<1>1. \A a \in Questions : OnScreen(a) => OnScreen(a)'
  BY DEF OnScreen, SameMessages
<1>2. \A a \in Questions : send'[a].at \in {"asked", "answering"} => send[a].at \in {"asked", "answering"}
  BY DEF Faded
<1>3. QED
  BY <1>1, <1>2 DEF Landing

LEMMA FadedIsNew ==
    ASSUME NewInv, Faded(send', send), DOMAIN messages' = DOMAIN messages,
           cleared' = cleared, haunted' = haunted, threadId' = threadId, loads' = loads
    PROVE  NewInv'
<1> SUFFICES ASSUME ~haunted'
             PROVE  NewThreads'
  BY DEF NewInv
<1>1. NewThreads
  BY DEF NewInv
<1>2. Listening' \subseteq Listening
  BY DEF Listening, Faded
<1>3. \A a \in Listening' \cup DOMAIN messages' : New(a)'
  BY <1>1, <1>2 DEF NewThreads, New
<1>4. \A a \in Questions : New(a) => send'[a].thread = NoThread \/ New(send'[a].thread)
  BY <1>1 DEF NewThreads, New, Faded
<1>5. threadId' # NoThread => New(threadId)' /\ \E a \in Questions : New(a)' /\ send'[a].thread = threadId'
  BY <1>1 DEF NewThreads, New, Faded
<1>6. \A l \in loads' : New(l.thread)' /\ \A a \in l.shows : New(a)'
  BY <1>1 DEF NewThreads, New
<1>7. QED
  BY <1>3, <1>4, <1>5, <1>6 DEF NewThreads, New

LEMMA MovedHolds ==
    ASSUME Held, NEW a \in Questions, Rest(send', send, a), send'[a].at = "closing",
           send[a].at \in {"asked", "answering"}, send'[a].here = send[a].here,
           ~isStreaming', UNCHANGED <<activeTool, abortRef>>
    PROVE  Held'
<1>1. Listening' = Listening /\ Underway' = Underway
  BY DEF Listening, Underway, Rest
<1>2. \A b \in Questions : send'[b].here = send[b].here
  BY DEF Rest
<1>3. \A b \in Underway : b \in Questions
  BY DEF Underway, Listening
<1>4. QED
  BY <1>1, <1>2, <1>3 DEF Held, Listening

\* What the end of a stream clears is its own, or nobody's.
LEMMA EndedHolds ==
    ASSUME Held, NEW a \in Questions, Rest(send', send, a),
           ~isStreaming', activeTool' = (activeTool /\ ~send[a].here),
           abortRef' = IF send[a].here THEN NoQuestion ELSE abortRef
    PROVE  Held'
<1>1. Underway \ {a} \subseteq Underway' /\ Listening \ {a} \subseteq Listening'
  BY DEF Listening, Underway, Rest
<1>2. abortRef' # NoQuestion => abortRef' \in Listening' /\ send'[abortRef'].here
  <2>1. SUFFICES ASSUME abortRef' # NoQuestion
                 PROVE  abortRef' \in Listening' /\ send'[abortRef'].here
    OBVIOUS
  <2>2. ~send[a].here /\ abortRef' = abortRef
    BY <2>1
  <2>3. abortRef \in Listening /\ send[abortRef].here /\ abortRef # a
    BY <2>1, <2>2 DEF Held
  <2>4. QED
    BY <1>1, <2>2, <2>3 DEF Rest, Listening
<1>3. activeTool' => \E b \in Underway' : send'[b].here
  <2>1. SUFFICES ASSUME activeTool'
                 PROVE  \E b \in Underway' : send'[b].here
    OBVIOUS
  <2>2. activeTool /\ ~send[a].here
    BY <2>1
  <2>3. PICK b \in Underway : send[b].here
    BY <2>2 DEF Held
  <2>4. b # a /\ b \in Questions
    BY <2>2, <2>3 DEF Underway, Listening
  <2>5. QED
    BY <1>1, <2>3, <2>4 DEF Rest
<1>4. QED
  BY <1>2, <1>3 DEF Held

-----------------------------------------------------------------------------
(* What the visitor does *)

LEMMA PanelOpens == WidgetInv /\ OpenPanel => WidgetInv'
<1> SUFFICES ASSUME WidgetInv, OpenPanel
             PROVE  WidgetInv'
  OBVIOUS
<1> USE DEF WidgetInv
<1>1. \A l \in loads' : l \in loads \/ l \in Looks(threadId, DOMAIN messages)
  BY DEF OpenPanel
<1>2. threadId \in Threads \cup {NoThread}
  BY DEF WidgetTypes
<1>3. \A l \in Looks(threadId, DOMAIN messages) :
         l \in Load /\ l.thread = threadId /\ threadId # NoThread /\ l.shows = {} /\ l.whole = {}
  BY <1>2, LooksAtThread
<1>4. WidgetTypes'
  BY <1>1, <1>3 DEF OpenPanel, WidgetTypes, StreamsTyped, MessagesTyped, chatPastVars
<1>5. Numbered' /\ Held' /\ Landing'
  BY DEF OpenPanel, Numbered, FirstAsked, Begun, Held, Underway, Listening, Landing, OnScreen,
         chatPastVars
<1>6. AsFar'
  BY <1>1, <1>3 DEF OpenPanel, AsFar, chatPastVars
<1>7. NewInv'
  <2>1. SUFFICES ASSUME ~haunted
                 PROVE  NewThreads'
    BY DEF OpenPanel, chatPastVars, NewInv
  <2>2. NewThreads
    BY <2>1 DEF NewInv
  <2>3. \A l \in loads' : New(l.thread) /\ \A a \in l.shows : New(a)
    BY <1>1, <1>3, <2>2 DEF NewThreads
  <2>4. QED
    BY <2>2, <2>3 DEF NewThreads, New, OpenPanel, chatPastVars, Listening
<1>8. QED
  BY <1>4, <1>5, <1>6, <1>7

LEMMA PanelCloses == WidgetInv /\ ClosePanel => WidgetInv'
<1> SUFFICES ASSUME WidgetInv, ClosePanel
             PROVE  WidgetInv'
  OBVIOUS
<1> USE DEF WidgetInv
<1>1. PICK S : S = send'
  OBVIOUS
<1>2. PICK Fallen : Fallen = {a \in Questions : a = abortRef}
  OBVIOUS
<1>3. \A a \in Questions : a \in Fallen => send[a].at # "unsent"
  BY <1>2 DEF Held, Listening, NoQuestion, Questions
<1>4. LeftBy(S, Fallen, "aborted")
  BY <1>1, <1>2 DEF ClosePanel, LeftBy
<1>5. /\ Faded(send', send)
      /\ \A a \in Questions : ~send'[a].here /\ send'[a].at = IF a \in Fallen THEN "aborted" ELSE send[a].at
  BY <1>1, <1>3, <1>4, LeftStreams
<1>6. SameMessages
  BY UntouchedMessages DEF ClosePanel
<1>7. WidgetTypes'
  BY <1>5, <1>6 DEF ClosePanel, WidgetTypes, StreamsTyped, Faded, SameMessages, chatPastVars
<1>8. Numbered'
  BY <1>5, FadedNumbers DEF ClosePanel, chatPastVars
<1>9. Held'
  <2>1. Underway \subseteq Underway'
    BY <1>5 DEF Underway, Listening
  <2>2. QED
    BY <2>1 DEF ClosePanel, Held
<1>10. AsFar'
  BY <1>5, <1>6, FadedTexts DEF ClosePanel, AsFar, chatPastVars
<1>11. Landing'
  BY <1>5, <1>6, FadedLands DEF ClosePanel, chatPastVars
<1>12. NewInv'
  BY <1>5, FadedIsNew DEF ClosePanel, chatPastVars
<1>13. QED
  BY <1>7, <1>8, <1>9, <1>10, <1>11, <1>12

LEMMA AnswerStopped == WidgetInv /\ Stop => WidgetInv'
<1> SUFFICES ASSUME WidgetInv, Stop
             PROVE  WidgetInv'
  OBVIOUS
<1> USE DEF WidgetInv
<1>1. Faded(send', send)
  BY StoppedStreams DEF Stop
<1>2. SameMessages
  BY UntouchedMessages DEF Stop
<1>3. WidgetTypes'
  BY <1>1, <1>2 DEF Stop, WidgetTypes, StreamsTyped, Faded, SameMessages, chatPastVars
<1>4. Numbered'
  BY <1>1, FadedNumbers DEF Stop, chatPastVars
<1>5. Held'
  BY DEF Stop, Held
<1>6. AsFar'
  BY <1>1, <1>2, FadedTexts DEF Stop, AsFar, chatPastVars
<1>7. Landing'
  BY <1>1, <1>2, FadedLands DEF Stop, chatPastVars
<1>8. NewInv'
  BY <1>1, FadedIsNew DEF Stop, chatPastVars
<1>9. QED
  BY <1>3, <1>4, <1>5, <1>6, <1>7, <1>8

LEMMA ChatBegunAnew == WidgetInv /\ NewChat => WidgetInv'
<1> SUFFICES ASSUME WidgetInv, NewChat
             PROVE  WidgetInv'
  OBVIOUS
<1> USE DEF WidgetInv
<1>1. /\ Faded(send', send)
      /\ \A a \in Questions : send'[a].at = IF a = abortRef THEN "aborted" ELSE send[a].at
  BY StoppedStreams DEF NewChat
<1>2. DOMAIN messages' = {} /\ MessagesTyped'
  BY DEF NewChat, NoMessages, MessagesTyped
<1>3. PICK n \in 0..MaxQuestions : FirstAsked(n)
  BY DEF Numbered
<1>4. cleared' = n
  BY <1>3, FS_Interval DEF NewChat, FirstAsked
<1>5. Begun' = Begun
  BY <1>1 DEF Begun, Faded
<1>6. WidgetTypes'
  <2>1. haunted' \in BOOLEAN
    BY DEF NewChat
  <2>2. QED
    BY <1>1, <1>2, <1>4, <2>1 DEF NewChat, WidgetTypes, StreamsTyped, Faded, NoThread, NoQuestion
<1>7. Numbered'
  <2>1. FirstAsked(n)'
    BY <1>3, <1>4, <1>5 DEF NewChat, FirstAsked, NoThread
  <2>2. QED
    BY <1>1, <2>1 DEF Numbered, NewChat, Faded
<1>8. Held'
  BY DEF NewChat, Held
<1>9. \A a \in Questions : a > n => send[a].at = "unsent"
  BY <1>3 DEF FirstAsked, Begun, Questions
<1>10. AsFar'
  <2>1. \A a \in done' : send'[a].at # "unsent" /\ send'[a].pieces = Pieces
    BY <1>1 DEF AsFar, NewChat, Faded, WidgetTypes
  <2>2. QED
    BY <1>2, <2>1 DEF AsFar, NewChat
<1>11. Landing'
  <2>1. \A a \in Questions : a > n => a \notin done' /\ send'[a].at = "unsent"
    BY <1>1, <1>9 DEF AsFar, NewChat, Faded
  <2>2. QED
    BY <1>4, <2>1 DEF Landing
<1>12. NewInv'
  <2>1. SUFFICES ASSUME ~haunted'
                 PROVE  NewThreads'
    BY DEF NewInv
  <2>2. loads = {} /\ Listening \ {abortRef} = {}
    BY <2>1 DEF NewChat
  <2>3. Listening' = {}
    BY <1>1, <2>2 DEF Listening
  <2>4. \A a \in Questions : a > n => send'[a].thread = NoThread
    BY <1>1, <1>9 DEF Faded, Numbered
  <2>5. loads' = {} /\ threadId' = NoThread
    BY <2>2 DEF NewChat
  <2>6. QED
    BY <1>2, <1>4, <2>3, <2>4, <2>5 DEF NewThreads, New
<1>13. QED
  BY <1>6, <1>7, <1>8, <1>10, <1>11, <1>12

LEMMA PageLoaded == WidgetInv /\ LoadPage => WidgetInv'
<1> SUFFICES ASSUME WidgetInv, LoadPage
             PROVE  WidgetInv'
  OBVIOUS
<1> USE DEF WidgetInv
<1>1. PICK S : S = send'
  OBVIOUS
<1>2. PICK Fallen : Fallen = Underway
  OBVIOUS
<1>3. \A a \in Questions : a \in Fallen => send[a].at # "unsent"
  BY <1>2 DEF Underway, Listening
<1>4. LeftBy(S, Fallen, "over")
  BY <1>1, <1>2 DEF LoadPage, LeftBy
<1>5. /\ Faded(send', send)
      /\ \A a \in Questions : send'[a].at = IF a \in Underway THEN "over" ELSE send[a].at
  BY <1>1, <1>2, <1>3, <1>4, LeftStreams
<1>6. DOMAIN messages' = {} /\ MessagesTyped'
  BY DEF LoadPage, NoMessages, MessagesTyped
<1>7. \A a \in Questions : send'[a].at \notin {"asked", "answering", "closing"}
  BY <1>5 DEF Underway, Listening
<1>8. WidgetTypes'
  BY <1>5, <1>6 DEF LoadPage, WidgetTypes, StreamsTyped, Faded, NoQuestion
<1>9. Numbered'
  BY <1>5, FadedNumbers DEF LoadPage
<1>10. Held'
  BY DEF LoadPage, Held
<1>11. AsFar'
  BY <1>6 DEF LoadPage, AsFar
<1>12. Landing'
  BY <1>7 DEF LoadPage, Landing
<1>13. NewInv'
  <2>1. SUFFICES ASSUME ~haunted
                 PROVE  NewThreads'
    BY DEF LoadPage, NewInv
  <2>2. NewThreads
    BY <2>1 DEF NewInv
  <2>3. Listening' = {} /\ loads' = {}
    BY <1>7 DEF Listening, LoadPage
  <2>4. \A a \in Questions : send'[a].thread = send[a].thread
    BY <1>5 DEF Faded
  <2>5. QED
    BY <1>6, <2>2, <2>3, <2>4 DEF NewThreads, New, LoadPage
<1>14. QED
  BY <1>8, <1>9, <1>10, <1>11, <1>12, <1>13

LEMMA QuestionAsked == ASSUME WidgetInv, NEW a \in Questions, Ask(a) PROVE WidgetInv'
<1> USE DEF WidgetInv
<1>1. PICK d : d = [at |-> "asked", thread |-> threadId, here |-> TRUE, pieces |-> 0]
  OBVIOUS
<1>2. d \in Stream /\ d.at = "asked" /\ d.thread = threadId /\ d.here /\ d.pieces = 0
  BY <1>1 DEF WidgetTypes, Stream
<1>3. send' = [send EXCEPT ![a] = d]
  BY <1>1 DEF Ask
<1>4. send'[a] = d /\ Rest(send', send, a) /\ send' \in [Questions -> Stream]
  BY <1>2, <1>3 DEF WidgetTypes, StreamsTyped, Rest
<1>5. PICK m : m = [text |-> 0, typing |-> TRUE, ours |-> TRUE]
  OBVIOUS
<1>6. m \in Message /\ m.text = 0 /\ m.ours
  BY <1>5 DEF Message
<1>7. /\ DOMAIN messages' = DOMAIN messages \cup {a}
      /\ \A b \in DOMAIN messages' : messages'[b] = IF b = a THEN m ELSE messages[b]
  BY <1>5 DEF Ask
<1>8. MessagesTyped'
  <2>1. messages' = [b \in DOMAIN messages' |-> messages'[b]]
    BY DEF Ask
  <2>2. \A b \in DOMAIN messages' : messages'[b] \in Message
    BY <1>6, <1>7 DEF WidgetTypes, MessagesTyped
  <2>3. QED
    BY <1>7, <2>1, <2>2 DEF MessagesTyped, WidgetTypes
<1>9. PICK n \in 0..MaxQuestions : FirstAsked(n)
  BY DEF Numbered
<1>10. n = a - 1
  BY <1>9 DEF FirstAsked, Ask, Questions
<1>11. a > cleared /\ threadId <= a /\ send[a].at = "unsent" /\ send[a].thread = NoThread
  BY <1>9, <1>10 DEF FirstAsked, Begun, Questions, Numbered, WidgetTypes, NoThread, Threads
<1>12. WidgetTypes'
  BY <1>4, <1>8 DEF Ask, WidgetTypes, StreamsTyped, chatPastVars
<1>13. Numbered'
  <2>1. Begun' = Begun \cup {a}
    BY <1>2, <1>4 DEF Begun, Rest
  <2>2. FirstAsked(a)'
    BY <1>9, <1>10, <1>11, <2>1 DEF FirstAsked, Ask, chatPastVars, Questions, WidgetTypes, Threads, NoThread
  <2>3. QED
    BY <1>2, <1>4, <1>11, <2>2 DEF Numbered, Ask, Rest, Questions
<1>14. Held'
  <2>1. a \in Listening' /\ a \in Underway' /\ send'[a].here
    BY <1>2, <1>4 DEF Listening, Underway
  <2>2. \A b \in Underway : b \in Underway' /\ send'[b].here = send[b].here
    BY <1>4, <1>11 DEF Listening, Underway, Rest
  <2>3. QED
    BY <2>1, <2>2 DEF Held, Ask
<1>15. AsFar'
  <2>1. a \notin done /\ done \subseteq Questions
    BY <1>11 DEF AsFar, WidgetTypes
  <2>2. \A b \in done' : send'[b].at # "unsent" /\ send'[b].pieces = Pieces
    BY <1>4, <2>1 DEF AsFar, Rest, Ask, chatPastVars
  <2>3. \A b \in DOMAIN messages' : messages'[b].ours => messages'[b].text = send'[b].pieces
    BY <1>2, <1>4, <1>6, <1>7 DEF AsFar, Rest, WidgetTypes, MessagesTyped
  <2>4. QED
    BY <2>2, <2>3 DEF AsFar, Ask
<1>16. Landing'
  <2>1. OnScreen(a)'
    BY <1>6, <1>7 DEF OnScreen
  <2>2. \A b \in Questions \ {a} : OnScreen(b) => OnScreen(b)'
    BY <1>7 DEF OnScreen, Ask, chatPastVars
  <2>3. QED
    BY <1>4, <2>1, <2>2 DEF Landing, Rest, Ask, chatPastVars
<1>17. NewInv'
  <2>1. SUFFICES ASSUME ~haunted
                 PROVE  NewThreads'
    BY DEF Ask, chatPastVars, NewInv
  <2>2. NewThreads
    BY <2>1 DEF NewInv
  <2>3. \A b \in Listening' \cup DOMAIN messages' : New(b)'
    BY <1>4, <1>7, <1>11, <2>2 DEF NewThreads, New, Listening, Rest, Ask, chatPastVars
  <2>4. \A b \in Questions : New(b) => send'[b].thread = NoThread \/ New(send'[b].thread)
    BY <1>2, <1>4, <2>2 DEF NewThreads, Rest
  <2>5. threadId # NoThread => New(threadId) /\ \E b \in Questions : New(b) /\ send'[b].thread = threadId
    BY <1>4, <1>11, <2>2 DEF NewThreads, Rest
  <2>6. QED
    BY <2>2, <2>3, <2>4, <2>5 DEF NewThreads, New, Ask, chatPastVars
<1>18. QED
  BY <1>12, <1>13, <1>14, <1>15, <1>16, <1>17

-----------------------------------------------------------------------------
(* What comes of a question *)

LEMMA QuestionTaken == ASSUME WidgetInv, NEW a \in Questions, Accept(a) PROVE WidgetInv'
<1> USE DEF WidgetInv
<1>1. PICK t : t = IF send[a].thread = NoThread THEN a ELSE send[a].thread
  OBVIOUS
<1>2. send[a] \in Stream /\ send[a].at = "asked"
  BY DEF Accept, WidgetTypes, StreamsTyped
<1>3. /\ t \in Threads /\ t <= a
      /\ send[a].thread # NoThread => t = send[a].thread
      /\ send[a].thread = NoThread => t = a
  BY <1>1, <1>2 DEF Stream, Threads, Questions, Numbered
<1>4. PICK d : d = [[send[a] EXCEPT !.at = "answering"] EXCEPT !.thread = t]
  OBVIOUS
<1>5. d = [at |-> "answering", thread |-> t, here |-> send[a].here, pieces |-> send[a].pieces]
  BY <1>2, <1>4 DEF Stream
<1>6. /\ d \in Stream /\ d.at = "answering" /\ d.thread = t
      /\ d.here = send[a].here /\ d.pieces = send[a].pieces
  BY <1>2, <1>3, <1>5 DEF Stream
<1>7. send' = [send EXCEPT ![a] = d]
  BY <1>1, <1>4 DEF Accept, WidgetTypes, StreamsTyped
<1>8. send'[a] = d /\ Rest(send', send, a) /\ send' \in [Questions -> Stream]
  BY <1>6, <1>7 DEF WidgetTypes, StreamsTyped, Rest
<1>9. PICK r : r = [rows[a] EXCEPT !.thread = t]
  OBVIOUS
<1>10. r \in StoredTurn /\ r.thread = t
  BY <1>3, <1>9 DEF StoredTurn, WidgetTypes
<1>11. rows' = [rows EXCEPT ![a] = r]
  BY <1>1, <1>9 DEF Accept, WidgetTypes
<1>12. rows'[a] = r /\ Rest(rows', rows, a) /\ rows' \in [Questions -> StoredTurn]
  BY <1>10, <1>11 DEF WidgetTypes, Rest
<1>13. UNCHANGED messages /\ SameMessages
  BY UntouchedMessages DEF Accept, chatStoreVars
<1>14. WidgetTypes'
  BY <1>8, <1>12, <1>13 DEF Accept, WidgetTypes, StreamsTyped, SameMessages, chatStoreVars, chatPastVars
<1>15. Numbered'
  <2>1. Begun' = Begun
    BY <1>2, <1>6, <1>8 DEF Begun, Rest
  <2>2. PICK n \in 0..MaxQuestions : FirstAsked(n)
    BY DEF Numbered
  <2>3. FirstAsked(n)'
    BY <2>1, <2>2 DEF FirstAsked, Accept, chatStoreVars, chatPastVars
  <2>4. QED
    BY <1>3, <1>6, <1>8, <1>10, <1>12, <2>3 DEF Numbered, Rest
<1>16. Held'
  <2>1. Listening' = Listening /\ Underway' = Underway
    BY <1>2, <1>6, <1>8 DEF Listening, Underway, Rest
  <2>2. \A b \in Questions : send'[b].here = send[b].here
    BY <1>6, <1>8 DEF Rest
  <2>3. QED
    BY <2>1, <2>2 DEF Held, Accept, chatStoreVars, Underway, Listening
<1>17. AsFar'
  <2>1. \A b \in Questions : send'[b].pieces = send[b].pieces /\ (send[b].at # "unsent" => send'[b].at # "unsent")
    BY <1>6, <1>8 DEF Rest
  <2>2. QED
    BY <2>1 DEF AsFar, Accept, chatStoreVars, chatPastVars, WidgetTypes, MessagesTyped
<1>18. Landing'
  BY <1>2, <1>8 DEF Landing, OnScreen, Rest, Accept, chatStoreVars, chatPastVars
<1>19. NewInv'
  <2>1. SUFFICES ASSUME ~haunted
                 PROVE  NewThreads'
    BY DEF Accept, chatPastVars, NewInv
  <2>2. NewThreads
    BY <2>1 DEF NewInv
  <2>3. Listening' = Listening
    BY <1>2, <1>6, <1>8 DEF Listening, Rest
  <2>4. \A b \in Questions : New(b) => send'[b].thread = NoThread \/ New(send'[b].thread)
    BY <1>3, <1>6, <1>8, <2>2 DEF NewThreads, Rest
  <2>5. threadId # NoThread => New(threadId) /\ \E b \in Questions : New(b) /\ send'[b].thread = threadId
    BY <1>3, <1>6, <1>8, <2>2 DEF NewThreads, Rest
  <2>6. QED
    BY <2>2, <2>3, <2>4, <2>5 DEF NewThreads, New, Accept, chatStoreVars, chatPastVars
<1>20. QED
  BY <1>14, <1>15, <1>16, <1>17, <1>18, <1>19

LEMMA AnswerStored == ASSUME WidgetInv, NEW a \in Questions, StoreAnswer(a) PROVE WidgetInv'
<1> USE DEF WidgetInv
<1>1. PICK r : r = [rows[a] EXCEPT !.answered = TRUE]
  OBVIOUS
<1>2. r \in StoredTurn /\ r.thread = rows[a].thread
  BY <1>1 DEF StoredTurn, WidgetTypes
<1>3. rows' = [rows EXCEPT ![a] = r]
  BY <1>1 DEF StoreAnswer
<1>4. rows' \in [Questions -> StoredTurn] /\ \A b \in Questions : rows'[b].thread = rows[b].thread
  BY <1>2, <1>3 DEF WidgetTypes
<1>5. WidgetTypes' /\ Numbered' /\ Held' /\ AsFar' /\ Landing' /\ NewInv'
  <2>1. WidgetTypes'
    BY <1>4 DEF StoreAnswer, WidgetTypes, StreamsTyped, MessagesTyped, chatStoreVars, chatPastVars
  <2>2. Numbered'
    BY <1>4 DEF StoreAnswer, Numbered, FirstAsked, Begun, chatStoreVars, chatPastVars
  <2>3. Held' /\ AsFar' /\ Landing'
    BY DEF StoreAnswer, Held, AsFar, Landing, OnScreen, Underway, Listening, chatStoreVars, chatPastVars
  <2>4. NewInv'
    BY DEF StoreAnswer, NewInv, NewThreads, New, Listening, chatStoreVars, chatPastVars
  <2>5. QED
    BY <2>1, <2>2, <2>3, <2>4
<1>6. QED
  BY <1>5

LEMMA TokenTaken == ASSUME WidgetInv, NEW a \in Questions, Token(a) PROVE WidgetInv'
<1> USE DEF WidgetInv
<1>1. send[a] \in Stream /\ send[a].at = "answering" /\ send[a].pieces < Pieces
  BY DEF Token, WidgetTypes, StreamsTyped
<1>2. PICK d : d = [send[a] EXCEPT !.pieces = @ + 1]
  OBVIOUS
<1>3. d = [at |-> "answering", thread |-> send[a].thread, here |-> send[a].here, pieces |-> send[a].pieces + 1]
  BY <1>1, <1>2 DEF Stream
<1>4. send[a].pieces + 1 \in 0..Pieces
  BY <1>1 DEF Stream
<1>5. /\ d \in Stream /\ d.at = "answering" /\ d.thread = send[a].thread
      /\ d.here = send[a].here /\ d.pieces = send[a].pieces + 1
  BY <1>1, <1>3, <1>4 DEF Stream
<1>6. send' = [send EXCEPT ![a] = d]
  BY <1>2 DEF Token
<1>7. send'[a] = d /\ Rest(send', send, a) /\ send' \in [Questions -> Stream]
  BY <1>5, <1>6 DEF WidgetTypes, StreamsTyped, Rest
<1>8. /\ MessagesTyped' /\ DOMAIN messages' = DOMAIN messages
      /\ \A b \in DOMAIN messages :
            /\ messages'[b].ours = messages[b].ours
            /\ b # a \/ ~messages[b].ours => messages'[b].text = messages[b].text
            /\ b = a /\ messages[b].ours => messages'[b].text = messages[b].text + 1
  <2>1. CASE ~Ours(a)
    BY <2>1 DEF Token, Ours, WidgetTypes, MessagesTyped
  <2>2. CASE Ours(a)
    <3>1. messages[a] \in Message /\ messages[a].text = send[a].pieces /\ a \in DOMAIN messages
      BY <2>2 DEF Ours, AsFar, WidgetTypes, MessagesTyped
    <3>2. PICK m : m = [messages[a] EXCEPT !.text = @ + 1]
      OBVIOUS
    <3>3. m = [text |-> messages[a].text + 1, typing |-> messages[a].typing, ours |-> messages[a].ours]
      BY <3>1, <3>2 DEF Message
    <3>4. m \in Message /\ m.text = messages[a].text + 1 /\ m.ours = messages[a].ours
      BY <1>4, <3>1, <3>3 DEF Message
    <3>5. messages' = [messages EXCEPT ![a] = m]
      BY <2>2, <3>2 DEF Token
    <3>6. DOMAIN messages' = DOMAIN messages
      BY <3>5
    <3>7. messages' \in [DOMAIN messages' -> Message]
      BY <3>1, <3>4, <3>5, <3>6 DEF WidgetTypes, MessagesTyped
    <3>8. \A b \in DOMAIN messages : messages'[b] = IF b = a THEN m ELSE messages[b]
      BY <3>5
    <3>9. QED
      BY <2>2, <3>4, <3>6, <3>7, <3>8 DEF WidgetTypes, MessagesTyped, Ours
  <2>3. QED
    BY <2>1, <2>2
<1>9. WidgetTypes'
  BY <1>7, <1>8 DEF Token, WidgetTypes, StreamsTyped, chatPastVars
<1>10. Numbered'
  <2>1. Begun' = Begun
    BY <1>1, <1>5, <1>7 DEF Begun, Rest
  <2>2. PICK n \in 0..MaxQuestions : FirstAsked(n)
    BY DEF Numbered
  <2>3. FirstAsked(n)'
    BY <2>1, <2>2 DEF FirstAsked, Token, chatPastVars
  <2>4. QED
    BY <1>5, <1>7, <2>3 DEF Numbered, Rest, Token
<1>11. Held'
  <2>1. Listening' = Listening /\ Underway' = Underway
    BY <1>1, <1>5, <1>7 DEF Listening, Underway, Rest
  <2>2. \A b \in Questions : send'[b].here = send[b].here
    BY <1>5, <1>7 DEF Rest
  <2>3. QED
    BY <2>1, <2>2 DEF Held, Token, Underway, Listening
<1>12. AsFar'
  <2>1. a \notin done
    BY <1>1 DEF AsFar, Stream
  <2>2. \A b \in done' : send'[b].at # "unsent" /\ send'[b].pieces = Pieces
    BY <1>7, <2>1 DEF AsFar, Rest, Token, chatPastVars, WidgetTypes
  <2>3. \A b \in DOMAIN messages' : messages'[b].ours => messages'[b].text = send'[b].pieces
    BY <1>5, <1>7, <1>8 DEF AsFar, Rest, WidgetTypes, MessagesTyped
  <2>4. QED
    BY <2>2, <2>3 DEF AsFar, Token
<1>13. Landing'
  <2>1. \A b \in Questions : OnScreen(b) => OnScreen(b)'
    BY <1>8 DEF OnScreen, Token, chatPastVars
  <2>2. QED
    BY <1>1, <1>7, <2>1 DEF Landing, Rest, Token, chatPastVars
<1>14. NewInv'
  <2>1. SUFFICES ASSUME ~haunted
                 PROVE  NewThreads'
    BY DEF Token, chatPastVars, NewInv
  <2>2. NewThreads
    BY <2>1 DEF NewInv
  <2>3. Listening' = Listening /\ \A b \in Questions : send'[b].thread = send[b].thread
    BY <1>1, <1>5, <1>7 DEF Listening, Rest
  <2>4. QED
    BY <1>8, <2>2, <2>3 DEF NewThreads, New, Token, chatPastVars
<1>15. QED
  BY <1>9, <1>10, <1>11, <1>12, <1>13, <1>14

LEMMA ToolShown == ASSUME WidgetInv, NEW a \in Questions, Tool(a) PROVE WidgetInv'
<1> USE DEF WidgetInv
<1>1. WidgetTypes'
  BY DEF Tool, WidgetTypes, StreamsTyped, MessagesTyped, chatStoreVars, chatPastVars
<1>2. Numbered' /\ AsFar' /\ Landing'
  BY DEF Tool, Numbered, FirstAsked, Begun, AsFar, Landing, OnScreen, chatStoreVars, chatPastVars
<1>3. Held'
  <2>1. a \in Underway
    BY DEF Tool, Underway, Listening
  <2>2. QED
    BY <2>1 DEF Tool, Held, Underway, Listening, chatStoreVars
<1>4. NewInv'
  BY DEF Tool, NewInv, NewThreads, New, Listening, chatStoreVars, chatPastVars
<1>5. QED
  BY <1>1, <1>2, <1>3, <1>4

LEMMA AnswerAnnounced == ASSUME WidgetInv, NEW a \in Questions, AnswerDone(a) PROVE WidgetInv'
<1> USE DEF WidgetInv
<1>1. send[a].at = "answering" /\ send[a].pieces = Pieces /\ StreamMoved(a, "closing") /\ FinishMessage(a)
  BY DEF AnswerDone
<1>2. /\ Faded(send', send) /\ Rest(send', send, a)
      /\ send'[a].at = "closing" /\ send'[a].here = send[a].here
  BY <1>1, MovedStream
<1>3. SameMessages /\ ~isStreaming'
  BY <1>1, FinishedMessage
<1>4. send[a] \in Stream /\ threadId' = send[a].thread
  BY DEF AnswerDone, WidgetTypes, StreamsTyped
<1>5. threadId' \in Threads \cup {NoThread}
  BY <1>4 DEF Stream
<1>6. \A l \in loads' : l \in loads \/ l \in Looks(threadId', DOMAIN messages)
  BY DEF AnswerDone
<1>7. PICK t : t = threadId'
  OBVIOUS
<1>8. \A l \in loads' : l \in loads \/ (l \in Load /\ l.thread = t /\ t # NoThread /\ l.shows = {} /\ l.whole = {})
  BY <1>5, <1>6, <1>7, LooksAtThread
<1>9. WidgetTypes'
  <2>1. isStreaming' \in BOOLEAN /\ activeTool' \in BOOLEAN /\ isOpen' \in BOOLEAN /\ haunted' \in BOOLEAN
    BY <1>1 DEF AnswerDone, FinishMessage, WidgetTypes
  <2>2. loads' \subseteq Load
    BY <1>8 DEF WidgetTypes
  <2>3. QED
    BY <1>2, <1>3, <1>5, <2>1, <2>2 DEF AnswerDone, WidgetTypes, StreamsTyped, Faded, SameMessages
<1>10. Numbered'
  <2>1. Begun' = Begun
    BY <1>2 DEF Begun, Faded
  <2>2. PICK n \in 0..MaxQuestions : FirstAsked(n)
    BY DEF Numbered
  <2>3. a \in 1..n /\ send[a].thread <= a
    BY <1>1, <2>2 DEF FirstAsked, Begun, Numbered
  <2>4. threadId' <= n
    BY <1>4, <1>5, <2>3 DEF Threads, NoThread, Questions
  <2>5. FirstAsked(n)'
    BY <2>1, <2>2, <2>4 DEF FirstAsked, AnswerDone
  <2>6. QED
    BY <1>2, <2>5 DEF Numbered, AnswerDone, Faded
<1>11. Held'
  BY <1>1, <1>2, <1>3, MovedHolds DEF AnswerDone
<1>12. AsFar'
  <2>1. \A b \in DOMAIN messages' : messages'[b].ours => messages'[b].text = send'[b].pieces
    BY <1>2, <1>3 DEF AsFar, Faded, SameMessages, MessagesTyped
  <2>2. \A b \in done' : send'[b].at # "unsent" /\ send'[b].pieces = Pieces
    BY <1>1, <1>2 DEF AsFar, Faded, AnswerDone, WidgetTypes
  <2>3. \A l \in loads' : l.whole \subseteq l.shows
    BY <1>8 DEF AsFar
  <2>4. QED
    BY <2>1, <2>2, <2>3 DEF AsFar
<1>13. Landing'
  <2>1. \A b \in Questions : OnScreen(b) => OnScreen(b)'
    BY <1>3 DEF OnScreen, SameMessages, AnswerDone
  <2>2. \A b \in Questions : b \in done' => b \in done \/ send[b].at = "answering"
    BY <1>1 DEF AnswerDone
  <2>3. \A b \in Questions : send'[b].at \in {"asked", "answering"} => send[b].at \in {"asked", "answering"}
    BY <1>2 DEF Faded
  <2>4. QED
    BY <2>1, <2>2, <2>3 DEF Landing, AnswerDone
<1>14. NewInv'
  <2>1. SUFFICES ASSUME ~haunted
                 PROVE  NewThreads'
    BY DEF AnswerDone, NewInv
  <2>2. NewThreads
    BY <2>1 DEF NewInv
  <2>3. New(a) /\ (t # NoThread => New(t))
    BY <1>1, <1>4, <1>7, <2>2 DEF NewThreads, Listening
  <2>4. Listening' \subseteq Listening
    BY <1>2 DEF Listening, Faded
  <2>5. \A b \in Questions : send'[b].thread = send[b].thread
    BY <1>2 DEF Faded
  <2>6. \A l \in loads' : New(l.thread) /\ \A b \in l.shows : New(b)
    BY <1>8, <2>2, <2>3 DEF NewThreads
  <2>7. threadId' # NoThread => New(threadId') /\ \E b \in Questions : New(b) /\ send'[b].thread = threadId'
    BY <1>4, <1>7, <2>3, <2>5
  <2>8. \A b \in Questions : New(b) => send'[b].thread = NoThread \/ New(send'[b].thread)
    BY <2>2, <2>5 DEF NewThreads
  <2>9. \A b \in Listening' \cup DOMAIN messages' : New(b)
    BY <1>3, <2>2, <2>4 DEF NewThreads, SameMessages
  <2>10. cleared' = cleared
    BY DEF AnswerDone
  <2>11. QED
    BY <2>6, <2>7, <2>8, <2>9, <2>10 DEF NewThreads, New
<1>15. QED
  BY <1>9, <1>10, <1>11, <1>12, <1>13, <1>14

LEMMA AnswerFailed == ASSUME WidgetInv, NEW a \in Questions, Failed(a) PROVE WidgetInv'
<1> USE DEF WidgetInv
<1>1. send[a].at \in {"asked", "answering"} /\ StreamMoved(a, "closing") /\ FinishMessage(a)
  BY DEF Failed
<1>2. /\ Faded(send', send) /\ Rest(send', send, a)
      /\ send'[a].at = "closing" /\ send'[a].here = send[a].here
  BY <1>1, MovedStream
<1>3. SameMessages /\ ~isStreaming'
  BY <1>1, FinishedMessage
<1>4. WidgetTypes'
  <2>1. isStreaming' \in BOOLEAN
    BY <1>1 DEF FinishMessage
  <2>2. QED
    BY <1>2, <1>3, <2>1 DEF Failed, WidgetTypes, StreamsTyped, Faded, SameMessages, chatPastVars
<1>5. Numbered'
  BY <1>2, FadedNumbers DEF Failed, chatPastVars
<1>6. Held'
  BY <1>1, <1>2, <1>3, MovedHolds DEF Failed
<1>7. AsFar'
  BY <1>2, <1>3, FadedTexts DEF Failed, AsFar, chatPastVars
<1>8. Landing'
  BY <1>2, <1>3, FadedLands DEF Failed, chatPastVars
<1>9. NewInv'
  BY <1>2, <1>3, FadedIsNew DEF Failed, SameMessages, chatPastVars
<1>10. QED
  BY <1>4, <1>5, <1>6, <1>7, <1>8, <1>9

LEMMA StreamEnded == ASSUME WidgetInv, NEW a \in Questions, End(a) PROVE WidgetInv'
<1> USE DEF WidgetInv
<1>1. /\ send[a].at # "unsent" /\ StreamMoved(a, "over") /\ ~isStreaming'
      /\ activeTool' = (activeTool /\ ~send[a].here)
      /\ abortRef' = IF send[a].here THEN NoQuestion ELSE abortRef
  BY DEF End, ClearFlags
<1>2. /\ Faded(send', send) /\ Rest(send', send, a)
      /\ send'[a].at = "over" /\ send'[a].here = send[a].here
  BY <1>1, MovedStream
<1>3. SameMessages
  BY UntouchedMessages DEF End
<1>4. WidgetTypes'
  <2>1. activeTool' \in BOOLEAN /\ isStreaming' \in BOOLEAN
    BY DEF End, ClearFlags
  <2>2. abortRef' \in Questions \cup {NoQuestion}
    BY <1>1 DEF WidgetTypes
  <2>3. QED
    BY <1>2, <1>3, <2>1, <2>2 DEF End, WidgetTypes, StreamsTyped, Faded, SameMessages, chatPastVars
<1>5. Numbered'
  BY <1>2, FadedNumbers DEF End, chatPastVars
<1>6. Held'
  BY <1>1, <1>2, EndedHolds
<1>7. AsFar'
  BY <1>2, <1>3, FadedTexts DEF End, AsFar, chatPastVars
<1>8. Landing'
  BY <1>2, <1>3, FadedLands DEF End, chatPastVars
<1>9. NewInv'
  BY <1>2, FadedIsNew DEF End, chatPastVars
<1>10. QED
  BY <1>4, <1>5, <1>6, <1>7, <1>8, <1>9

LEMMA StreamBroken == ASSUME WidgetInv, NEW a \in Questions, BreakOff(a) PROVE WidgetInv'
<1> USE DEF WidgetInv
<1>1. /\ send[a].at # "unsent" /\ StreamMoved(a, "over") /\ FinishMessage(a)
      /\ activeTool' = (activeTool /\ ~send[a].here)
      /\ abortRef' = IF send[a].here THEN NoQuestion ELSE abortRef
  BY DEF BreakOff, Listening
<1>2. /\ Faded(send', send) /\ Rest(send', send, a)
      /\ send'[a].at = "over" /\ send'[a].here = send[a].here
  BY <1>1, MovedStream
<1>3. SameMessages /\ ~isStreaming'
  BY <1>1, FinishedMessage
<1>4. WidgetTypes'
  <2>1. activeTool' \in BOOLEAN /\ isStreaming' \in BOOLEAN
    BY <1>1 DEF BreakOff, FinishMessage
  <2>2. abortRef' \in Questions \cup {NoQuestion}
    BY <1>1 DEF WidgetTypes
  <2>3. QED
    BY <1>2, <1>3, <2>1, <2>2 DEF BreakOff, WidgetTypes, StreamsTyped, Faded, SameMessages, chatPastVars
<1>5. Numbered'
  BY <1>2, FadedNumbers DEF BreakOff, chatPastVars
<1>6. Held'
  BY <1>1, <1>2, <1>3, EndedHolds
<1>7. AsFar'
  BY <1>2, <1>3, FadedTexts DEF BreakOff, AsFar, chatPastVars
<1>8. Landing'
  BY <1>2, <1>3, FadedLands DEF BreakOff, chatPastVars
<1>9. NewInv'
  BY <1>2, <1>3, FadedIsNew DEF BreakOff, SameMessages, chatPastVars
<1>10. QED
  BY <1>4, <1>5, <1>6, <1>7, <1>8, <1>9

-----------------------------------------------------------------------------
(* The transcript *)

LEMMA TranscriptRead == ASSUME WidgetInv, NEW l \in loads, ReadThread(l) PROVE WidgetInv'
<1> USE DEF WidgetInv
<1>1. PICK of : of = {a \in Questions : rows[a].thread = l.thread}
  OBVIOUS
<1>2. PICK whole : whole = {a \in of : rows[a].answered}
  OBVIOUS
<1>3. PICK k : k = [l EXCEPT !.read = TRUE, !.shows = of, !.whole = whole]
  OBVIOUS
<1>4. l \in Load /\ of \subseteq Questions /\ whole \subseteq of
  BY <1>1, <1>2 DEF WidgetTypes
<1>5. k = [thread |-> l.thread, read |-> TRUE, shows |-> of, whole |-> whole]
  BY <1>3, <1>4 DEF Load
<1>6. k \in Load /\ k.thread = l.thread /\ k.shows = of /\ k.whole = whole
  BY <1>4, <1>5 DEF Load
<1>7. loads' = (loads \ {l}) \cup {k}
  BY <1>1, <1>2, <1>3 DEF ReadThread
<1>8. WidgetTypes'
  BY <1>6, <1>7 DEF ReadThread, WidgetTypes, StreamsTyped, MessagesTyped, chatStoreVars, chatPastVars
<1>9. Numbered' /\ Held' /\ Landing'
  BY DEF ReadThread, Numbered, FirstAsked, Begun, Held, Underway, Listening, Landing, OnScreen,
         chatStoreVars, chatPastVars
<1>10. AsFar'
  BY <1>4, <1>6, <1>7 DEF ReadThread, AsFar, chatStoreVars, chatPastVars
<1>11. NewInv'
  <2>1. SUFFICES ASSUME ~haunted
                 PROVE  NewThreads'
    BY DEF ReadThread, chatPastVars, NewInv
  <2>2. NewThreads
    BY <2>1 DEF NewInv
  <2>3. \A a \in of : l.thread <= a /\ a \in Nat /\ l.thread \in Nat /\ New(l.thread)
    BY <1>1, <1>4, <2>2 DEF NewThreads, Numbered, Questions, Load, Threads
  <2>4. \A a \in of : New(a)
    BY <2>3 DEF New, WidgetTypes
  <2>5. \A m \in loads' : New(m.thread) /\ \A a \in m.shows : New(a)
    BY <1>6, <1>7, <2>2, <2>4 DEF NewThreads
  <2>6. QED
    BY <2>2, <2>5 DEF NewThreads, New, ReadThread, Listening, chatStoreVars, chatPastVars
<1>12. QED
  BY <1>8, <1>9, <1>10, <1>11

LEMMA TranscriptTaken == ASSUME WidgetInv, NEW l \in loads, TakeThread(l) PROVE WidgetInv'
<1> USE DEF WidgetInv
<1>1. l \in Load /\ l.whole \subseteq l.shows /\ loads' \subseteq loads
  BY DEF WidgetTypes, AsFar, TakeThread
<1>2. CASE UNCHANGED <<messages, overrun>>
  <2>1. WidgetTypes'
    BY <1>1, <1>2 DEF TakeThread, WidgetTypes, StreamsTyped, MessagesTyped
  <2>2. Numbered' /\ Held' /\ Landing'
    BY <1>2 DEF TakeThread, Numbered, FirstAsked, Begun, Held, Underway, Listening, Landing, OnScreen
  <2>3. AsFar'
    BY <1>1, <1>2 DEF TakeThread, AsFar
  <2>4. NewInv'
    BY <1>1, <1>2 DEF TakeThread, NewInv, NewThreads, New, Listening
  <2>5. QED
    BY <2>1, <2>2, <2>3, <2>4
<1>3. CASE /\ messages' = [a \in l.shows |-> [text |-> IF a \in l.whole THEN Pieces ELSE 0,
                                              typing |-> FALSE, ours |-> FALSE]]
           /\ overrun' = overrun \cup (DOMAIN messages \ l.whole)
  <2>1. /\ DOMAIN messages' = l.shows /\ l.shows \subseteq Questions
        /\ \A a \in l.shows : /\ messages'[a] \in Message /\ ~messages'[a].ours
                              /\ a \in l.whole => messages'[a].text = Pieces
    BY <1>1, <1>3 DEF Message, Load
  <2>2. MessagesTyped'
    <3>1. messages' = [a \in DOMAIN messages' |-> messages'[a]]
      BY <1>3
    <3>2. QED
      BY <2>1, <3>1 DEF MessagesTyped
  <2>3. DOMAIN messages \subseteq Questions
    BY DEF WidgetTypes, MessagesTyped
  <2>4. WidgetTypes'
    BY <1>1, <1>3, <2>2, <2>3 DEF TakeThread, WidgetTypes, StreamsTyped
  <2>5. Numbered' /\ Held'
    BY DEF TakeThread, Numbered, FirstAsked, Begun, Held, Underway, Listening
  <2>6. AsFar'
    BY <1>1, <2>1 DEF TakeThread, AsFar
  <2>7. Landing'
    <3>1. \A a \in Questions : OnScreen(a) => OnScreen(a)'
      BY <1>1, <1>3, <2>1 DEF OnScreen
    <3>2. QED
      BY <3>1 DEF Landing, TakeThread
  <2>8. NewInv'
    BY <1>1, <2>1 DEF TakeThread, NewInv, NewThreads, New, Listening
  <2>9. QED
    BY <2>4, <2>5, <2>6, <2>7, <2>8
<1>4. QED
  BY <1>2, <1>3 DEF TakeThread

-----------------------------------------------------------------------------

LEMMA WidgetStarts == WidgetInit => WidgetInv
<1> SUFFICES ASSUME WidgetInit
             PROVE  WidgetInv
  OBVIOUS
<1>1. \A a \in Questions : send[a] = Unsent /\ rows[a] = NoTurn
  BY DEF WidgetInit
<1>2. NoTurn \in StoredTurn /\ NoTurn.thread = 0
  BY DEF NoTurn, StoredTurn, NoThread
<1>3. DOMAIN messages = {} /\ MessagesTyped
  BY DEF WidgetInit, NoMessages, MessagesTyped
<1>4. StreamsTyped /\ rows \in [Questions -> StoredTurn]
  BY <1>2, UnsentStream DEF WidgetInit, StreamsTyped
<1>5. WidgetTypes
  <2>1. {isStreaming, activeTool, isOpen, haunted} \subseteq BOOLEAN
    BY DEF WidgetInit
  <2>2. threadId = NoThread /\ abortRef = NoQuestion /\ cleared \in 0..MaxQuestions
    BY DEF WidgetInit
  <2>3. loads = {} /\ done = {} /\ overrun = {}
    BY DEF WidgetInit
  <2>4. QED
    BY <1>3, <1>4, <2>1, <2>2, <2>3 DEF WidgetTypes
<1>6. Begun = {} /\ Listening = {}
  BY <1>1, UnsentStream DEF Begun, Listening
<1>7. FirstAsked(0)
  BY <1>6 DEF FirstAsked, WidgetInit, NoThread
<1>8. Numbered
  BY <1>1, <1>2, <1>7, UnsentStream DEF Numbered, Questions, NoThread
<1>9. Held /\ AsFar /\ Landing
  BY <1>1, <1>3, UnsentStream DEF WidgetInit, Held, AsFar, Landing
<1>10. NewInv
  BY <1>1, <1>3, <1>6, UnsentStream DEF WidgetInit, NewInv, NewThreads
<1>11. QED
  BY <1>5, <1>8, <1>9, <1>10 DEF WidgetInv

LEMMA WidgetGoesOn == WidgetInv /\ [WidgetNext]_widgetVars => WidgetInv'
<1> SUFFICES ASSUME WidgetInv, [WidgetNext]_widgetVars
             PROVE  WidgetInv'
  OBVIOUS
<1>1. CASE OpenPanel \/ ClosePanel \/ Stop \/ NewChat \/ LoadPage
  BY <1>1, PanelOpens, PanelCloses, AnswerStopped, ChatBegunAnew, PageLoaded
<1>2. CASE \E a \in Questions :
              \/ Ask(a) \/ Accept(a) \/ StoreAnswer(a) \/ Token(a) \/ Tool(a)
              \/ AnswerDone(a) \/ Failed(a) \/ End(a) \/ BreakOff(a)
  BY <1>2, QuestionAsked, QuestionTaken, AnswerStored, TokenTaken, ToolShown, AnswerAnnounced,
     AnswerFailed, StreamEnded, StreamBroken
<1>3. CASE \E l \in loads : ReadThread(l) \/ TakeThread(l)
  BY <1>3, TranscriptRead, TranscriptTaken
<1>4. CASE UNCHANGED widgetVars
  BY <1>4 DEF widgetVars, WidgetInv, WidgetTypes, StreamsTyped, MessagesTyped, Numbered, FirstAsked,
              Begun, Held, Underway, Listening, AsFar, Landing, OnScreen, NewInv, NewThreads, New
<1>5. QED
  BY <1>1, <1>2, <1>3, <1>4 DEF WidgetNext

LEMMA WidgetKeeps == WidgetSpec => []WidgetInv
BY WidgetStarts, WidgetGoesOn, PTL DEF WidgetSpec

\* However often the visitor stops, closes, asks again, begins anew or loads the page, and
\* whatever breaks off: nothing shows as under way when nothing is, an answer that was announced
\* whole shows whole under its question, and a new chat shows nothing of the one before it
\* (chat-panel.tsx, chat.store.ts).
THEOREM WidgetHolds == WidgetSpec => []ChatHolds
<1>1. WidgetInv => ChatHolds
  <2> SUFFICES ASSUME WidgetInv
               PROVE  ChatHolds
    OBVIOUS
  <2>1. NothingHangs
    BY DEF WidgetInv, Held, NothingHangs
  <2>2. AnswersLand
    <3>1. \A a \in done : a \in Questions /\ send[a].pieces = Pieces
      BY DEF WidgetInv, WidgetTypes, AsFar
    <3>2. \A a \in done : a > cleared => OnScreen(a)
      BY <3>1 DEF WidgetInv, Landing
    <3>3. QED
      BY <3>1, <3>2 DEF WidgetInv, AsFar, OnScreen, AnswersLand
  <2>3. NewChatIsNew
    BY DEF WidgetInv, NewInv, NewThreads, New, NewChatIsNew
  <2>4. QED
    BY <2>1, <2>2, <2>3 DEF ChatHolds
<1>2. QED
  BY <1>1, WidgetKeeps, PTL

-----------------------------------------------------------------------------
(* What the badge counts *)

\* An answer counts once when it is announced or fails, and may once more when its call breaks
\* off after that.
Announced(S) == {a \in Questions : S[a].at \in {"closing", "aborted", "over"}}
CutOff(S)   == {a \in Questions : S[a].at \in {"aborted", "over"}}
Countable(S)  == Cardinality(Announced(S)) + Cardinality(CutOff(S))

BadgeHolds ==
    /\ unread \in Nat /\ unread <= Countable(send)
    /\ isOpen => unread = 0
    /\ ~isOpen => \A a \in Questions : ~send[a].here
PanelHolds == WidgetInv /\ BadgeHolds /\ error \in BOOLEAN /\ clicks \in 0..MaxClicks

\* No stream that has got so far goes back.
GoesOnward(S, R) == Announced(R) \subseteq Announced(S) /\ CutOff(R) \subseteq CutOff(S)

LEMMA CountableGrow ==
    ASSUME NEW S, NEW R, GoesOnward(S, R)
    PROVE  /\ Countable(R) \in 0..2 * MaxQuestions /\ Countable(S) \in 0..2 * MaxQuestions
           /\ Countable(R) <= Countable(S)
           /\ (Announced(S) \ Announced(R)) \cup (CutOff(S) \ CutOff(R)) # {} => Countable(R) + 1 <= Countable(S)
<1> USE WidgetAssumption
<1>1. IsFiniteSet(Questions) /\ Cardinality(Questions) = MaxQuestions
  BY FS_Interval DEF Questions
<1>2. ASSUME NEW A, A \subseteq Questions
      PROVE  /\ IsFiniteSet(A) /\ Cardinality(A) \in 0..MaxQuestions
             /\ \A B : B \subseteq A => /\ Cardinality(B) \in Nat /\ Cardinality(B) <= Cardinality(A)
                                        /\ B # A => Cardinality(B) < Cardinality(A)
  <2>1. IsFiniteSet(A) /\ Cardinality(A) <= Cardinality(Questions)
    BY <1>1, <1>2, FS_Subset
  <2>2. Cardinality(A) \in Nat
    BY <2>1, FS_CardinalityType
  <2>3. ASSUME NEW B, B \subseteq A
        PROVE  /\ Cardinality(B) \in Nat /\ Cardinality(B) <= Cardinality(A)
               /\ B # A => Cardinality(B) < Cardinality(A)
    <3>1. IsFiniteSet(B) /\ Cardinality(B) <= Cardinality(A) /\ (Cardinality(B) = Cardinality(A) => B = A)
      BY <2>1, <2>3, FS_Subset
    <3>2. Cardinality(B) \in Nat
      BY <3>1, FS_CardinalityType
    <3>3. QED BY <2>2, <3>1, <3>2
  <2>4. QED BY <1>1, <2>1, <2>2, <2>3
<1>3. /\ Announced(S) \subseteq Questions /\ Announced(R) \subseteq Questions
      /\ CutOff(S) \subseteq Questions /\ CutOff(R) \subseteq Questions
  BY DEF Announced, CutOff
<1>4. /\ Cardinality(Announced(S)) \in 0..MaxQuestions /\ Cardinality(Announced(R)) \in 0..MaxQuestions
      /\ Cardinality(CutOff(S)) \in 0..MaxQuestions /\ Cardinality(CutOff(R)) \in 0..MaxQuestions
  BY <1>2, <1>3
<1>5. /\ Cardinality(Announced(R)) <= Cardinality(Announced(S))
      /\ Announced(R) # Announced(S) => Cardinality(Announced(R)) < Cardinality(Announced(S))
      /\ Cardinality(CutOff(R)) <= Cardinality(CutOff(S))
      /\ CutOff(R) # CutOff(S) => Cardinality(CutOff(R)) < Cardinality(CutOff(S))
  BY <1>2, <1>3 DEF GoesOnward
<1>6. ASSUME (Announced(S) \ Announced(R)) \cup (CutOff(S) \ CutOff(R)) # {}
      PROVE  Countable(R) + 1 <= Countable(S)
  <2>1. Announced(R) # Announced(S) \/ CutOff(R) # CutOff(S)
    BY <1>6
  <2>2. QED BY <1>4, <1>5, <2>1 DEF Countable
<1>7. QED BY <1>4, <1>5, <1>6 DEF Countable

\* A step that announces nothing.
LEMMA QuietStep ==
    ASSUME PanelHolds, WidgetInv', GoesOnward(send', send), UNCHANGED error \/ error' \in BOOLEAN,
           UNCHANGED clicks \/ Clicks,
           unread' = 0 \/ (UNCHANGED unread /\ (isOpen' => isOpen)),
           ~isOpen' => \A a \in Questions : ~send'[a].here
    PROVE  PanelHolds'
<1>1. Countable(send) \in Nat /\ Countable(send') \in Nat /\ Countable(send) <= Countable(send')
  BY CountableGrow
<1>2. clicks' \in 0..MaxClicks
  BY WidgetAssumption DEF PanelHolds, Clicks
<1>3. BadgeHolds'
  BY <1>1 DEF PanelHolds, BadgeHolds
<1>4. QED BY <1>2, <1>3 DEF PanelHolds

\* A step that announces an answer, or that its call broke off.
LEMMA CountedStep ==
    ASSUME PanelHolds, WidgetInv', NEW a \in Questions, FinishMessage(a),
           NEW x, x = "over" \/ (x = "closing" /\ send[a].at \in {"asked", "answering"}),
           send[a].at \in {"asked", "answering", "closing"},
           StreamMoved(a, x), UNCHANGED <<isOpen, clicks>>, error' \in BOOLEAN
    PROVE  PanelHolds'
<1>1. /\ send[a].at # "unsent" /\ Rest(send', send, a) /\ send'[a].at = x
      /\ \A b \in Questions : send'[b].here = send[b].here
  BY MovedStream DEF PanelHolds, WidgetInv, Rest
<1>2. GoesOnward(send', send)
  BY <1>1 DEF GoesOnward, Announced, CutOff, Rest
<1>3. a \in Announced(send') \ Announced(send) \/ a \in CutOff(send') \ CutOff(send)
  BY <1>1 DEF Announced, CutOff
<1>4. Countable(send) \in Nat /\ Countable(send') \in Nat /\ Countable(send) + 1 <= Countable(send')
  BY <1>2, <1>3, CountableGrow
<1>5. BadgeHolds'
  BY <1>1, <1>4 DEF PanelHolds, BadgeHolds, FinishMessage
<1>6. QED BY <1>5 DEF PanelHolds

LEMMA FadedGoesOnward ==
    ASSUME NEW S, NEW R, Faded(S, R)
    PROVE  GoesOnward(S, R)
BY DEF Faded, GoesOnward, Announced, CutOff

LEMMA PanelGoesOn == PanelHolds /\ [WidgetNext]_widgetVars => PanelHolds'
<1> SUFFICES ASSUME PanelHolds, [WidgetNext]_widgetVars
             PROVE  PanelHolds'
  OBVIOUS
<1> USE DEF PanelHolds
<1>1. WidgetInv' /\ WidgetTypes /\ send \in [Questions -> Stream] /\ BadgeHolds
  BY WidgetGoesOn DEF WidgetInv, WidgetTypes, StreamsTyped
<1>2. ASSUME UNCHANGED <<send, isOpen, unread>>, UNCHANGED error, UNCHANGED clicks PROVE PanelHolds'
  BY <1>1, <1>2, QuietStep DEF GoesOnward, BadgeHolds
<1>3. CASE OpenPanel
  <2>1. isOpen' /\ unread' = 0 /\ UNCHANGED <<send, error>> /\ Clicks
    BY <1>3 DEF OpenPanel
  <2>2. GoesOnward(send', send)
    BY <2>1 DEF GoesOnward
  <2>3. QED BY <1>1, <2>1, <2>2, QuietStep
<1>4. CASE ClosePanel
  <2>1. PICK Fallen : Fallen = {a \in Questions : a = abortRef}
    OBVIOUS
  <2>2. \A a \in Questions : a \in Fallen => send[a].at # "unsent"
    BY <2>1 DEF WidgetInv, Held, Listening, NoQuestion, Questions
  <2>3. LeftBy(send', Fallen, "aborted")
    BY <1>4, <2>1 DEF ClosePanel, LeftBy
  <2>4. Faded(send', send) /\ \A a \in Questions : ~send'[a].here
    BY <1>1, <2>2, <2>3, LeftStreams
  <2>5. GoesOnward(send', send)
    BY <2>4, FadedGoesOnward
  <2>6. QED BY <1>1, <1>4, <2>4, <2>5, QuietStep DEF ClosePanel
<1>5. CASE Stop \/ NewChat
  <2>1. Faded(Stopped, send) /\ send' = Stopped
    BY <1>1, <1>5, StoppedStreams DEF WidgetInv, Stop, NewChat
  <2>2. GoesOnward(send', send)
    BY <2>1, FadedGoesOnward
  <2>3. isOpen' /\ UNCHANGED <<isOpen, unread>> /\ Clicks
    BY <1>5 DEF Stop, NewChat
  <2>4. UNCHANGED error \/ error' \in BOOLEAN
    BY <1>5 DEF Stop, NewChat
  <2>5. QED BY <1>1, <2>2, <2>3, <2>4, QuietStep
<1>6. CASE LoadPage
  <2>1. \A a \in Questions : a \in Underway => send[a].at # "unsent"
    BY DEF Underway, Listening
  <2>2. LeftBy(send', Underway, "over")
    BY <1>6 DEF LoadPage, LeftBy
  <2>3. /\ Faded(send', send)
        /\ \A a \in Questions : ~send'[a].here
    BY <1>1, <2>1, <2>2, LeftStreams
  <2>4. GoesOnward(send', send)
    BY <2>3, FadedGoesOnward
  <2>5. QED BY <1>1, <1>6, <2>3, <2>4, QuietStep DEF LoadPage
<1>7. ASSUME NEW a \in Questions, Ask(a) PROVE PanelHolds'
  <2>1. PICK n \in 0..MaxQuestions : FirstAsked(n)
    BY DEF WidgetInv, Numbered
  <2>2. send[a].at = "unsent"
    BY <1>7, <2>1 DEF FirstAsked, Ask, Begun, Questions
  <2>3. \A b \in Questions : b # a => send'[b] = send[b]
    BY <1>1, <1>7 DEF Ask
  <2>4. GoesOnward(send', send)
    BY <2>2, <2>3 DEF GoesOnward, Announced, CutOff
  <2>5. UNCHANGED <<unread, isOpen, clicks>> /\ error' \in BOOLEAN /\ isOpen
    BY <1>7 DEF Ask
  <2>6. QED BY <1>1, <2>4, <2>5, QuietStep
<1>8. ASSUME NEW a \in Questions, Accept(a) PROVE PanelHolds'
  <2>1. send[a] \in Stream /\ send[a].at = "asked"
    BY <1>1, <1>8 DEF Accept
  <2>2. PICK t : t = IF send[a].thread = NoThread THEN a ELSE send[a].thread
    OBVIOUS
  <2>3. PICK d : d = [[send[a] EXCEPT !.at = "answering"] EXCEPT !.thread = t]
    OBVIOUS
  <2>4. d = [at |-> "answering", thread |-> t, here |-> send[a].here, pieces |-> send[a].pieces]
    BY <2>1, <2>3 DEF Stream
  <2>5. send' = [send EXCEPT ![a] = d]
    BY <1>1, <1>8, <2>2, <2>3 DEF Accept
  <2>6. \A b \in Questions : send'[b].here = send[b].here /\ (b # a => send'[b] = send[b])
    BY <1>1, <2>4, <2>5
  <2>7. GoesOnward(send', send)
    BY <2>1, <2>6 DEF GoesOnward, Announced, CutOff
  <2>8. UNCHANGED <<unread, isOpen, clicks, error>>
    BY <1>8 DEF Accept, chatStoreVars
  <2>9. QED BY <1>1, <2>6, <2>7, <2>8, QuietStep DEF BadgeHolds
<1>9. ASSUME NEW a \in Questions, Token(a) PROVE PanelHolds'
  <2>1. send[a] \in Stream /\ send[a].at = "answering"
    BY <1>1, <1>9 DEF Token
  <2>2. PICK d : d = [send[a] EXCEPT !.pieces = @ + 1]
    OBVIOUS
  <2>3. d.here = send[a].here /\ d.at = "answering"
    BY <2>1, <2>2 DEF Stream
  <2>4. send' = [send EXCEPT ![a] = d]
    BY <1>9, <2>2 DEF Token
  <2>5. \A b \in Questions : send'[b].here = send[b].here /\ (b # a => send'[b] = send[b])
    BY <1>1, <2>3, <2>4
  <2>6. GoesOnward(send', send)
    BY <2>1, <2>5 DEF GoesOnward, Announced, CutOff
  <2>7. UNCHANGED <<unread, isOpen, clicks, error>>
    BY <1>9 DEF Token
  <2>8. QED BY <1>1, <2>5, <2>6, <2>7, QuietStep DEF BadgeHolds
<1>10. ASSUME NEW a \in Questions, StoreAnswer(a) \/ Tool(a) PROVE PanelHolds'
  BY <1>2, <1>10 DEF StoreAnswer, Tool, chatStoreVars
<1>11. ASSUME NEW a \in Questions, AnswerDone(a) \/ Failed(a) PROVE PanelHolds'
  <2>1. /\ FinishMessage(a) /\ StreamMoved(a, "closing") /\ UNCHANGED <<isOpen, clicks>>
        /\ send[a].at \in {"asked", "answering"} /\ error' \in BOOLEAN
    BY <1>11 DEF AnswerDone, Failed
  <2>2. QED BY <1>1, <2>1, CountedStep
<1>12. ASSUME NEW a \in Questions, BreakOff(a) PROVE PanelHolds'
  <2>1. /\ FinishMessage(a) /\ StreamMoved(a, "over") /\ UNCHANGED <<isOpen, clicks>>
        /\ send[a].at \in {"asked", "answering", "closing"} /\ error' \in BOOLEAN
    BY <1>12 DEF BreakOff, Listening
  <2>2. QED BY <1>1, <2>1, CountedStep
<1>13. ASSUME NEW a \in Questions, End(a) PROVE PanelHolds'
  <2>1. send[a].at # "unsent" /\ StreamMoved(a, "over") /\ UNCHANGED <<unread, isOpen, clicks, error>>
    BY <1>13 DEF End
  <2>2. /\ Faded(send', send)
        /\ \A b \in Questions : send'[b].here = send[b].here
    BY <1>1, <2>1, MovedStream DEF WidgetInv, Rest
  <2>3. GoesOnward(send', send)
    BY <2>2, FadedGoesOnward
  <2>4. QED BY <1>1, <2>1, <2>2, <2>3, QuietStep DEF BadgeHolds
<1>14. ASSUME NEW l \in loads, ReadThread(l) \/ TakeThread(l) PROVE PanelHolds'
  BY <1>2, <1>14 DEF ReadThread, TakeThread, chatStoreVars
<1>15. CASE UNCHANGED widgetVars
  BY <1>2, <1>15 DEF widgetVars
<1>16. QED
  BY <1>3, <1>4, <1>5, <1>6, <1>7, <1>8, <1>9, <1>10, <1>11, <1>12, <1>13, <1>14, <1>15 DEF WidgetNext

\* The badge counts no more than two announcements a question, and nothing while the panel is
\* open; a panel that is gone refers to no answer (chat-panel.tsx, chat.store.ts).
THEOREM WidgetTypesHold == WidgetSpec => []WidgetTypeOK
<1>1. WidgetInit => PanelHolds
  <2> SUFFICES ASSUME WidgetInit PROVE PanelHolds
    OBVIOUS
  <2>1. send \in [Questions -> {Unsent}] /\ unread = 0
    BY DEF WidgetInit
  <2>2. \A a \in Questions : ~send[a].here
    BY <2>1 DEF Unsent
  <2>3. GoesOnward(send, send) /\ Countable(send) \in Nat
    BY CountableGrow DEF GoesOnward
  <2>4. BadgeHolds
    BY <2>1, <2>2, <2>3, WidgetAssumption DEF BadgeHolds
  <2>5. error = FALSE /\ clicks = 0 /\ 0 \in 0..MaxClicks
    BY WidgetAssumption DEF WidgetInit
  <2>6. QED BY <2>4, <2>5, WidgetStarts DEF PanelHolds
<1>2. PanelHolds => WidgetTypeOK
  <2> SUFFICES ASSUME PanelHolds PROVE WidgetTypeOK
    OBVIOUS
  <2>1. Countable(send) \in 0..2 * MaxQuestions
    BY CountableGrow DEF GoesOnward
  <2>2. unread \in 0..2 * MaxQuestions
    BY <2>1, WidgetAssumption DEF PanelHolds, BadgeHolds
  <2>3. ~isOpen => abortRef = NoQuestion /\ ~activeTool
    BY DEF PanelHolds, BadgeHolds, WidgetInv, Held, Listening, Underway
  <2>4. QED
    BY <2>2, <2>3 DEF PanelHolds, BadgeHolds, WidgetInv, WidgetTypes, StreamsTyped, MessagesTyped, WidgetTypeOK
<1>3. QED BY <1>1, <1>2, PanelGoesOn, PTL DEF WidgetSpec

HIDE WidgetAssumption
=============================================================================
