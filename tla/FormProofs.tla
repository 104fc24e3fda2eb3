----------------------------- MODULE FormProofs -----------------------------
(***************************************************************************)
(* The moves of Form.tla keep the current field of a posted form on its    *)
(* page and the window in step with both, for all arrays of fields and as  *)
(* long as programs do nothing of what Cases lists.                        *)
(*                                                                         *)
(* Between a request and the page that follows it the page, the current    *)
(* field and the window are out of step.  The invariant says by how much   *)
(* at each hook: a page request moves the page and the field together, a   *)
(* field request leaves the page and the window to the field it came from, *)
(* and a request that was denied has moved nothing.                        *)
(***************************************************************************)
EXTENDS Form, FiniteSetTheorems, WellFoundedInduction, TLAPS

Requests == PageRequests \cup FieldRequests

Calls == [req : Requests \cup {"none"}, old : Nat, start : Nat, denied : BOOLEAN]

\* The current field is one to visit, on a page of the form.
OnPageShown == page \in DOMAIN onPage /\ cur \in onPage[page] /\ use[cur]

\* What a request asks for is there.
Found(c) ==
  \/ /\ c \in PageRequests
     /\ LET found == FirstField(PageAsked(c)) IN found.field # None => ShowsField(found)
  \/ c \in FieldRequests /\ FieldAsked(c) \in {None} \cup {f \in fields : use[f]}

FormInv ==
  /\ TypeOK /\ call \in Calls
  /\ pc # "idle" => posted
  /\ IF posted THEN layout \in Layouts ELSE drawn = {}
  /\ posted /\ pc # "init" => OnPageShown /\ drawn = onPage[page]
  /\ pc = "term" => call.old = cur /\ Found(call.req)
  /\ pc = "init" =>
       /\ call.req \in Requests /\ page \in DOMAIN onPage /\ use[cur] /\ cur \in fields
       /\ call.denied \/ call.req \in PageRequests => cur \in onPage[page]
       /\ call.denied \/ call.req \in FieldRequests => drawn = onPage[page]
       /\ ~call.denied /\ call.req \in FieldRequests => call.old \in onPage[page]

-----------------------------------------------------------------------------
(* Sets of numbers *)

\* A set of naturals that is not empty has a least member, a bounded one a greatest.
LEMMA LeastOf ==
  ASSUME NEW S, S \subseteq Nat, S # {}
  PROVE  Min(S) \in S /\ \A x \in S : Min(S) <= x
<1>1. S \subseteq Nat /\ S # {}
  OBVIOUS
<1>2. PICK n \in S : \A y \in S : ~(<<y, n>> \in OpToRel(<, Nat))
  BY ONLY <1>1, NatLessThanWellFounded, WFMin
<1>3. \A y \in S : ~(y < n)
  BY <1>1, <1>2 DEF OpToRel
<1>4. \A y \in S : n <= y
  BY <1>1, <1>3
<1> QED
  BY <1>4 DEF Min

LEMMA GreatestOf ==
  ASSUME NEW n \in Nat, NEW S, S \subseteq 0 .. n, S # {}
  PROVE  Max(S) \in S /\ \A x \in S : x <= Max(S)
<1> DEFINE T == {n - x : x \in S}
<1>0. \A x \in S : x \in Int /\ 0 <= x /\ x <= n
  OBVIOUS
<1>1. T \subseteq Nat /\ T # {}
  <2>1. \A x \in S : n - x \in Nat
    BY <1>0
  <2> QED
    BY <2>1
<1>2. PICK k \in T : \A y \in T : k <= y
  BY <1>1, LeastOf
<1>3. PICK m \in S : k = n - m
  BY <1>2
<1>4. \A x \in S : m >= x
  <2> TAKE x \in S
  <2>1. k <= n - x
    BY <1>2
  <2>2. x \in Int /\ m \in Int
    BY <1>0
  <2> QED
    BY <1>3, <2>1, <2>2
<1>5. \E x \in S : \A y \in S : x >= y
  BY <1>4
<1>6. Max(S) \in S /\ \A y \in S : Max(S) >= y
  BY <1>5 DEF Max
<1> QED
  BY <1>6

-----------------------------------------------------------------------------
(* Pages *)

LEMMA LayoutFields ==
  ASSUME NEW l \in Layouts
  PROVE  Len(l) \in Nat \ {0} /\ Fields(l) = 1 .. Len(l) /\ 1 \in Fields(l)
BY FormAssumption DEF Fields

\* The number of a page does not fall along the array.
LEMMA PageNoGrows ==
  ASSUME NEW l, NEW i \in Nat, NEW j \in Nat, i <= j
  PROVE  PageNo(l, i) \in Nat /\ PageNo(l, j) \in Nat /\ PageNo(l, i) <= PageNo(l, j)
<1> DEFINE B(n) == {k \in 1 .. n : l[k].brk}
<1>1. \A n \in Nat : IsFiniteSet(1 .. n)
  BY FS_Interval
<1>2. IsFiniteSet(B(i)) /\ IsFiniteSet(B(j)) /\ B(i) \in SUBSET B(j)
  BY <1>1, FS_Subset
<1> HIDE DEF B
<1>3. Cardinality(B(i)) \in Nat /\ Cardinality(B(j)) \in Nat
      /\ Cardinality(B(i)) <= Cardinality(B(j))
  BY <1>2, FS_CardinalityType, FS_Subset
<1> QED
  BY <1>3 DEF B, PageNo

LEMMA PagesOf ==
  ASSUME layout \in Layouts
  PROVE  /\ maxPage \in Nat /\ maxPage = MaxPage(layout)
         /\ DOMAIN onPage = 0 .. maxPage
         /\ \A p \in 0 .. maxPage : onPage[p] = {i \in fields : PageNo(layout, i) = p}
         /\ \A i \in fields : PageNo(layout, i) \in 0 .. maxPage
         /\ fields = 1 .. Len(layout) /\ Len(layout) \in Nat \ {0} /\ 1 \in fields
<1>1. fields = 1 .. Len(layout) /\ Len(layout) \in Nat \ {0} /\ 1 \in fields
  BY LayoutFields DEF fields
<1>2. \A i \in fields : PageNo(layout, i) \in Nat
                      /\ PageNo(layout, i) <= PageNo(layout, Len(layout))
  BY <1>1, PageNoGrows
<1>3. MaxPage(layout) \in Nat /\ \A i \in fields : PageNo(layout, i) \in 0 .. MaxPage(layout)
  <2>1. Len(layout) \in fields /\ PageNo(layout, Len(layout)) \in Nat
    BY <1>1, <1>2
  <2> QED
    BY <1>2, <2>1 DEF MaxPage
<1>4. onPage = [p \in 0 .. MaxPage(layout) |-> OnPage(layout, p)]
  BY DEF onPage, OnPageOf
<1>5. maxPage = MaxPage(layout)
  <2>1. Cardinality(0 .. MaxPage(layout)) = MaxPage(layout) + 1
    BY <1>3, FS_Interval
  <2>2. DOMAIN onPage = 0 .. MaxPage(layout)
    BY <1>4
  <2> QED
    BY <1>3, <2>1, <2>2 DEF maxPage
<1> QED
  BY <1>1, <1>3, <1>4, <1>5 DEF OnPage, fields

\* A field between the first and the last one of a page is on that page.
LEMMA Between ==
  ASSUME layout \in Layouts, NEW p \in DOMAIN onPage, onPage[p] # {},
         NEW i \in fields, i \in Min(onPage[p]) .. Max(onPage[p])
  PROVE  i \in onPage[p]
<1>1. PICK n \in Nat : fields = 1 .. n
  BY PagesOf
<1>2. PICK S : S = onPage[p] /\ S \subseteq Nat /\ S \subseteq 0 .. n
               /\ S = {k \in fields : PageNo(layout, k) = p}
  BY <1>1, PagesOf
<1>3. Min(S) \in S /\ Max(S) \in S
  BY <1>2, LeastOf, GreatestOf
<1>4. Min(S) \in Nat /\ Max(S) \in Nat /\ i \in Nat /\ Min(S) <= i /\ i <= Max(S)
  BY <1>1, <1>2, <1>3
<1>5. PageNo(layout, Min(S)) = p /\ PageNo(layout, Max(S)) = p
  BY <1>2, <1>3
<1>6. PageNo(layout, i) = p
  BY <1>4, <1>5, PageNoGrows
<1> QED
  BY <1>2, <1>6

-----------------------------------------------------------------------------
(* The searches *)

\* The field that is found further on is one to visit.
LEMMA AheadUsed ==
  ASSUME layout \in Layouts, NEW order, NEW c
  PROVE  \/ Ahead(order, c) = None
         \/ \E d \in fields : Ahead(order, c) = order[d] /\ use[order[d]]
<1> DEFINE some == {d \in fields : d >= c /\ use[order[d]]}
<1>1. CASE some = {}
  BY <1>1 DEF Ahead
<1>2. CASE some # {}
  <2>1. some \subseteq Nat
    BY PagesOf
  <2>2. Min(some) \in some
    BY <1>2, <2>1, LeastOf
  <2> QED
    BY <1>2, <2>2 DEF Ahead
<1> QED
  BY <1>1, <1>2

LEMMA NextUsed ==
  ASSUME layout \in Layouts
  PROVE  FieldAsked("NEXT") \in {None} \cup {f \in fields : use[f]}
<1>1. FieldAsked("NEXT") = PosNewField(TRUE, InArrayOrder)
  BY DEF FieldAsked
<1>2. PICK c : PosNewField(TRUE, InArrayOrder) = Ahead(InArrayOrder, c)
  BY DEF PosNewField
<1>3. \A d \in fields : InArrayOrder[d] = d
  BY DEF InArrayOrder
<1>4. \/ Ahead(InArrayOrder, c) = None
      \/ \E d \in fields : Ahead(InArrayOrder, c) = InArrayOrder[d] /\ use[InArrayOrder[d]]
  BY AheadUsed
<1> QED
  BY <1>1, <1>2, <1>3, <1>4

\* A page search that finds a field finds a page of the form and a field to visit.
LEMMA FirstFieldFinds ==
  ASSUME layout \in Layouts, NEW p \in Int, FirstField(p).field # None
  PROVE  FirstField(p).page \in DOMAIN onPage /\ use[FirstField(p).field]
<1> DEFINE some == {q \in p .. maxPage : q >= 0 /\ onPage[q] # {}}
           f == Ahead(sorted, PlaceIn(sorted, Min(onPage[Min(some)])))
<1>1. some # {}
  BY DEF FirstField
<1>2. FirstField(p).page = Min(some) /\ FirstField(p).field = f
  BY <1>1 DEF FirstField
<1>3. some \subseteq Nat /\ some \subseteq 0 .. maxPage
  BY PagesOf
<1>4. Min(some) \in some
  BY <1>1, <1>3, LeastOf
<1>5. use[f]
  BY <1>2, AheadUsed
<1> QED
  BY <1>2, <1>3, <1>4, <1>5, PagesOf

-----------------------------------------------------------------------------
(* The steps *)

\* What the fields attached fix.
LEMMA SameFields ==
  ASSUME layout' = layout
  PROVE  fields' = fields /\ onPage' = onPage /\ sorted' = sorted
BY DEF fields, onPage, sorted

\* Where a request leads does not depend on the call that carries it.
LEMMA SameFound ==
  ASSUME UNCHANGED <<layout, use, page, cur>>, NEW c
  PROVE  Found(c)' = Found(c)
<1>1. FieldAsked(c)' = FieldAsked(c)
  BY DEF FieldAsked, TraverseLinks, fields, PosNewField, Ahead, Behind, PlaceIn, sorted,
         InArrayOrder
<1>2. maxPage' = maxPage /\ fields' = fields /\ onPage' = onPage /\ sorted' = sorted
  BY SameFields DEF maxPage
<1>3. PageAsked(c)' = PageAsked(c)
  BY <1>2 DEF PageAsked
<1>4. \A p : FirstField(p)' = FirstField(p)
  BY <1>2 DEF FirstField, PlaceIn, Ahead
<1>5. FirstField(PageAsked(c))' = FirstField(PageAsked(c))
  BY <1>3, <1>4
<1>6. \A found : ShowsField(found)' = ShowsField(found)
  BY <1>2 DEF ShowsField
<1> QED
  BY <1>1, <1>2, <1>3, <1>4, <1>6 DEF Found, FirstField, ShowsField, PlaceIn, Ahead

LEMMA StartsRight == Init => FormInv
<1> SUFFICES ASSUME Init PROVE FormInv
  OBVIOUS
<1>1. layout = <<>> /\ use = <<>> /\ page = 0 /\ cur = 1 /\ posted = FALSE /\ drawn = {}
      /\ pc = "idle" /\ call = NoCall
  BY DEF Init
<1>2. fields = {}
  BY <1>1 DEF fields, Fields
<1>3. use \in [fields -> BOOLEAN]
  <2>1. use = [i \in {} |-> TRUE]
    BY <1>1
  <2> QED
    BY <1>2, <2>1
<1>4. TypeOK
  BY <1>1, <1>2, <1>3 DEF TypeOK
<1>5. call \in Calls
  BY <1>1 DEF Calls, NoCall, None, Requests
<1> QED
  BY <1>1, <1>4, <1>5 DEF FormInv

\* A request, of the user or of a character that skips on, finds what it asks for.
LEMMA EnterKeeps ==
  ASSUME FormInv, NEW c \in Requests, NEW s \in Nat, Enter(c, s), posted, pc \in {"idle", "char"},
         Found(c)
  PROVE  FormInv'
<1>1. UNCHANGED <<layout, use, page, cur, posted, drawn>> /\ pc' = "term"
      /\ call' = [req |-> c, old |-> cur, start |-> s, denied |-> FALSE]
  BY DEF Enter, form
<1>2. fields' = fields /\ onPage' = onPage
  BY <1>1, SameFields
<1>3. Found(c)'
  BY <1>1, SameFound
<1>4. cur \in Nat
  BY LayoutFields DEF FormInv, TypeOK, fields
<1>5. call' \in Calls /\ call'.req = c /\ call'.old = cur
  BY <1>1, <1>4 DEF Calls
<1>6. TypeOK'
  BY <1>1, <1>2 DEF FormInv, TypeOK
<1>7. OnPageShown' /\ drawn' = onPage'[page']
  BY <1>1, <1>2 DEF FormInv, OnPageShown
<1>8. Found(call.req)'
  BY <1>3, <1>5 DEF Found
<1> QED
  BY <1>1, <1>5, <1>6, <1>7, <1>8 DEF FormInv

LEMMA PageMoveKeeps ==
  ASSUME FormInv, PageMove
  PROVE  FormInv'
<1> DEFINE p == PageAsked(call.req)
           found == FirstField(p)
<1>1. /\ pc = "term" /\ call.req \in PageRequests /\ call.req \notin FieldRequests
      /\ pc' = "init" /\ UNCHANGED <<layout, use, posted, drawn>>
  BY DEF PageMove, PageRequests, FieldRequests, LinkRequests
<1>2. posted /\ layout \in Layouts /\ OnPageShown /\ drawn = onPage[page]
      /\ (found.field # None => ShowsField(found))
  BY <1>1 DEF FormInv, Found
<1>3. fields' = fields /\ onPage' = onPage
  BY <1>1, SameFields
<1>4. p \in Int
  <2>1. page \in Int /\ maxPage \in Int
    BY <1>2, PagesOf DEF FormInv, TypeOK
  <2> QED
    BY <1>1, <2>1 DEF PageAsked, PageRequests
<1>5. call \in Calls
  BY DEF FormInv
<1>6. CASE call' = [call EXCEPT !.denied = TRUE] /\ UNCHANGED <<page, cur>>
  <2>1. call' \in Calls /\ call'.req = call.req /\ call'.denied
    BY <1>5, <1>6 DEF Calls
  <2>2. TypeOK'
    BY <1>1, <1>3, <1>6 DEF FormInv, TypeOK
  <2>3. cur \in fields
    BY <1>2, PagesOf DEF OnPageShown
  <2> QED
    BY <1>1, <1>2, <1>3, <1>6, <2>1, <2>2, <2>3 DEF FormInv, OnPageShown, Requests
<1>7. CASE /\ found.field # None /\ page' = found.page /\ cur' = found.field
           /\ call' = [call EXCEPT !.denied = FALSE]
  <2>1. call' \in Calls /\ call'.req = call.req /\ ~call'.denied
    BY <1>5, <1>7 DEF Calls
  <2>2. page' \in DOMAIN onPage /\ cur' \in onPage[page'] /\ use[cur']
    BY <1>2, <1>4, <1>7, FirstFieldFinds DEF ShowsField
  <2>3. page' \in Nat /\ cur' \in fields
    BY <1>2, <2>2, PagesOf
  <2>4. TypeOK'
    BY <1>1, <1>3, <2>3 DEF FormInv, TypeOK
  <2> QED
    BY <1>1, <1>2, <1>3, <2>1, <2>2, <2>3, <2>4 DEF FormInv, Requests
<1>8. \/ call' = [call EXCEPT !.denied = TRUE] /\ UNCHANGED <<page, cur>>
      \/ /\ found.field = None /\ call' = [call EXCEPT !.denied = TRUE]
         /\ page' = page /\ cur' = cur
      \/ /\ found.field # None /\ page' = found.page /\ cur' = found.field
         /\ call' = [call EXCEPT !.denied = FALSE]
  BY DEF PageMove, TakePage
<1> QED
  BY <1>6, <1>7, <1>8

LEMMA FieldMoveKeeps ==
  ASSUME FormInv, FieldMove
  PROVE  FormInv'
<1> DEFINE f == FieldAsked(call.req)
<1>1. /\ pc = "term" /\ call.req \in FieldRequests /\ call.req \notin PageRequests
      /\ pc' = "init" /\ UNCHANGED <<layout, use, posted, page, drawn>>
      /\ cur' = (IF f = None THEN cur ELSE f) /\ call' = [call EXCEPT !.denied = f = None]
  BY DEF FieldMove, PageRequests, FieldRequests, LinkRequests
<1>2. posted /\ layout \in Layouts /\ OnPageShown /\ drawn = onPage[page] /\ call.old = cur
      /\ f \in {None} \cup {i \in fields : use[i]}
  BY <1>1 DEF FormInv, Found
<1>3. fields' = fields /\ onPage' = onPage
  BY <1>1, SameFields
<1>4. call' \in Calls /\ call'.req = call.req /\ call'.old = cur
      /\ call'.denied = (f = None)
  <2>1. call \in Calls /\ (f = None) \in BOOLEAN
    BY DEF FormInv
  <2> QED
    BY <1>1, <1>2, <2>1 DEF Calls
<1>5. cur \in fields /\ cur' \in fields /\ use[cur']
  BY <1>1, <1>2, PagesOf DEF OnPageShown
<1>6. TypeOK'
  BY <1>1, <1>3, <1>5 DEF FormInv, TypeOK
<1>7. f = None => cur' = cur
  BY <1>1
<1> QED
  BY <1>1, <1>2, <1>3, <1>4, <1>5, <1>6, <1>7 DEF FormInv, OnPageShown, Requests

\* The page that the window turns to is the one of the current field.
LEMMA FinishKeeps ==
  ASSUME FormInv, Finish
  PROVE  FormInv'
<1>1. pc = "init" /\ ~call.denied /\ UNCHANGED <<layout, use, cur, posted>>
      /\ pc' \in {"idle", "char"}
  BY DEF Finish
<1>2. posted /\ layout \in Layouts /\ page \in DOMAIN onPage /\ use[cur] /\ cur \in fields
      /\ call.req \in Requests /\ call \in Calls
  BY <1>1 DEF FormInv
<1>3. fields' = fields /\ onPage' = onPage
  BY <1>1, SameFields
<1>4. call' \in Calls
  <2>1. call' = [NoCall EXCEPT !.start = IF pc' = "char" THEN call.start ELSE None]
    BY DEF Finish
  <2> QED
    BY <1>2, <2>1 DEF NoCall, Calls, None
<1>5. page' \in DOMAIN onPage /\ cur \in onPage[page'] /\ drawn' = onPage[page']
  <2>1. CASE call.req \in PageRequests
    BY <1>1, <1>2, <2>1 DEF Finish, DrawPage, FormInv
  <2>2. CASE call.req \notin PageRequests
    <3>1. call.req \in FieldRequests /\ call.old \in onPage[page] /\ drawn = onPage[page]
      BY <1>1, <1>2, <2>2 DEF FormInv, Requests
    <3>2. page' = UpdatePage(call.old)
          /\ drawn' = (IF page' # page THEN onPage[page'] ELSE (drawn \cup {call.old}) \cup {cur})
      BY <2>2 DEF Finish, DrawPage, RedrawField
    <3>3. CASE page' = page /\ cur \in onPage[page]
      BY <1>2, <3>1, <3>2, <3>3
    <3>4. CASE call.old = cur
      BY <3>1, <3>2, <3>3, <3>4 DEF UpdatePage
    <3>5. CASE cur \in Min(onPage[page]) .. Max(onPage[page])
      <4>1. cur \in onPage[page]
        BY <1>2, <3>1, <3>5, Between
      <4> QED
        BY <3>2, <3>3, <3>5, <4>1 DEF UpdatePage
    <3>6. CASE page' = PageNo(layout, cur)
      <4>1. page' \in DOMAIN onPage /\ cur \in onPage[page']
        BY <1>2, <3>6, PagesOf
      <4> QED
        BY <3>2, <3>3, <4>1
    <3> QED
      BY <3>2, <3>4, <3>5, <3>6 DEF UpdatePage
  <2> QED
    BY <2>1, <2>2
<1>6. page' \in Nat /\ drawn' \subseteq fields
  BY <1>2, <1>5, PagesOf
<1>7. TypeOK'
  BY <1>1, <1>2, <1>3, <1>6 DEF FormInv, TypeOK
<1> QED
  BY <1>1, <1>2, <1>3, <1>4, <1>5, <1>7 DEF FormInv, OnPageShown

LEMMA DriverKeeps ==
  ASSUME FormInv, Denied \/ CharEnds \/ AutoSkip
  PROVE  FormInv'
<1>1. CASE Denied
  <2>1. pc = "init" /\ call.denied /\ pc' = "idle" /\ call' = NoCall
        /\ UNCHANGED <<layout, use, page, cur, posted, drawn>>
    BY <1>1 DEF Denied, form
  <2>2. fields' = fields /\ onPage' = onPage
    BY <2>1, SameFields
  <2>3. posted /\ layout \in Layouts /\ OnPageShown /\ drawn = onPage[page]
    BY <2>1 DEF FormInv, OnPageShown
  <2>4. TypeOK' /\ call' \in Calls
    BY <2>1, <2>2 DEF FormInv, TypeOK, NoCall, Calls, None
  <2> QED
    BY <2>1, <2>2, <2>3, <2>4 DEF FormInv, OnPageShown
<1>2. CASE CharEnds
  <2>1. pc = "char" /\ pc' = "idle" /\ call' = NoCall /\ drawn' = drawn \cup {cur}
        /\ UNCHANGED <<layout, use, page, cur, posted>>
    BY <1>2 DEF CharEnds, RedrawField
  <2>2. fields' = fields /\ onPage' = onPage
    BY <2>1, SameFields
  <2>3. posted /\ layout \in Layouts /\ OnPageShown /\ drawn = onPage[page]
    BY <2>1 DEF FormInv
  <2>4. drawn' = drawn
    BY <2>1, <2>3 DEF OnPageShown
  <2>5. TypeOK' /\ call' \in Calls
    BY <2>1, <2>2, <2>4 DEF FormInv, TypeOK, NoCall, Calls, None
  <2> QED
    BY <2>1, <2>2, <2>3, <2>4, <2>5 DEF FormInv, OnPageShown
<1>3. CASE AutoSkip
  <2>1. pc = "char" /\ Enter("NEXT", call.start)
    BY <1>3 DEF AutoSkip
  <2>2. posted /\ layout \in Layouts /\ call.start \in Nat
    BY <2>1 DEF FormInv, Calls
  <2>3. "NEXT" \in Requests /\ "NEXT" \in FieldRequests
    BY DEF Requests, FieldRequests
  <2>4. Found("NEXT")
    BY <2>2, <2>3, NextUsed DEF Found
  <2> QED
    BY <2>1, <2>2, <2>3, <2>4, EnterKeeps
<1> QED
  BY <1>1, <1>2, <1>3

LEMMA UserKeeps ==
  ASSUME FormInv, Cases = {}, User
  PROVE  FormInv'
<1>1. CASE TypeChar
  <2>1. pc = "idle" /\ posted /\ pc' = "char" /\ call' = [call EXCEPT !.start = cur]
        /\ UNCHANGED <<layout, use, page, cur, posted, drawn>>
    BY <1>1 DEF TypeChar, form
  <2>2. fields' = fields /\ onPage' = onPage
    BY <2>1, SameFields
  <2>3. cur \in Nat
    BY LayoutFields DEF FormInv, TypeOK, fields
  <2>4. TypeOK' /\ call' \in Calls
    BY <2>1, <2>2, <2>3 DEF FormInv, TypeOK, Calls
  <2> QED
    BY <2>1, <2>2, <2>4 DEF FormInv, OnPageShown
<1>2. ASSUME NEW c \in Requests, Request(c)
      PROVE  FormInv'
  <2>1. pc = "idle" /\ posted /\ Enter(c, None) /\ None \in Nat
    BY <1>2 DEF Request, None
  <2>2. Found(c)
    BY <1>2 DEF Request, Unless, Found, Requests
  <2> QED
    BY <2>1, <2>2, EnterKeeps
<1> QED
  BY <1>1, <1>2 DEF User, Requests

LEMMA ProgramKeeps ==
  ASSUME FormInv, Cases = {}, Program
  PROVE  FormInv'
<1>1. ASSUME NEW l \in Layouts, SetFormFields(l)
      PROVE  FormInv'
  <2>1. /\ pc = "idle" /\ ~posted /\ layout' = l /\ use' \in [Fields(l) -> BOOLEAN] /\ cur' = 1
        /\ UNCHANGED <<page, posted, drawn, pc, call>>
    BY <1>1 DEF SetFormFields
  <2>2. drawn' = {} /\ fields' = Fields(l)
    BY <2>1 DEF FormInv, fields
  <2>3. TypeOK'
    BY <2>1, <2>2 DEF FormInv, TypeOK
  <2> QED
    BY <2>1, <2>2, <2>3 DEF FormInv
<1>2. CASE PostForm
  <2> DEFINE found == FirstField(page)
  <2>1. /\ pc = "idle" /\ ~posted /\ layout # <<>> /\ UNCHANGED <<layout, use, pc, call>>
        /\ found.field # None /\ ShowsField(found)
        /\ page' = found.page /\ cur' = found.field
        /\ IF onPage[page'] = {} THEN UNCHANGED <<drawn, posted>>
           ELSE drawn' = onPage[page'] /\ posted' = TRUE
    BY <1>2 DEF PostForm, Unless, TakePage, DrawPage
  <2>2. layout \in Layouts /\ page \in Int
    BY <2>1 DEF FormInv, TypeOK
  <2>3. fields' = fields /\ onPage' = onPage
    BY <2>1, SameFields
  <2>4. page' \in DOMAIN onPage /\ cur' \in onPage[page'] /\ use[cur']
    BY <2>1, <2>2, FirstFieldFinds DEF ShowsField
  <2>5. drawn' = onPage[page'] /\ posted' = TRUE
    BY <2>1, <2>4
  <2>6. page' \in Nat /\ cur' \in fields /\ drawn' \subseteq fields
    BY <2>2, <2>4, <2>5, PagesOf
  <2>7. TypeOK'
    BY <2>1, <2>3, <2>5, <2>6 DEF FormInv, TypeOK
  <2> QED
    BY <2>1, <2>2, <2>3, <2>4, <2>5, <2>7 DEF FormInv, OnPageShown
<1>3. CASE UnpostForm
  <2>1. fields' = fields
    BY <1>3, SameFields DEF UnpostForm
  <2>2. TypeOK'
    BY <1>3, <2>1 DEF FormInv, UnpostForm, TypeOK
  <2> QED
    BY <1>3, <2>2 DEF FormInv, UnpostForm
<1>4. ASSUME NEW f \in DOMAIN use, HookSetsCurrent(f)
      PROVE  FormInv'
  <2>1. /\ pc = "init" /\ ~call.denied /\ call.req \in FieldRequests /\ cur' = f /\ use[f]
        /\ UNCHANGED <<layout, use, posted, page, drawn, pc, call>>
    BY <1>4 DEF HookSetsCurrent, Unless
  <2>2. fields' = fields /\ onPage' = onPage /\ f \in fields
    BY <2>1, SameFields DEF FormInv, TypeOK
  <2>3. TypeOK'
    BY <2>1, <2>2 DEF FormInv, TypeOK
  <2>4. call.req \notin PageRequests
    BY <2>1 DEF PageRequests, FieldRequests, LinkRequests
  <2> QED
    BY <2>1, <2>2, <2>3, <2>4 DEF FormInv
<1>5. ASSUME NEW f \in DOMAIN use, SetCurrentField(f)
      PROVE  FormInv'
  <2>1. /\ pc = "idle" /\ (posted => use[f] /\ f \in onPage[page]) /\ cur' = f
        /\ UNCHANGED <<layout, use, posted, page, drawn, pc, call>>
    BY <1>5 DEF SetCurrentField, Unless
  <2>2. fields' = fields /\ onPage' = onPage /\ f \in fields
    BY <2>1, SameFields DEF FormInv, TypeOK
  <2>3. TypeOK'
    BY <2>1, <2>2 DEF FormInv, TypeOK
  <2> QED
    BY <2>1, <2>2, <2>3 DEF FormInv, OnPageShown
<1>6. ASSUME NEW f \in DOMAIN use, NEW b \in BOOLEAN, SetFieldOpts(f, b)
      PROVE  FormInv'
  <2>1. /\ pc = "idle" /\ f # cur /\ (posted => f \in onPage[page]) /\ use' = [use EXCEPT ![f] = b]
        /\ drawn' = (IF posted THEN drawn \cup {f} ELSE drawn)
        /\ UNCHANGED <<layout, posted, page, cur, pc, call>>
    BY <1>6 DEF SetFieldOpts, Unless, RedrawField
  <2>2. fields' = fields /\ onPage' = onPage /\ f \in fields
    BY <2>1, SameFields DEF FormInv, TypeOK
  <2>3. drawn' = drawn /\ use'[cur] = use[cur]
    BY <2>1 DEF FormInv
  <2>4. TypeOK'
    BY <2>1, <2>2, <2>3 DEF FormInv, TypeOK
  <2> QED
    BY <2>1, <2>2, <2>3, <2>4 DEF FormInv, OnPageShown
<1>7. ASSUME layout # <<>>, NEW p \in 0 .. maxPage, SetFormPage(p)
      PROVE  FormInv'
  <2>1. pc = "idle" /\ ~posted /\ page' = p /\ UNCHANGED <<layout, use, posted, cur, drawn, pc, call>>
    BY <1>7 DEF SetFormPage, Unless
  <2>2. fields' = fields
    BY <2>1, SameFields
  <2>3. layout \in Layouts
    BY <1>7 DEF FormInv, TypeOK
  <2>4. p \in Nat
    BY <2>3, PagesOf
  <2>5. TypeOK'
    BY <2>1, <2>2, <2>4 DEF FormInv, TypeOK
  <2> QED
    BY <2>1, <2>5 DEF FormInv
<1> QED
  BY <1>1, <1>2, <1>3, <1>4, <1>5, <1>6, <1>7 DEF Program

LEMMA StutterKeeps ==
  ASSUME FormInv, UNCHANGED vars
  PROVE  FormInv'
<1>1. UNCHANGED <<layout, use, page, cur, posted, drawn, pc, call>>
  BY DEF vars
<1>2. fields' = fields /\ onPage' = onPage
  BY <1>1, SameFields
<1>3. Found(call.req)' = Found(call.req)
  <2>1. PICK c : c = call.req
    OBVIOUS
  <2>2. Found(c)' = Found(c)
    BY <1>1, SameFound
  <2> QED
    BY <1>1, <2>1, <2>2 DEF Found
<1> QED
  BY <1>1, <1>2, <1>3 DEF FormInv, TypeOK, OnPageShown

\* The inductive invariant: how far page, current field and window are out of step at
\* each hook of a request.
THEOREM FormInvariant ==
  ASSUME Cases = {}
  PROVE  Spec => []FormInv
<1>1. FormInv /\ [Next]_vars => FormInv'
  BY PageMoveKeeps, FieldMoveKeeps, FinishKeeps, DriverKeeps, UserKeeps, ProgramKeeps,
     StutterKeeps DEF Next, Driver
<1> QED
  BY StartsRight, <1>1, PTL DEF Spec

-----------------------------------------------------------------------------
(* The properties *)

\* However requests, hooks and options follow one another, the current field of a
\* posted form is one to visit and on the page of the form (form_driver,
\* _formi_update_page), as long as the program does nothing of what Cases lists.
THEOREM CurrentFieldOnPage ==
  ASSUME Cases = {}
  PROVE  Spec => []CurrentOnPage
<1>1. FormInv => CurrentOnPage
  BY DEF FormInv, CurrentOnPage, Shows, OnPageShown
<1>2. Spec => []FormInv
  BY FormInvariant
<1> QED
  BY <1>1, <1>2, PTL

\* The window shows the fields of the page of the form and no other, whatever page it
\* turned to (_formi_draw_page, _formi_update_field).
THEOREM WindowShowsPage ==
  ASSUME Cases = {}
  PROVE  Spec => []ShownIsPage
<1>1. FormInv => ShownIsPage
  BY DEF FormInv, ShownIsPage, Shows
<1>2. Spec => []FormInv
  BY FormInvariant
<1> QED
  BY <1>1, <1>2, PTL
=============================================================================
