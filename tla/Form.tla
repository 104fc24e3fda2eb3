-------------------------------- MODULE Form --------------------------------
(***************************************************************************)
(* A form of libform: its pages, the order of its fields, and the moves of *)
(* form_driver() from field to field (lib/libform).                        *)
(*                                                                         *)
(* Fields are numbered from 1 in the order of the array the program        *)
(* attached, pages from 0 as in the code.  What a field holds, and whether *)
(* it passes validation, is left open: a request may always be refused.    *)
(* A driver request calls a hook of the program before and after it moves, *)
(* and the hook may call the library.                                      *)
(***************************************************************************)
EXTENDS Integers, FiniteSets, SequencesExt

CONSTANTS
  Layouts,           \* the arrays of fields: sequences of [row, col, brk]
  Cases              \* what the program does beside the usual: see Case

Case == {"shrunk",     \* attaches fields while the page of the form is one the
                       \* new fields do not have
         "elsewhere",  \* sets the current field, or the page, of a posted form
                       \* to another page
         "nofield",    \* posts a form with no field to visit from its page on
         "beyond",     \* has pages with no field to visit
         "ends",       \* goes to the first or the last field though it is not
                       \* to be visited
         "foreign",    \* changes a field that is not on the page shown
         "hook"}       \* sets the current field in other hooks than the one
                       \* after a move from field to field

ASSUME FormAssumption ==
  /\ \A l \in Layouts :
       /\ l \in Seq([row : Nat, col : Nat, brk : BOOLEAN]) /\ Len(l) > 0
       /\ \A i, j \in DOMAIN l : l[i].row = l[j].row /\ l[i].col = l[j].col => i = j
                                   \/ \E k \in DOMAIN l : l[k].brk
  /\ Cases \subseteq Case

VARIABLES
  layout,            \* the fields attached, <<>> if none
  use,               \* of each field: is it O_ACTIVE and O_VISIBLE?
  page, cur,         \* page and cur_field
  posted,
  drawn,             \* the fields that the window shows
  pc,                \* where the driver is: "idle", "char" before a character
                     \* is added, "term" and "init" before a hook
  call               \* the request, and what it has found out

form == <<layout, use, page, cur, posted, drawn>>
vars == <<layout, use, page, cur, posted, drawn, pc, call>>

None == 0

Fields(l) == DOMAIN l

-----------------------------------------------------------------------------
(***************************************************************************)
(* Pages, the sorted order, and the four links of a field.                 *)
(***************************************************************************)

PageNo(l, i) == Cardinality({j \in 1 .. i : l[j].brk})

MaxPage(l) == 1 + PageNo(l, Len(l))

\* The fields of a page.  When the first field begins a page there is none on 0.
OnPage(l, p) == {i \in Fields(l) : PageNo(l, i) = p}

TopLeft(a, b) == a.row < b.row \/ (a.row = b.row /\ a.col < b.col)

Sorts(l, i, j) ==
  \/ PageNo(l, i) < PageNo(l, j)
  \/ PageNo(l, i) = PageNo(l, j) /\ TopLeft(l[i], l[j])

Sorted(l) == SetToSortSeq(Fields(l), LAMBDA i, j : Sorts(l, i, j))

(***************************************************************************)
(* Up and down: one walk over the sorted fields, with a place in the row   *)
(* above and one in the row below.  r holds the rows of the sorted fields. *)
(***************************************************************************)
RowAfter(r, p) ==
  LET later == {q \in p .. Len(r) : r[q] # r[p]}
  IN  IF later = {} THEN None ELSE Min(later)

LinkUp(r, w, c) ==
  IF w.endAbove THEN w
  ELSE [w EXCEPT !.up[c] = w.above, !.above = @ + 1,
                 !.endAbove = r[w.above + 1] # r[w.above]]

LinkDown(r, w, c) ==
  IF w.endBelow THEN w
  ELSE IF w.below = Len(r)
    THEN [w EXCEPT !.down[c] = w.below, !.below = None, !.endBelow = TRUE]
    ELSE [w EXCEPT !.down[c] = w.below, !.below = @ + 1,
                   !.endBelow = r[w.below + 1] # r[w.below]]

\* The next field begins a row.
NextRow(r, w) ==
  LET above == IF w.above = None THEN 1
               ELSE IF w.endAbove THEN w.above ELSE RowAfter(r, w.above)
      below == IF w.endBelow THEN w.below ELSE RowAfter(r, w.below)
  IN  [w EXCEPT !.above = above, !.endAbove = FALSE,
                !.below = below, !.endBelow = below = None]

StitchField(r, w, c) ==
  LET linked == LinkDown(r, LinkUp(r, w, c), c)
  IN  IF c < Len(r) /\ r[c + 1] # r[c] THEN NextRow(r, linked) ELSE linked

StitchRows(r) ==
  LET nil   == [c \in DOMAIN r |-> None]
      below == RowAfter(r, 1)
  IN  FoldLeft(LAMBDA w, c : StitchField(r, w, c),
               [up |-> nil, down |-> nil, above |-> None, endAbove |-> TRUE,
                below |-> below, endBelow |-> below = None],
               [c \in DOMAIN r |-> c])

Stitch(l) ==
  LET order == Sorted(l)
      walk  == StitchRows([c \in DOMAIN order |-> l[order[c]].row])
      place == [i \in Fields(l) |-> CHOOSE c \in DOMAIN order : order[c] = i]
      Field(c) == IF c \in DOMAIN order THEN order[c] ELSE None
  IN  [LEFT  |-> [i \in Fields(l) |-> Field(place[i] - 1)],
       RIGHT |-> [i \in Fields(l) |-> Field(place[i] + 1)],
       UP    |-> [i \in Fields(l) |-> Field(walk.up[place[i]])],
       DOWN  |-> [i \in Fields(l) |-> Field(walk.down[place[i]])]]

-----------------------------------------------------------------------------
OnPageOf   == [l \in Layouts |-> [p \in 0 .. MaxPage(l) |-> OnPage(l, p)]]
SortedOf   == [l \in Layouts |-> Sorted(l)]
LinksOf    == [l \in Layouts |-> Stitch(l)]

onPage   == OnPageOf[layout]
maxPage  == Cardinality(DOMAIN onPage) - 1
fields   == Fields(layout)
sorted   == SortedOf[layout]

InArrayOrder == [i \in fields |-> i]

PlaceIn(order, i) == CHOOSE c \in fields : order[c] = i

\* The first field to visit at place c or after it, in either direction.
Ahead(order, c) ==
  LET some == {d \in fields : d >= c /\ use[order[d]]}
  IN  IF some = {} THEN None ELSE order[Min(some)]

Behind(order, c) ==
  LET some == {d \in fields : d <= c /\ use[order[d]]}
  IN  IF some = {} THEN None ELSE order[Max(some)]

PosNewFieldStays(forward, order) ==
  LET c == PlaceIn(order, cur)
      f == IF forward THEN Ahead(order, c + 1) ELSE Behind(order, c - 1)
  IN  IF f = None THEN cur ELSE f

PosNewField(forward, order) ==
  LET c == PlaceIn(order, cur)
  IN  IF forward THEN Ahead(order, c + 1) ELSE Behind(order, c - 1)

TraverseLinks(link) ==
  LET to[i \in fields] ==
        IF link[i] = None \/ use[link[i]] THEN link[i] ELSE to[link[i]]
  IN  to[cur]

(***************************************************************************)
(* The first field on page p, or on the next page that has fields.  The    *)
(* search for a field to visit follows the sorted order to its end.        *)
(***************************************************************************)
FirstField(p) ==
  LET some == {q \in p .. maxPage : q >= 0 /\ onPage[q] # {}}
      q    == Min(some)
      f    == Ahead(sorted, PlaceIn(sorted, Min(onPage[q])))
  IN  IF some = {} THEN [page |-> p, field |-> None]
      ELSE [page |-> q, field |-> f]

ShowsField(found) == found.field \in onPage[found.page]

Unless(c, usual) == c \in Cases \/ usual

-----------------------------------------------------------------------------
(***************************************************************************)
(* form_driver().                                                          *)
(***************************************************************************)

PageRequests == {"NEXT_PAGE", "PREV_PAGE", "FIRST_PAGE", "LAST_PAGE"}

LinkRequests == {"LEFT", "RIGHT", "UP", "DOWN"}

FieldRequests == LinkRequests \cup
  {"NEXT", "PREV", "FIRST", "LAST", "SNEXT", "SPREV", "SFIRST", "SLAST"}

NoCall == [req |-> "none", old |-> None, start |-> None, denied |-> FALSE]

Enter(c, start) ==
  /\ call' = [req |-> c, old |-> cur, start |-> start, denied |-> FALSE]
  /\ pc' = "term"
  /\ UNCHANGED form

\* Where a page request goes; None if there is no such page.
PageAsked(c) ==
  CASE c = "NEXT_PAGE"  -> IF page < maxPage THEN page + 1 ELSE -1
    [] c = "PREV_PAGE"  -> page - 1
    [] c = "FIRST_PAGE" -> 0
    [] c = "LAST_PAGE"  -> maxPage - 1

\* The page and field after the search; what they were when it was denied.
TakePage(found) == IF found.field = None THEN <<page, cur>> ELSE <<found.page, found.field>>

PageMove ==
  /\ pc = "term" /\ call.req \in PageRequests
  /\ LET p     == PageAsked(call.req)
         found == FirstField(p)
         take  == TakePage(found)
     IN  IF p < 0
         THEN UNCHANGED <<page, cur>> /\ call' = [call EXCEPT !.denied = TRUE]
         ELSE /\ page' = take[1] /\ cur' = take[2]
              /\ call' = [call EXCEPT !.denied = found.field = None]
  /\ pc' = "init"
  /\ UNCHANGED <<layout, use, posted, drawn>>

FieldAsked(c) ==
  CASE c = "NEXT"   -> PosNewField(TRUE, InArrayOrder)
    [] c = "PREV"   -> PosNewField(FALSE, InArrayOrder)
    [] c = "SNEXT"  -> PosNewField(TRUE, sorted)
    [] c = "SPREV"  -> PosNewField(FALSE, sorted)
    [] c = "FIRST"  -> 1
    [] c = "LAST"   -> Len(layout)
    [] c = "SFIRST" -> sorted[1]
    [] c = "SLAST"  -> sorted[Len(layout)]
    [] OTHER        -> TraverseLinks(LinksOf[layout][c])

FieldMove ==
  /\ pc = "term" /\ call.req \in FieldRequests
  /\ LET f == FieldAsked(call.req)
     IN  /\ cur' = IF f = None THEN cur ELSE f
         /\ call' = [call EXCEPT !.denied = f = None]
  /\ pc' = "init"
  /\ UNCHANGED <<layout, use, posted, page, drawn>>

Request(c) ==
  /\ pc = "idle" /\ posted
  /\ c \in PageRequests => Unless("beyond", LET found == FirstField(PageAsked(c))
                                           IN  found.field # None => ShowsField(found))
  /\ c \in FieldRequests => Unless("ends", FieldAsked(c) \in {None} \cup {f \in fields : use[f]})
  /\ Enter(c, None)

RedrawField(shown, i) == shown \cup {i}

\* _formi_draw_page() after wclear(), and without it.
DrawOver(p, shown) == shown \cup onPage[p]

DrawPage(p, shown) == onPage[p]

\* The page to show for the current field.
StayOnPage(old) == page

UpdatePage(old) ==
  IF old = cur \/ cur \in Min(onPage[page]) .. Max(onPage[page]) THEN page
  ELSE PageNo(layout, cur)

Finish ==
  /\ pc = "init" /\ ~call.denied
  /\ IF call.req \in PageRequests
     THEN page' = page /\ drawn' = DrawPage(page, drawn)
     ELSE /\ page' = UpdatePage(call.old)
          /\ drawn' = IF page' # page THEN DrawPage(page', drawn)
                      ELSE RedrawField(RedrawField(drawn, call.old), cur)
  /\ pc' = IF call.start \in {None, cur} THEN "idle" ELSE "char"
  /\ call' = [NoCall EXCEPT !.start = IF pc' = "char" THEN call.start ELSE None]
  /\ UNCHANGED <<layout, use, cur, posted>>

Denied ==
  /\ pc = "init" /\ call.denied
  /\ pc' = "idle" /\ call' = NoCall
  /\ UNCHANGED form

(***************************************************************************)
(* A character.  When it does not fit in a field with O_AUTOSKIP the       *)
(* driver calls itself to go to the next field and tries again there,      *)
(* until it is back where it started.                                      *)
(***************************************************************************)
TypeChar ==
  /\ pc = "idle" /\ posted
  /\ pc' = "char" /\ call' = [call EXCEPT !.start = cur]
  /\ UNCHANGED form

CharEnds ==
  /\ pc = "char"
  /\ drawn' = RedrawField(drawn, cur)
  /\ pc' = "idle" /\ call' = NoCall
  /\ UNCHANGED <<layout, use, posted, page, cur>>

AutoSkip == pc = "char" /\ Enter("NEXT", call.start)

\* A hook of the driver makes another field current.
HookSetsCurrent(f) ==
  /\ pc \in {"term", "init"} /\ use[f]
  /\ Unless("hook", /\ pc = "init" /\ ~call.denied
                    /\ call.start = None /\ call.req \in FieldRequests)
  /\ cur' = f
  /\ UNCHANGED <<layout, use, posted, page, drawn, pc, call>>

-----------------------------------------------------------------------------
(***************************************************************************)
(* The calls of the program.                                               *)
(***************************************************************************)

SetFormFields(l) ==
  /\ pc = "idle" /\ ~posted
  /\ Unless("shrunk", page <= MaxPage(l))
  /\ layout' = l /\ use' \in [Fields(l) -> BOOLEAN] /\ cur' = 1
  /\ UNCHANGED <<page, posted, drawn, pc, call>>

PostForm ==
  /\ pc = "idle" /\ ~posted /\ layout # <<>> /\ page <= maxPage
  /\ LET found == FirstField(page)
         take  == TakePage(found)
     IN  /\ Unless("nofield", found.field # None)
         /\ Unless("beyond", found.field # None => ShowsField(found))
         /\ page' = take[1] /\ cur' = take[2]
         /\ IF onPage[page'] = {} THEN UNCHANGED <<drawn, posted>>
            ELSE drawn' = DrawPage(page', drawn) /\ posted' = TRUE
  /\ UNCHANGED <<layout, use, pc, call>>

UnpostForm ==
  /\ pc = "idle" /\ posted
  /\ drawn' = {} /\ posted' = FALSE
  /\ UNCHANGED <<layout, use, page, cur, pc, call>>

SetCurrentField(f) ==
  /\ pc = "idle" /\ Unless("ends", posted => use[f])
  /\ Unless("elsewhere", posted => f \in onPage[page])
  /\ cur' = f
  /\ UNCHANGED <<layout, use, posted, page, drawn, pc, call>>

SetFormPage(p) ==
  /\ pc = "idle" /\ p <= maxPage
  /\ Unless("elsewhere", ~posted)
  /\ page' = p
  /\ UNCHANGED <<layout, use, posted, cur, drawn, pc, call>>

\* set_field_opts(): refused for the current field.
SetFieldOpts(f, b) ==
  /\ pc = "idle" /\ f # cur
  /\ Unless("foreign", posted => f \in onPage[page])
  /\ use' = [use EXCEPT ![f] = b]
  /\ drawn' = IF posted THEN RedrawField(drawn, f) ELSE drawn
  /\ UNCHANGED <<layout, posted, page, cur, pc, call>>

Init ==
  /\ layout = <<>> /\ use = <<>> /\ page = 0 /\ cur = 1
  /\ posted = FALSE /\ drawn = {} /\ pc = "idle" /\ call = NoCall

User == TypeChar \/ \E c \in PageRequests \cup FieldRequests : Request(c)

Driver == PageMove \/ FieldMove \/ Finish \/ Denied \/ CharEnds \/ AutoSkip

Program ==
  \/ \E l \in Layouts : SetFormFields(l)
  \/ PostForm \/ UnpostForm
  \/ \E f \in DOMAIN use : \/ HookSetsCurrent(f) \/ SetCurrentField(f)
                           \/ \E b \in BOOLEAN : SetFieldOpts(f, b)
  \/ layout # <<>> /\ \E p \in 0 .. maxPage : SetFormPage(p)

Next == User \/ Driver \/ Program

\* The driver is a function: it runs on once it is called.
Spec == Init /\ [][Next]_vars /\ WF_vars(Driver)

-----------------------------------------------------------------------------
(***************************************************************************)
(* Properties.                                                             *)
(***************************************************************************)

\* The state is of the form the code gives it; the current page and the current
\* field can be looked up.
TypeOK ==
  /\ layout \in Layouts \cup {<<>>} /\ use \in [fields -> BOOLEAN]
  /\ page \in Nat /\ cur \in fields \cup {1} /\ posted \in BOOLEAN
  /\ drawn \subseteq fields /\ pc \in {"idle", "char", "term", "init"}

Shows == posted /\ pc \in {"idle", "char"}

\* The page of a form is one the form has: post_form() reads its entry in
\* page_starts (internals.c:378).
PageExists == layout # <<>> => page <= maxPage

\* The current field of a posted form is on the page of the form: moves by
\* position, by index and by link cross pages, page moves search for a field,
\* hooks move the current field between the two, and a character may skip on.
\* The user is on a field that is to be visited (O_ACTIVE and O_VISIBLE), whatever
\* options change on the way.
CurrentOnPage ==
  /\ TypeOK
  /\ Shows => page \in DOMAIN onPage /\ cur \in onPage[page] /\ use[cur]

\* The window shows the fields of the page and no other (_formi_draw_page,
\* _formi_update_field).
ShownIsPage == Shows => drawn = onPage[page]

\* A character finds a field or is refused: skipping from full field to full
\* field comes to an end (driver.c:117).
TypingEnds == pc = "char" ~> pc = "idle"
=============================================================================
