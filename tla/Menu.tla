-------------------------------- MODULE Menu --------------------------------
(***************************************************************************)
(* A menu of libmenu: menu_driver(), the calls that set a menu up, and     *)
(* what is drawn in its window (lib/libmenu).                              *)
(*                                                                         *)
(* The window is a grid of cells, each wide enough for an item.  An item   *)
(* is drawn with its highlighting and its mark.                            *)
(*                                                                         *)
(* Requests call the hooks of the program before and after the current     *)
(* item and the top row change, and a hook may call the library again.     *)
(* stack holds the calls that wait for a hook: what they have computed and *)
(* not yet stored.                                                         *)
(***************************************************************************)
EXTENDS MenuGrid, FiniteSets, SequencesExt

CONSTANTS
  Items,             \* the items
  Name,              \* the name of each, a sequence of letters
  Selectable,        \* those with O_SELECTABLE
  Valued,            \* those the program selects with set_item_value
  Arrays,            \* the item arrays the program attaches
  Formats,           \* the formats it sets: <<rows, cols>>
  Options,           \* the option sets it sets: see Option
  Patterns,          \* the patterns it sets
  Typed,             \* the letters the user types
  Height, Width,     \* of the window: in rows of items, and in columns
  MarkLength,        \* the longer of mark and unmark
  MaxCalls,          \* bound: calls in progress, one in the hook of the other
  Cases              \* what the program does beside the usual: see Case

Option == {"onevalue", "rowmajor", "noncyclic", "radio"}

Letters == UNION {ToSet(Name[i]) : i \in Items}

Case == {"past",       \* scrolls a menu filled by columns past its last row
         "place",      \* makes an item current that the window does not show
         "radio",      \* toggles a radio menu while the window does not show
                       \* the selected item, or selects its items itself
         "reverse",    \* REQ_PREV_MATCH without another match
         "round",      \* REQ_SCR_DPAGE in a column so short that the page goes
                       \* round it and ends where it began
         "unused",     \* formats with columns that stay empty
         "pattern"}    \* attaches items while there is a pattern

ASSUME MenuAssumption ==
  /\ Name \in [Items -> Seq(Letters)]
  /\ Selectable \subseteq Items /\ Valued \subseteq Items
  /\ \A a \in Arrays : a \in Seq(Items) /\ Len(a) > 0 /\ IsInjective(a)
  /\ \A f \in Formats : f[1] \in 1 .. Height /\ f[2] \in Nat \ {0}
  /\ Options \subseteq SUBSET Option /\ Typed \subseteq Letters
  /\ \A p \in Patterns : p \in Seq(ToSet(p))
  /\ {Height, Width, MarkLength, MaxCalls} \subseteq Nat
  /\ Cases \subseteq Case

VARIABLES
  array,             \* the attached items, <<>> if none
  form,              \* the layout of the last stitching
  rows, cols,        \* the format
  opts,
  cur, top,          \* cur_item and top_row
  pat,               \* the pattern buffer and match_len
  posted, inInit,
  width,             \* max_item_width
  selected,          \* of each item
  win,               \* what is drawn, and which items are flagged visible
  stack,             \* calls that wait for a hook
  hung               \* a search that does not end

layout  == <<array, form, rows, cols, width>>
place   == <<cur, top>>
vars == <<array, form, rows, cols, opts, cur, top, pat, posted, inInit, width,
          selected, win, stack, hung>>

Count == Len(array)

Forms == [n : {0} \cup {Len(a) : a \in Arrays}, cols : {f[2] : f \in Formats},
          byRow : BOOLEAN, cyclic : BOOLEAN]

LinksOf == [f \in Forms |-> Links(f)]

\* The rows, columns and neighbours of the items.
links == LinksOf[form]

NoItem == 0          \* no member of Items

Cell == [item : Items \cup {NoItem}, bright : BOOLEAN, mark : BOOLEAN]
Empty == [item |-> NoItem, bright |-> FALSE, mark |-> FALSE]

Columns == UNION {0 .. f[2] - 1 : f \in Formats}

EmptyCells == [y \in 0 .. Height - 1 |-> [x \in Columns |-> Empty]]

NoPattern == [null |-> TRUE, text |-> <<>>, plen |-> 0, match |-> 0]

\* What drawing looks at.
Now == [top |-> top, cur |-> cur, selected |-> selected]

InView(t, i) == links[i].row \in t .. t + rows - 1

\* The program may call: it runs, or one of its hooks does.
Calls == ~hung /\ Len(stack) < MaxCalls

\* A call that waits: the step it is at, and its local variables.
Frame(at, new, newTop) ==
  [at |-> at, new |-> new, newTop |-> newTop, oldTop |-> top, oldCur |-> cur]

At(step) == stack # <<>> /\ ~hung /\ Last(stack).at = step

Goes(step) == stack' = [stack EXCEPT ![Len(stack)].at = step]

Returns == stack' = Front(stack)

-----------------------------------------------------------------------------
(* Drawing *)

Face(now, i) ==
  [item |-> array[i + 1], bright |-> now.cur = i,
   mark |-> now.selected[array[i + 1]] \/ ("onevalue" \in opts /\ now.cur = i)]

\* _menui_draw_item for each item of a set; no two are drawn in one cell.
\* wmove refuses a place outside the window: the text then goes wherever the
\* cursor is.
DrawItems(w, now, S) ==
  LET here(y, x) == {i \in S : links[i].row - now.top = y /\ links[i].col = x}
  IN  [cells |-> [y \in 0 .. Height - 1 |-> [x \in Columns |->
                    IF here(y, x) = {} THEN w.cells[y][x] ELSE Face(now, Least(here(y, x)))]],
       spilt |-> w.spilt \/ \E i \in S : links[i].row - now.top \notin 0 .. Height - 1,
       visible |-> [i \in DOMAIN w.visible |-> w.visible[i] \/ i \in S]]

DrawItem(w, now, i) == DrawItems(w, now, {i})

\* _menui_draw_menu looks for the first item of the top row and counts on from
\* it.  Behind the last row of a menu filled by columns that leads to the next
\* column, whose items are drawn where they belong.
DrawMenu(w, now) ==
  LET byRow  == "rowmajor" \in opts
      stride == IF byRow THEN 1 ELSE ItemRows(form)
      incr   == IF byRow THEN form.cols ELSE 1
      starts == {i \in 0 .. Count - 1 : i % incr = 0 /\ links[i].row = now.top}
      start  == IF starts = {} THEN ((Count + incr - 1) \div incr) * incr ELSE Least(starts)
      at(y, x) == x * stride + start + y * incr
      drawn  == {i \in 0 .. Count - 1 :
                   \E y \in 0 .. rows - 1, x \in 0 .. cols - 1 : at(y, x) = i}
      above  == IF starts = {} THEN 0 .. Count - 1
                ELSE {i \in 0 .. Count - 1 : links[i].row < now.top}
      below  == {i \in 0 .. Count - 1 : links[i].row >= now.top + rows}
      here(y, x) == {i \in drawn : links[i].row - now.top = y /\ links[i].col = x}
  IN  [cells |-> [y \in 0 .. Height - 1 |-> [x \in Columns |->
                    IF here(y, x) # {} THEN Face(now, Least(here(y, x)))
                    ELSE IF y < rows /\ x < cols /\ at(y, x) >= Count THEN Empty
                    ELSE w.cells[y][x]]],
       spilt |-> w.spilt \/ \E i \in drawn : links[i].row - now.top \notin 0 .. Height - 1,
       visible |-> [i \in DOMAIN w.visible |->
                      IF i \in below THEN FALSE ELSE IF i \in drawn THEN TRUE
                      ELSE IF i \in above THEN FALSE ELSE w.visible[i]]]

Erased == [win EXCEPT !.cells = EmptyCells, !.spilt = FALSE]

\* mutant: the item that was current stays highlighted
RedrawNew(now, oldTop, oldCur) ==
  IF now.top # oldTop THEN DrawMenu(Erased, now) ELSE DrawItem(win, now, now.cur)

\* _menui_redraw_menu
Redraw(now, oldTop, oldCur) ==
  IF now.top # oldTop THEN DrawMenu(Erased, now)
  ELSE IF now.cur # oldCur THEN DrawItem(DrawItem(win, now, oldCur), now, now.cur)
  ELSE DrawItem(win, now, now.cur)

-----------------------------------------------------------------------------
(* Searching: _menui_match_items *)

Matches(text, plen, i) ==
  LET name == Name[array[i + 1]]
  IN  plen <= Len(name) /\ SubSeq(name, 1, plen) = SubSeq(text, 1, plen)

Starts(dir) == CASE dir = "here" -> cur
                 [] dir = "next" -> (cur + 1) % Count
                 [] dir = "prev" -> IF cur = 0 THEN Count - 1 ELSE cur - 1

\* Backwards the search goes round before it comes to item 0.
Step(dir, i) == IF dir # "prev" THEN (i + 1) % Count
                ELSE IF i <= 1 THEN Count - 1 ELSE i - 1

\* The items in the order they are looked at.
Visited(dir) ==
  LET path[k \in 0 .. Count] == IF k = 0 THEN Starts(dir) ELSE Step(dir, path[k - 1])
  IN  path

\* How many are looked at until the search is back at the current item; more
\* than there are if it never is.
Round(dir) == LET back == {k \in 1 .. Count : Visited(dir)[k] = cur}
              IN  IF back = {} THEN Count + 1 ELSE Least(back)

\* The item found: Nowhere if none matches, Endless if the search goes on.
Endless == -2

Found(dir, text, plen) ==
  LET hits == {k \in 0 .. Round(dir) - 1 : k <= Count /\ Matches(text, plen, Visited(dir)[k])}
  IN  IF hits # {} THEN Visited(dir)[Least(hits)]
      ELSE IF Round(dir) > Count THEN Endless ELSE Nowhere

-----------------------------------------------------------------------------
(* Requests *)

\* _menui_goto_item, up to its first hook.
Goto(new, newTop) ==
  /\ inInit' = TRUE
  /\ stack' = Append(stack, Frame(IF newTop # top THEN "menu_term" ELSE "item_term",
                                  new, newTop))

\* The top row that shows the new item.
Scrolled(new, t) ==
  IF links[new].row < t THEN links[new].row
  ELSE IF links[new].row >= t + rows THEN links[new].row - rows + 1
  ELSE t

\* The end of menu_driver.
Accept(new, t) ==
  IF new = Nowhere \/ (new = cur /\ Scrolled(new, t) = top)
  THEN UNCHANGED <<inInit, stack>>
  ELSE Goto(new, Scrolled(new, t))

\* What menu_driver requires.
Driver == Calls /\ posted /\ ~inInit

\* A link followed k times.
Along(way, k) ==
  LET path[j \in 0 .. k] == IF j = 0 THEN cur
                            ELSE IF path[j - 1] = Nowhere THEN Nowhere
                            ELSE links[path[j - 1]][way]
  IN  path[k]

Pages(n) == IF n > rows THEN rows ELSE n

\* driver.c does not look for the end of a row or column: the program ends if a
\* link is a null pointer before the last is followed.
Falls(way, n) == \E k \in 0 .. n - 1 : Along(way, k) = Nowhere

\* The new item and the new top row of a request that moves, Nowhere if it is
\* denied.
Target(req) ==
  LET denied == <<Nowhere, top>>
      R      == ItemRows(form)
      wrap(k, end) == IF "noncyclic" \in opts THEN denied ELSE <<k, top>>
  IN  CASE req \in {"left", "right", "up", "down"} -> <<links[cur][req], top>>
        [] req = "uline" -> IF top = 0 THEN denied ELSE <<links[cur].up, top - 1>>
        [] req = "dline" -> IF top + rows > R THEN denied ELSE <<links[cur].down, top + 1>>
        [] req = "dpage" -> IF R - rows - top <= 0 THEN denied
                            ELSE LET n == Pages(R - rows - top)
                                 IN  <<Along("down", n), top + n>>
        [] req = "upage" -> IF top = 0 THEN denied
                            ELSE <<Along("up", Pages(top)), top - Pages(top)>>
        [] req = "first" -> <<0, top>>
        [] req = "last"  -> <<Count - 1, top>>
        [] req = "next"  -> IF cur + 1 >= Count THEN wrap(0, Count) ELSE <<cur + 1, top>>
        [] req = "prev"  -> IF cur = 0 THEN wrap(Count - 1, 0) ELSE <<cur - 1, top>>

Moves == {"left", "right", "up", "down", "uline", "dline", "dpage", "upage", "first", "last",
          "next", "prev"}

\* Is a menu filled by columns not scrolled past its last row?  If it is, the
\* items of the next column are drawn above the window.
Inside(f, n, t) == f.byRow \/ t = 0 \/ t + n <= ItemRows(f)

\* A request that scrolls and comes back to the current item: _menui_goto_item
\* draws the window only for another item.
Rounds(req) == Target(req)[1] = cur /\ Scrolled(cur, Target(req)[2]) # top

\* A request that moves clears the pattern first.
Move(req) ==
  /\ Driver
  /\ req = "dline" => Inside(form, rows, top + 1) \/ "past" \in Cases
  /\ req = "dpage" => /\ ~Falls("down", Pages(ItemRows(form) - rows - top))
                      /\ Rounds(req) => "round" \in Cases
  /\ req = "upage" => ~Falls("up", Pages(top))
  /\ pat' = NoPattern
  /\ Accept(Target(req)[1], Target(req)[2])
  /\ UNCHANGED <<layout, place, opts, posted, selected, win, hung>>

Only(item) == [k \in Items |-> IF k \in Range(array) THEN k = item ELSE selected[k]]

\* REQ_TOGGLE_ITEM.  A radio menu draws every item it deselects, shown or not.
Toggle ==
  /\ Driver
  /\ pat' = NoPattern
  /\ LET item  == array[cur + 1]
         flips == /\ item \in Selectable
                  /\ "radio" \in opts => ~selected[item]
                  /\ "onevalue" \in opts => "radio" \in opts
         others == {i \in 0 .. Count - 1 : i # cur /\ selected[array[i + 1]]}
         chosen == IF "radio" \in opts THEN Only(item)
                   ELSE [selected EXCEPT ![item] = ~@]
         now    == [Now EXCEPT !.selected = chosen]
         hidden == \E i \in others : ~InView(top, i)
     IN  IF ~flips THEN UNCHANGED <<selected, win, inInit, stack>>
         ELSE /\ "radio" \in opts /\ hidden => "radio" \in Cases
              /\ selected' = chosen
              /\ win' = DrawItems(win, now, {cur} \cup IF "radio" \in opts THEN others ELSE {})
              /\ Accept(cur, top)
  /\ UNCHANGED <<layout, place, opts, posted, hung>>

\* REQ_CLEAR_PATTERN
ClearPattern ==
  /\ Driver
  /\ ~pat.null
  /\ pat' = NoPattern
  /\ Accept(cur, top)
  /\ UNCHANGED <<layout, place, opts, posted, selected, win, hung>>

\* REQ_BACK_PATTERN shortens the length, not the string.
BackPattern ==
  /\ Driver
  /\ ~pat.null /\ pat.plen > 0
  /\ pat' = [pat EXCEPT !.plen = @ - 1]
  /\ Accept(cur, top)
  /\ UNCHANGED <<layout, place, opts, posted, selected, win, hung>>

\* What a search makes of the pattern and where the menu goes.
Searched(dir, text, plen, kept) ==
  LET f == Found(dir, text, plen)
  IN  /\ hung' = (f = Endless)
      /\ pat' = IF f >= 0 THEN [null |-> FALSE, text |-> text, plen |-> plen, match |-> plen]
                ELSE [kept EXCEPT !.match = 0]
      /\ Accept(IF f >= 0 THEN f ELSE cur, top)

\* REQ_NEXT_MATCH, REQ_PREV_MATCH
MatchAgain(dir) ==
  /\ Driver
  /\ ~pat.null
  /\ Found(dir, pat.text, pat.plen) # Endless \/ "reverse" \in Cases
  /\ Searched(dir, pat.text, pat.plen, pat)
  /\ UNCHANGED <<layout, place, opts, posted, selected, win>>

\* A printable character joins the pattern unless that is too long then or
\* nothing matches.
Character(c) ==
  /\ Driver
  /\ LET text == Append(SubSeq(pat.text, 1, pat.plen), c)
         kept == [pat EXCEPT !.null = FALSE, !.text = SubSeq(@, 1, pat.plen)]
     IN  IF pat.plen + 1 >= width
         THEN pat' = kept /\ Accept(cur, top) /\ UNCHANGED hung
         ELSE Searched("here", text, pat.plen + 1, kept)
  /\ UNCHANGED <<layout, place, opts, posted, selected, win>>

-----------------------------------------------------------------------------
(* The hooks of a request return *)

\* menu_term has returned: the top row changes.
TermReturns ==
  /\ At("menu_term")
  /\ top' = Last(stack).newTop
  /\ Goes("menu_init")
  /\ UNCHANGED <<layout, opts, cur, pat, posted, inInit, selected, win, hung>>

\* menu_init has returned.
InitReturns ==
  /\ At("menu_init")
  /\ IF cur # Last(stack).new
     THEN Goes("item_term") /\ UNCHANGED inInit
     ELSE Returns /\ inInit' = FALSE
  /\ UNCHANGED <<layout, place, opts, pat, posted, selected, win, hung>>

\* item_term has returned: the current item changes and is drawn.
ItemTermReturns ==
  /\ At("item_term")
  /\ LET f == Last(stack)
     IN  /\ cur' = f.new
         /\ win' = Redraw([Now EXCEPT !.cur = f.new], f.oldTop, f.oldCur)
  /\ Goes("item_init")
  /\ UNCHANGED <<layout, opts, top, pat, posted, inInit, selected, hung>>

ItemInitReturns ==
  /\ At("item_init")
  /\ Returns
  /\ inInit' = FALSE
  /\ UNCHANGED <<layout, place, opts, pat, posted, selected, win, hung>>

-----------------------------------------------------------------------------
(* post_menu, unpost_menu *)

\* The hooks of post_menu run before the menu is posted.
Post ==
  /\ Calls /\ ~posted /\ ~inInit /\ array # <<>>
  /\ inInit' = TRUE
  /\ stack' = Append(stack, Frame("post", cur, top))
  /\ UNCHANGED <<layout, place, opts, pat, posted, selected, win, hung>>

\* A menu that does not fit is not posted.
Fits == cols * width + cols - 1 <= Width

PostReturns ==
  /\ At("post")
  /\ inInit' = FALSE
  /\ Returns
  /\ posted' = Fits
  /\ LET chosen == IF "radio" \in opts THEN selected
                   ELSE [i \in Items |-> selected[i] /\ i \notin Range(array)]
     IN  IF Fits THEN /\ selected' = chosen
                      /\ win' = DrawMenu(win, [Now EXCEPT !.selected = chosen])
         ELSE UNCHANGED <<selected, win>>
  /\ UNCHANGED <<layout, place, opts, pat, hung>>

\* The hooks of unpost_menu run while the menu is posted, and may call
\* anything.
Unpost ==
  /\ Calls /\ posted /\ ~inInit
  /\ stack' = Append(stack, Frame("unpost", cur, top))
  /\ UNCHANGED <<layout, place, opts, pat, posted, inInit, selected, win, hung>>

UnpostReturns ==
  /\ At("unpost")
  /\ Returns
  /\ posted' = FALSE
  /\ win' = Erased
  /\ UNCHANGED <<layout, place, opts, pat, inInit, selected, hung>>

-----------------------------------------------------------------------------
(* Setting the menu up *)

FormOf(a, c, o) == [n |-> Len(a), cols |-> c, byRow |-> "rowmajor" \in o,
                    cyclic |-> "noncyclic" \notin o]

\* _menui_stitch_items, which refuses a posted menu.
Stitch(a, c, o) ==
  IF posted \/ a = <<>> THEN UNCHANGED <<form, width>>
  ELSE /\ form' = FormOf(a, c, o)
       /\ width' = Greatest({width} \cup {Len(Name[a[k]]) + MarkLength : k \in DOMAIN a})

\* A radio menu selects its first item if the program selected none.
Chose(a) == IF "radio" \in opts /\ \A k \in DOMAIN a : ~selected[a[k]]
            THEN [selected EXCEPT ![a[1]] = TRUE] ELSE selected

Usual(f) == ColumnsUsed(f) \/ "unused" \in Cases

FirstPlace == cur' = 0 /\ top' = 0

\* set_menu_items
SetItems(a) ==
  /\ Calls /\ ~posted
  /\ "radio" \in opts => Cardinality({k \in DOMAIN a : selected[a[k]]}) <= 1
  /\ pat.null \/ "pattern" \in Cases
  /\ Usual(FormOf(a, cols, opts))
  /\ array' = a
  /\ FirstPlace
  /\ pat' = IF pat.null THEN pat ELSE [pat EXCEPT !.plen = 0, !.match = 0]
  /\ selected' = Chose(a)
  /\ win' = [win EXCEPT !.visible = [i \in 0 .. Len(a) - 1 |-> FALSE]]
  /\ Stitch(a, cols, opts)
  /\ UNCHANGED <<rows, cols, opts, posted, inInit, stack, hung>>

Shows(f, l, r, t, i) == \/ array = <<>> \/ "place" \in Cases
                        \/ l[i].row \in t .. t + r - 1 /\ Inside(f, r, t)

\* set_menu_format
SetFormat(r, c) ==
  /\ Calls
  /\ posted => r = rows /\ c = cols
  /\ LET f == FormOf(array, c, opts)
     IN  array # <<>> => Usual(f) /\ Shows(f, LinksOf[f], r, top, cur)
  /\ rows' = r /\ cols' = c
  /\ Stitch(array, c, opts)
  /\ UNCHANGED <<array, place, opts, pat, posted, inInit, selected, win, stack, hung>>

\* set_menu_opts, menu_opts_on and menu_opts_off.  Of the selected items of a
\* menu that becomes a radio menu the first stays so.
SetOpts(o) ==
  /\ Calls
  /\ ~posted
  /\ LET f == FormOf(array, cols, o)
     IN  array # <<>> => Usual(f) /\ Shows(f, LinksOf[f], rows, top, cur)
  /\ opts' = o
  /\ LET on == {k \in 1 .. Count : selected[array[k]]}
     IN  selected' = IF "radio" \in o /\ array # <<>>
                     THEN Only(array[IF on = {} THEN 1 ELSE Least(on)])
                     ELSE selected
  /\ IF ("rowmajor" \in o) = ("rowmajor" \in opts) THEN UNCHANGED <<form, width>>
     ELSE Stitch(array, cols, o)
  /\ UNCHANGED <<array, rows, cols, place, pat, posted, inInit, win, stack, hung>>

\* set_menu_pattern makes the item it finds the current one.
SetPattern(p) ==
  /\ Calls /\ array # <<>>
  /\ LET f == Found("here", p, Len(p))
     IN  /\ pat' = [null |-> FALSE, text |-> p, plen |-> Len(p),
                    match |-> IF f >= 0 THEN Len(p) ELSE 0]
         /\ cur' = IF f >= 0 THEN f ELSE cur
         /\ posted => f \in {cur, Nowhere}
         /\ Shows(form, links, rows, top, cur')
  /\ UNCHANGED <<layout, top, opts, posted, inInit, selected, win, stack, hung>>

FirstOfNone(row) == cur          \* mutant: the current item stays

\* The leftmost item of a row.
FirstOf(row) == Least({i \in 0 .. Count - 1 : links[i].row = row})

\* set_top_row
SetTopRow(row) ==
  /\ Calls /\ ~inInit /\ array # <<>>
  /\ row < ItemRows(form)
  /\ posted => row = top /\ FirstOf(row) = cur
  /\ Inside(form, rows, row)
  /\ IF posted THEN /\ inInit' = TRUE
                    /\ stack' = Append(stack, Frame("top_term", FirstOf(row), row))
                    /\ UNCHANGED place
     ELSE cur' = FirstOf(row) /\ top' = row /\ UNCHANGED <<inInit, stack>>
  /\ UNCHANGED <<layout, opts, pat, posted, selected, win, hung>>

\* menu_term and item_term, then menu_init and item_init.
TopTermReturns ==
  /\ At("top_term")
  /\ cur' = Last(stack).new /\ top' = Last(stack).newTop
  /\ Goes("top_init")
  /\ UNCHANGED <<layout, opts, pat, posted, inInit, selected, win, hung>>

TopInitReturns ==
  /\ At("top_init")
  /\ Returns
  /\ inInit' = FALSE
  /\ UNCHANGED <<layout, place, opts, pat, posted, selected, win, hung>>

\* set_current_item
SetCurrent(i) ==
  /\ Calls /\ ~inInit /\ array # <<>>
  /\ posted => i = cur
  /\ Shows(form, links, rows, top, i)
  /\ cur' = i
  /\ UNCHANGED <<layout, top, opts, pat, posted, inInit, selected, win, stack, hung>>

\* set_item_value draws the item.
SetValue(i, on) ==
  /\ Calls /\ posted
  /\ "onevalue" \notin opts
  /\ array[i + 1] \in Valued
  /\ InView(top, i) \/ "place" \in Cases
  /\ "radio" \notin opts \/ "radio" \in Cases
  /\ selected' = [selected EXCEPT ![array[i + 1]] = on]
  /\ win' = DrawItem(win, [Now EXCEPT !.selected = selected'], i)
  /\ UNCHANGED <<layout, place, opts, pat, posted, inInit, stack, hung>>

-----------------------------------------------------------------------------
Init ==
  /\ array = <<>>
  /\ \E f \in Formats : rows = f[1] /\ cols = f[2]
  /\ form = [n |-> 0, cols |-> cols, byRow |-> TRUE, cyclic |-> TRUE]
  /\ opts \in Options
  /\ cur = 0 /\ top = 0
  /\ pat = NoPattern
  /\ posted = FALSE /\ inInit = FALSE
  /\ width = 0
  /\ selected = [i \in Items |-> FALSE]
  /\ win = [cells |-> EmptyCells, spilt |-> FALSE, visible |-> <<>>]
  /\ stack = <<>>
  /\ hung = FALSE

Request == \/ \E req \in Moves : Move(req)
           \/ Toggle \/ ClearPattern \/ BackPattern
           \/ \E dir \in {"next", "prev"} : MatchAgain(dir)
           \/ \E c \in Typed : Character(c)

SetUp == \/ \E a \in Arrays : SetItems(a)
         \/ \E f \in Formats : SetFormat(f[1], f[2])
         \/ \E o \in Options : SetOpts(o)
         \/ \E p \in Patterns : SetPattern(p)
         \/ \E row \in 0 .. ItemRows(form) - 1 : SetTopRow(row)
         \/ \E i \in 0 .. Count - 1 : SetCurrent(i) \/ \E on \in BOOLEAN : SetValue(i, on)

Hook == \/ TermReturns \/ InitReturns \/ ItemTermReturns \/ ItemInitReturns
        \/ PostReturns \/ UnpostReturns \/ TopTermReturns \/ TopInitReturns

Next == Request \/ SetUp \/ Post \/ Unpost \/ Hook

Spec == Init /\ [][Next]_vars

-----------------------------------------------------------------------------
\* Every variable has its type; the current item is one of the menu.
TypeOK ==
  /\ array \in Arrays \cup {<<>>}
  /\ opts \in Options
  /\ cur \in 0 .. Count - 1 \/ array = <<>>
  /\ top \in Nat
  /\ pat.plen <= Len(pat.text) /\ pat.match \in Nat
  /\ selected \in [Items -> BOOLEAN]
  /\ win.cells \in [0 .. Height - 1 -> [Columns -> Cell]]
  /\ \A k \in DOMAIN stack : stack[k].newTop \in Nat

Grids == {f \in Forms : Grid(f, LinksOf[f])}

\* The links of the attached items are those of the grid that the format, the
\* options and the number of items describe: _menui_calc_neighbours, and every
\* call that must stitch the items again.
Linked ==
  /\ TypeOK
  /\ array # <<>> =>
       /\ form = [FormOf(array, cols, opts) EXCEPT !.cyclic = form.cyclic]
       /\ form \in Grids

\* What a cell of the window should show.
ShouldShow(y, x) ==
  LET here == {i \in 0 .. Count - 1 : links[i].row = top + y /\ links[i].col = x}
  IN  IF here = {} THEN Empty ELSE Face(Now, Least(here))

\* Between requests the window of a posted menu shows its rows from the top row
\* on, with the highlight on the current item and the marks where they belong,
\* and an item is flagged visible if it is shown: menu_driver draws only what
\* it believes has changed.  The current item is among those rows.
Shown ==
  posted /\ ~inInit =>
    /\ ~win.spilt
    /\ InView(top, cur)
    /\ \A y \in 0 .. rows - 1, x \in 0 .. cols - 1 : win.cells[y][x] = ShouldShow(y, x)
    /\ \A i \in 0 .. Count - 1 : win.visible[i] <=> InView(top, i)

\* A menu filled by columns whose last column is shorter than the others, and
\* where it ends the links end, too.
EndsShort(f) == ~f.byRow /\ ~f.cyclic /\ f.n % ItemRows(f) # 0

\* Scrolling by a page follows one link for each row and comes to the end of
\* the menu only with the last of them (driver.c does not look), unless the
\* last column ends short.
PagesLand ==
  posted /\ ~inInit /\ ~EndsShort(form) =>
    /\ ~Falls("down", Pages(ItemRows(form) - rows - top))
    /\ ~Falls("up", Pages(top))

\* A search for the pattern ends (menu_driver.3: "Attempt to find the previous
\* item that matches the pattern buffer").
SearchEnds == ~hung
=============================================================================
