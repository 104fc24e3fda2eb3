-------------------------------- MODULE Items -------------------------------
(***************************************************************************)
(* Items and menus as a program makes, marks, connects and frees them:     *)
(* lib/libmenu/item.c and the calls of menu.c that connect, as functions   *)
(* of the state of the library; and the columns in which items are drawn.  *)
(* Memory is never short.                                                  *)
(*                                                                         *)
(*   items   the items made so far; Default stands for the NULL item,      *)
(*           which is the prototype of new ones                            *)
(*   menus   the menus made so far, Default likewise                       *)
(*                                                                         *)
(* Names, descriptions and marks are their lengths.  The pattern of a menu *)
(* is a number of its own, NoPattern, or Gone when it was freed but not    *)
(* forgotten.  What menus do when they are on the screen is in Menu.       *)
(***************************************************************************)
EXTENDS Integers, SequencesExt

Default   == 0
None      == -1                              \* no menu, no window, no mark
NoPattern == 0
Gone      == -1

Result(s, value) == [s |-> s, value |-> value]
Fails(s, error) == Result(s, error)
Done(s) == Result(s, "E_OK")
NewId(f) == Max(DOMAIN f) + 1
With(f, id, x) == [i \in DOMAIN f \cup {id} |-> IF i = id THEN x ELSE f[i]]

DefaultItem == [name |-> 0, desc |-> 0, selectable |-> TRUE, selected |-> FALSE,
                parent |-> None, index |-> -1, freed |-> FALSE]
DefaultMenu == [items |-> <<>>, connected |-> FALSE, cur |-> 0,
                mark |-> 0, unmark |-> 0, width |-> 0, cols |-> 1,
                opts |-> {"ONEVALUE"}, pattern |-> NoPattern, posted |-> FALSE, inInit |-> FALSE,
                win |-> None, sub |-> None, scr |-> None, freed |-> FALSE]
\* patterns: how many were made
NoneMade == [items |-> [i \in {Default} |-> DefaultItem],
             menus |-> [m \in {Default} |-> DefaultMenu],
             patterns |-> 0]

(***************************************************************************)
(* Items.                                                                  *)
(***************************************************************************)
NewItem(s, name, desc) ==
  LET id == NewId(s.items)
  IN  Result([s EXCEPT !.items = With(@, id, [@[Default] EXCEPT !.name = name, !.desc = desc])], id)
FreeItem(s, item) ==
  IF item = Default THEN Fails(s, "E_BAD_ARGUMENT")
  ELSE IF s.items[item].parent # None THEN Fails(s, "E_CONNECTED")
  ELSE Done([s EXCEPT !.items[item].freed = TRUE])

\* set_item_opts() can only set the option there is, not leave it out
SetItemOpts(s, item, opts) ==
  IF opts # {"SELECTABLE"} THEN Fails(s, "E_SYSTEM_ERROR")
  ELSE Done([s EXCEPT !.items[item].selectable = TRUE])
ItemOptsOff(s, item, opts) ==
  IF opts # {"SELECTABLE"} THEN Fails(s, "E_SYSTEM_ERROR")
  ELSE Done([s EXCEPT !.items[item].selectable = FALSE])
SetItemValue(s, item, flag) ==
  LET i == s.items[item]
  IN  IF i.parent = None THEN Fails(s, "E_NOT_CONNECTED")
      ELSE IF "ONEVALUE" \in s.menus[i.parent].opts THEN Fails(s, "E_REQUEST_DENIED")
      ELSE Done([s EXCEPT !.items[item].selected = flag])
ItemSelected(s, menu) == {i \in DOMAIN s.menus[menu].items : s.items[s.menus[menu].items[i]].selected}
\* any item that has a place in some menu will do
SetCurrentItem(s, menu, item) ==
  IF s.menus[menu].inInit THEN Fails(s, "E_BAD_STATE")
  ELSE IF ~s.menus[menu].connected THEN Fails(s, "E_NOT_CONNECTED")
  ELSE IF s.items[item].index < 0 THEN Fails(s, "E_BAD_ARGUMENT")
  ELSE Done([s EXCEPT !.menus[menu].cur = s.items[item].index])

(***************************************************************************)
(* Marks and the widest item.                                              *)
(***************************************************************************)
WidthOf(s, m, item) ==
  s.items[item].name + Max({m.mark, m.unmark}) + IF "SHOWDESC" \in m.opts THEN s.items[item].desc + 1 ELSE 0
\* _menui_max_item_size: it only grows
Sized(s, menu) ==
  LET m == s.menus[menu]
  IN  [s EXCEPT !.menus[menu].width = Max({@} \cup {WidthOf(s, m, item) : item \in Range(m.items)})]
SetMenuMark(s, menu, mark) == Done(Sized([s EXCEPT !.menus[menu].mark = mark], menu))
SetMenuUnmark(s, menu, mark) == Done(Sized([s EXCEPT !.menus[menu].unmark = mark], menu))
ScaleMenu(s, menu) ==
  LET sized == Sized(s, menu)
      m     == sized.menus[menu]
  IN  IF ~m.connected THEN Fails(s, "E_BAD_ARGUMENT")
      ELSE Result(sized, m.cols * m.width + m.cols - 1)

(***************************************************************************)
(* Menus.                                                                  *)
(***************************************************************************)
SetMenuWin(s, menu, win) ==
  IF menu # Default /\ s.menus[menu].posted THEN Fails(s, "E_POSTED")
  ELSE Done([s EXCEPT !.menus[menu].win = win, !.menus[menu].scr = win])
SetMenuSub(s, menu, win) ==
  IF menu # Default /\ s.menus[menu].posted THEN Fails(s, "E_POSTED")
  ELSE Done([s EXCEPT !.menus[menu].sub = win, !.menus[menu].scr = win])

\* the pattern is gone for every menu that has it
Forget(s, pattern) ==
  [s EXCEPT !.menus = [m \in DOMAIN @ |-> IF pattern # NoPattern /\ @[m].pattern = pattern
                                          THEN [@[m] EXCEPT !.pattern = Gone] ELSE @[m]]]
\* set_menu_pattern, but for the search; realloc moves the pattern or not
SetMenuPattern(s, menu, moves) ==
  LET old == s.menus[menu].pattern
      id  == s.patterns + 1
  IN  IF old # NoPattern /\ ~moves THEN Done(s)
      ELSE Done([Forget(s, old) EXCEPT !.patterns = id, !.menus[menu].pattern = id])

\* forgotten: the places too, and not only the menu
Disconnected(s, menu, forgotten) ==
  [s EXCEPT !.items = [i \in DOMAIN @ |->
                        IF i \in Range(s.menus[menu].items)
                        THEN [@[i] EXCEPT !.parent = None, !.index = IF forgotten THEN -1 ELSE @]
                        ELSE @[i]]]
Place(items, item) == Max({i \in DOMAIN items : items[i] = item}) - 1
Connected(s, menu, items) ==
  [s EXCEPT !.items = [i \in DOMAIN @ |->
                        IF i \in Range(items)
                        THEN [@[i] EXCEPT !.parent = menu, !.index = Place(items, i)] ELSE @[i]],
            !.menus[menu] = [@ EXCEPT !.items = items, !.connected = TRUE, !.cur = 0]]
SetMenuItems(s, menu, items) ==
  LET m     == s.menus[menu]
      radio == "RADIO" \in m.opts
      chosen == {i \in DOMAIN items : s.items[items[i]].selected}
      connected == Connected(Disconnected(s, menu, TRUE), menu, items)
      selected  == IF radio /\ chosen = {} THEN [connected EXCEPT !.items[items[1]].selected = TRUE]
                   ELSE connected
  IN  IF m.posted THEN Fails(s, "E_POSTED")
      ELSE IF \E item \in Range(items) : s.items[item].parent \notin {None, menu} THEN Fails(s, "E_CONNECTED")
      ELSE IF radio /\ Cardinality(chosen) > 1 THEN Fails(s, "E_BAD_ARGUMENT")
      ELSE Done(Sized(Forget(selected, m.pattern), menu))

\* the mark is always this one, whatever was set for the menus to come
DefaultMark == 1
NoItems == <<None>>                          \* the NULL array
NewMenu(s, items) ==
  LET id   == NewId(s.menus)
      new  == [s.menus[Default] EXCEPT !.scr = IF s.menus[Default].win = None THEN "stdscr" ELSE @]
      made == SetMenuMark([s EXCEPT !.menus = With(@, id, new)], id, DefaultMark).s
      r    == SetMenuItems(made, id, items)
  IN  IF items = NoItems THEN Result(made, id)
      ELSE IF r.value = "E_OK" THEN Result(r.s, id) ELSE Fails(s, None)
\* the items keep their places
FreeMenu(s, menu) ==
  LET m == s.menus[menu]
  IN  IF menu = Default THEN Fails(s, "E_BAD_ARGUMENT")
      ELSE IF m.posted THEN Fails(s, "E_POSTED")
      ELSE Done([Disconnected(Forget(s, m.pattern), menu, FALSE) EXCEPT !.menus[menu].freed = TRUE])

(***************************************************************************)
(* Where an item is drawn in a window of maxx columns: the columns it      *)
(* writes, of which a long text may need more than there are, and those    *)
(* of a place without an item.  The column between two items is no part of *)
(* either.                                                                 *)
(***************************************************************************)
ColWidth(maxx, cols) == maxx \div cols
Start(maxx, cols, col) == col * (ColWidth(maxx, cols) + 1)
\* width: of name and mark, and of the description if it is shown
Written(maxx, cols, col, width, desc) ==
  LET start == Start(maxx, cols, col)
  IN  start .. start + Max({width + desc, ColWidth(maxx, cols) - IF desc > 0 THEN 0 ELSE 1}) - 1
Blanked(maxx, cols, col) ==
  Start(maxx, cols, col) .. Start(maxx, cols, col) + ColWidth(maxx, cols) - 1
\* post_menu
Fits(maxx, cols, width) == cols * width + cols - 1 <= maxx

(***************************************************************************)
(* What a program may count on, and what it may not.                       *)
(***************************************************************************)
Live(s) == {m \in DOMAIN s.menus : ~s.menus[m].freed}
\* a call on the menu finds its pattern
Sound(s, menu) == menu \in Live(s) /\ s.menus[menu].pattern # Gone
\* the items of a menu are there, and each knows a place it has in it
PointBack(s) ==
  \A m \in Live(s) : \A item \in Range(s.menus[m].items) :
    ~s.items[item].freed /\ s.items[item].parent = m /\ s.menus[m].items[s.items[item].index + 1] = item
\* an item that has a menu is one of its items
Listed(s) == \A i \in DOMAIN s.items : s.items[i].parent # None =>
               s.items[i].parent \in Live(s) /\ i \in Range(s.menus[s.items[i].parent].items)
\* the current item is one the menu has
CurrentThere(s) == \A m \in Live(s) : s.menus[m].items # <<>> => s.menus[m].cur < Len(s.menus[m].items)
\* the items of a menu that is freed still pass for items of another one
PassOn(s, menu, other) ==
  LET r == FreeMenu(s, menu)
  IN  r.value = "E_OK" => \A item \in Range(s.menus[menu].items) :
                            SetCurrentItem(r.s, other, item).value = SetCurrentItem(s, other, item).value
\* the items of a menu fit in its columns, but if descriptions are shown only
\* after the next scale_menu()
WideEnough(s, menu) ==
  LET m == s.menus[menu]
      room(st) == \A item \in Range(m.items) : WidthOf(s, m, item) <= st.menus[menu].width
  IN  /\ "SHOWDESC" \notin m.opts => room(s)
      /\ m.connected => room(ScaleMenu(s, menu).s) /\ ScaleMenu(s, menu).value >= m.cols * m.width
\* a radio menu has one selected item when it gets its items
RadioChosen(s, menu, items) ==
  LET r == SetMenuItems(s, menu, items)
  IN  r.value = "E_OK" /\ "RADIO" \in s.menus[menu].opts =>
        \E i \in ItemSelected(r.s, menu) : \A j \in ItemSelected(r.s, menu) : items[j] = items[i]
\* the menus to come get their unmark from the default, and not their mark
MarksOfNew(s, mark) ==
  LET r == NewMenu(SetMenuUnmark(SetMenuMark(s, Default, mark).s, Default, mark).s, NoItems)
  IN  r.s.menus[r.value].mark = DefaultMark /\ r.s.menus[r.value].unmark = mark
\* items that fit do not touch; those of the last column may go beyond the
\* window, and on into the next line
ItemsApart(maxx, cols, width, desc) ==
  /\ \A c, d \in 0 .. cols - 1 :
       c # d => Written(maxx, cols, c, width, desc) \cap Written(maxx, cols, d, width, desc) = {}
  /\ Written(maxx, cols, cols - 1, width, desc) \subseteq 0 .. maxx - 1
       <=> cols = 1 \/ maxx % cols >= cols - (IF desc > 0 THEN 1 ELSE 2)
  /\ Blanked(maxx, cols, cols - 1) \subseteq 0 .. maxx - 1 <=> maxx % cols = cols - 1
=============================================================================
