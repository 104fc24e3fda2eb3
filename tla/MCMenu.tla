------------------------------- MODULE MCMenu -------------------------------
EXTENDS Menu

\* Four items and five; some names begin with others.
Names == [i \in 1 .. 5 |-> IF i = 1 THEN <<"a">> ELSE IF i = 3 THEN <<"b", "a">> ELSE <<"b">>]

FourOrTwo == {<<1, 2, 3, 4>>, <<4, 2>>}

\* Two of four rows, and one of two rows of which one has a single item.
LongOrWide == {<<2, 1>>, <<1, 3>>}

OnePattern == {<<"b">>}

Usually == {{"rowmajor"}, {"onevalue", "noncyclic"}, {"radio"}}

(***************************************************************************)
(* What three calls make of two items and two menus, one that has an item  *)
(* and a radio menu that has none.                                         *)
(***************************************************************************)
Made == INSTANCE Items

TwoMenus ==
  LET s == Made!NewItem(Made!NewItem(Made!NoneMade, 1, 0).s, 3, 2).s
      t == Made!NewMenu(Made!NewMenu(s, <<1>>).s, Made!NoItems).s
  IN  [t EXCEPT !.menus[1].opts = {}, !.menus[2].opts = {"RADIO", "SHOWDESC"}]
Menus(s) == {m \in DOMAIN s.menus : Made!Sound(s, m)}
Alive(s) == {i \in DOMAIN s.items : ~s.items[i].freed /\ s.items[i].parent \in Menus(s) \cup {Made!None}}
Lists(s) == {<<i>> : i \in Alive(s) \ {0}} \cup {<<i, j>> : i, j \in Alive(s) \ {0}}
Connects(s) == {Made!SetMenuItems(s, m, l).s : m \in Menus(s), l \in Lists(s)}
                 \cup {Made!NewMenu(s, l).s :
                         l \in {l \in {<<1>>, Made!NoItems} : 0 \in Menus(s) /\ 1 \in Alive(s)}}
Chooses(s) == {Made!SetCurrentItem(s, m, i).s : m \in Menus(s), i \in Alive(s)}
Frees(s) == {Made!FreeMenu(s, m).s : m \in Menus(s)} \cup {Made!FreeItem(s, i).s : i \in Alive(s)}
Marks(s) == {Made!SetMenuMark(s, m, mark).s : m \in Menus(s), mark \in {0, 2}}
              \cup {Made!SetMenuPattern(s, m, moves).s : m \in Menus(s), moves \in BOOLEAN}
              \cup {Made!SetItemValue(s, i, flag).s : i \in Alive(s), flag \in BOOLEAN}
              \cup {Made!ItemOptsOff(s, i, {"SELECTABLE"}).s : i \in Alive(s)}
MadeOf(s) == Connects(s) \cup Chooses(s) \cup Frees(s) \cup Marks(s)
Made2 == {TwoMenus} \cup MadeOf(TwoMenus) \cup UNION {MadeOf(s) : s \in MadeOf(TwoMenus)}

\* while the default menu has no items, menus and items keep track of each
\* other, and only set_current_item() takes an item of another menu
ASSUME ItemsConnected ==
  \A s \in Made2 : \A t \in MadeOf(s) :
    /\ t.menus[Made!Default].items = <<>> => Made!PointBack(t) /\ Made!Listed(t)
    /\ Made!CurrentThere(s) /\ ~Made!CurrentThere(t) => t \in Chooses(s)
\* attaching items to a menu leaves it the pattern it frees; a menu that took
\* over the pattern of the default menu loses it with that
ASSUME PatternsGone ==
  \A s \in Made2 : \A m \in Menus(s) :
    /\ \A l \in Lists(s) : LET r == Made!SetMenuItems(s, m, l)
                           IN  r.value = "E_OK" => Made!Sound(r.s, m) = (s.menus[m].pattern = Made!NoPattern)
    /\ \A k \in Menus(s) \ {m, Made!Default} :
         ~Made!Sound(Made!FreeMenu(s, k).s, m)
            <=> s.menus[m].pattern # Made!NoPattern /\ s.menus[m].pattern = s.menus[k].pattern
\* what items and marks need, and what becomes of a radio menu
ASSUME MenusSized ==
  \A s \in Made2 : \A m \in Menus(s) :
    /\ Made!WideEnough(s, m)
    /\ \A l \in Lists(s) : Made!RadioChosen(s, m, l)
    /\ \A mark \in {0, 2} : Made!MarksOfNew(s, mark)
    /\ \A k \in Menus(s) \ {m} : Made!PassOn(s, m, k)
\* windows of up to 24 columns with up to six of items
ASSUME ItemsPlaced ==
  \A maxx \in 1 .. 24, across \in 1 .. 6, text \in 1 .. 8, desc \in {0, 2} :
    Made!Fits(maxx, across, IF desc > 0 THEN text + desc + 1 ELSE text) =>
      Made!ItemsApart(maxx, across, text, desc)
=============================================================================
