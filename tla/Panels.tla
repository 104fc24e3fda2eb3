------------------------------- MODULE Panels -------------------------------
(***************************************************************************)
(* The deck of lib/libpanel as the code keeps it: a tail queue of          *)
(* compat/sys/queue.h with a phantom panel for stdscr at its bottom.       *)
(*                                                                         *)
(* A tail queue stores, in each element, the next element and the ADDRESS  *)
(* of the pointer that points at the element.  Here the address of the     *)
(* `next' field of e is written e, and the address of tqh_first is Anchor,   *)
(* so that next[Anchor] is tqh_first.  A panel is hidden when its prev is    *)
(* NULL.                                                                   *)
(***************************************************************************)
EXTENDS Naturals, Sequences, FiniteSets

CONSTANTS
  Panel,            \* the panels the program may create
  Phantom,          \* _stdscr_panel
  Anchor,             \* the address of _deck.tqh_first
  NULL,
  Screens,          \* the windows that stdscr may be, one per screen
  AllocFailure,     \* may malloc fail in new_panel?
  Unfounded,        \* the calls the program may make while panels exist but
                    \* the phantom has left the deck: "show" of a hidden
                    \* panel, "bottom" of one so shown
  StrayOutlives     \* may it change screens after a first new_panel() that
                    \* failed, with the phantom left in the deck?

ASSUME PanelsAssumption ==
  /\ Phantom \notin Panel /\ Anchor \notin Panel /\ NULL \notin Panel
  /\ Phantom # Anchor /\ Phantom # NULL /\ Anchor # NULL
  /\ {AllocFailure, StrayOutlives} \subseteq BOOLEAN

ASSUME UnfoundedAssumption == Unfounded \subseteq {"show", "bottom"}

VARIABLES
  deck,             \* [next, prev, last]: the queue
  alive,            \* the panels created and not deleted
  stdscr,           \* the standard window of the current screen
  phantomWin,       \* _stdscr_panel.win
  aborted           \* an assert() of the library failed

vars == <<deck, alive, stdscr, phantomWin, aborted>>

Elem == Panel \cup {Phantom}

Queue == [next : [Elem \cup {Anchor} -> Elem \cup {NULL}],
          prev : [Elem -> Elem \cup {Anchor, NULL}],
          last : Elem \cup {Anchor}]

EmptyQueue == [next |-> [a \in Elem \cup {Anchor} |-> NULL],
               prev |-> [e \in Elem |-> NULL],
               last |-> Anchor]

-----------------------------------------------------------------------------
(* sys/queue.h *)

IsEmpty(q) == q.next[Anchor] = NULL                           \* TAILQ_EMPTY

Linked(q, e) == q.prev[e] # NULL                            \* TAILQ_LINKED_NP

\* TAILQ_LAST and TAILQ_PREV read the second word of the structure whose
\* first word is at an address: tqh_last for the head, tqe_prev otherwise.
SecondWord(q, a) == IF a = Anchor THEN q.last ELSE q.prev[a]

LastOf(q) == q.next[SecondWord(q, q.last)]                  \* TAILQ_LAST

PrevOf(q, e) == q.next[SecondWord(q, q.prev[e])]            \* TAILQ_PREV

InsertTail(q, e) ==                                         \* TAILQ_INSERT_TAIL
  [next |-> [q.next EXCEPT ![e] = NULL, ![q.last] = e],
   prev |-> [q.prev EXCEPT ![e] = q.last],
   last |-> e]

InsertAfterLastNext(q, l, e) ==  \* mutant: the tail pointer follows `next'
  LET n == q.next[l]
  IN  [next |-> [q.next EXCEPT ![e] = n, ![l] = e],
       prev |-> [x \in Elem |-> IF x = e THEN l
                                ELSE IF x = n THEN e
                                ELSE q.prev[x]],
       last |-> n]

InsertAfterKeepLast(q, l, e) ==  \* mutant: the tail pointer is not moved
  LET n == q.next[l]
  IN  [next |-> [q.next EXCEPT ![e] = n, ![l] = e],
       prev |-> [x \in Elem |-> IF x = e THEN l
                                ELSE IF x = n THEN e
                                ELSE q.prev[x]],
       last |-> q.last]

InsertAfter(q, l, e) ==                                     \* TAILQ_INSERT_AFTER
  LET n == q.next[l]
  IN  [next |-> [q.next EXCEPT ![e] = n, ![l] = e],
       prev |-> [x \in Elem |-> IF x = e THEN l
                                ELSE IF x = n THEN e
                                ELSE q.prev[x]],
       last |-> IF n = NULL THEN e ELSE q.last]

Remove(q, e) ==                                             \* TAILQ_REMOVE_NP
  LET n == q.next[e]
  IN  [next |-> [q.next EXCEPT ![q.prev[e]] = n, ![e] = NULL],
       prev |-> [x \in Elem |-> IF x = e THEN NULL
                                ELSE IF x = n THEN q.prev[e]
                                ELSE q.prev[x]],
       last |-> IF n = NULL THEN q.prev[e] ELSE q.last]

\* The elements TAILQ_FOREACH visits, bottom first.  The bound on the walk is
\* the number of elements: a walk that is longer has met a cycle.
Visited(q) ==
  LET N == Cardinality(Elem)
      walk[n \in 0 .. N] == IF n = 0 THEN q.next[Anchor]
                            ELSE IF walk[n - 1] = NULL THEN NULL
                            ELSE q.next[walk[n - 1]]
  IN  [i \in {i \in 1 .. N : walk[i - 1] # NULL} |-> walk[i - 1]]

\* The panels among them, above the phantom.
Seqs == INSTANCE SequencesExt
Shown(q) == Seqs!RemoveFirst(Visited(q), Phantom)

-----------------------------------------------------------------------------
(* lib/libpanel: the calls, on the queue alone *)

Hidden(q, p) == ~Linked(q, p)

Unlink(q, p) == IF Hidden(q, p) THEN q ELSE Remove(q, p)    \* hide_panel

DropPhantomNever(q) == q         \* mutant: the phantom stays behind

\* del_panel: with nothing above the phantom, the phantom goes too.
DropPhantom(q) == IF LastOf(q) = Phantom THEN Unlink(q, Phantom) ELSE q

\* panel_above(p), panel_below(p); NULL asks for the bottom and the top.
PanelAboveIgnoringPhantom(q, p) ==   \* mutant: bottom taken from the head
  IF p = NULL THEN q.next[Anchor]
  ELSE IF Hidden(q, p) THEN NULL ELSE q.next[p]

PanelAbove(q, p) ==
  IF p = NULL THEN IF IsEmpty(q) THEN NULL ELSE q.next[Phantom]
  ELSE IF Hidden(q, p) THEN NULL ELSE q.next[p]

PanelBelow(q, p) ==
  LET below == IF p = NULL THEN LastOf(q) ELSE PrevOf(q, p)
  IN  IF p # NULL /\ Hidden(q, p) THEN NULL
      ELSE IF below = Phantom THEN NULL ELSE below

-----------------------------------------------------------------------------
Init == /\ deck = EmptyQueue
        /\ alive = {}
        /\ stdscr \in Screens
        /\ phantomWin = NULL
        /\ aborted = FALSE

\* The phantom enters an empty deck; an allocation that then fails leaves it.
NewPanel(p) ==
  /\ p \notin alive
  /\ aborted' = (IsEmpty(deck) /\ Linked(deck, Phantom))
  /\ phantomWin' = IF IsEmpty(deck) THEN stdscr ELSE phantomWin
  /\ LET based == IF IsEmpty(deck) THEN InsertTail(deck, Phantom) ELSE deck
     IN  \/ /\ deck' = InsertTail(based, p)
            /\ alive' = alive \cup {p}
         \/ /\ AllocFailure
            /\ deck' = based
            /\ UNCHANGED alive
  /\ UNCHANGED stdscr

\* The panels that are left may all be hidden when the phantom goes.
DelPanel(p) ==
  /\ p \in alive
  /\ deck' = DropPhantom(Unlink(deck, p))
  /\ aborted' = (LastOf(Unlink(deck, p)) = Phantom /\ ~IsEmpty(deck'))
  /\ alive' = alive \ {p}
  /\ UNCHANGED <<stdscr, phantomWin>>

HidePanel(p) ==
  /\ p \in alive
  /\ deck' = Unlink(deck, p)
  /\ UNCHANGED <<alive, stdscr, phantomWin, aborted>>

ShowPanel(p) ==
  /\ p \in alive
  /\ Hidden(deck, p)
  /\ Linked(deck, Phantom) \/ "show" \in Unfounded
  /\ deck' = InsertTail(deck, p)
  /\ UNCHANGED <<alive, stdscr, phantomWin, aborted>>

TopPanelAtBottom(p) ==           \* mutant: put back at the wrong end
  /\ p \in alive
  /\ Linked(deck, p)
  /\ deck' = InsertAfter(Unlink(deck, p), Phantom, p)
  /\ UNCHANGED <<alive, stdscr, phantomWin, aborted>>

TopPanel(p) ==
  /\ p \in alive
  /\ Linked(deck, p)
  /\ deck' = InsertTail(Unlink(deck, p), p)
  /\ UNCHANGED <<alive, stdscr, phantomWin, aborted>>

BottomPanelAtHead(p) ==          \* mutant: inserted below the phantom
  /\ p \in alive
  /\ Linked(deck, p)
  /\ deck' = InsertAfter(Unlink(deck, p), Anchor, p)
  /\ UNCHANGED <<alive, stdscr, phantomWin, aborted>>

BottomPanel(p) ==
  /\ p \in alive
  /\ Linked(deck, p)
  /\ Linked(deck, Phantom) \/ "bottom" \in Unfounded
  /\ deck' = InsertAfter(Unlink(deck, p), Phantom, p)
  /\ UNCHANGED <<alive, stdscr, phantomWin, aborted>>

\* set_term, or endwin and initscr: the program deletes its panels first, as
\* the comment of del_panel asks.
SwitchScreen(s) ==
  /\ alive = {}
  /\ StrayOutlives \/ IsEmpty(deck)
  /\ s # stdscr
  /\ stdscr' = s
  /\ UNCHANGED <<deck, alive, phantomWin, aborted>>

Next == /\ ~aborted
        /\ \/ \E p \in Panel : \/ NewPanel(p)
                               \/ DelPanel(p)
                               \/ HidePanel(p)
                               \/ ShowPanel(p)
                               \/ TopPanel(p)
                               \/ BottomPanel(p)
           \/ \E s \in Screens : SwitchScreen(s)

Spec == Init /\ [][Next]_vars

-----------------------------------------------------------------------------
(* Properties *)

TypeOK == /\ deck \in Queue
          /\ alive \in SUBSET Panel
          /\ stdscr \in Screens
          /\ phantomWin \in Screens \cup {NULL}
          /\ aborted \in BOOLEAN

\* WellLinked: the two halves of every link agree, at the head, in the middle and at the
\* tail: the conditions QUEUEDEBUG_TAILQ_* of sys/queue.h would test, and that
\* no element outside the queue is reachable from one inside it.
Consistent(q) ==
  /\ \A e \in Elem : Linked(q, e) =>
       /\ q.next[q.prev[e]] = e
       /\ q.prev[e] = Anchor \/ Linked(q, q.prev[e])
  /\ \A a \in Elem \cup {Anchor} : q.next[a] # NULL =>
       /\ q.prev[q.next[a]] = a
       /\ a = Anchor \/ Linked(q, a)
  /\ q.next[q.last] = NULL
  /\ q.last = Anchor \/ Linked(q, q.last)
  /\ \A e \in Elem : (Linked(q, e) /\ q.next[e] = NULL) => q.last = e

WellLinked == Consistent(deck)

\* A panel that is not allocated is not in the queue.
OnlyLivePanels == \A p \in Panel : Linked(deck, p) => p \in alive

\* panel.3: stdscr "implicitly lies below all other panels in the deck".
\* Whenever a panel is visible, the phantom is the first element.
PhantomAtBottom ==
  (\E p \in Panel : Linked(deck, p)) => deck.next[Anchor] = Phantom

\* While the phantom is in the deck, it stands for the stdscr of the current
\* screen (new.c: "We explicitly re-assign stdscr in case it changed").
PhantomIsStdscr == Linked(deck, Phantom) => phantomWin = stdscr

\* panel_above and panel_below, which read opposite halves of the links, give
\* one and the same order, the order in which update_panels draws.
NeighboursAgree ==
  LET seen == Shown(deck)
      n    == Len(seen)
  IN  /\ PanelAbove(deck, NULL) = IF n = 0 THEN NULL ELSE seen[1]
      /\ PanelBelow(deck, NULL) = IF n = 0 THEN NULL ELSE seen[n]
      /\ \A i \in 1 .. n :
           /\ PanelAbove(deck, seen[i]) = IF i = n THEN NULL ELSE seen[i + 1]
           /\ PanelBelow(deck, seen[i]) = IF i = 1 THEN NULL ELSE seen[i - 1]

\* No assert() of the library fails.
NeverAborts == ~aborted

\* The library implements the deck it documents, and each call is the step of
\* the deck that is documented for it: a new, shown or raised panel is on top.
Abstract == INSTANCE PanelDeck
              WITH order <- Shown(deck)

CallIsDocumented(p) ==
  /\ NewPanel(p) => Abstract!Create(p) \/ UNCHANGED Abstract!vars
  /\ DelPanel(p) => Abstract!Delete(p)
  /\ HidePanel(p) => Abstract!Hide(p)
  /\ ShowPanel(p) \/ TopPanel(p) => Abstract!Raise(p)
  /\ BottomPanel(p) => Abstract!Lower(p)

ImplementsDeck == Abstract!Spec /\ [][\A p \in Panel : CallIsDocumented(p)]_vars
=============================================================================
