---------------------------- MODULE PanelsProofs ----------------------------
(***************************************************************************)
(* The deck of Panels.tla is right for any number of panels and screens.   *)
(*                                                                         *)
(* WellLinked alone is not inductive: links that agree locally may still   *)
(* form a second list, a cycle apart from the deck, and then the tail      *)
(* pointer says nothing of the elements on the cycle.  The inductive       *)
(* invariant adds that the links descend (Acyclic), that only live panels  *)
(* are linked, and that a linked phantom is the first element; when no     *)
(* panel is shown in a deck without the phantom it adds PhantomAtBottom.   *)
(*                                                                         *)
(* The second half shows that the list is the deck panel.3 describes: its  *)
(* links lead through a sequence of distinct elements (Lists), which       *)
(* TAILQ_FOREACH visits in order, and every operation of the queue is one  *)
(* on that sequence.  With the phantom taken off the bottom it is the      *)
(* order of PanelDeck.tla.                                                 *)
(***************************************************************************)
EXTENDS Panels, WellFoundedInduction, FiniteSetTheorems, SequenceTheorems, TLAPS

\* r ranks the linked elements so that every link goes up.
Ranks(q, r) == \A e \in Elem :
                 (Linked(q, e) /\ q.prev[e] # Anchor) => r[q.prev[e]] < r[e]

Acyclic(q) == \E r \in [Elem -> Nat] : Ranks(q, r)

PhantomFirst(q) == Linked(q, Phantom) => q.next[Anchor] = Phantom

\* PhantomAtBottom, of any queue.
Based(q) == (\E p \in Panel : Linked(q, p)) => q.next[Anchor] = Phantom

Sound(q) == q \in Queue /\ Consistent(q) /\ Acyclic(q) /\ PhantomFirst(q)

-----------------------------------------------------------------------------
(* Facts about the queue operations *)

\* A nonempty set of natural numbers has a least one.
LEMMA LeastNat ==
  ASSUME NEW S, S \subseteq Nat, S # {}
  PROVE  \E n \in S : \A m \in Nat : m < n => m \notin S
<1>1. S \subseteq Nat /\ S # {}
  OBVIOUS
<1>2. PICK n \in S : \A y \in S : ~(<<y, n>> \in OpToRel(<, Nat))
  BY ONLY <1>1, NatLessThanWellFounded, WFMin
<1>3. \A y \in S : ~(y < n)
  BY <1>1, <1>2 DEF OpToRel
<1> QED
  BY <1>3

\* A nonempty set of elements with natural ranks has an element of least rank.
LEMMA LeastRank ==
  ASSUME NEW S, S # {}, S \subseteq Elem, NEW r \in [Elem -> Nat]
  PROVE  \E m \in S : \A x \in S : r[m] <= r[x]
<1>1. PICK T : T = {r[x] : x \in S}
  OBVIOUS
<1>2. PICK n \in T : \A m \in Nat : m < n => m \notin T
  <2>1. T \subseteq Nat /\ T # {}
    BY <1>1
  <2> QED
    BY <2>1, LeastNat
<1>3. PICK m \in S : r[m] = n
  BY <1>1, <1>2
<1>4. ASSUME NEW x \in S PROVE r[m] <= r[x]
  <2>1. r[x] \in T /\ r[x] \in Nat /\ r[m] \in Nat
    BY <1>1
  <2>2. ~(r[x] < n)
    BY <1>2, <2>1
  <2> QED
    BY <1>3, <2>1, <2>2
<1> QED
  BY <1>3, <1>4

\* The tail of a sound queue is in the queue, and TAILQ_LAST finds it.
LEMMA LastIsLast ==
  ASSUME NEW q, Sound(q)
  PROVE  /\ q.last = Anchor => LastOf(q) = q.next[Anchor]
         /\ q.last # Anchor => LastOf(q) = q.last
BY PanelsAssumption DEF Sound, Queue, Consistent, LastOf, SecondWord, Linked, Elem

\* A chain of links from any element leads down to the head.
LEMMA EmptyHasNone ==
  ASSUME NEW q, Sound(q), IsEmpty(q)
  PROVE  \A e \in Elem : ~Linked(q, e)
<1> DEFINE S == {e \in Elem : Linked(q, e)}
<1>1. SUFFICES ASSUME S # {} PROVE FALSE
  OBVIOUS
<1>2. PICK r \in [Elem -> Nat] : Ranks(q, r)
  BY DEF Sound, Acyclic
<1>3. PICK m \in S : \A x \in S : r[m] <= r[x]
  BY <1>1, <1>2, LeastRank
<1>4. q.prev[m] # Anchor
  BY <1>3, PanelsAssumption DEF Sound, Consistent, IsEmpty, Elem
<1>5. q.prev[m] \in S /\ r[q.prev[m]] < r[m]
  BY <1>2, <1>3, <1>4 DEF Sound, Consistent, Ranks, Queue, Linked
<1> QED BY <1>2, <1>3, <1>5 DEF Sound, Queue

\* Insertion at the tail.
LEMMA InsertTailSound ==
  ASSUME NEW q, Sound(q), NEW e \in Elem, ~Linked(q, e),
         e = Phantom => IsEmpty(q)
  PROVE  /\ Sound(InsertTail(q, e))
         /\ \A x \in Elem : Linked(InsertTail(q, e), x) <=> Linked(q, x) \/ x = e
         /\ InsertTail(q, e).next[Anchor] = IF IsEmpty(q) THEN e ELSE q.next[Anchor]
<1> DEFINE w == InsertTail(q, e)
<1> USE PanelsAssumption DEF Sound
<1>0. q.last # e
  BY DEF Consistent, Linked, Elem
<1>1. w \in Queue
  BY DEF InsertTail, Queue, Elem
<1>2. Consistent(w)
  BY <1>0 DEF InsertTail, Queue, Elem, Consistent, Linked
<1>3. Acyclic(w)
  <2>1. PICK r \in [Elem -> Nat] : Ranks(q, r)
    BY DEF Acyclic
  <2> DEFINE r2 == [r EXCEPT ![e] = IF q.last = Anchor THEN 0 ELSE r[q.last] + 1]
  <2>2. r2 \in [Elem -> Nat]
    BY DEF Queue, Elem
  <2>3. \A x \in Elem : Linked(q, x) => q.prev[x] # e
    BY DEF Consistent, Linked, Elem
  <2>4. Ranks(w, r2)
    BY <1>0, <2>1, <2>3 DEF Ranks, InsertTail, Queue, Elem, Linked
  <2> QED BY <2>2, <2>4 DEF Acyclic
<1>4. w.next[Anchor] = IF IsEmpty(q) THEN e ELSE q.next[Anchor]
  <2>1. e # Anchor /\ q.last # e
    BY <1>0 DEF Elem
  <2>2. w.next[Anchor] = IF q.last = Anchor THEN e ELSE q.next[Anchor]
    BY <2>1 DEF InsertTail, Queue
  <2>3. IsEmpty(q) => q.last = Anchor
    BY EmptyHasNone DEF Consistent, Queue
  <2>4. q.last = Anchor => IsEmpty(q)
    BY DEF Consistent, IsEmpty
  <2> QED BY <2>2, <2>3, <2>4
<1>5. \A x \in Elem : Linked(w, x) <=> Linked(q, x) \/ x = e
  BY DEF InsertTail, Queue, Elem, Linked
<1>6. PhantomFirst(w)
  BY <1>4, <1>5 DEF PhantomFirst, IsEmpty, Elem
<1> QED BY <1>1, <1>2, <1>3, <1>4, <1>5, <1>6

\* Insertion just above a linked element.
LEMMA InsertAfterSound ==
  ASSUME NEW q, Sound(q), NEW e \in Panel, ~Linked(q, e),
         NEW l \in Elem, Linked(q, l)
  PROVE  /\ Sound(InsertAfter(q, l, e))
         /\ \A x \in Elem : Linked(InsertAfter(q, l, e), x) <=> Linked(q, x) \/ x = e
         /\ InsertAfter(q, l, e).next[Anchor] = q.next[Anchor]
<1> DEFINE w == InsertAfter(q, l, e)
           n == q.next[l]
<1> USE PanelsAssumption DEF Sound
<1>0. /\ e \in Elem /\ e # l /\ l # Anchor /\ n # e
      /\ n \in Elem \cup {NULL}
      /\ \A x \in Elem : q.prev[x] # e
  BY DEF Consistent, Linked, Elem, Queue
<1>1. w \in Queue
  BY <1>0 DEF InsertAfter, Queue, Elem
<1>2. Consistent(w)
  BY <1>0 DEF InsertAfter, Queue, Elem, Consistent, Linked
<1>3. Acyclic(w)
  <2>1. PICK r \in [Elem -> Nat] : Ranks(q, r)
    BY DEF Acyclic
  <2> DEFINE r2 == [x \in Elem |-> IF x = e THEN 2 * r[l] + 1 ELSE 2 * r[x]]
  <2>2. r2 \in [Elem -> Nat]
    OBVIOUS
  <2>3. Ranks(w, r2)
    <3> SUFFICES ASSUME NEW x \in Elem, Linked(w, x), w.prev[x] # Anchor
                 PROVE  r2[w.prev[x]] < r2[x]
      BY DEF Ranks
    <3>1. CASE x = e
      BY <1>0, <3>1 DEF InsertAfter
    <3>2. CASE x # e /\ x = n
      <4>1. q.prev[x] = l /\ Linked(q, x)
        BY <3>2, <1>0 DEF Consistent, Linked, Elem
      <4>2. r[l] < r[x]
        BY <2>1, <4>1, <1>0 DEF Ranks
      <4> QED BY <3>2, <4>2, <1>0 DEF InsertAfter
    <3>3. CASE x # e /\ x # n
      <4>1. w.prev[x] = q.prev[x]
        BY <3>3 DEF InsertAfter
      <4>2. Linked(q, x) /\ q.prev[x] \in Elem /\ q.prev[x] # e
        BY <4>1, <1>0 DEF Linked, Queue, Elem
      <4>3. r[q.prev[x]] < r[x]
        BY <2>1, <4>1, <4>2 DEF Ranks
      <4> QED BY <3>3, <4>1, <4>2, <4>3
    <3> QED BY <3>1, <3>2, <3>3
  <2> QED BY <2>2, <2>3 DEF Acyclic
<1>4. w.next[Anchor] = q.next[Anchor]
  BY <1>0 DEF InsertAfter, Queue, Elem
<1>5. \A x \in Elem : Linked(w, x) <=> Linked(q, x) \/ x = e
  BY <1>0 DEF InsertAfter, Queue, Elem, Consistent, Linked
<1>6. PhantomFirst(w)
  BY <1>4, <1>5 DEF PhantomFirst, Elem
<1> QED BY <1>1, <1>2, <1>3, <1>4, <1>5, <1>6

\* Removal of a panel, or of the phantom when nothing is above it.
LEMMA UnlinkSound ==
  ASSUME NEW q, Sound(q), NEW e \in Elem,
         e = Phantom => \A p \in Panel : ~Linked(q, p)
  PROVE  /\ Sound(Unlink(q, e))
         /\ \A x \in Elem : Linked(Unlink(q, e), x) <=> Linked(q, x) /\ x # e
         /\ (q.next[Anchor] = Phantom /\ e # Phantom)
               => Unlink(q, e).next[Anchor] = Phantom
<1> USE PanelsAssumption DEF Sound
<1>1. CASE ~Linked(q, e)
  BY <1>1 DEF Unlink, Hidden
<1>2. CASE Linked(q, e)
  <2> DEFINE w == Remove(q, e)
             n == q.next[e]
             b == q.prev[e]
  <2>1. Unlink(q, e) = w
    BY <1>2 DEF Unlink, Hidden
  <2>2. PICK r \in [Elem -> Nat] : Ranks(q, r)
    BY DEF Acyclic
  <2>3. /\ b # e /\ n # e
        /\ n # NULL => n \in Elem /\ Linked(q, n) /\ q.prev[n] = e
        /\ b \in Elem \cup {Anchor} /\ q.next[b] = e
        /\ b # Anchor => Linked(q, b)
        /\ \A x \in Elem : q.prev[x] = e => x = n
    <3>1. b # e
      BY <1>2, <2>2 DEF Ranks, Queue, Elem
    <3>2. /\ b \in Elem \cup {Anchor} /\ q.next[b] = e
          /\ b # Anchor => Linked(q, b)
      BY <1>2 DEF Consistent, Linked, Queue
    <3>3. n # NULL => n \in Elem /\ Linked(q, n) /\ q.prev[n] = e
      BY DEF Consistent, Linked, Queue, Elem
    <3>4. \A x \in Elem : q.prev[x] = e => x = n
      BY DEF Consistent, Linked, Elem
    <3>5. n # e
      BY <3>1, <3>3, NULL \notin Elem DEF Elem
    <3> QED BY <3>1, <3>2, <3>3, <3>4, <3>5
  <2>4. w \in Queue
    BY <2>3 DEF Remove, Queue, Elem
  <2>5. Consistent(w)
    BY <1>2, <2>3 DEF Remove, Queue, Elem, Consistent, Linked
  <2>6. Ranks(w, r)
    <3> SUFFICES ASSUME NEW x \in Elem, Linked(w, x), w.prev[x] # Anchor
                 PROVE  r[w.prev[x]] < r[x]
      BY DEF Ranks
    <3>1. x # e
      BY DEF Remove, Linked
    <3>2. CASE x = n
      <4>1. w.prev[x] = b /\ b \in Elem /\ b # Anchor
        BY <2>3, <3>1, <3>2 DEF Remove
      <4>2. r[b] < r[e]
        BY <1>2, <2>2, <4>1 DEF Ranks
      <4>3. r[e] < r[x]
        BY <2>2, <2>3, <3>2 DEF Ranks, Elem
      <4> QED BY <4>1, <4>2, <4>3
    <3>3. CASE x # n
      BY <2>2, <3>1, <3>3 DEF Remove, Ranks, Linked
    <3> QED BY <3>2, <3>3
  <2>7. \A x \in Elem : Linked(w, x) <=> Linked(q, x) /\ x # e
    BY <2>3 DEF Remove, Linked, Elem
  <2>8. (q.next[Anchor] = Phantom /\ e # Phantom) => w.next[Anchor] = Phantom
    BY <2>3 DEF Remove, Queue, Elem
  <2>9. PhantomFirst(w)
    BY <2>7, <2>8 DEF PhantomFirst, Elem
  <2> QED BY <2>1, <2>4, <2>5, <2>6, <2>7, <2>8, <2>9 DEF Acyclic
<1> QED BY <1>1, <1>2

\* A phantom at the tail means a deck without panels: any panel in the deck
\* would lead down to a panel whose link below is the head or the phantom.
LEMMA PhantomLastAlone ==
  ASSUME NEW q, Sound(q), LastOf(q) = Phantom
  PROVE  \A p \in Panel : ~Linked(q, p)
<1> USE PanelsAssumption DEF Sound
<1> DEFINE S == {p \in Panel : Linked(q, p)}
<1>1. SUFFICES ASSUME S # {} PROVE FALSE
  OBVIOUS
<1>2. q.next[Anchor] = Phantom
  BY LastIsLast DEF Consistent, PhantomFirst, Elem
<1>3. q.last = Phantom
  BY <1>2, LastIsLast DEF Consistent, Queue, Elem
<1>4. PICK r \in [Elem -> Nat] : Ranks(q, r)
  BY DEF Acyclic
<1>5. PICK m \in S : \A x \in S : r[m] <= r[x]
  BY <1>1, <1>4, LeastRank DEF Elem
<1>6. q.prev[m] # Anchor /\ q.prev[m] # Phantom
  BY <1>2, <1>3, <1>5 DEF Consistent, Elem
<1>7. q.prev[m] \in S /\ r[q.prev[m]] < r[m]
  BY <1>4, <1>5, <1>6 DEF Consistent, Ranks, Queue, Linked, Elem
<1> QED BY <1>4, <1>5, <1>7 DEF Elem

\* del_panel's last step leaves a sound queue, empty if it removed the phantom.
LEMMA DropPhantomSound ==
  ASSUME NEW q, Sound(q)
  PROVE  /\ Sound(DropPhantom(q))
         /\ Based(q) => Based(DropPhantom(q))
         /\ \A x \in Panel : Linked(DropPhantom(q), x) <=> Linked(q, x)
         /\ LastOf(q) = Phantom => IsEmpty(DropPhantom(q))
<1> USE PanelsAssumption
<1>1. CASE LastOf(q) # Phantom
  BY <1>1 DEF DropPhantom
<1>2. CASE LastOf(q) = Phantom
  <2>1. \A p \in Panel : ~Linked(q, p)
    BY <1>2, PhantomLastAlone
  <2>2. DropPhantom(q) = Unlink(q, Phantom)
    BY <1>2 DEF DropPhantom
  <2>3. /\ Sound(DropPhantom(q))
        /\ \A x \in Elem : Linked(DropPhantom(q), x) <=> Linked(q, x) /\ x # Phantom
    BY <2>1, <2>2, UnlinkSound DEF Elem
  <2>4. \A x \in Elem : ~Linked(DropPhantom(q), x)
    BY <2>1, <2>3 DEF Elem
  <2>5. IsEmpty(DropPhantom(q))
    BY <2>3, <2>4 DEF IsEmpty, Sound, Consistent, Queue, Linked, Elem
  <2> QED BY <2>1, <2>3, <2>4, <2>5 DEF Based, Elem
<1> QED BY <1>1, <1>2

-----------------------------------------------------------------------------
(* The types, whatever the program calls *)

LEMMA InitTyped == Init => TypeOK
<1>1. EmptyQueue \in Queue
  BY DEF EmptyQueue, Queue
<1> QED BY <1>1 DEF Init, TypeOK

\* Removing an element, if it is linked, keeps the types.
LEMMA UnlinkTyped ==
  ASSUME NEW q \in Queue, NEW e \in Elem PROVE Unlink(q, e) \in Queue
BY PanelsAssumption DEF Unlink, Hidden, Linked, Remove, Queue, Elem

LEMMA InsertTailTyped ==
  ASSUME NEW q \in Queue, NEW e \in Elem PROVE InsertTail(q, e) \in Queue
BY PanelsAssumption DEF InsertTail, Queue, Elem

LEMMA NextTyped ==
  ASSUME TypeOK, [Next]_vars PROVE TypeOK'
<1> USE PanelsAssumption DEF TypeOK
<1>0. CASE UNCHANGED vars
  BY <1>0 DEF vars, Queue
<1>1. ASSUME NEW p \in Panel, NewPanel(p) PROVE TypeOK'
  <2>1. p \in Elem /\ Phantom \in Elem
    BY DEF Elem
  <2>2. PICK based : based = IF IsEmpty(deck) THEN InsertTail(deck, Phantom) ELSE deck
    OBVIOUS
  <2>3. based \in Queue /\ InsertTail(based, p) \in Queue
    BY <2>1, <2>2, InsertTailTyped
  <2>4. deck' \in Queue /\ alive' \in SUBSET Panel
    BY <1>1, <2>2, <2>3 DEF NewPanel
  <2>5. stdscr' \in Screens /\ phantomWin' \in Screens \cup {NULL} /\ aborted' \in BOOLEAN
    BY <1>1 DEF NewPanel
  <2> QED
    BY <2>4, <2>5 DEF Queue
<1>2. ASSUME NEW p \in Panel, DelPanel(p) PROVE TypeOK'
  <2>1. p \in Elem /\ Phantom \in Elem
    BY DEF Elem
  <2>2. PICK w : w = Unlink(deck, p)
    OBVIOUS
  <2>3. w \in Queue /\ Unlink(w, Phantom) \in Queue
    BY <2>1, <2>2, UnlinkTyped
  <2>4. deck' \in Queue /\ alive' \in SUBSET Panel
    BY <1>2, <2>2, <2>3 DEF DelPanel, DropPhantom
  <2>5. stdscr' \in Screens /\ phantomWin' \in Screens \cup {NULL} /\ aborted' \in BOOLEAN
    BY <1>2 DEF DelPanel
  <2> QED
    BY <2>4, <2>5 DEF Queue
<1>3. ASSUME NEW p \in Panel, HidePanel(p) \/ ShowPanel(p) \/ TopPanel(p) \/ BottomPanel(p)
      PROVE  TypeOK'
  <2>1. p \in Elem /\ Phantom \in Elem
    BY DEF Elem
  <2>2. PICK w : w = Unlink(deck, p)
    OBVIOUS
  <2>3. w \in Queue /\ InsertTail(w, p) \in Queue /\ InsertTail(deck, p) \in Queue
    BY <2>1, <2>2, UnlinkTyped, InsertTailTyped
  <2>4. InsertAfter(w, Phantom, p) \in Queue
    BY <2>1, <2>3 DEF InsertAfter, Queue, Elem
  <2>5. deck' \in Queue
    BY <1>3, <2>2, <2>3, <2>4 DEF HidePanel, ShowPanel, TopPanel, BottomPanel
  <2>6. /\ alive' \in SUBSET Panel /\ stdscr' \in Screens
        /\ phantomWin' \in Screens \cup {NULL} /\ aborted' \in BOOLEAN
    BY <1>3 DEF HidePanel, ShowPanel, TopPanel, BottomPanel
  <2> QED
    BY <2>5, <2>6 DEF Queue
<1>4. ASSUME NEW s \in Screens, SwitchScreen(s) PROVE TypeOK'
  BY <1>4 DEF SwitchScreen, Queue
<1> QED
  BY <1>0, <1>1, <1>2, <1>3, <1>4 DEF Next

-----------------------------------------------------------------------------
(* The inductive invariant *)

IInv == /\ TypeOK
        /\ Sound(deck)
        /\ OnlyLivePanels
        /\ ~aborted

\* The invariant of a program that shows no panel in a deck without the phantom.
BasedInv == IInv /\ Based(deck)

\* The invariant of one that does so, or makes no call that counts on the phantom.
DeckInv == IInv /\ ("show" \notin Unfounded => Based(deck))

\* A program that does not do both.
Founded == "show" \notin Unfounded \/ "bottom" \notin Unfounded

LEMMA InitIInv == Init => BasedInv
<1> SUFFICES ASSUME Init PROVE BasedInv
  OBVIOUS
<1> USE PanelsAssumption DEF Init, EmptyQueue
<1>1. TypeOK
  BY InitTyped
<1>2. deck \in Queue /\ Consistent(deck) /\ PhantomFirst(deck)
  BY <1>1 DEF TypeOK, Consistent, Elem, Linked, PhantomFirst
<1>3. Acyclic(deck)
  <2>1. [e \in Elem |-> 0] \in [Elem -> Nat]
    OBVIOUS
  <2>2. Ranks(deck, [e \in Elem |-> 0])
    BY DEF Ranks, Linked
  <2> QED BY <2>1, <2>2 DEF Acyclic
<1>4. OnlyLivePanels /\ Based(deck)
  BY DEF OnlyLivePanels, Based, Linked, Elem
<1> QED BY <1>1, <1>2, <1>3, <1>4 DEF IInv, BasedInv, Sound

\* What the invariant says of the next state's deck.
LEMMA DeckInvThen ==
  ASSUME TypeOK', Sound(deck'), OnlyLivePanels', ~aborted',
         "show" \notin Unfounded => Based(deck')
  PROVE  DeckInv'
BY DEF DeckInv, IInv, Sound, Consistent, Acyclic, Ranks, PhantomFirst, Based, Queue, Linked

\* bottom_panel finds the phantom in the deck.
LEMMA BottomFindsPhantom ==
  ASSUME Founded, DeckInv, NEW p \in Panel, BottomPanel(p)
  PROVE  Linked(deck, Phantom)
<1>1. CASE "bottom" \notin Unfounded
  BY <1>1 DEF BottomPanel
<1>2. CASE "show" \notin Unfounded
  <2>1. deck.next[Anchor] = Phantom
    BY <1>2 DEF DeckInv, Based, BottomPanel
  <2> QED
    BY <2>1, PanelsAssumption DEF DeckInv, IInv, Sound, Consistent, Linked, Elem
<1> QED
  BY <1>1, <1>2 DEF Founded

\* A step preserves the invariant: a panel goes above the phantom while that is
\* in the deck, and new_panel brings it back when it is not.
LEMMA NextDeckInv ==
  ASSUME Founded, DeckInv, [Next]_vars
  PROVE  DeckInv'
<1> USE PanelsAssumption
<1>a. TypeOK'
  BY NextTyped DEF DeckInv, IInv
<1> USE DEF DeckInv, IInv
<1>0. CASE UNCHANGED vars
  <2>1. deck' = deck /\ alive' = alive /\ aborted' = aborted
    BY <1>0 DEF vars
  <2> QED
    BY <1>a, <2>1, DeckInvThen DEF OnlyLivePanels, Linked
<1>1. ASSUME NEW p \in Panel, NewPanel(p) PROVE DeckInv'
  <2> DEFINE based == IF IsEmpty(deck) THEN InsertTail(deck, Phantom) ELSE deck
  <2>1. ~Linked(deck, p) /\ p \in Elem /\ Phantom \in Elem /\ p # Phantom
    BY <1>1 DEF NewPanel, OnlyLivePanels, Elem
  <2>2. IsEmpty(deck) => \A e \in Elem : ~Linked(deck, e)
    BY EmptyHasNone
  <2>3. /\ Sound(based) /\ ~IsEmpty(based)
        /\ \A x \in Panel : Linked(based, x) <=> Linked(deck, x)
        /\ "show" \notin Unfounded => based.next[Anchor] = Phantom
    <3>1. CASE IsEmpty(deck)
      BY <2>1, <2>2, <3>1, InsertTailSound DEF IsEmpty, Elem
    <3>2. CASE ~IsEmpty(deck)
      <4>1. "show" \notin Unfounded => deck.next[Anchor] = Phantom
        BY <3>2 DEF Based, PhantomFirst, IsEmpty, Sound, Queue, Consistent, Linked, Elem
      <4> QED BY <3>2, <4>1
    <3> QED BY <3>1, <3>2
  <2>4. /\ Sound(InsertTail(based, p))
        /\ "show" \notin Unfounded => InsertTail(based, p).next[Anchor] = Phantom
        /\ \A x \in Panel : Linked(InsertTail(based, p), x) <=> Linked(deck, x) \/ x = p
    BY <2>1, <2>3, InsertTailSound DEF Elem
  <2>5. deck' = InsertTail(based, p) \/ (deck' = based /\ alive' = alive)
    BY <1>1 DEF NewPanel
  <2>6. ~aborted'
    BY <1>1, <2>1, <2>2 DEF NewPanel
  <2>7. Sound(deck') /\ ("show" \notin Unfounded => Based(deck'))
    BY <2>3, <2>4, <2>5 DEF Based
  <2>8. OnlyLivePanels'
    BY <1>1, <2>3, <2>4 DEF NewPanel, OnlyLivePanels
  <2> QED BY <1>a, <2>6, <2>7, <2>8, DeckInvThen
<1>2. ASSUME NEW p \in Panel, DelPanel(p) PROVE DeckInv'
  <2> DEFINE w == Unlink(deck, p)
  <2>1. p \in Elem /\ p # Phantom
    BY DEF Elem
  <2>2. /\ Sound(w)
        /\ \A x \in Elem : Linked(w, x) <=> Linked(deck, x) /\ x # p
        /\ deck.next[Anchor] = Phantom => w.next[Anchor] = Phantom
    BY <2>1, UnlinkSound
  <2>3. Based(deck) => Based(w)
    BY <2>2 DEF Based, Elem
  <2>4. /\ Sound(deck') /\ (Based(w) => Based(deck'))
        /\ \A x \in Panel : Linked(deck', x) <=> Linked(w, x)
        /\ LastOf(w) = Phantom => IsEmpty(deck')
    BY <1>2, <2>2, DropPhantomSound DEF DelPanel
  <2>5. ~aborted'
    BY <1>2, <2>4 DEF DelPanel
  <2>6. OnlyLivePanels'
    BY <1>2, <2>2, <2>4 DEF DelPanel, OnlyLivePanels, Elem
  <2> QED BY <1>a, <2>3, <2>4, <2>5, <2>6, DeckInvThen
<1>3. ASSUME NEW p \in Panel, HidePanel(p) PROVE DeckInv'
  <2>1. /\ Sound(deck')
        /\ \A x \in Elem : Linked(deck', x) <=> Linked(deck, x) /\ x # p
        /\ deck.next[Anchor] = Phantom => deck'.next[Anchor] = Phantom
    BY <1>3, UnlinkSound DEF HidePanel, Elem
  <2>2. ~aborted' /\ OnlyLivePanels' /\ (Based(deck) => Based(deck'))
    BY <1>3, <2>1 DEF HidePanel, OnlyLivePanels, Based, Elem
  <2> QED BY <1>a, <2>1, <2>2, DeckInvThen
<1>4. ASSUME NEW p \in Panel, ShowPanel(p) PROVE DeckInv'
  <2>1. p \in Elem /\ p # Phantom /\ Phantom \in Elem /\ ~Linked(deck, p)
    BY <1>4 DEF ShowPanel, Hidden, Elem
  <2>2. /\ Sound(deck')
        /\ \A x \in Elem : Linked(deck', x) <=> Linked(deck, x) \/ x = p
        /\ deck'.next[Anchor] = IF IsEmpty(deck) THEN p ELSE deck.next[Anchor]
    BY <1>4, <2>1, InsertTailSound DEF ShowPanel
  <2>3. "show" \notin Unfounded => deck.next[Anchor] = Phantom /\ ~IsEmpty(deck)
    BY <1>4 DEF ShowPanel, Sound, PhantomFirst, IsEmpty
  <2>4. ~aborted' /\ OnlyLivePanels'
    BY <1>4, <2>2 DEF ShowPanel, OnlyLivePanels, Elem
  <2> QED BY <1>a, <2>2, <2>3, <2>4, DeckInvThen DEF Based
<1>5. ASSUME NEW p \in Panel, TopPanel(p) PROVE DeckInv'
  <2> DEFINE w == Unlink(deck, p)
  <2>1. p \in Elem /\ p # Phantom /\ Phantom \in Elem
    BY DEF Elem
  <2>2. /\ Sound(w) /\ (deck.next[Anchor] = Phantom => w.next[Anchor] = Phantom)
        /\ \A x \in Elem : Linked(w, x) <=> Linked(deck, x) /\ x # p
    BY <2>1, UnlinkSound
  <2>3. /\ Sound(deck')
        /\ \A x \in Elem : Linked(deck', x) <=> Linked(w, x) \/ x = p
        /\ deck'.next[Anchor] = IF IsEmpty(w) THEN p ELSE w.next[Anchor]
    BY <1>5, <2>1, <2>2, InsertTailSound DEF TopPanel
  <2>4. "show" \notin Unfounded => deck'.next[Anchor] = Phantom
    BY <1>5, <2>2, <2>3 DEF TopPanel, Based, IsEmpty
  <2>5. ~aborted' /\ OnlyLivePanels'
    BY <1>5, <2>2, <2>3 DEF TopPanel, OnlyLivePanels, Elem
  <2> QED BY <1>a, <2>3, <2>4, <2>5, DeckInvThen DEF Based
<1>6. ASSUME NEW p \in Panel, BottomPanel(p) PROVE DeckInv'
  <2> DEFINE w == Unlink(deck, p)
  <2>1. p \in Elem /\ p # Phantom /\ Phantom \in Elem /\ Linked(deck, Phantom)
    BY <1>6, BottomFindsPhantom DEF Elem
  <2>2. /\ Sound(w)
        /\ \A x \in Elem : Linked(w, x) <=> Linked(deck, x) /\ x # p
    BY <2>1, UnlinkSound
  <2>3. ~Linked(w, p) /\ Linked(w, Phantom) /\ w.next[Anchor] = Phantom
    BY <2>1, <2>2 DEF Sound, PhantomFirst
  <2>4. /\ Sound(deck') /\ deck'.next[Anchor] = Phantom
        /\ \A x \in Elem : Linked(deck', x) <=> Linked(w, x) \/ x = p
    BY <1>6, <2>1, <2>2, <2>3, InsertAfterSound DEF BottomPanel
  <2>5. ~aborted' /\ OnlyLivePanels'
    BY <1>6, <2>2, <2>4 DEF BottomPanel, OnlyLivePanels, Elem
  <2> QED BY <1>a, <2>4, <2>5, DeckInvThen DEF Based
<1>7. ASSUME NEW s \in Screens, SwitchScreen(s) PROVE DeckInv'
  <2>1. deck' = deck /\ alive' = alive /\ aborted' = aborted
    BY <1>7 DEF SwitchScreen
  <2> QED
    BY <1>a, <2>1, DeckInvThen DEF OnlyLivePanels, Linked
<1> QED BY <1>0, <1>1, <1>2, <1>3, <1>4, <1>5, <1>6, <1>7 DEF Next

-----------------------------------------------------------------------------
(* The theorems *)

LEMMA SpecDeckInv ==
  ASSUME Founded PROVE Spec => []DeckInv
<1>1. Init => DeckInv
  BY InitIInv DEF BasedInv, DeckInv
<1>2. DeckInv /\ [Next]_vars => DeckInv'
  BY NextDeckInv
<1> QED BY <1>1, <1>2, PTL DEF Spec

LEMMA SpecBasedInv ==
  ASSUME "show" \notin Unfounded PROVE Spec => []BasedInv
<1>1. Founded
  BY DEF Founded
<1>2. Spec => []DeckInv
  BY <1>1, SpecDeckInv
<1>3. DeckInv => BasedInv
  BY DEF DeckInv, BasedInv
<1> QED BY <1>2, <1>3, PTL

\* Every pointer of the deck is of its type after any calls whatever: no operation
\* of the library stores a NULL where a link must be.
THEOREM DeckTypeCorrect == Spec => []TypeOK
BY InitTyped, NextTyped, PTL DEF Spec

\* The two halves of every link of the deck agree at all times, also when hidden
\* panels outlive the visible ones and are shown in a deck without the phantom,
\* unless bottom_panel is then called: it inserts behind a phantom that is not there.
THEOREM DeckWellLinked ==
  ASSUME Founded PROVE Spec => []WellLinked
<1>1. DeckInv => WellLinked
  BY DEF DeckInv, IInv, Sound, WellLinked
<1> QED BY <1>1, SpecDeckInv, PTL

\* del_panel frees no panel that is still in the deck, in the same programs.
THEOREM DeckOnlyLivePanels ==
  ASSUME Founded PROVE Spec => []OnlyLivePanels
<1>1. DeckInv => OnlyLivePanels
  BY DEF DeckInv, IInv
<1> QED BY <1>1, SpecDeckInv, PTL

\* The assertions of new_panel and del_panel hold in the same programs.
THEOREM AssertionsHold ==
  ASSUME Founded PROVE Spec => []NeverAborts
<1>1. DeckInv => NeverAborts
  BY DEF DeckInv, IInv, NeverAborts
<1> QED BY <1>1, SpecDeckInv, PTL

\* stdscr lies below every visible panel, as panel.3 says, in a program that
\* shows no hidden panel while the phantom is out of the deck: new_panel brings
\* it back.
THEOREM StdscrBelowPanels ==
  ASSUME "show" \notin Unfounded PROVE Spec => []PhantomAtBottom
<1>1. BasedInv => PhantomAtBottom
  BY DEF BasedInv, Based, PhantomAtBottom
<1> QED BY <1>1, SpecBasedInv, PTL

\* A step keeps the phantom's window: only new_panel links the phantom, into an
\* empty deck and together with the current stdscr, and only an empty deck,
\* which links nothing, outlives a change of screens.
LEMMA NextPhantomIsStdscr ==
  ASSUME Founded, ~StrayOutlives, DeckInv, PhantomIsStdscr, [Next]_vars
  PROVE  PhantomIsStdscr'
<1> USE PanelsAssumption DEF DeckInv, IInv
<1>0. CASE UNCHANGED vars
  BY <1>0 DEF vars, PhantomIsStdscr, Linked
<1>1. ASSUME NEW p \in Panel, NewPanel(p) PROVE PhantomIsStdscr'
  <2>1. CASE IsEmpty(deck)
    BY <1>1, <2>1 DEF NewPanel, PhantomIsStdscr
  <2>2. CASE ~IsEmpty(deck)
    <3>1. ~Linked(deck, p) /\ p \in Elem /\ Phantom \in Elem /\ p # Phantom
      BY <1>1 DEF NewPanel, OnlyLivePanels, Elem
    <3>2. deck' = InsertTail(deck, p) \/ deck' = deck
      BY <1>1, <2>2 DEF NewPanel
    <3>3. Linked(deck', Phantom) => Linked(deck, Phantom)
      BY <3>1, <3>2, InsertTailSound
    <3>4. phantomWin' = phantomWin /\ stdscr' = stdscr
      BY <1>1, <2>2 DEF NewPanel
    <3> QED BY <3>3, <3>4 DEF PhantomIsStdscr, Linked
  <2> QED BY <2>1, <2>2
<1>2. ASSUME NEW p \in Panel,
             \/ DelPanel(p) \/ HidePanel(p) \/ ShowPanel(p)
             \/ TopPanel(p) \/ BottomPanel(p)
      PROVE  PhantomIsStdscr'
  <2> DEFINE w == Unlink(deck, p)
  <2>1. p \in Elem /\ p # Phantom /\ Phantom \in Elem
    BY DEF Elem
  <2>2. /\ Sound(w)
        /\ \A x \in Elem : Linked(w, x) <=> Linked(deck, x) /\ x # p
    BY <2>1, UnlinkSound
  <2>3. Linked(deck', Phantom) => Linked(deck, Phantom)
    <3>1. CASE DelPanel(p)
      <4>1. CASE LastOf(w) = Phantom
        BY <3>1, <4>1, <2>1, <2>2, DropPhantomSound, EmptyHasNone DEF DelPanel
      <4>2. CASE LastOf(w) # Phantom
        BY <3>1, <4>2, <2>1, <2>2 DEF DelPanel, DropPhantom
      <4> QED BY <4>1, <4>2
    <3>2. CASE HidePanel(p)
      BY <3>2, <2>1, <2>2 DEF HidePanel
    <3>3. CASE ShowPanel(p)
      BY <3>3, <2>1, InsertTailSound DEF ShowPanel, Hidden
    <3>4. CASE TopPanel(p)
      BY <3>4, <2>1, <2>2, InsertTailSound DEF TopPanel
    <3>5. CASE BottomPanel(p)
      BY <3>5, BottomFindsPhantom
    <3> QED BY <1>2, <3>1, <3>2, <3>3, <3>4, <3>5
  <2>4. phantomWin' = phantomWin /\ stdscr' = stdscr
    BY <1>2 DEF DelPanel, HidePanel, ShowPanel, TopPanel, BottomPanel
  <2> QED BY <2>3, <2>4 DEF PhantomIsStdscr, Linked
<1>3. ASSUME NEW s \in Screens, SwitchScreen(s) PROVE PhantomIsStdscr'
  BY <1>3, EmptyHasNone DEF SwitchScreen, PhantomIsStdscr, Linked, Elem
<1> QED BY <1>0, <1>1, <1>2, <1>3 DEF Next

\* The phantom stands for the standard window of the current screen, in a
\* program that does not change screens with a phantom that a failed
\* new_panel() left in the deck, and calls no bottom_panel without a phantom.
THEOREM PhantomFollowsStdscr ==
  ASSUME Founded, ~StrayOutlives PROVE Spec => []PhantomIsStdscr
<1>1. Init => PhantomIsStdscr
  BY PanelsAssumption DEF Init, EmptyQueue, PhantomIsStdscr, Linked, Elem
<1>2. DeckInv /\ PhantomIsStdscr /\ [Next]_vars => PhantomIsStdscr'
  BY NextPhantomIsStdscr
<1> QED BY <1>1, <1>2, SpecDeckInv, PTL DEF Spec

-----------------------------------------------------------------------------
(* The deck is a sequence *)

\* s without its element k.
Cut(s, k) == [j \in 1 .. Len(s) - 1 |-> IF j < k THEN s[j] ELSE s[j + 1]]
\* No element occurs twice in s.
Inj(s) == \A i, j \in 1 .. Len(s) : s[i] = s[j] => i = j

\* What Cut returns.
LEMMA CutIs ==
  ASSUME NEW S, NEW s \in Seq(S), NEW k \in 1 .. Len(s)
  PROVE  /\ Cut(s, k) \in Seq(S) /\ Len(Cut(s, k)) = Len(s) - 1
         /\ SubSeq(s, 1, k - 1) \o SubSeq(s, k + 1, Len(s)) = Cut(s, k)
<1>0. Len(s) \in Nat /\ \A i \in 1 .. Len(s) : s[i] \in S
  BY LenProperties, ElementOfSeq
<1>1. /\ SubSeq(s, 1, k - 1) \in Seq(S) /\ Len(SubSeq(s, 1, k - 1)) = k - 1
      /\ \A i \in 1 .. k - 1 : SubSeq(s, 1, k - 1)[i] = s[i]
  BY <1>0, SubSeqProperties
<1>2. /\ SubSeq(s, k + 1, Len(s)) \in Seq(S) /\ Len(SubSeq(s, k + 1, Len(s))) = Len(s) - k
      /\ \A i \in 1 .. Len(s) - k : SubSeq(s, k + 1, Len(s))[i] = s[k + i]
  BY <1>0, SubSeqProperties
<1>3. PICK a, b : a = SubSeq(s, 1, k - 1) /\ b = SubSeq(s, k + 1, Len(s))
  OBVIOUS
<1>4. /\ a \o b \in Seq(S) /\ Len(a \o b) = Len(s) - 1
      /\ \A i \in 1 .. Len(s) - 1 : (a \o b)[i] = IF i < k THEN s[i] ELSE s[i + 1]
  <2>1. /\ a \in Seq(S) /\ Len(a) = k - 1 /\ \A i \in 1 .. k - 1 : a[i] = s[i]
        /\ b \in Seq(S) /\ Len(b) = Len(s) - k /\ \A i \in 1 .. Len(s) - k : b[i] = s[k + i]
    BY <1>1, <1>2, <1>3
  <2>2. /\ a \o b \in Seq(S) /\ Len(a \o b) = Len(a) + Len(b)
        /\ \A i \in 1 .. Len(a) + Len(b) : (a \o b)[i] = IF i <= Len(a) THEN a[i] ELSE b[i - Len(a)]
    BY <2>1, ConcatProperties
  <2>3. ASSUME NEW i \in 1 .. Len(s) - 1
        PROVE  (a \o b)[i] = IF i < k THEN s[i] ELSE s[i + 1]
    <3>1. (a \o b)[i] = IF i <= k - 1 THEN a[i] ELSE b[i - (k - 1)]
      BY <1>0, <2>1, <2>2
    <3>2. CASE i < k
      BY <1>0, <2>1, <3>1, <3>2
    <3>3. CASE ~(i < k)
      <4>1. i - (k - 1) \in 1 .. Len(s) - k /\ k + (i - (k - 1)) = i + 1
        BY <1>0, <3>3
      <4> QED
        BY <1>0, <2>1, <3>1, <3>3, <4>1
    <3> QED
      BY <3>2, <3>3
  <2> QED
    BY <1>0, <2>1, <2>2, <2>3
<1>5. a \o b = [i \in 1 .. Len(s) - 1 |-> (a \o b)[i]]
  BY <1>4, LenProperties
<1>6. a \o b = Cut(s, k)
  BY <1>4, <1>5 DEF Cut
<1> QED
  BY <1>3, <1>4, <1>6

\* RemoveFirst cuts the only place of e out.
LEMMA FirstIs ==
  ASSUME NEW S, NEW s \in Seq(S), Inj(s), NEW e
  PROVE  /\ \A k \in 1 .. Len(s) : s[k] = e => Seqs!RemoveFirst(s, e) = Cut(s, k)
         /\ (\A k \in 1 .. Len(s) : s[k] # e) => Seqs!RemoveFirst(s, e) = s
<1>0. Len(s) \in Nat
  BY LenProperties
<1>1. ASSUME NEW k \in 1 .. Len(s), s[k] = e
      PROVE  Seqs!RemoveFirst(s, e) = Cut(s, k)
  <2>1. {i \in 1 .. Len(s) : s[i] = e} = {k}
    BY <1>1 DEF Inj
  <2>2. Seqs!Min({k}) = k
    BY <1>0 DEF Seqs!Min
  <2>3. Seqs!SelectInSeq(s, LAMBDA v : v = e) = k
    BY <2>1, <2>2 DEF Seqs!SelectInSeq
  <2> QED
    BY <1>1, <2>3, CutIs DEF Seqs!RemoveFirst, Seqs!RemoveAt
<1>2. ASSUME \A k \in 1 .. Len(s) : s[k] # e
      PROVE  Seqs!RemoveFirst(s, e) = s
  BY <1>2 DEF Seqs!RemoveFirst
<1> QED
  BY <1>1, <1>2

\* The queue leads through the elements of s, bottom first.
Lists(q, s) ==
  /\ s \in Seq(Elem) /\ Inj(s)
  /\ q.next[Anchor] = IF Len(s) = 0 THEN NULL ELSE s[1]
  /\ \A i \in 1 .. Len(s) : q.next[s[i]] = IF i = Len(s) THEN NULL ELSE s[i + 1]
  /\ \A e \in Elem : Linked(q, e) <=> \E i \in 1 .. Len(s) : s[i] = e

\* TAILQ_FOREACH visits the elements in their order.  The function `walk' of
\* Visited is the only one with its values: two would differ first at a least
\* place, and there both follow the same link.
LEMMA VisitedIs ==
  ASSUME NEW q, NEW s, Lists(q, s), IsFiniteSet(Panel)
  PROVE  Visited(q) = s
<1>0. s \in Seq(Elem) /\ Len(s) \in Nat /\ \A i \in 1 .. Len(s) : s[i] \in Elem /\ s[i] # NULL
  <2>1. s \in Seq(Elem)
    BY DEF Lists
  <2> QED
    BY <2>1, LenProperties, ElementOfSeq, PanelsAssumption DEF Elem
<1> PICK N : N = Cardinality(Elem)
  OBVIOUS
<1>1. N \in Nat /\ Len(s) <= N
  <2>1. IsFiniteSet(Elem)
    BY FS_AddElement DEF Elem
  <2>2. N \in Nat
    BY <2>1, FS_CardinalityType
  <2> DEFINE f == [i \in 1 .. Len(s) |-> s[i]]
  <2>4. f \in Injection(1 .. Len(s), Elem)
    BY <1>0 DEF Injection, IsInjective, Lists, Inj
  <2>5. Cardinality(1 .. Len(s)) = Len(s)
    BY <1>0, FS_Interval
  <2> QED
    BY <2>1, <2>2, <2>4, <2>5, FS_Injection
<1> DEFINE Step(w) == [n \in 0 .. N |-> IF n = 0 THEN q.next[Anchor]
                                       ELSE IF w[n - 1] = NULL THEN NULL
                                       ELSE q.next[w[n - 1]]]
           g == [n \in 0 .. N |-> IF n < Len(s) THEN s[n + 1] ELSE NULL]
<1>2. g = Step(g)
  <2>1. ASSUME NEW n \in 0 .. N PROVE g[n] = Step(g)[n]
    <3>1. CASE n = 0
      BY <1>0, <1>1, <3>1 DEF Lists
    <3>2. CASE n # 0
      <4>1. n - 1 \in 0 .. N /\ n \in Nat /\ n - 1 + 1 = n
        BY <1>1, <3>2
      <4>2. g[n - 1] = IF n - 1 < Len(s) THEN s[n] ELSE NULL
        BY <4>1
      <4>3. CASE n <= Len(s)
        <5>1. g[n - 1] = s[n] /\ s[n] # NULL /\ n \in 1 .. Len(s)
          BY <1>0, <4>1, <4>2, <4>3, <3>2
        <5>2. Step(g)[n] = q.next[s[n]]
          BY <5>1, <3>2
        <5>3. q.next[s[n]] = IF n = Len(s) THEN NULL ELSE s[n + 1]
          BY <5>1 DEF Lists
        <5> QED
          BY <1>0, <4>1, <4>3, <5>2, <5>3
      <4>4. CASE ~(n <= Len(s))
        BY <1>0, <4>1, <4>2, <4>4, <3>2
      <4> QED
        BY <4>3, <4>4
    <3> QED
      BY <3>1, <3>2
  <2> QED
    BY <2>1
<1>3. ASSUME NEW w, w = Step(w)
      PROVE  \A n \in 0 .. N : w[n] = g[n]
  <2>1. SUFFICES ASSUME {n \in 0 .. N : w[n] # g[n]} # {} PROVE FALSE
    OBVIOUS
  <2>2. {n \in 0 .. N : w[n] # g[n]} \subseteq Nat
    BY <1>1
  <2>3. PICK n \in 0 .. N : w[n] # g[n] /\ \A m \in 0 .. N : m < n => w[m] = g[m]
    BY <2>1, <2>2, LeastNat
  <2>4. w[n] = Step(w)[n] /\ g[n] = Step(g)[n]
    BY <1>2, <1>3
  <2>5. CASE n = 0
    BY <2>3, <2>4, <2>5
  <2>6. CASE n # 0
    <3>1. n - 1 \in 0 .. N /\ n - 1 < n
      BY <1>1, <2>6
    <3>2. w[n - 1] = g[n - 1]
      BY <2>3, <3>1
    <3> QED
      BY <2>3, <2>4, <2>6, <3>2
  <2> QED
    BY <2>5, <2>6
<1> DEFINE walk == CHOOSE w : w = Step(w)
<1>4. walk = Step(walk)
  BY <1>2
<1>5. \A n \in 0 .. N : walk[n] = g[n]
  BY <1>3, <1>4
<1>6. Visited(q) = [i \in {i \in 1 .. N : walk[i - 1] # NULL} |-> walk[i - 1]]
  BY DEF Visited
<1>7. \A i \in 1 .. N : walk[i - 1] = IF i <= Len(s) THEN s[i] ELSE NULL
  BY <1>0, <1>1, <1>5
<1>8. {i \in 1 .. N : walk[i - 1] # NULL} = 1 .. Len(s)
  BY <1>0, <1>1, <1>7
<1>9. Visited(q) = [i \in 1 .. Len(s) |-> s[i]]
  BY <1>0, <1>1, <1>6, <1>7, <1>8
<1> QED
  BY <1>0, <1>9, LenProperties

\* What Lists says, pointwise, and where the other links point.
LEMMA ListsSay ==
  ASSUME NEW q, NEW s, Lists(q, s), Sound(q)
  PROVE  /\ Len(s) \in Nat /\ DOMAIN s = 1 .. Len(s)
         /\ \A i \in 1 .. Len(s) : /\ s[i] \in Elem /\ Linked(q, s[i])
                                   /\ q.prev[s[i]] = IF i = 1 THEN Anchor ELSE s[i - 1]
         /\ q.last = IF Len(s) = 0 THEN Anchor ELSE s[Len(s)]
         /\ IsEmpty(q) <=> Len(s) = 0
<1>1. /\ s \in Seq(Elem) /\ Len(s) \in Nat /\ DOMAIN s = 1 .. Len(s)
      /\ \A i \in 1 .. Len(s) : s[i] \in Elem
  <2>1. s \in Seq(Elem)
    BY DEF Lists
  <2> QED
    BY <2>1, LenProperties, ElementOfSeq
<1>2. \A i \in 1 .. Len(s) : Linked(q, s[i])
  BY <1>1 DEF Lists
<1>3. \A i \in 1 .. Len(s) : s[i] # NULL /\ s[i] # Anchor
  BY <1>1, PanelsAssumption DEF Elem
<1>4. ASSUME NEW i \in 1 .. Len(s)
      PROVE  q.prev[s[i]] = IF i = 1 THEN Anchor ELSE s[i - 1]
  <2>1. CASE i = 1
    <3>1. q.next[Anchor] = IF Len(s) = 0 THEN NULL ELSE s[1]
      BY DEF Lists
    <3>2. Len(s) # 0
      BY <1>1, <1>4
    <3>3. q.next[Anchor] = s[i]
      BY <2>1, <3>1, <3>2
    <3> QED
      BY <1>3, <2>1, <3>3 DEF Sound, Consistent
  <2>2. CASE i # 1
    <3>1. i - 1 \in 1 .. Len(s) /\ i - 1 # Len(s) /\ i - 1 + 1 = i
      BY <1>1, <2>2
    <3>2. q.next[s[i - 1]] = s[i]
      BY <3>1 DEF Lists
    <3> QED
      BY <1>1, <1>3, <2>2, <3>1, <3>2 DEF Sound, Consistent
  <2> QED
    BY <2>1, <2>2
<1>5. IsEmpty(q) <=> Len(s) = 0
  <2>1. q.next[Anchor] = IF Len(s) = 0 THEN NULL ELSE s[1]
    BY DEF Lists
  <2>2. Len(s) # 0 => 1 \in 1 .. Len(s)
    BY <1>1
  <2> QED
    BY <1>3, <2>1, <2>2 DEF IsEmpty
<1>6. q.last = IF Len(s) = 0 THEN Anchor ELSE s[Len(s)]
  <2>1. CASE Len(s) = 0
    BY <1>1, <2>1 DEF Lists, Sound, Consistent, Queue
  <2>2. CASE Len(s) # 0
    <3>1. Len(s) \in 1 .. Len(s)
      BY <1>1, <2>2
    <3>2. q.next[s[Len(s)]] = NULL
      BY <3>1 DEF Lists
    <3> QED
      BY <1>1, <1>2, <2>2, <3>1, <3>2 DEF Sound, Consistent
  <2> QED
    BY <2>1, <2>2
<1> QED
  BY <1>1, <1>2, <1>4, <1>5, <1>6

\* An element that is inserted is the next of the one it is inserted behind.
LEMMA AppendLists ==
  ASSUME NEW q, NEW s, Lists(q, s), Sound(q), NEW e \in Elem, ~Linked(q, e)
  PROVE  Lists(InsertTail(q, e), Append(s, e))
<1>1. PICK w, t, n : w = InsertTail(q, e) /\ t = Append(s, e) /\ n = Len(s)
  OBVIOUS
<1>2. /\ n \in Nat /\ s \in Seq(Elem)
      /\ \A i \in 1 .. n : /\ s[i] \in Elem /\ s[i] # e /\ s[i] # Anchor
                             /\ q.next[s[i]] = IF i = n THEN NULL ELSE s[i + 1]
      /\ q.last = IF n = 0 THEN Anchor ELSE s[n]
      /\ q.next[Anchor] = IF n = 0 THEN NULL ELSE s[1]
      /\ \A x \in Elem : Linked(q, x) <=> \E i \in 1 .. n : s[i] = x
      /\ e # Anchor
  BY <1>1, ListsSay, PanelsAssumption DEF Lists, Elem
<1>3. /\ t \in Seq(Elem) /\ Len(t) = n + 1
      /\ \A i \in 1 .. n : t[i] = s[i]
      /\ t[n + 1] = e
  BY <1>1, <1>2, AppendProperties
<1>4. /\ w.next = [q.next EXCEPT ![e] = NULL, ![q.last] = e]
      /\ w.prev = [q.prev EXCEPT ![e] = q.last]
  BY <1>1 DEF InsertTail
<1>5. Inj(t)
  <2>1. SUFFICES ASSUME NEW i \in 1 .. n + 1, NEW j \in 1 .. n + 1, t[i] = t[j] PROVE i = j
    BY <1>3 DEF Inj
  <2>2. CASE i \in 1 .. n /\ j \in 1 .. n
    BY <1>1, <1>2, <1>3, <2>1, <2>2 DEF Lists, Inj
  <2>3. CASE i = n + 1 \/ j = n + 1
    BY <1>2, <1>3, <2>1, <2>3
  <2> QED
    BY <1>2, <2>2, <2>3
<1>6. w.next[Anchor] = t[1]
  BY <1>2, <1>3, <1>4 DEF Sound, Queue
<1>7. ASSUME NEW i \in 1 .. n + 1
      PROVE  w.next[t[i]] = IF i = n + 1 THEN NULL ELSE t[i + 1]
  <2>1. CASE i = n + 1
    BY <1>2, <1>3, <1>4, <2>1 DEF Sound, Queue
  <2>2. CASE i = n
    BY <1>2, <1>3, <1>4, <2>2 DEF Sound, Queue, Elem
  <2>3. CASE i < n
    <3>1. s[i] # q.last
      BY <1>1, <1>2, <2>3 DEF Lists, Inj
    <3>2. i \in 1 .. n /\ i + 1 \in 1 .. n
      BY <1>2, <2>3
    <3> QED
      BY <1>2, <1>3, <1>4, <2>3, <3>1, <3>2 DEF Sound, Queue
  <2> QED
    BY <1>2, <2>1, <2>2, <2>3
<1>8. ASSUME NEW x \in Elem
      PROVE  Linked(w, x) <=> \E i \in 1 .. n + 1 : t[i] = x
  <2>1. Linked(w, x) <=> Linked(q, x) \/ x = e
    BY <1>2, <1>4, PanelsAssumption DEF Sound, Queue, Linked, Elem, Consistent
  <2>2. (\E i \in 1 .. n + 1 : t[i] = x) <=> (\E i \in 1 .. n : s[i] = x) \/ x = e
    <3>1. ASSUME NEW i \in 1 .. n + 1, t[i] = x
          PROVE  (\E j \in 1 .. n : s[j] = x) \/ x = e
      <4>1. i \in 1 .. n \/ i = n + 1
        BY <1>2
      <4> QED
        BY <1>3, <3>1, <4>1
    <3>2. n + 1 \in 1 .. n + 1 /\ \A i \in 1 .. n : i \in 1 .. n + 1
      BY <1>2
    <3> QED
      BY <1>3, <3>1, <3>2
  <2> QED
    BY <1>2, <2>1, <2>2
<1>9. Lists(w, t)
  BY <1>2, <1>3, <1>5, <1>6, <1>7, <1>8 DEF Lists
<1> QED
  BY <1>1, <1>9

\* A removal takes one element out.
LEMMA CutLists ==
  ASSUME NEW q, NEW s, Lists(q, s), Sound(q), NEW k \in 1 .. Len(s)
  PROVE  Lists(Remove(q, s[k]), Cut(s, k))
<1>1. PICK e, w, t, n : e = s[k] /\ w = Remove(q, e) /\ t = Cut(s, k) /\ n = Len(s)
  OBVIOUS
<1>2. n \in Nat /\ k \in 1 .. n
  BY <1>1, ListsSay
<1>3. \A i \in 1 .. n : s[i] \in Elem /\ s[i] # Anchor /\ s[i] # NULL
  BY <1>1, ListsSay, PanelsAssumption DEF Elem
<1>4. \A i \in 1 .. n : q.next[s[i]] = IF i = n THEN NULL ELSE s[i + 1]
  BY <1>1 DEF Lists
<1>5. \A i \in 1 .. n : q.prev[s[i]] = IF i = 1 THEN Anchor ELSE s[i - 1]
  BY <1>1, ListsSay
<1>6. \A i, j \in 1 .. n : s[i] = s[j] => i = j
  BY <1>1 DEF Lists, Inj
<1>7. /\ q.next[Anchor] = IF n = 0 THEN NULL ELSE s[1]
      /\ \A x \in Elem : Linked(q, x) <=> \E i \in 1 .. n : s[i] = x
  BY <1>1 DEF Lists
<1>8. /\ t \in Seq(Elem) /\ Len(t) = n - 1
      /\ \A i \in 1 .. n - 1 : t[i] = IF i < k THEN s[i] ELSE s[i + 1]
  <2>1. s \in Seq(Elem) /\ k \in 1 .. Len(s)
    BY DEF Lists
  <2> QED
    BY <1>1, <2>1, CutIs DEF Cut
<1>9. /\ w.next = [q.next EXCEPT ![q.prev[e]] = q.next[e], ![e] = NULL]
      /\ w.prev = [x \in Elem |-> IF x = e THEN NULL
                                  ELSE IF x = q.next[e] THEN q.prev[e] ELSE q.prev[x]]
  BY <1>1 DEF Remove
<1>10. /\ q.next[e] = IF k = n THEN NULL ELSE s[k + 1]
       /\ q.prev[e] = IF k = 1 THEN Anchor ELSE s[k - 1]
  BY <1>1, <1>2, <1>4, <1>5
<1>11. \A x \in Elem \cup {Anchor} :
         w.next[x] = IF x = e THEN NULL ELSE IF x = q.prev[e] THEN q.next[e] ELSE q.next[x]
  BY <1>9 DEF Sound, Queue
<1>12. Inj(t)
  <2>1. SUFFICES ASSUME NEW i \in 1 .. n - 1, NEW j \in 1 .. n - 1, t[i] = t[j] PROVE i = j
    BY <1>8 DEF Inj
  <2>2. PICK a, b : a = (IF i < k THEN i ELSE i + 1) /\ b = (IF j < k THEN j ELSE j + 1)
    OBVIOUS
  <2>3. a \in 1 .. n /\ b \in 1 .. n
    BY <1>2, <2>2
  <2>4. t[i] = s[a] /\ t[j] = s[b]
    BY <1>8, <2>2
  <2>5. a = b
    BY <1>6, <2>1, <2>3, <2>4
  <2> QED
    BY <1>2, <2>2, <2>5
<1>13. w.next[Anchor] = IF n - 1 = 0 THEN NULL ELSE t[1]
  <2>1. e # Anchor
    BY <1>1, <1>2, <1>3
  <2>2. CASE k = 1
    <3>1. w.next[Anchor] = IF n = 1 THEN NULL ELSE s[2]
      BY <1>10, <1>11, <2>1, <2>2
    <3>2. n # 1 => t[1] = s[2]
      BY <1>2, <1>8, <2>2
    <3> QED
      BY <1>2, <3>1, <3>2
  <2>3. CASE k # 1
    <3>1. k - 1 \in 1 .. n /\ n # 0 /\ 1 \in 1 .. n - 1
      BY <1>2, <2>3
    <3>2. q.prev[e] # Anchor
      BY <1>3, <1>10, <2>3, <3>1
    <3>3. w.next[Anchor] = s[1]
      BY <1>7, <1>11, <2>1, <3>1, <3>2
    <3>4. t[1] = s[1] /\ n - 1 # 0
      BY <1>2, <1>8, <2>3, <3>1
    <3> QED
      BY <3>3, <3>4
  <2> QED
    BY <2>2, <2>3
<1>14. ASSUME NEW i \in 1 .. n - 1
       PROVE  w.next[t[i]] = IF i = n - 1 THEN NULL ELSE t[i + 1]
  <2>1. PICK a : a = IF i < k THEN i ELSE i + 1
    OBVIOUS
  <2>2. a \in 1 .. n /\ a # k
    BY <1>2, <2>1
  <2>3. t[i] = s[a]
    BY <1>8, <2>1
  <2>4. s[a] # e /\ s[a] \in Elem
    BY <1>1, <1>2, <1>3, <1>6, <2>2
  <2>5. CASE a + 1 = k
    <3>1. k # 1 /\ k - 1 = a
      BY <1>2, <2>2, <2>5
    <3>2. q.prev[e] = s[a]
      BY <1>10, <3>1
    <3>3. w.next[s[a]] = IF k = n THEN NULL ELSE s[k + 1]
      BY <1>10, <1>11, <2>4, <3>2
    <3>4. i = a /\ (k = n <=> i = n - 1) /\ (k # n => i + 1 \in 1 .. n - 1 /\ ~(i + 1 < k) /\ i + 1 + 1 = k + 1)
      BY <1>2, <2>1, <2>2, <2>5
    <3>5. k # n => t[i + 1] = s[k + 1]
      BY <1>8, <3>4
    <3> QED
      BY <2>3, <3>3, <3>4, <3>5
  <2>6. CASE a + 1 # k
    <3>1. q.prev[e] # s[a]
      <4>1. CASE k = 1
        BY <1>3, <1>10, <2>2, <4>1
      <4>2. CASE k # 1
        <5>1. k - 1 \in 1 .. n /\ k - 1 # a
          BY <1>2, <2>2, <2>6, <4>2
        <5> QED
          BY <1>6, <1>10, <2>2, <4>2, <5>1
      <4> QED
        BY <4>1, <4>2
    <3>2. w.next[s[a]] = IF a = n THEN NULL ELSE s[a + 1]
      BY <1>4, <1>11, <2>2, <2>4, <3>1
    <3>3. (a = n <=> i = n - 1) /\ (a # n => /\ i + 1 \in 1 .. n - 1
                                            /\ a + 1 = IF i + 1 < k THEN i + 1 ELSE i + 1 + 1)
      BY <1>2, <2>1, <2>2, <2>6
    <3>4. a # n => t[i + 1] = s[a + 1]
      BY <1>8, <3>3
    <3> QED
      BY <2>3, <3>2, <3>3, <3>4
  <2> QED
    BY <2>5, <2>6
<1>15. ASSUME NEW x \in Elem
       PROVE  Linked(w, x) <=> \E i \in 1 .. n - 1 : t[i] = x
  <2>1. Linked(w, x) <=> Linked(q, x) /\ x # e
    <3>1. w.prev[x] = IF x = e THEN NULL ELSE IF x = q.next[e] THEN q.prev[e] ELSE q.prev[x]
      BY <1>9
    <3>2. q.prev[e] # NULL
      <4>1. k # 1 => k - 1 \in 1 .. n
        BY <1>2
      <4> QED
        BY <1>3, <1>10, <4>1, PanelsAssumption
    <3>3. x = q.next[e] => Linked(q, x)
      <4>1. SUFFICES ASSUME x = q.next[e] PROVE Linked(q, x)
        OBVIOUS
      <4>2. k # n /\ x = s[k + 1]
        BY <1>10, <4>1, PanelsAssumption DEF Elem
      <4>3. k + 1 \in 1 .. n
        BY <1>2, <4>2
      <4> QED
        BY <1>7, <4>2, <4>3
    <3> QED
      BY <3>1, <3>2, <3>3 DEF Linked
  <2>2. ASSUME NEW i \in 1 .. n, s[i] = x, x # e
        PROVE  \E j \in 1 .. n - 1 : t[j] = x
    <3>1. i # k
      BY <1>1, <2>2
    <3>2. CASE i < k
      <4>1. i \in 1 .. n - 1
        BY <1>2, <3>2
      <4> QED
        BY <1>8, <2>2, <3>2, <4>1
    <3>3. CASE i > k
      <4>1. i - 1 \in 1 .. n - 1 /\ ~(i - 1 < k) /\ i - 1 + 1 = i
        BY <1>2, <3>3
      <4> QED
        BY <1>8, <2>2, <4>1
    <3> QED
      BY <1>2, <3>1, <3>2, <3>3
  <2>3. ASSUME NEW j \in 1 .. n - 1, t[j] = x
        PROVE  x # e /\ \E i \in 1 .. n : s[i] = x
    <3>1. PICK a : a = IF j < k THEN j ELSE j + 1
      OBVIOUS
    <3>2. a \in 1 .. n /\ a # k
      BY <1>2, <3>1
    <3>3. t[j] = s[a]
      BY <1>8, <3>1
    <3> QED
      BY <1>1, <1>2, <1>6, <2>3, <3>2, <3>3
  <2> QED
    BY <1>7, <2>1, <2>2, <2>3
<1>16. Lists(w, t)
  BY <1>2, <1>8, <1>12, <1>13, <1>14, <1>15 DEF Lists
<1> QED
  BY <1>1, <1>16

\* A function on 1 .. n is a sequence of length n.
LEMMA SeqOf ==
  ASSUME NEW S, NEW n \in Nat, NEW f \in [1 .. n -> S]
  PROVE  f \in Seq(S) /\ Len(f) = n
<1>1. f \in Seq(S)
  BY SeqDef
<1>2. DOMAIN f = 1 .. n /\ DOMAIN f = 1 .. Len(f) /\ Len(f) \in Nat
  BY <1>1, LenProperties
<1> QED
  BY <1>1, <1>2

\* s with e behind its element k.
Put(s, k, e) == [j \in 1 .. Len(s) + 1 |-> IF j <= k THEN s[j] ELSE IF j = k + 1 THEN e ELSE s[j - 1]]

\* What Put returns.
LEMMA PutIs ==
  ASSUME NEW S, NEW s \in Seq(S), NEW k \in 1 .. Len(s), NEW e \in S
  PROVE  Put(s, k, e) \in Seq(S) /\ Len(Put(s, k, e)) = Len(s) + 1
<1>1. PICK n : n = Len(s) /\ n \in Nat /\ k \in 1 .. n
  BY LenProperties
<1>2. \A i \in 1 .. n : s[i] \in S
  BY <1>1, ElementOfSeq
<1>3. ASSUME NEW j \in 1 .. n + 1
      PROVE  (IF j <= k THEN s[j] ELSE IF j = k + 1 THEN e ELSE s[j - 1]) \in S
  <2>1. CASE j <= k
    BY <1>1, <1>2, <2>1
  <2>2. CASE j = k + 1
    BY <1>1, <2>2
  <2>3. CASE ~(j <= k) /\ j # k + 1
    <3>1. j - 1 \in 1 .. n
      BY <1>1, <2>3
    <3> QED
      BY <1>2, <2>3, <3>1
  <2> QED
    BY <2>1, <2>2, <2>3
<1>4. Put(s, k, e) \in [1 .. n + 1 -> S]
  BY <1>1, <1>3 DEF Put
<1> QED
  BY <1>1, <1>4, SeqOf

\* An element inserted behind the k-th one stands at place k + 1.
LEMMA PutLists ==
  ASSUME NEW q, NEW s, Lists(q, s), Sound(q), NEW k \in 1 .. Len(s), NEW e \in Elem, ~Linked(q, e)
  PROVE  Lists(InsertAfter(q, s[k], e), Put(s, k, e))
<1>1. PICK l, w, t, n : l = s[k] /\ w = InsertAfter(q, l, e) /\ t = Put(s, k, e) /\ n = Len(s)
  OBVIOUS
<1>2. n \in Nat /\ k \in 1 .. n
  BY <1>1, ListsSay
<1>3. \A i \in 1 .. n : s[i] \in Elem /\ s[i] # Anchor /\ s[i] # NULL
  BY <1>1, ListsSay, PanelsAssumption DEF Elem
<1>4. \A i \in 1 .. n : q.next[s[i]] = IF i = n THEN NULL ELSE s[i + 1]
  BY <1>1 DEF Lists
<1>5. \A i, j \in 1 .. n : s[i] = s[j] => i = j
  BY <1>1 DEF Lists, Inj
<1>6. /\ q.next[Anchor] = IF n = 0 THEN NULL ELSE s[1]
      /\ \A x \in Elem : Linked(q, x) <=> \E i \in 1 .. n : s[i] = x
  BY <1>1 DEF Lists
<1>7. \A i \in 1 .. n : s[i] # e
  BY <1>6
<1>8. /\ t \in Seq(Elem) /\ Len(t) = n + 1
      /\ \A j \in 1 .. n + 1 : t[j] = IF j <= k THEN s[j] ELSE IF j = k + 1 THEN e ELSE s[j - 1]
  <2>1. s \in Seq(Elem)
    BY DEF Lists
  <2> QED
    BY <1>1, <2>1, PutIs DEF Put
<1>9. /\ w.next = [q.next EXCEPT ![e] = q.next[l], ![l] = e]
      /\ w.prev = [x \in Elem |-> IF x = e THEN l
                                  ELSE IF x = q.next[l] THEN e ELSE q.prev[x]]
  BY <1>1 DEF InsertAfter
<1>10. q.next[l] = IF k = n THEN NULL ELSE s[k + 1]
  BY <1>1, <1>2, <1>4
<1>11. \A x \in Elem \cup {Anchor} :
         w.next[x] = IF x = l THEN e ELSE IF x = e THEN q.next[l] ELSE q.next[x]
  BY <1>9 DEF Sound, Queue
<1>12. e # Anchor /\ e # NULL /\ l # Anchor /\ l # e
  BY <1>1, <1>2, <1>3, <1>7, PanelsAssumption DEF Elem
<1>13. Inj(t)
  <2>1. SUFFICES ASSUME NEW i \in 1 .. n + 1, NEW j \in 1 .. n + 1, t[i] = t[j] PROVE i = j
    BY <1>8 DEF Inj
  <2>2. PICK a, b : a = (IF i <= k THEN i ELSE i - 1) /\ b = (IF j <= k THEN j ELSE j - 1)
    OBVIOUS
  <2>3. (i # k + 1 => a \in 1 .. n) /\ (j # k + 1 => b \in 1 .. n)
    BY <1>2, <2>2
  <2>4. /\ i # k + 1 => t[i] = s[a]
        /\ j # k + 1 => t[j] = s[b]
        /\ i = k + 1 => t[i] = e
        /\ j = k + 1 => t[j] = e
    <3>1. ~(k + 1 <= k)
      BY <1>2
    <3> QED
      BY <1>8, <2>2, <3>1
  <2>5. CASE i = k + 1 \/ j = k + 1
    BY <1>7, <2>1, <2>3, <2>4, <2>5
  <2>6. CASE i # k + 1 /\ j # k + 1
    <3>1. a = b
      BY <1>5, <2>1, <2>3, <2>4, <2>6
    <3> QED
      BY <1>2, <2>2, <2>6, <3>1
  <2> QED
    BY <2>5, <2>6
<1>14. w.next[Anchor] = t[1]
  <2>1. 1 \in 1 .. n + 1 /\ 1 <= k /\ n # 0
    BY <1>2
  <2> QED
    BY <1>6, <1>8, <1>11, <1>12, <2>1
<1>15. ASSUME NEW i \in 1 .. n + 1
       PROVE  w.next[t[i]] = IF i = n + 1 THEN NULL ELSE t[i + 1]
  <2>1. CASE i = k
    <3>1. t[i] = l /\ i # n + 1
      BY <1>1, <1>2, <1>8, <2>1
    <3>2. k + 1 \in 1 .. n + 1 /\ ~(k + 1 <= k)
      BY <1>2
    <3>3. t[i + 1] = e
      BY <1>8, <2>1, <3>2
    <3>4. w.next[l] = e
      BY <1>1, <1>2, <1>3, <1>11
    <3> QED
      BY <3>1, <3>3, <3>4
  <2>2. CASE i = k + 1
    <3>1. ~(k + 1 <= k)
      BY <1>2
    <3>2. t[i] = e
      BY <1>8, <2>2, <3>1
    <3>3. w.next[e] = IF k = n THEN NULL ELSE s[k + 1]
      BY <1>10, <1>11, <1>12
    <3>4. (i = n + 1 <=> k = n) /\ (k # n => /\ i + 1 \in 1 .. n + 1 /\ ~(i + 1 <= k)
                                            /\ i + 1 # k + 1 /\ i + 1 - 1 = k + 1)
      BY <1>2, <2>2
    <3>5. k # n => t[i + 1] = s[k + 1]
      BY <1>8, <3>4
    <3> QED
      BY <3>2, <3>3, <3>4, <3>5
  <2>3. CASE i # k /\ i # k + 1
    <3>1. PICK a : a = IF i <= k THEN i ELSE i - 1
      OBVIOUS
    <3>2. a \in 1 .. n /\ a # k
      BY <1>2, <2>3, <3>1
    <3>3. t[i] = s[a]
      BY <1>8, <2>3, <3>1
    <3>4. s[a] # l /\ s[a] # e /\ s[a] \in Elem
      BY <1>1, <1>2, <1>3, <1>5, <1>7, <3>2
    <3>5. w.next[s[a]] = IF a = n THEN NULL ELSE s[a + 1]
      BY <1>4, <1>11, <3>2, <3>4
    <3>6. /\ a = n <=> i = n + 1
          /\ a # n => /\ i + 1 \in 1 .. n + 1 /\ i + 1 # k + 1
                      /\ a + 1 = IF i + 1 <= k THEN i + 1 ELSE i + 1 - 1
      BY <1>2, <2>3, <3>1, <3>2
    <3>7. a # n => t[i + 1] = s[a + 1]
      BY <1>8, <3>6
    <3> QED
      BY <3>3, <3>5, <3>6, <3>7
  <2> QED
    BY <2>1, <2>2, <2>3
<1>16. ASSUME NEW x \in Elem
       PROVE  Linked(w, x) <=> \E i \in 1 .. n + 1 : t[i] = x
  <2>1. Linked(w, x) <=> Linked(q, x) \/ x = e
    <3>1. w.prev[x] = IF x = e THEN l ELSE IF x = q.next[l] THEN e ELSE q.prev[x]
      BY <1>9
    <3>2. l # NULL
      BY <1>1, <1>2, <1>3
    <3>3. x = q.next[l] => Linked(q, x)
      <4>1. SUFFICES ASSUME x = q.next[l] PROVE Linked(q, x)
        OBVIOUS
      <4>2. k # n /\ x = s[k + 1]
        BY <1>10, <4>1, PanelsAssumption DEF Elem
      <4>3. k + 1 \in 1 .. n
        BY <1>2, <4>2
      <4> QED
        BY <1>6, <4>2, <4>3
    <3> QED
      BY <1>12, <3>1, <3>2, <3>3 DEF Linked
  <2>2. ASSUME NEW i \in 1 .. n, s[i] = x
        PROVE  \E j \in 1 .. n + 1 : t[j] = x
    <3>1. PICK j : j = IF i <= k THEN i ELSE i + 1
      OBVIOUS
    <3>2. j \in 1 .. n + 1 /\ j # k + 1 /\ i = IF j <= k THEN j ELSE j - 1
      BY <1>2, <3>1
    <3> QED
      BY <1>8, <2>2, <3>2
  <2>3. \E j \in 1 .. n + 1 : t[j] = e
    <3>1. k + 1 \in 1 .. n + 1 /\ ~(k + 1 <= k)
      BY <1>2
    <3> QED
      BY <1>8, <3>1
  <2>4. ASSUME NEW j \in 1 .. n + 1, t[j] = x
        PROVE  x = e \/ \E i \in 1 .. n : s[i] = x
    <3>1. CASE j = k + 1
      <4>1. ~(j <= k)
        BY <1>2, <3>1
      <4> QED
        BY <1>8, <2>4, <3>1, <4>1
    <3>2. CASE j # k + 1
      <4>1. PICK a : a = IF j <= k THEN j ELSE j - 1
        OBVIOUS
      <4>2. a \in 1 .. n
        BY <1>2, <3>2, <4>1
      <4>3. t[j] = s[a]
        BY <1>8, <3>2, <4>1
      <4> QED
        BY <2>4, <4>2, <4>3
    <3> QED
      BY <3>1, <3>2
  <2> QED
    BY <1>6, <2>1, <2>2, <2>3, <2>4
<1>17. Lists(w, t)
  BY <1>2, <1>8, <1>13, <1>14, <1>15, <1>16 DEF Lists
<1> QED
  BY <1>1, <1>17

\* hide_panel takes the panel out of the sequence.
LEMMA UnlinkLists ==
  ASSUME NEW q, NEW s, Lists(q, s), Sound(q), NEW e \in Elem
  PROVE  Lists(Unlink(q, e), Seqs!RemoveFirst(s, e))
<1>0. s \in Seq(Elem) /\ Inj(s) /\ \A x \in Elem : Linked(q, x) <=> \E i \in 1 .. Len(s) : s[i] = x
  BY DEF Lists
<1>1. CASE Linked(q, e)
  <2>1. PICK k \in 1 .. Len(s) : s[k] = e
    BY <1>0, <1>1
  <2>2. Seqs!RemoveFirst(s, e) = Cut(s, k)
    BY <1>0, <2>1, FirstIs
  <2>3. Unlink(q, e) = Remove(q, s[k])
    BY <1>1, <2>1 DEF Unlink, Hidden
  <2> QED
    BY <2>2, <2>3, CutLists
<1>2. CASE ~Linked(q, e)
  <2>1. Seqs!RemoveFirst(s, e) = s
    BY <1>0, <1>2, FirstIs
  <2> QED
    BY <1>2, <2>1 DEF Unlink, Hidden
<1> QED
  BY <1>1, <1>2

-----------------------------------------------------------------------------
(* The panels shown *)

\* A sequence that is not empty begins with the phantom.
Footed(s) == Len(s) # 0 => s[1] = Phantom

\* s without its first element.
Order(s) == IF Len(s) = 0 THEN s ELSE Cut(s, 1)

\* The deck's sequence does, as stdscr lies below all panels.
LEMMA FootedIs ==
  ASSUME NEW q, NEW s, Lists(q, s), Sound(q), Based(q)
  PROVE  Footed(s)
<1>1. SUFFICES ASSUME Len(s) # 0 PROVE s[1] = Phantom
  BY DEF Footed
<1>2. 1 \in 1 .. Len(s)
  BY <1>1, ListsSay
<1>3. s[1] \in Elem /\ Linked(q, s[1])
  BY <1>2, ListsSay
<1>4. q.next[Anchor] = s[1]
  BY <1>1 DEF Lists
<1>5. CASE s[1] \in Panel
  BY <1>3, <1>4, <1>5 DEF Based
<1> QED
  BY <1>3, <1>5 DEF Elem

\* What Order returns.
LEMMA OrderIs ==
  ASSUME NEW s \in Seq(Elem), Inj(s), Footed(s)
  PROVE  /\ Order(s) \in Seq(Panel) /\ Inj(Order(s))
         /\ Len(Order(s)) = IF Len(s) = 0 THEN 0 ELSE Len(s) - 1
         /\ \A i \in 1 .. Len(s) - 1 : Order(s)[i] = s[i + 1]
<1>1. PICK n, t : n = Len(s) /\ t = Order(s) /\ n \in Nat
  BY LenProperties
<1>2. CASE n = 0
  <2>1. s = <<>>
    BY <1>1, <1>2, EmptySeq
  <2>2. t = s /\ Len(s) = 0
    BY <1>1, <1>2 DEF Order
  <2>3. <<>> \in Seq(Panel)
    BY EmptySeq
  <2>4. ASSUME NEW i \in 1 .. Len(s) - 1 PROVE FALSE
    BY <2>2
  <2> QED
    BY <1>1, <1>2, <2>1, <2>2, <2>3, <2>4
<1>3. CASE n # 0
  <2>1. 1 \in 1 .. n
    BY <1>1, <1>3
  <2>2. /\ t = [j \in 1 .. n - 1 |-> IF j < 1 THEN s[j] ELSE s[j + 1]]
        /\ Len(t) = n - 1
    BY <1>1, <1>3, <2>1, CutIs DEF Order, Cut
  <2>3. \A i \in 1 .. n - 1 : t[i] = s[i + 1] /\ i + 1 \in 1 .. n /\ i + 1 # 1
    BY <1>1, <2>2
  <2>4. \A i \in 1 .. n : s[i] \in Elem
    BY <1>1, ElementOfSeq
  <2>5. \A i, j \in 1 .. n : s[i] = s[j] => i = j
    BY <1>1 DEF Inj
  <2>6. s[1] = Phantom
    BY <1>1, <1>3 DEF Footed
  <2>7. ASSUME NEW i \in 1 .. n - 1 PROVE t[i] \in Panel
    <3>1. s[i + 1] # Phantom
      BY <2>1, <2>3, <2>5, <2>6
    <3> QED
      BY <2>3, <2>4, <3>1 DEF Elem
  <2>8. t \in [1 .. n - 1 -> Panel] /\ n - 1 \in Nat
    <3>1. n - 1 \in Nat
      BY <1>1, <1>3
    <3> QED
      BY <2>2, <2>7, <3>1
  <2>9. t \in Seq(Panel)
    BY <2>8, SeqOf
  <2>10. Inj(t)
    <3>1. SUFFICES ASSUME NEW i \in 1 .. n - 1, NEW j \in 1 .. n - 1, t[i] = t[j] PROVE i = j
      BY <2>2 DEF Inj
    <3>2. i + 1 = j + 1
      BY <2>3, <2>5, <3>1
    <3> QED
      BY <1>1, <3>2
  <2> QED
    BY <1>1, <1>3, <2>2, <2>3, <2>9, <2>10
<1> QED
  BY <1>2, <1>3

\* The panels TAILQ_FOREACH shows are the sequence above the phantom.
LEMMA ShownIs ==
  ASSUME NEW q, NEW s, Lists(q, s), Footed(s), IsFiniteSet(Panel)
  PROVE  Shown(q) = Order(s)
<1>1. Visited(q) = s /\ s \in Seq(Elem) /\ Inj(s)
  BY VisitedIs DEF Lists
<1>2. CASE Len(s) = 0
  <2>1. \A k \in 1 .. Len(s) : s[k] # Phantom
    BY <1>2
  <2> QED
    BY <1>1, <1>2, <2>1, FirstIs DEF Shown, Order
<1>3. CASE Len(s) # 0
  <2>1. 1 \in 1 .. Len(s)
    BY <1>1, <1>3, LenProperties
  <2> QED
    BY <1>1, <1>3, <2>1, FirstIs DEF Shown, Order, Footed
<1> QED
  BY <1>2, <1>3

\* A panel taken out of the sequence is taken out of the panels.
LEMMA OrderLess ==
  ASSUME NEW s \in Seq(Elem), Inj(s), Footed(s), NEW p \in Panel
  PROVE  /\ Footed(Seqs!RemoveFirst(s, p))
         /\ Order(Seqs!RemoveFirst(s, p)) = Seqs!RemoveFirst(Order(s), p)
<1>1. PICK n, t : n = Len(s) /\ t = Order(s) /\ n \in Nat
  BY LenProperties
<1>2. /\ t \in Seq(Panel) /\ Inj(t)
      /\ Len(t) = IF n = 0 THEN 0 ELSE n - 1
      /\ \A i \in 1 .. n - 1 : t[i] = s[i + 1]
  BY <1>1, OrderIs
<1>3. p # Phantom
  BY PanelsAssumption
<1>4. CASE \A k \in 1 .. n : s[k] # p
  <2>1. Seqs!RemoveFirst(s, p) = s
    BY <1>1, <1>4, FirstIs
  <2>2. ASSUME NEW i \in 1 .. Len(t) PROVE t[i] # p
    <3>1. i \in 1 .. n - 1 /\ i + 1 \in 1 .. n
      BY <1>1, <1>2
    <3> QED
      BY <1>2, <1>4, <3>1
  <2>3. Seqs!RemoveFirst(t, p) = t
    BY <1>2, <2>2, FirstIs
  <2> QED
    BY <1>1, <2>1, <2>3
<1>5. ASSUME NEW k \in 1 .. n, s[k] = p
      PROVE  /\ Footed(Seqs!RemoveFirst(s, p))
             /\ Order(Seqs!RemoveFirst(s, p)) = Seqs!RemoveFirst(t, p)
  <2>1. k # 1 /\ n - 1 # 0 /\ n # 0 /\ k - 1 \in 1 .. n - 1 /\ k - 1 + 1 = k /\ 1 \in 1 .. n - 1
    <3>1. k # 1
      BY <1>1, <1>3, <1>5 DEF Footed
    <3> QED
      BY <1>1, <3>1
  <2>2. PICK w : w = Cut(s, k)
    OBVIOUS
  <2>3. Seqs!RemoveFirst(s, p) = w
    BY <1>1, <1>5, <2>2, FirstIs
  <2>4. w \in Seq(Elem) /\ Len(w) = n - 1 /\ \A j \in 1 .. n - 1 : w[j] = IF j < k THEN s[j] ELSE s[j + 1]
    BY <1>1, <2>2, CutIs DEF Cut
  <2>5. w[1] = Phantom
    <3>1. 1 < k
      BY <1>1, <2>1
    <3> QED
      BY <1>1, <2>1, <2>4, <3>1 DEF Footed
  <2>6. Seqs!RemoveFirst(t, p) = Cut(t, k - 1)
    <3>1. k - 1 \in 1 .. Len(t) /\ t[k - 1] = p
      BY <1>2, <1>5, <2>1
    <3> QED
      BY <1>2, <3>1, FirstIs
  <2>7. Order(w) = [j \in 1 .. n - 1 - 1 |-> IF j < 1 THEN w[j] ELSE w[j + 1]]
    BY <2>1, <2>4 DEF Order, Cut
  <2>8. Cut(t, k - 1) = [j \in 1 .. n - 1 - 1 |-> IF j < k - 1 THEN t[j] ELSE t[j + 1]]
    BY <1>2, <2>1 DEF Cut
  <2>9. ASSUME NEW j \in 1 .. n - 1 - 1
        PROVE  (IF j < 1 THEN w[j] ELSE w[j + 1]) = IF j < k - 1 THEN t[j] ELSE t[j + 1]
    <3>1. /\ ~(j < 1) /\ j \in 1 .. n - 1 /\ j + 1 \in 1 .. n - 1
          /\ j < k - 1 <=> j + 1 < k
      BY <1>1
    <3>2. t[j] = s[j + 1] /\ t[j + 1] = s[j + 1 + 1] /\ w[j + 1] = IF j + 1 < k THEN s[j + 1] ELSE s[j + 1 + 1]
      BY <1>2, <2>4, <3>1
    <3> QED
      BY <3>1, <3>2
  <2>10. Order(w) = Cut(t, k - 1)
    BY <2>7, <2>8, <2>9
  <2> QED
    BY <2>3, <2>5, <2>6, <2>10 DEF Footed
<1> QED
  BY <1>1, <1>4, <1>5

\* An element put on the top is the last of the panels.
LEMMA OrderTop ==
  ASSUME NEW s \in Seq(Elem), Inj(s), Footed(s), Len(s) # 0, NEW p \in Panel
  PROVE  /\ Footed(Append(s, p))
         /\ Order(Append(s, p)) = Append(Order(s), p)
<1>1. PICK n, t, w : n = Len(s) /\ t = Order(s) /\ w = Append(s, p) /\ n \in Nat /\ n # 0
  BY LenProperties
<1>2. t \in Seq(Panel) /\ Len(t) = n - 1 /\ \A i \in 1 .. n - 1 : t[i] = s[i + 1]
  BY <1>1, OrderIs
<1>3. w \in Seq(Elem) /\ Len(w) = n + 1 /\ w[n + 1] = p /\ \A i \in 1 .. n : w[i] = s[i]
  BY <1>1, AppendProperties DEF Elem
<1>4. w[1] = Phantom /\ n + 1 # 0
  <2>1. 1 \in 1 .. n
    BY <1>1
  <2> QED
    BY <1>1, <1>3, <2>1 DEF Footed
<1>5. Order(w) = [j \in 1 .. n |-> IF j < 1 THEN w[j] ELSE w[j + 1]]
  <2>1. Len(w) # 0 /\ Len(w) - 1 = n
    BY <1>1, <1>3
  <2>2. Order(w) = [j \in 1 .. Len(w) - 1 |-> IF j < 1 THEN w[j] ELSE w[j + 1]]
    BY <2>1 DEF Order, Cut
  <2> QED
    BY <2>1, <2>2
<1>6. /\ Append(t, p) \in Seq(Panel) /\ Len(Append(t, p)) = n
      /\ Append(t, p)[n] = p /\ \A i \in 1 .. n - 1 : Append(t, p)[i] = t[i]
  <2>1. n - 1 + 1 = n
    BY <1>1
  <2> QED
    BY <1>2, <2>1, AppendProperties
<1>7. Append(t, p) = [j \in 1 .. n |-> Append(t, p)[j]]
  BY <1>6, LenProperties
<1>8. ASSUME NEW j \in 1 .. n
      PROVE  (IF j < 1 THEN w[j] ELSE w[j + 1]) = Append(t, p)[j]
  <2>1. CASE j = n
    BY <1>1, <1>3, <1>6, <2>1
  <2>2. CASE j # n
    <3>1. j \in 1 .. n - 1 /\ j + 1 \in 1 .. n /\ ~(j < 1)
      BY <1>1, <2>2
    <3> QED
      BY <1>2, <1>3, <1>6, <3>1
  <2> QED
    BY <2>1, <2>2
<1> QED
  BY <1>1, <1>4, <1>5, <1>7, <1>8 DEF Footed

\* An element put behind the phantom is the first of the panels.
LEMMA OrderBottom ==
  ASSUME NEW s \in Seq(Elem), Inj(s), Footed(s), Len(s) # 0, NEW p \in Panel
  PROVE  /\ Footed(Put(s, 1, p))
         /\ Order(Put(s, 1, p)) = <<p>> \o Order(s)
<1>1. PICK n, t, w, b : n = Len(s) /\ t = Order(s) /\ w = Put(s, 1, p) /\ n \in Nat /\ n # 0 /\ b = <<p>>
  BY LenProperties
<1>2. t \in Seq(Panel) /\ Len(t) = n - 1 /\ \A i \in 1 .. n - 1 : t[i] = s[i + 1]
  BY <1>1, OrderIs
<1>3. /\ Len(w) = n + 1
      /\ \A j \in 1 .. n + 1 : w[j] = IF j <= 1 THEN s[j] ELSE IF j = 1 + 1 THEN p ELSE s[j - 1]
  <2>1. 1 \in 1 .. Len(s) /\ p \in Elem
    BY <1>1 DEF Elem
  <2> QED
    BY <1>1, <2>1, PutIs DEF Put
<1>4. w[1] = Phantom /\ n + 1 # 0
  <2>1. 1 \in 1 .. n + 1 /\ 1 <= 1
    BY <1>1
  <2> QED
    BY <1>1, <1>3, <2>1 DEF Footed
<1>5. Order(w) = [j \in 1 .. n |-> IF j < 1 THEN w[j] ELSE w[j + 1]]
  <2>1. Len(w) # 0 /\ Len(w) - 1 = n
    BY <1>1, <1>3
  <2>2. Order(w) = [j \in 1 .. Len(w) - 1 |-> IF j < 1 THEN w[j] ELSE w[j + 1]]
    BY <2>1 DEF Order, Cut
  <2> QED
    BY <2>1, <2>2
<1>6. b \in Seq(Panel) /\ Len(b) = 1 /\ b[1] = p
  BY <1>1
<1>7. /\ b \o t \in Seq(Panel) /\ Len(b \o t) = n
      /\ \A j \in 1 .. n : (b \o t)[j] = IF j <= 1 THEN b[j] ELSE t[j - 1]
  <2>1. /\ b \o t \in Seq(Panel) /\ Len(b \o t) = Len(b) + Len(t)
        /\ \A j \in 1 .. Len(b) + Len(t) : (b \o t)[j] = IF j <= Len(b) THEN b[j] ELSE t[j - Len(b)]
    <3>1. b \in Seq(Panel) /\ t \in Seq(Panel)
      BY <1>2, <1>6
    <3> QED
      BY <3>1, ConcatProperties
  <2>2. Len(b) = 1 /\ Len(b) + Len(t) = n
    BY <1>1, <1>2, <1>6
  <2> QED
    BY <2>1, <2>2
<1>8. b \o t = [j \in 1 .. n |-> (b \o t)[j]]
  BY <1>7, LenProperties
<1>9. ASSUME NEW j \in 1 .. n
      PROVE  (IF j < 1 THEN w[j] ELSE w[j + 1]) = (b \o t)[j]
  <2>1. CASE j = 1
    <3>1. 1 + 1 \in 1 .. n + 1 /\ ~(1 + 1 <= 1) /\ ~(1 < 1)
      BY <1>1
    <3> QED
      BY <1>3, <1>6, <1>7, <2>1, <3>1
  <2>2. CASE j # 1
    <3>1. j - 1 \in 1 .. n - 1 /\ ~(j < 1) /\ ~(j <= 1) /\ j + 1 \in 1 .. n + 1 /\ ~(j + 1 <= 1)
          /\ j + 1 # 1 + 1 /\ j + 1 - 1 = j /\ j - 1 + 1 = j
      BY <1>1, <2>2
    <3> QED
      BY <1>2, <1>3, <1>7, <3>1
  <2> QED
    BY <2>1, <2>2
<1> QED
  BY <1>1, <1>4, <1>5, <1>8, <1>9 DEF Footed

-----------------------------------------------------------------------------
(* The calls *)

\* The deck is a sequence of elements.
Listed == \E s : Lists(deck, s)

\* Shown depends on the deck alone.
LEMMA ShownThen == Shown(deck)' = Shown(deck')
BY DEF Shown, Visited, Seqs!RemoveFirst, Seqs!RemoveAt, Seqs!SelectInSeq, Seqs!Min

\* So does Listed.
LEMMA ListedThen == ASSUME NEW s, Lists(deck', s) PROVE Listed'
BY DEF Listed, Lists, Linked

\* What new_panel makes of the deck.
LEMMA NewShows ==
  ASSUME IsFiniteSet(Panel), BasedInv, NEW s, Lists(deck, s), NEW p \in Panel, NewPanel(p)
  PROVE  /\ \E t : Lists(deck', t)
         /\ \/ Shown(deck') = Append(Shown(deck), p) /\ alive' = alive \cup {p}
            \/ Shown(deck') = Shown(deck) /\ alive' = alive
<1>1. Sound(deck) /\ Based(deck) /\ ~Linked(deck, p) /\ p \in Elem /\ Phantom \in Elem /\ p # Phantom
  BY PanelsAssumption DEF BasedInv, IInv, NewPanel, OnlyLivePanels, Elem
<1>2. s \in Seq(Elem) /\ Inj(s) /\ Footed(s) /\ Shown(deck) = Order(s) /\ (IsEmpty(deck) <=> Len(s) = 0)
  BY <1>1, FootedIs, ShownIs, ListsSay DEF Lists
<1>3. PICK based : based = IF IsEmpty(deck) THEN InsertTail(deck, Phantom) ELSE deck
  OBVIOUS
<1>4. \/ deck' = InsertTail(based, p) /\ alive' = alive \cup {p}
      \/ deck' = based /\ alive' = alive
  BY <1>3 DEF NewPanel
<1>5. PICK b : /\ Lists(based, b) /\ Sound(based) /\ ~Linked(based, p)
               /\ Footed(b) /\ Len(b) # 0 /\ Order(b) = Order(s)
  <2>1. CASE IsEmpty(deck)
    <3>1. \A e \in Elem : ~Linked(deck, e)
      BY <1>1, <2>1, EmptyHasNone
    <3>2. /\ Sound(based) /\ ~Linked(based, p)
          /\ Lists(based, Append(s, Phantom))
      BY <1>1, <1>3, <2>1, <3>1, InsertTailSound, AppendLists
    <3>3. PICK b : b = Append(s, Phantom)
      OBVIOUS
    <3>4. b \in Seq(Elem) /\ Len(b) = 1 /\ b[1] = Phantom
      <4>1. Len(s) = 0
        BY <1>2, <2>1
      <4> QED
        BY <1>1, <1>2, <3>3, <4>1, AppendProperties
    <3>5. Footed(b) /\ Inj(b)
      BY <3>4 DEF Footed, Inj
    <3>6. Order(b) \in Seq(Panel) /\ Len(Order(b)) = 0 /\ Order(s) \in Seq(Panel) /\ Len(Order(s)) = 0
      BY <1>2, <2>1, <3>4, <3>5, OrderIs
    <3>7. Order(b) = Order(s)
      BY <3>6, EmptySeq
    <3>8. Lists(based, b) /\ Len(b) # 0
      BY <3>2, <3>3, <3>4
    <3> QED
      BY <3>2, <3>5, <3>7, <3>8
  <2>2. CASE ~IsEmpty(deck)
    BY <1>1, <1>2, <1>3, <2>2
  <2> QED
    BY <2>1, <2>2
<1>6. b \in Seq(Elem) /\ Inj(b)
  BY <1>5 DEF Lists
<1>7. CASE deck' = based /\ alive' = alive
  BY <1>2, <1>5, <1>7, ShownIs
<1>8. CASE deck' = InsertTail(based, p) /\ alive' = alive \cup {p}
  <2>1. Lists(deck', Append(b, p))
    BY <1>1, <1>5, <1>8, AppendLists
  <2>2. Footed(Append(b, p)) /\ Order(Append(b, p)) = Append(Order(b), p)
    BY <1>5, <1>6, OrderTop
  <2>3. Shown(deck') = Order(Append(b, p))
    BY <2>1, <2>2, ShownIs
  <2> QED
    BY <1>2, <1>5, <1>8, <2>1, <2>2, <2>3
<1> QED
  BY <1>4, <1>7, <1>8

\* What is left when a panel is taken out.
LEMMA HideShows ==
  ASSUME IsFiniteSet(Panel), BasedInv, NEW s, Lists(deck, s), NEW p \in Panel
  PROVE  \E t : /\ Lists(Unlink(deck, p), t) /\ Sound(Unlink(deck, p)) /\ ~Linked(Unlink(deck, p), p)
                /\ t \in Seq(Elem) /\ Inj(t) /\ Footed(t)
                /\ Order(t) = Seqs!RemoveFirst(Shown(deck), p)
                /\ Shown(Unlink(deck, p)) = Order(t)
                /\ Linked(deck, p) \/ Linked(deck, Phantom) => Len(t) # 0
<1>1. Sound(deck) /\ Based(deck) /\ p \in Elem /\ p # Phantom
  BY PanelsAssumption DEF BasedInv, IInv, Elem
<1>2. s \in Seq(Elem) /\ Inj(s) /\ Footed(s) /\ Shown(deck) = Order(s)
  BY <1>1, FootedIs, ShownIs DEF Lists
<1>3. PICK w, t : w = Unlink(deck, p) /\ t = Seqs!RemoveFirst(s, p)
  OBVIOUS
<1>4. Lists(w, t)
  BY <1>1, <1>3, UnlinkLists
<1>5. Sound(w) /\ ~Linked(w, p) /\ (deck.next[Anchor] = Phantom => w.next[Anchor] = Phantom)
  BY <1>1, <1>3, UnlinkSound
<1>6. Footed(t) /\ Order(t) = Seqs!RemoveFirst(Shown(deck), p)
  BY <1>2, <1>3, OrderLess
<1>7. ASSUME Linked(deck, p) \/ Linked(deck, Phantom) PROVE Len(t) # 0
  <2>1. w.next[Anchor] = Phantom
    BY <1>1, <1>5, <1>7 DEF Based, Sound, PhantomFirst
  <2> QED
    BY <1>4, <2>1, PanelsAssumption DEF Lists
<1>8. Shown(w) = Order(t) /\ t \in Seq(Elem) /\ Inj(t)
  BY <1>4, <1>6, ShownIs DEF Lists
<1> QED
  BY <1>3, <1>4, <1>5, <1>6, <1>7, <1>8

\* del_panel takes a panel out, whether the phantom goes with it or not.
LEMMA DeleteShows ==
  ASSUME IsFiniteSet(Panel), BasedInv, NEW s, Lists(deck, s), NEW p \in Panel, DelPanel(p)
  PROVE  /\ \E t : Lists(deck', t)
         /\ Shown(deck') = Seqs!RemoveFirst(Shown(deck), p)
<1>1. PICK w : w = Unlink(deck, p)
  OBVIOUS
<1>2. PICK t : /\ Lists(w, t) /\ Sound(w) /\ t \in Seq(Elem) /\ Inj(t) /\ Footed(t)
               /\ Order(t) = Seqs!RemoveFirst(Shown(deck), p) /\ Shown(w) = Order(t)
  BY <1>1, HideShows
<1>3. deck' = DropPhantom(w)
  BY <1>1 DEF DelPanel
<1>4. CASE LastOf(w) # Phantom
  BY <1>2, <1>3, <1>4 DEF DropPhantom
<1>5. CASE LastOf(w) = Phantom
  <2>1. PICK n : n = Len(t)
    OBVIOUS
  <2>2. n \in Nat /\ w.last = IF n = 0 THEN Anchor ELSE t[n]
    BY <1>2, <2>1, ListsSay
  <2>3. n # 0
    <3>1. w.next[Anchor] = IF n = 0 THEN NULL ELSE t[1]
      BY <1>2, <2>1 DEF Lists
    <3>2. w.last = Anchor => LastOf(w) = w.next[Anchor]
      BY <1>2, LastIsLast
    <3> QED
      BY <1>5, <2>2, <3>1, <3>2, PanelsAssumption
  <2>4. t[n] = Phantom
    <3>1. t[n] # Anchor
      <4>1. n \in 1 .. Len(t)
        BY <2>1, <2>2, <2>3
      <4>2. t[n] \in Elem
        BY <1>2, <4>1, ElementOfSeq
      <4> QED
        BY <4>2, PanelsAssumption DEF Elem
    <3>2. w.last # Anchor => LastOf(w) = w.last
      BY <1>2, LastIsLast
    <3> QED
      BY <1>5, <2>2, <2>3, <3>1, <3>2
  <2>5. n = 1
    <3>1. 1 \in 1 .. Len(t) /\ n \in 1 .. Len(t) /\ t[1] = Phantom
      BY <1>2, <2>1, <2>2, <2>3 DEF Footed
    <3> QED
      BY <1>2, <2>4, <3>1 DEF Inj
  <2>6. deck' = Unlink(w, Phantom)
    BY <1>3, <1>5 DEF DropPhantom
  <2>7. PICK u : u = Seqs!RemoveFirst(t, Phantom)
    OBVIOUS
  <2>8. Lists(deck', u)
    BY <1>2, <2>6, <2>7, UnlinkLists DEF Elem
  <2>9. u = Cut(t, 1)
    <3>1. 1 \in 1 .. Len(t) /\ t[1] = Phantom
      BY <2>1, <2>4, <2>5
    <3> QED
      BY <1>2, <2>7, <3>1, FirstIs
  <2>10. u = Order(t)
    BY <2>1, <2>3, <2>9 DEF Order
  <2>11. Len(u) = 0
    <3>1. Len(Order(t)) = IF Len(t) = 0 THEN 0 ELSE Len(t) - 1
      BY <1>2, OrderIs
    <3>2. Len(t) = 1
      BY <2>1, <2>5
    <3>3. Len(Order(t)) = 0
      BY <3>1, <3>2
    <3> QED
      BY <2>10, <3>3
  <2>12. Footed(u) /\ Order(u) = u
    BY <2>11 DEF Footed, Order
  <2>13. Shown(deck') = Order(u)
    BY <2>8, <2>12, ShownIs
  <2> QED
    BY <1>2, <2>8, <2>10, <2>12, <2>13
<1> QED
  BY <1>4, <1>5

\* show_panel and top_panel put a panel on top.
LEMMA RaiseShows ==
  ASSUME IsFiniteSet(Panel), "show" \notin Unfounded, BasedInv, NEW s, Lists(deck, s), NEW p \in Panel,
         ShowPanel(p) \/ TopPanel(p)
  PROVE  /\ \E t : Lists(deck', t)
         /\ Shown(deck') = Append(Seqs!RemoveFirst(Shown(deck), p), p)
<1>1. PICK w : w = Unlink(deck, p)
  OBVIOUS
<1>2. deck' = InsertTail(w, p) /\ p \in Elem /\ (Linked(deck, p) \/ Linked(deck, Phantom))
  BY <1>1 DEF ShowPanel, TopPanel, Unlink, Elem
<1>3. PICK t : /\ Lists(w, t) /\ Sound(w) /\ t \in Seq(Elem) /\ Inj(t) /\ Footed(t)
               /\ Order(t) = Seqs!RemoveFirst(Shown(deck), p) /\ Len(t) # 0 /\ ~Linked(w, p)
  BY <1>1, <1>2, HideShows
<1>4. Lists(deck', Append(t, p))
  BY <1>2, <1>3, AppendLists
<1>5. Footed(Append(t, p)) /\ Order(Append(t, p)) = Append(Order(t), p)
  BY <1>3, OrderTop
<1>6. Shown(deck') = Order(Append(t, p))
  BY <1>4, <1>5, ShownIs
<1> QED
  BY <1>3, <1>4, <1>5, <1>6

\* bottom_panel puts a visible panel below the others.
LEMMA LowerShows ==
  ASSUME IsFiniteSet(Panel), BasedInv, NEW s, Lists(deck, s), NEW p \in Panel, BottomPanel(p)
  PROVE  /\ \E t : Lists(deck', t)
         /\ Shown(deck') = <<p>> \o Seqs!RemoveFirst(Shown(deck), p)
         /\ \E i \in DOMAIN Shown(deck) : Shown(deck)[i] = p
<1>1. PICK w : w = Unlink(deck, p)
  OBVIOUS
<1>2. p \in alive /\ deck' = InsertAfter(w, Phantom, p) /\ p \in Elem /\ Linked(deck, p)
  BY <1>1 DEF BottomPanel, Elem
<1>3. PICK t : /\ Lists(w, t) /\ Sound(w) /\ t \in Seq(Elem) /\ Inj(t) /\ Footed(t)
               /\ Order(t) = Seqs!RemoveFirst(Shown(deck), p) /\ Len(t) # 0 /\ ~Linked(w, p)
  BY <1>1, <1>2, HideShows
<1>4. Lists(deck', Put(t, 1, p))
  <2>1. 1 \in 1 .. Len(t) /\ t[1] = Phantom
    BY <1>3, LenProperties DEF Footed
  <2> QED
    BY <1>2, <1>3, <2>1, PutLists
<1>5. Footed(Put(t, 1, p)) /\ Order(Put(t, 1, p)) = <<p>> \o Order(t)
  BY <1>3, OrderBottom
<1>6. Shown(deck') = Order(Put(t, 1, p))
  BY <1>4, <1>5, ShownIs
<1>7. \E i \in DOMAIN Shown(deck) : Shown(deck)[i] = p
  <2>1. Sound(deck) /\ Based(deck)
    BY DEF BasedInv, IInv
  <2>2. s \in Seq(Elem) /\ Inj(s) /\ Footed(s) /\ Shown(deck) = Order(s)
    BY <2>1, FootedIs, ShownIs DEF Lists
  <2>3. PICK k \in 1 .. Len(s) : s[k] = p
    BY <1>2 DEF Lists
  <2>4. PICK d : d = Order(s)
    OBVIOUS
  <2>5. Len(s) \in Nat /\ k # 1 /\ Len(s) # 0
    <3>1. Len(s) \in Nat
      BY <2>2, LenProperties
    <3> QED
      BY <2>2, <2>3, <3>1, PanelsAssumption DEF Footed
  <2>6. d \in Seq(Panel) /\ Len(d) = Len(s) - 1 /\ \A i \in 1 .. Len(s) - 1 : d[i] = s[i + 1]
    BY <2>2, <2>4, <2>5, OrderIs
  <2>7. k - 1 \in 1 .. Len(s) - 1 /\ k - 1 + 1 = k
    BY <2>5
  <2>8. DOMAIN d = 1 .. Len(s) - 1
    BY <2>6, LenProperties
  <2> QED
    BY <2>2, <2>3, <2>4, <2>6, <2>7, <2>8
<1> QED
  BY <1>3, <1>4, <1>5, <1>6, <1>7

\* Every step leaves a sequence.
LEMMA NextListed ==
  ASSUME IsFiniteSet(Panel), "show" \notin Unfounded, BasedInv, Listed, [Next]_vars
  PROVE  Listed'
<1>1. PICK s : Lists(deck, s)
  BY DEF Listed
<1>2. CASE deck' = deck
  BY <1>1, <1>2, ListedThen
<1>3. ASSUME NEW p \in Panel,
             NewPanel(p) \/ DelPanel(p) \/ HidePanel(p) \/ ShowPanel(p) \/ TopPanel(p) \/ BottomPanel(p)
      PROVE  Listed'
  <2>1. HidePanel(p) => \E t : Lists(deck', t)
    BY <1>1, HideShows DEF HidePanel
  <2>2. \E t : Lists(deck', t)
    BY <1>1, <1>3, <2>1, NewShows, DeleteShows, RaiseShows, LowerShows
  <2> QED
    BY <2>2, ListedThen
<1> QED
  BY <1>2, <1>3 DEF Next, vars, SwitchScreen

\* The empty deck is the empty sequence.
LEMMA InitLists == Init => Lists(deck, <<>>)
<1>1. SUFFICES ASSUME Init PROVE Lists(deck, <<>>)
  OBVIOUS
<1>2. <<>> \in Seq(Elem) /\ Len(<<>>) = 0
  OBVIOUS
<1>3. deck = EmptyQueue
  BY <1>1 DEF Init
<1>4. deck.next[Anchor] = NULL /\ \A e \in Elem : ~Linked(deck, e)
  BY <1>3 DEF EmptyQueue, Linked
<1> QED
  BY <1>2, <1>4 DEF Lists, Inj

\* The deck is a sequence at all times.
LEMMA SpecListed ==
  ASSUME IsFiniteSet(Panel), "show" \notin Unfounded PROVE Spec => []Listed
<1>1. Init => Listed
  BY InitLists DEF Listed
<1>2. BasedInv /\ Listed /\ [Next]_vars => Listed'
  BY NextListed
<1> QED
  BY <1>1, <1>2, SpecBasedInv, PTL DEF Spec

-----------------------------------------------------------------------------
(* The neighbours and the promise *)

\* panel_above and panel_below read the sequence.
LEMMA AgreeWhere ==
  ASSUME IsFiniteSet(Panel), BasedInv, Listed
  PROVE  NeighboursAgree
<1>1. PICK s : Lists(deck, s)
  BY DEF Listed
<1>2. Sound(deck) /\ Based(deck)
  BY DEF BasedInv, IInv
<1>3. s \in Seq(Elem) /\ Inj(s) /\ Footed(s) /\ Shown(deck) = Order(s)
  BY <1>1, <1>2, FootedIs, ShownIs DEF Lists
<1>4. PICK seen, n, m : seen = Shown(deck) /\ n = Len(seen) /\ m = Len(s)
  OBVIOUS
<1>5. /\ m \in Nat /\ n = IF m = 0 THEN 0 ELSE m - 1
      /\ \A i \in 1 .. m - 1 : seen[i] = s[i + 1]
      /\ seen \in Seq(Panel)
  BY <1>3, <1>4, OrderIs, LenProperties
<1>6. /\ m # 0 => s[1] = Phantom
      /\ IsEmpty(deck) <=> m = 0
      /\ deck.next[Anchor] = IF m = 0 THEN NULL ELSE s[1]
      /\ deck.last = IF m = 0 THEN Anchor ELSE s[m]
  BY <1>1, <1>2, <1>3, <1>4, ListsSay DEF Footed, Lists
<1>7. \A i \in 1 .. m : deck.next[s[i]] = IF i = m THEN NULL ELSE s[i + 1]
  BY <1>1, <1>4 DEF Lists
<1>8. \A i \in 1 .. m : /\ s[i] \in Elem /\ Linked(deck, s[i])
                        /\ deck.prev[s[i]] = IF i = 1 THEN Anchor ELSE s[i - 1]
  BY <1>1, <1>2, <1>4, ListsSay
<1>9. \A i \in 1 .. m : s[i] # Anchor /\ s[i] # NULL
  BY <1>8, PanelsAssumption DEF Elem
<1>10. \A i, j \in 1 .. m : s[i] = s[j] => i = j
  BY <1>3, <1>4 DEF Inj
<1>11. PanelAbove(deck, NULL) = IF n = 0 THEN NULL ELSE seen[1]
  <2>1. CASE m = 0
    BY <1>5, <1>6, <2>1 DEF PanelAbove
  <2>2. CASE m # 0
    <3>1. 1 \in 1 .. m /\ (m # 1 => 1 \in 1 .. m - 1) /\ (n = 0 <=> m = 1) /\ 1 + 1 = 2
      BY <1>5, <2>2
    <3>2. PanelAbove(deck, NULL) = deck.next[Phantom]
      BY <1>6, <2>2 DEF PanelAbove
    <3>3. deck.next[Phantom] = IF m = 1 THEN NULL ELSE s[2]
      BY <1>6, <1>7, <2>2, <3>1
    <3>4. m # 1 => seen[1] = s[2]
      BY <1>5, <3>1
    <3> QED
      BY <3>1, <3>2, <3>3, <3>4
  <2> QED
    BY <2>1, <2>2
<1>12. PanelBelow(deck, NULL) = IF n = 0 THEN NULL ELSE seen[n]
  <2>1. LastOf(deck) = IF m = 0 THEN NULL ELSE s[m]
    <3>1. /\ deck.last = Anchor => LastOf(deck) = deck.next[Anchor]
          /\ deck.last # Anchor => LastOf(deck) = deck.last
      BY <1>2, LastIsLast
    <3>2. m # 0 => s[m] # Anchor
      BY <1>5, <1>9
    <3> QED
      BY <1>6, <3>1, <3>2
  <2>2. PanelBelow(deck, NULL) = IF LastOf(deck) = Phantom THEN NULL ELSE LastOf(deck)
    BY DEF PanelBelow
  <2>3. CASE m = 0
    BY <1>5, <2>1, <2>2, <2>3
  <2>4. CASE m = 1
    BY <1>5, <1>6, <2>1, <2>2, <2>4
  <2>5. CASE m # 0 /\ m # 1
    <3>1. n = m - 1 /\ n \in 1 .. m - 1 /\ n + 1 = m /\ 1 \in 1 .. m /\ m \in 1 .. m /\ n # 0
      BY <1>5, <2>5
    <3>2. seen[n] = s[m]
      BY <1>5, <3>1
    <3>3. s[m] # Phantom
      BY <1>6, <1>10, <2>5, <3>1
    <3> QED
      BY <2>1, <2>2, <2>5, <3>1, <3>2, <3>3
  <2> QED
    BY <2>3, <2>4, <2>5
<1>13. ASSUME NEW i \in 1 .. n
       PROVE  /\ PanelAbove(deck, seen[i]) = IF i = n THEN NULL ELSE seen[i + 1]
              /\ PanelBelow(deck, seen[i]) = IF i = 1 THEN NULL ELSE seen[i - 1]
  <2>1. PICK k : k = i + 1
    OBVIOUS
  <2>2. /\ n = m - 1 /\ i \in 1 .. m - 1 /\ k \in 1 .. m /\ k # 1 /\ m # 0
        /\ i = n <=> k = m
        /\ i # n => i + 1 \in 1 .. m - 1
        /\ i = 1 <=> k = 2
        /\ k - 1 = i /\ i \in 1 .. m
        /\ k # 2 => i - 1 \in 1 .. m - 1 /\ i - 1 + 1 = i /\ i # 1 /\ i - 1 \in 1 .. m
    BY <1>5, <2>1
  <2>3. seen[i] = s[k]
    BY <1>5, <2>1, <2>2
  <2>4. s[k] # NULL /\ ~Hidden(deck, s[k])
    BY <1>8, <1>9, <2>2 DEF Hidden
  <2>5. PanelAbove(deck, s[k]) = IF k = m THEN NULL ELSE s[k + 1]
    BY <1>7, <2>2, <2>4 DEF PanelAbove
  <2>6. i # n => seen[i + 1] = s[k + 1]
    BY <1>5, <2>1, <2>2
  <2>7. PrevOf(deck, s[k]) = s[i]
    <3>1. deck.prev[s[k]] = s[i]
      BY <1>8, <2>2
    <3>2. SecondWord(deck, s[i]) = deck.prev[s[i]]
      BY <1>9, <2>2 DEF SecondWord
    <3>3. CASE i = 1
      <4>1. deck.prev[s[i]] = Anchor
        BY <1>8, <2>2, <3>3
      <4> QED
        BY <1>6, <2>2, <3>1, <3>2, <3>3, <4>1 DEF PrevOf
    <3>4. CASE i # 1
      <4>1. deck.prev[s[i]] = s[i - 1]
        BY <1>8, <2>2, <3>4
      <4>2. i - 1 \in 1 .. m /\ i - 1 # m /\ i - 1 + 1 = i
        BY <1>5, <2>2, <3>4
      <4>3. deck.next[s[i - 1]] = s[i]
        BY <1>7, <4>2
      <4> QED
        BY <3>1, <3>2, <4>1, <4>3 DEF PrevOf
    <3> QED
      BY <3>3, <3>4
  <2>8. PanelBelow(deck, s[k]) = IF s[i] = Phantom THEN NULL ELSE s[i]
    BY <2>4, <2>7 DEF PanelBelow
  <2>9. s[i] = Phantom <=> i = 1
    <3>1. 1 \in 1 .. m /\ s[1] = Phantom
      BY <1>5, <1>6, <2>2
    <3> QED
      BY <1>10, <2>2, <3>1
  <2>10. i # 1 => seen[i - 1] = s[i]
    BY <1>5, <2>2
  <2> QED
    BY <2>2, <2>3, <2>5, <2>6, <2>8, <2>9, <2>10
<1> QED
  BY <1>4, <1>11, <1>12, <1>13 DEF NeighboursAgree

\* panel_above and panel_below, which read opposite halves of the links, give
\* the order in which update_panels draws, with any number of panels.
THEOREM NeighboursMatch ==
  ASSUME IsFiniteSet(Panel), "show" \notin Unfounded PROVE Spec => []NeighboursAgree
<1>1. BasedInv /\ Listed => NeighboursAgree
  BY AgreeWhere
<1> QED
  BY <1>1, SpecBasedInv, SpecListed, PTL

-----------------------------------------------------------------------------
(* The promise *)

\* The queue and the deck take the same element out.
LEMMA WithoutIs ==
  ASSUME NEW p PROVE Abstract!Without(p) = Seqs!RemoveFirst(Shown(deck), p)
BY DEF Abstract!Without, Abstract!RemoveFirst, Abstract!RemoveAt, Abstract!SelectInSeq, Abstract!Min,
       Seqs!RemoveFirst, Seqs!RemoveAt, Seqs!SelectInSeq, Seqs!Min

\* Each call is the step of the deck that is documented for it.
LEMMA CallsAreDocumented ==
  ASSUME IsFiniteSet(Panel), "show" \notin Unfounded, BasedInv, Listed, NEW p \in Panel
  PROVE  CallIsDocumented(p)
<1>1. PICK s : Lists(deck, s)
  BY DEF Listed
<1>2. Shown(deck)' = Shown(deck')
  BY ShownThen
<1>3. Abstract!Without(p) = Seqs!RemoveFirst(Shown(deck), p)
  BY WithoutIs
<1>4. ASSUME NewPanel(p) PROVE Abstract!Create(p) \/ UNCHANGED Abstract!vars
  <2>1. \/ Shown(deck') = Append(Shown(deck), p) /\ alive' = alive \cup {p}
        \/ Shown(deck') = Shown(deck) /\ alive' = alive
    BY <1>1, <1>4, NewShows
  <2>2. p \notin alive
    BY <1>4 DEF NewPanel
  <2>3. CASE Shown(deck') = Append(Shown(deck), p) /\ alive' = alive \cup {p}
    BY <1>2, <2>2, <2>3 DEF Abstract!Create
  <2>4. CASE Shown(deck') = Shown(deck) /\ alive' = alive
    BY <1>2, <2>4 DEF Abstract!vars
  <2> QED
    BY <2>1, <2>3, <2>4
<1>5. ASSUME DelPanel(p) PROVE Abstract!Delete(p)
  <2>1. Shown(deck') = Seqs!RemoveFirst(Shown(deck), p)
    BY <1>1, <1>5, DeleteShows
  <2>2. p \in alive /\ alive' = alive \ {p}
    BY <1>5 DEF DelPanel
  <2> QED
    BY <1>2, <1>3, <2>1, <2>2 DEF Abstract!Delete
<1>6. ASSUME HidePanel(p) PROVE Abstract!Hide(p)
  <2>1. p \in alive /\ deck' = Unlink(deck, p) /\ alive' = alive
    BY <1>6 DEF HidePanel
  <2>2. Shown(deck') = Seqs!RemoveFirst(Shown(deck), p)
    BY <1>1, <2>1, HideShows
  <2> QED
    BY <1>2, <1>3, <2>1, <2>2 DEF Abstract!Hide
<1>7. ASSUME ShowPanel(p) \/ TopPanel(p) PROVE Abstract!Raise(p)
  <2>1. p \in alive /\ alive' = alive
    BY <1>7 DEF ShowPanel, TopPanel
  <2>2. Shown(deck') = Append(Seqs!RemoveFirst(Shown(deck), p), p)
    BY <1>1, <1>7, RaiseShows
  <2> QED
    BY <1>2, <1>3, <2>1, <2>2 DEF Abstract!Raise
<1>8. ASSUME BottomPanel(p) PROVE Abstract!Lower(p)
  <2>1. p \in alive /\ alive' = alive
    BY <1>8 DEF BottomPanel
  <2>2. /\ Shown(deck') = <<p>> \o Seqs!RemoveFirst(Shown(deck), p)
        /\ \E i \in DOMAIN Shown(deck) : Shown(deck)[i] = p
    BY <1>1, <1>8, LowerShows
  <2> QED
    BY <1>2, <1>3, <2>1, <2>2 DEF Abstract!Lower, Abstract!Visible
<1> QED
  BY <1>4, <1>5, <1>6, <1>7, <1>8 DEF CallIsDocumented

\* A step of the list is a step of the deck, or changes nothing of it.
LEMMA StepsAreTheDecks ==
  ASSUME IsFiniteSet(Panel), "show" \notin Unfounded, BasedInv, Listed, [Next]_vars
  PROVE  [Abstract!Next]_Abstract!vars
<1>1. CASE deck' = deck /\ alive' = alive
  <2>1. Shown(deck)' = Shown(deck)
    BY <1>1, ShownThen
  <2> QED
    BY <1>1, <2>1 DEF Abstract!vars
<1>2. ASSUME NEW p \in Panel,
             NewPanel(p) \/ DelPanel(p) \/ HidePanel(p) \/ ShowPanel(p) \/ TopPanel(p) \/ BottomPanel(p)
      PROVE  [Abstract!Next]_Abstract!vars
  <2>1. CallIsDocumented(p)
    BY CallsAreDocumented
  <2>2. \/ Abstract!Create(p) \/ Abstract!Delete(p) \/ Abstract!Hide(p) \/ Abstract!Raise(p) \/ Abstract!Lower(p)
        \/ UNCHANGED Abstract!vars
    BY <1>2, <2>1 DEF CallIsDocumented
  <2> QED
    BY <2>2 DEF Abstract!Next
<1> QED
  BY <1>1, <1>2 DEF Next, vars, SwitchScreen

\* The list implements the documented deck, call by call, in a program that
\* shows no hidden panel while the phantom is out of the deck.
THEOREM DeckIsImplemented ==
  ASSUME IsFiniteSet(Panel), "show" \notin Unfounded PROVE Spec => ImplementsDeck
<1>1. Init => Abstract!Init
  <2>1. SUFFICES ASSUME Init PROVE Shown(deck) = <<>>
    BY DEF Abstract!Init, Init
  <2>2. BasedInv /\ Lists(deck, <<>>)
    BY <2>1, InitIInv, InitLists
  <2>3. Sound(deck) /\ Based(deck)
    BY <2>2 DEF BasedInv, IInv
  <2>4. <<>> \in Seq(Elem) /\ Inj(<<>>) /\ Footed(<<>>) /\ Shown(deck) = Order(<<>>)
    BY <2>2, <2>3, FootedIs, ShownIs DEF Lists
  <2> QED
    BY <2>4 DEF Order
<1>2. BasedInv /\ Listed /\ [Next]_vars => [Abstract!Next]_Abstract!vars
  BY StepsAreTheDecks
<1>3. BasedInv /\ Listed /\ [Next]_vars => [\A p \in Panel : CallIsDocumented(p)]_vars
  BY CallsAreDocumented
<1> QED
  BY <1>1, <1>2, <1>3, SpecBasedInv, SpecListed, PTL DEF Spec, ImplementsDeck, Abstract!Spec
=============================================================================
