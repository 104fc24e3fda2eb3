----------------------------- MODULE PanelDeck ------------------------------
(***************************************************************************)
(* What libpanel promises of the z-order (panel.3, "All currently visible  *)
(* panels form a deck"): the visible panels are a sequence from bottom to  *)
(* top, and each call of the library moves, adds or removes one panel of   *)
(* it.  Panels.tla, the linked list the library really keeps, implements   *)
(* this module.                                                            *)
(***************************************************************************)
EXTENDS SequencesExt

CONSTANT Panel          \* the panels a program can create

VARIABLES order,        \* the deck: visible panels, bottom first
          alive         \* the panels created and not deleted

vars == <<order, alive>>

Visible(p) == \E i \in DOMAIN order : order[i] = p

Without(p) == RemoveFirst(order, p)

Init == /\ order = <<>>
        /\ alive = {}

\* A new panel is on top.
Create(p) == /\ p \notin alive
             /\ alive' = alive \cup {p}
             /\ order' = Append(order, p)

Delete(p) == /\ p \in alive
             /\ alive' = alive \ {p}
             /\ order' = Without(p)

Hide(p) == /\ p \in alive
           /\ order' = Without(p)
           /\ UNCHANGED alive

\* A shown or raised panel is on top, whether it was hidden or not.
Raise(p) == /\ p \in alive
            /\ order' = Append(Without(p), p)
            /\ UNCHANGED alive

Lower(p) == /\ p \in alive
            /\ Visible(p)
            /\ order' = <<p>> \o Without(p)
            /\ UNCHANGED alive

Next == \E p \in Panel : \/ Create(p)
                         \/ Delete(p)
                         \/ Hide(p)
                         \/ Raise(p)
                         \/ Lower(p)

Spec == Init /\ [][Next]_vars
=============================================================================
