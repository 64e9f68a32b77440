------------------------------- MODULE Settlement -------------------------------
(***************************************************************************)
(* What the pane's one verb promises, with nothing of how it is kept: an    *)
(* item has at most one settlement call out, and a word the pane records    *)
(* against an item is a word the factory has said of it, or the one word     *)
(* the pane may derive itself, for the one kind that allows it              *)
(* (specs/003 FR-009, FR-010).                                              *)
(***************************************************************************)
CONSTANTS Items,      \* every answerable Attention item
          Derivable,  \* the items whose call returns nothing (Escalations)
          Words,      \* what the factory can say of an item
          Derived,    \* the word the pane derives when such a call raises
          Silence     \* no word recorded yet

VARIABLES out,        \* the items with a settlement call out
          said,       \* said[i]: every word the factory has said of i
          recorded    \* recorded[i]: the word the pane holds for i

abstractVars == <<out, said, recorded>>

Init ==
    /\ out = {}
    /\ said = [i \in Items |-> {}]
    /\ recorded = [i \in Items |-> Silence]

\* A call may leave only while none is out for its item.
Send(i) ==
    /\ i \notin out
    /\ out' = out \cup {i}
    /\ UNCHANGED <<said, recorded>>

\* The factory speaks when it likes: also of a call the pane has forgotten.
Say(i, w) ==
    /\ said' = [said EXCEPT ![i] = @ \cup {w}]
    /\ UNCHANGED <<out, recorded>>

\* A call that ends records a word that was said, or the derived one.
Record(i, w) ==
    /\ i \in out
    /\ w \in said[i] \/ (i \in Derivable /\ w = Derived)
    /\ out' = out \ {i}
    /\ recorded' = [recorded EXCEPT ![i] = w]
    /\ UNCHANGED said

\* A call that ends without a word changes nothing but the slot.
GiveUp(i) ==
    /\ i \in out
    /\ out' = out \ {i}
    /\ UNCHANGED <<said, recorded>>

\* The process dies: the slots go, what was recorded stays.
Forget ==
    /\ out' = {}
    /\ UNCHANGED <<said, recorded>>

Next ==
    \/ \E i \in Items : Send(i) \/ GiveUp(i)
    \/ \E i \in Items, w \in Words : Say(i, w)
    \/ \E i \in Items, w \in Words \cup {Derived} : Record(i, w)
    \/ Forget

Spec == Init /\ [][Next]_abstractVars
=================================================================================
