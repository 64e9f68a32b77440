--------------------------------- MODULE Rooms ---------------------------------
(* The review room and the drafting table over one checkout.  Their handlers are   *)
(* on one event loop and never await, so at most one is part-way; the checkout is  *)
(* other processes' and moves at any moment.  The bound is one document at a time  *)
(* and one in all: a request keeps nothing for the next.                           *)
EXTENDS Review, Draft

vars == <<checkout, moves, failures, review, draft>>

Init == CheckoutInit /\ ReviewInit /\ DraftInit

Move ==
    /\ Meanwhile
    /\ seen' = [roots |-> seen.roots \cup {root'}, moved |-> TRUE]
    /\ UNCHANGED <<rv, atOpen, dr>>

Next ==
    \/ dr.at = "idle" /\ ReviewNext /\ UNCHANGED draft
    \/ rv.at = "idle" /\ DraftNext /\ UNCHANGED review
    \/ Move

Spec == Init /\ [][Next]_vars

\* The shape of the state; what the review names is among the stories it shows.
TypeOK == CheckoutTypeOK /\ ReviewTypeOK /\ DraftTypeOK
=================================================================================
