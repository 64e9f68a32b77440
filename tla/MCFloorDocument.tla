--------------------------- MODULE MCFloorDocument ---------------------------
(* The floor document, with constants small enough for TLC. *)
EXTENDS FloorDocument, TLC

Symmetry == Permutations(Requests)

\* Three stories, the first in both spellings.
Spellings == ("us1" :> 1) @@ ("US1" :> 1) @@ ("us2" :> 2) @@ ("us3" :> 3)

Node(id, key, deps, merged) == [id |-> id, key |-> key, deps |-> deps, merged |-> merged]

\* The epic's own graph; one with its ids in the other spelling, and a node without
\* one; one about another story.
TheGraphs == {
    {Node("us1", "US1", {}, {}), Node("us2", NULL, {"us1"}, {"us1"})},
    {Node("US1", "US1", {}, {}), Node("us2", NULL, {}, {"US1"}), Node(NULL, NULL, {}, {})},
    {Node("us3", NULL, {"us2"}, {})}}

\* An answer with a state missing, one that names one story, one that names nothing.
TheAnswers == {
    ("us1" :> "PENDING") @@ ("us2" :> NULL),
    ("us1" :> "MERGED"),
    [i \in {} |-> NULL]}
=================================================================================
