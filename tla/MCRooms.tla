-------------------------------- MODULE MCRooms --------------------------------
(* The document rooms, with constants small enough for TLC. *)
EXTENDS Rooms, TLC

\* The graph of every story, and one compiled before the second was written.
TheGraphs == {{1, 2}, {1}}

TheFiles == (1 :> {"desk.tsx", "review.py"}) @@ (2 :> {"desk.tsx", "notes.md"})

ThePatterns == {[files |-> {"desk.tsx", "rail.tsx"}, routes |-> {"/", "/showfloor"}],
                [files |-> {"desk.tsx"}, routes |-> {"/"}],
                [files |-> {"review.py"}, routes |-> {"/review"}]}
=================================================================================
