------------------------------- MODULE LandingRead -------------------------------
(***************************************************************************)
(* What a document's landing read promises, with nothing of the memo that     *)
(* serves it (pane/landing.py, LandingReader): the answer is the branch as it  *)
(* stood at one moment of the reading, whoever else reads meanwhile.           *)
(***************************************************************************)
CONSTANTS Stories,      \* what a branch can carry
          Assemblies,   \* the documents that can be read at once
          NULL          \* no answer

VARIABLES branch,   \* the stories the branch carries
          open,     \* open[a]: what the branch was since a's read began, {} outside one
          answer    \* answer[a]: what a's last read gave

abstractVars == <<branch, open, answer>>

Init ==
    /\ branch = {}
    /\ open = [a \in Assemblies |-> {}]
    /\ answer = [a \in Assemblies |-> NULL]

\* The branch moves on, under every read that has begun.
MoveOn(carried) ==
    /\ branch \subseteq carried
    /\ branch' = carried
    /\ open' = [a \in Assemblies |-> IF open[a] = {} THEN {} ELSE open[a] \cup {carried}]
    /\ UNCHANGED answer

Open(a) ==
    /\ open[a] = {}
    /\ open' = [open EXCEPT ![a] = {branch}]
    /\ UNCHANGED <<branch, answer>>

\* A read made in one step is of the branch as it stands.
Answer(a, carried) ==
    /\ carried \in IF open[a] = {} THEN {branch} ELSE open[a]
    /\ answer' = [answer EXCEPT ![a] = carried]
    /\ open' = [open EXCEPT ![a] = {}]
    /\ UNCHANGED branch

Refuse(a) ==
    /\ answer' = [answer EXCEPT ![a] = NULL]
    /\ open' = [open EXCEPT ![a] = {}]
    /\ UNCHANGED branch

Next ==
    \/ \E carried \in SUBSET Stories : MoveOn(carried)
    \/ \E a \in Assemblies :
        \/ Open(a) \/ Refuse(a)
        \/ \E carried \in SUBSET Stories : Answer(a, carried)

Spec == Init /\ [][Next]_abstractVars
=================================================================================
