------------------------------- MODULE Checkout -------------------------------
(***************************************************************************)
(* The checkout beside the factory that the pane's two document rooms read:  *)
(* its revision, the landing branch as it has it, and one spec's documents.  *)
(* None of it is the pane's.  The factory merges, the roadmap runs `git      *)
(* reset --hard` every tick (pane/draft.py), and the operator edits specs in  *)
(* place, each between any two reads of a request.                           *)
(***************************************************************************)
EXTENDS Integers, FiniteSets

CONSTANTS Stories,      \* the stories of the spec
          Edited,       \* content no commit holds
          Broken,       \* bytes that do not decode
          NULL,         \* no document, no landing, no revision, no answer
          MaxRev,       \* bound: the last revision
          MaxMoves,     \* bound: changes of the checkout
          MaxFailures   \* bound: reads that fail

Trio == {"spec.md", "plan.md", "tasks.md"}
Revs == 0..MaxRev
Contents == {Edited, Broken, NULL} \cup Revs

ASSUME CheckoutAssumption ==
    /\ MaxRev \in Nat /\ MaxMoves \in Nat /\ MaxFailures \in Nat
    /\ {Edited, Broken, NULL} \cap Int = {} /\ NULL \notin BOOLEAN
    /\ Edited # Broken /\ Edited # NULL /\ Broken # NULL

VARIABLES
    tip,        \* the landing branch's last revision
    landed,     \* landed[s]: the revision that landed s, NULL before
    head,       \* the revision the checkout is on
    disk,       \* disk[d]: the content of specs/<dir>/<d>; a commit's is its revision
    root,       \* what the specs root is: a directory, a file, or nothing
    moves, failures

checkout == <<tip, landed, head, disk, root>>

Tree(r) == [d \in Trio |-> r]

\* The revision r holds s's landing commit, on a branch that only grows.
Carries(r, s) == landed[s] # NULL /\ landed[s] <= r

\* A checkout as it was cloned or reset, and at most one document changed since.
CheckoutInit ==
    /\ tip \in {0, 1} \cap Revs
    /\ landed \in [Stories -> {NULL} \cup 1..tip]
    /\ head \in 0..tip
    /\ \E d \in Trio, c \in {head, Edited, Broken, NULL} : disk = [Tree(head) EXCEPT ![d] = c]
    /\ root = "directory"
    /\ moves = 0 /\ failures = 0

Fail == failures < MaxFailures /\ failures' = failures + 1

---------------------------------------------------------------------------------
(* Meanwhile *)

\* The merge queue lands a story and the checkout fetches it.
Merge(s) ==
    /\ landed[s] = NULL /\ tip < MaxRev
    /\ tip' = tip + 1 /\ landed' = [landed EXCEPT ![s] = tip + 1]
    /\ UNCHANGED <<head, disk, root>>

\* The roadmap's tick: the working tree and the revision move together.
Reset ==
    /\ head' = tip /\ disk' = Tree(tip)
    /\ UNCHANGED <<tip, landed, root>>

\* The operator edits a document, breaks it, or removes it.
Edit(d) ==
    /\ \E c \in {Edited, Broken, NULL} \ {disk[d]} : disk' = [disk EXCEPT ![d] = c]
    /\ UNCHANGED <<tip, landed, head, root>>

\* The specs root is moved away, replaced, or put back.
Replace ==
    /\ root' \in {"directory", "file", "nothing"} \ {root}
    /\ UNCHANGED <<tip, landed, head, disk>>

Meanwhile ==
    /\ moves < MaxMoves /\ moves' = moves + 1 /\ UNCHANGED failures
    /\ \/ \E s \in Stories : Merge(s)
       \/ Reset
       \/ \E d \in Trio : Edit(d)
       \/ Replace

CheckoutTypeOK ==
    /\ tip \in Revs /\ head \in 0..tip
    /\ landed \in [Stories -> {NULL} \cup 0..tip]
    /\ disk \in [Trio -> Contents]
    /\ root \in {"directory", "file", "nothing"}
    /\ moves \in 0..MaxMoves /\ failures \in 0..MaxFailures
=================================================================================
