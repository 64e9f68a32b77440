-------------------------------- MODULE Review --------------------------------
(***************************************************************************)
(* The review room's document (pane/review.py, pane/revision.py): the stories  *)
(* of an epic, whether the landing branch carries each, what each changed, and *)
(* the revision the service says it serves.  The handler never awaits, so one  *)
(* request runs at a time; the checkout moves between its reads all the same.  *)
(* The landing read's memo is module Showfloor's: here the read gives what the *)
(* branch held when it was made.                                              *)
(***************************************************************************)
EXTENDS Checkout

CONSTANTS Graphs,       \* the story keys a compiled graph can declare
          Changed,      \* Changed[s]: the files s's commit changed
          Patterns      \* the manifest: sets of files, each with the routes it names

ASSUME ReviewAssumption == \A keys \in Graphs : keys \subseteq Stories

VARIABLES
    rv,         \* the request: where it stands, its locals, its document
    atOpen      \* history: landed, when the request came

review == <<rv, atOpen>>

NoReview ==
    [at |-> "idle", headings |-> {}, keys |-> {}, manifest |-> FALSE, read |-> FALSE,
     facts |-> [s \in Stories |-> NULL], revision |-> NULL, contains |-> NULL,
     missing |-> {}, unmerged |-> {}, routes |-> {}]

ReviewInit ==
    /\ rv = NoReview
    /\ atOpen = [s \in Stories |-> NULL]

\* A `### User Story` heading per story; an edit may have taken them all away.
Headings(content) == IF content = Edited THEN {} ELSE Stories

Reviewing(at) == rv.at = at /\ UNCHANGED <<checkout, moves, atOpen>>

---------------------------------------------------------------------------------
(* The reads, in their order *)

\* spec.md: a corpus that lacks it answers 404; bytes that do not decode escape.
OpenReview ==
    /\ rv.at = "idle"
    /\ rv' = CASE root # "directory" \/ disk["spec.md"] = NULL -> [rv EXCEPT !.at = "not_found"]
               [] root = "directory" /\ disk["spec.md"] = Broken -> [rv EXCEPT !.at = "raised"]
               [] OTHER -> [rv EXCEPT !.at = "identity", !.headings = Headings(disk["spec.md"])]
    /\ atOpen' = landed
    /\ UNCHANGED <<checkout, moves, failures>>

\* The stories: the compiled graph's, else the headings'; a graph that does not read
\* is a note.  An archived one that does not decode escapes.
StoryIdentity ==
    /\ Reviewing("identity")
    /\ \/ \E keys \in Graphs \cup {{}} :
          /\ rv' = [rv EXCEPT !.at = "manifest",
                              !.keys = IF keys # {} THEN keys ELSE rv.headings]
          /\ UNCHANGED failures
       \/ rv' = [rv EXCEPT !.at = "raised"] /\ Fail

\* The committed route manifest; without one every file still renders, reaching none.
Manifest ==
    /\ Reviewing("manifest")
    /\ \/ rv' = [rv EXCEPT !.at = "landing", !.manifest = TRUE] /\ UNCHANGED failures
       \/ rv' = [rv EXCEPT !.at = "landing"] /\ Fail

\* What the landing branch carries, and whether the read was made at all.
LandingFacts ==
    /\ Reviewing("landing")
    /\ \/ rv' = [rv EXCEPT !.at = "served", !.read = TRUE, !.facts = landed] /\ UNCHANGED failures
       \/ rv' = [rv EXCEPT !.at = "served"] /\ Fail

\* git rev-parse HEAD in the checkout.
ServedRevision ==
    /\ Reviewing("served")
    /\ \/ rv' = [rv EXCEPT !.at = "contains", !.revision = head] /\ UNCHANGED failures
       \/ rv' = [rv EXCEPT !.at = "contains"] /\ Fail

OnBranch(s) == rv.facts[s] # NULL

\* git asked for what the landing holds that the revision's range does not reach.
MissingSwapped == {s \in rv.keys : OnBranch(s) => rv.facts[s] < rv.revision}

\* Every story with a heading, whatever the graph declares.
MissingOfAll == {s \in Stories : OnBranch(s) => rv.facts[s] > rv.revision}

\* The stories whose landing the served revision lacks; one that has no landing lacks
\* it by construction.
Missing == {s \in rv.keys : OnBranch(s) => rv.facts[s] > rv.revision}

\* Three answers: it carries the epic, it does not and these are why, or the question
\* could not be asked of every story.
ContainsEpic ==
    /\ Reviewing("contains")
    /\ IF rv.revision = NULL \/ ~rv.read
       THEN rv' = [rv EXCEPT !.at = "judge"] /\ UNCHANGED failures
       ELSE \/ /\ rv' = [rv EXCEPT !.at = "judge", !.contains = Missing = {}, !.missing = Missing]
               /\ UNCHANGED failures
            \/ /\ \E s \in rv.keys : OnBranch(s)
               /\ rv' = [rv EXCEPT !.at = "judge"] /\ Fail

\* A branch nobody could read taken for one that carries nothing.
JudgeUnread ==
    LET unmerged == {s \in rv.keys : ~OnBranch(s)} IN
    /\ Reviewing("judge")
    /\ rv' = IF unmerged # {} THEN [rv EXCEPT !.at = "refused", !.unmerged = unmerged]
             ELSE [rv EXCEPT !.at = "files"]
    /\ UNCHANGED failures

\* An epic refused only when none of it has landed.
JudgeWhole ==
    LET unmerged == {s \in rv.keys : ~OnBranch(s)} IN
    /\ Reviewing("judge")
    /\ rv' = IF rv.read /\ unmerged # {} /\ unmerged = rv.keys
             THEN [rv EXCEPT !.at = "refused", !.unmerged = unmerged]
             ELSE [rv EXCEPT !.at = "files"]
    /\ UNCHANGED failures

\* An epic with a story the branch was seen not to carry is refused by name.
Judge ==
    LET unmerged == {s \in rv.keys : ~OnBranch(s)} IN
    /\ Reviewing("judge")
    /\ rv' = IF rv.read /\ unmerged # {} THEN [rv EXCEPT !.at = "refused", !.unmerged = unmerged]
             ELSE [rv EXCEPT !.at = "files"]
    /\ UNCHANGED failures

\* Every pattern that matches the file contributes its routes.
Resolve(f) == UNION {p.routes : p \in {q \in Patterns : f \in q.files}}

\* The routes a story reaches, and the route list of the epic: each with its stories.
Reached(stories) ==
    LET routes(s) == UNION {Resolve(f) : f \in Changed[s]} IN
    {[path |-> p, stories |-> {s \in stories : p \in routes(s)}] :
        p \in UNION {routes(s) : s \in stories}}

\* Each landed story's changed files; those that do not read are none, with a note.  A git
\* that fails fails for any of them.
Files ==
    /\ Reviewing("files")
    /\ \E lost \in SUBSET {s \in rv.keys : OnBranch(s)} :
        /\ rv' = [rv EXCEPT !.at = "rendered", !.routes =
                    IF rv.manifest THEN Reached({s \in rv.keys : OnBranch(s)} \ lost) ELSE {}]
        /\ IF lost = {} THEN UNCHANGED failures ELSE Fail

ReviewNext ==
    \/ OpenReview \/ StoryIdentity \/ Manifest \/ LandingFacts \/ ServedRevision
    \/ ContainsEpic \/ Judge \/ Files

---------------------------------------------------------------------------------
(* Properties *)

Reviews ==
    [at : {"idle", "identity", "manifest", "landing", "served", "contains", "judge", "files",
           "not_found", "raised", "refused", "rendered"},
     headings : SUBSET Stories, keys : SUBSET Stories, manifest : BOOLEAN, read : BOOLEAN,
     facts : [Stories -> {NULL} \cup Revs], revision : {NULL} \cup Revs,
     contains : {NULL, TRUE, FALSE}, missing : SUBSET Stories, unmerged : SUBSET Stories,
     routes : SUBSET [path : UNION {p.routes : p \in Patterns}, stories : SUBSET Stories]]

ReviewTypeOK ==
    /\ rv \in Reviews /\ rv.missing \cup rv.unmerged \subseteq rv.keys
    /\ atOpen \in [Stories -> {NULL} \cup Revs]

\* The header of a document that is rendered means what it says, wherever the checkout
\* has gone between the reads: a revision said to carry the epic carries every story of
\* it, one said not to really lacks each story named and names one, and neither is said
\* when a read of the question failed (_contains_epic).
ContainsIsTrue == rv.at = "rendered" =>
    /\ rv.contains = TRUE => rv.read /\ \A s \in rv.keys : Carries(rv.revision, s)
    /\ rv.contains = FALSE => /\ rv.read /\ rv.missing # {}
                              /\ \A s \in rv.missing : ~Carries(rv.revision, s)
    /\ rv.contains # FALSE => rv.missing = {}

\* No story is named unmerged that the branch carried when the request came, whatever
\* failed or landed since (EpicNotLanded).
RefusalIsTrue == rv.at = "refused" =>
    rv.unmerged # {} /\ \A s \in rv.unmerged : atOpen[s] = NULL

\* Half an epic is never rendered as one that landed: what is rendered has landed
\* whole, or says that the branch was not read.
HalfIsNeverRendered == rv.at = "rendered" /\ rv.read =>
    \A s \in rv.keys : landed[s] # NULL
=================================================================================
