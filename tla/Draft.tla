--------------------------------- MODULE Draft ---------------------------------
(***************************************************************************)
(* The drafting table's two documents: a spec's trio with the answers of      *)
(* ergane's three checkers (pane/draft.py, pane/checks.py), and the index of   *)
(* the corpus (pane/draft_index.py), each under the stamp of its read.  The    *)
(* handlers never await: one request runs at a time, and the checkout moves    *)
(* between its reads all the same.                                            *)
(*                                                                         *)
(* A document's text is its content; an answer is a state and what it answers  *)
(* about.  What a checker finds at fault in a page is any.                     *)
(***************************************************************************)
EXTENDS Checkout

CONSTANT Uncompiled     \* the contents of spec.md the deriver refuses

VARIABLES
    dr,         \* the request: where it stands, the stamp, the page, the answers
    seen        \* history: what the specs root has been during the request, and
                \* whether the checkout has moved

draft == <<dr, seen>>

Answer(state, of) == [state |-> state, of |-> of]

NotRun == Answer("not_run", NULL)
Unread == [d \in Trio |-> NULL]

NoDraft ==
    [room |-> NULL, at |-> "idle", revision |-> NULL, dirty |-> NULL,
     texts |-> Unread, notes |-> {}, graph |-> NULL, derivation |-> NotRun,
     assembly |-> NotRun, coverage |-> NotRun, specs |-> {}]

DraftInit == dr = NoDraft /\ seen = [roots |-> {}, moved |-> FALSE]

\* A step of a handler, before which the checkout may have moved.
Drafting(room, at) ==
    /\ dr.room = room /\ dr.at = at
    /\ UNCHANGED <<checkout, moves, seen>>

---------------------------------------------------------------------------------
(* The stamp, the same for both rooms *)

\* A request; a name that is not a single directory name is refused before a path is
\* formed, and every check then wants its input.
OpenDraft ==
    /\ dr.at = "idle"
    /\ \/ \E room \in {"trio", "index"} : dr' = [dr EXCEPT !.room = room, !.at = "revision"]
       \/ dr' = [dr EXCEPT !.room = "trio", !.at = "done", !.notes = {"refusal"}]
    /\ seen' = [roots |-> {root}, moved |-> FALSE]
    /\ UNCHANGED <<checkout, moves, failures>>

\* git rev-parse HEAD.  A tree that is not there has no revision, and none is a failure.
Revision(room) ==
    /\ Drafting(room, "revision")
    /\ \/ /\ dr' = IF root = "directory" THEN [dr EXCEPT !.at = "status", !.revision = head]
                   ELSE [dr EXCEPT !.at = "place"]
          /\ UNCHANGED failures
       \/ dr' = [dr EXCEPT !.at = "place"] /\ Fail

\* What is staged, and no more.
DirtyStaged == FALSE

\* The tree differs from its revision, in any document, tracked or not.
Dirty == disk # Tree(head)

\* git status, another read of the same tree; without it the revision is withheld too.
Status(room) ==
    /\ Drafting(room, "status")
    /\ \/ /\ root = "directory" /\ UNCHANGED failures
          /\ dr' = [dr EXCEPT !.at = "place", !.dirty = Dirty]
       \/ /\ IF root = "directory" THEN Fail ELSE UNCHANGED failures
          /\ dr' = [dr EXCEPT !.at = "place", !.revision = NULL]

---------------------------------------------------------------------------------
(* The trio *)

Place ==
    /\ Drafting("trio", "place") /\ UNCHANGED failures
    /\ dr' = IF root = "directory" THEN [dr EXCEPT !.at = "spec.md"]
             ELSE [dr EXCEPT !.at = "done", !.notes = {"transport"}]

Following == [d \in Trio |-> CASE d = "spec.md" -> "plan.md" [] d = "plan.md" -> "tasks.md"
                               [] OTHER -> "derive"]

\* What a read of d gives: its text, a quiet absence, or an absence with a note.
TextOf(d) == IF root = "directory" /\ disk[d] # Broken THEN disk[d] ELSE NULL

ReadDocument(d) ==
    /\ Drafting("trio", d) /\ UNCHANGED failures
    /\ dr' = [dr EXCEPT !.at = Following[d], !.texts[d] = TextOf(d),
                        !.notes = IF root = "file" \/ (root = "directory" /\ disk[d] = Broken)
                                  THEN @ \cup {d} ELSE @]

\* The deriver handed the file again instead of the page.
DeriveAnew ==
    /\ Drafting("trio", "derive") /\ UNCHANGED failures
    /\ dr' = IF TextOf("spec.md") = NULL THEN [dr EXCEPT !.at = "assembly"]
             ELSE IF TextOf("spec.md") \in Uncompiled
                  THEN [dr EXCEPT !.at = "assembly", !.derivation = Answer("refused", NULL)]
             ELSE [dr EXCEPT !.at = "assembly", !.derivation = Answer("passed", NULL),
                             !.graph = <<TextOf("spec.md"), TextOf("tasks.md")>>]

\* derive_workgraph on the page's spec and tasks: no spec, nothing to compile; and a
\* seam that breaks is not a spec that was refused.
Derive ==
    /\ Drafting("trio", "derive")
    /\ \/ /\ UNCHANGED failures
          /\ dr' = IF dr.texts["spec.md"] = NULL THEN [dr EXCEPT !.at = "assembly"]
                   ELSE IF dr.texts["spec.md"] \in Uncompiled
                        THEN [dr EXCEPT !.at = "assembly", !.derivation = Answer("refused", NULL)]
                   ELSE [dr EXCEPT !.at = "assembly", !.derivation = Answer("passed", NULL),
                                   !.graph = <<dr.texts["spec.md"], dr.texts["tasks.md"]>>]
       \/ Fail /\ dr.texts["spec.md"] # NULL /\ dr' = [dr EXCEPT !.at = "assembly"]

\* The assembly asked for whatever a graph there is.
RunsOnAnyGraph(texts) == dr.graph # NULL

\* A prompt is assembled from all three documents; short of one the checker is not asked.
Runs(texts) == dr.graph # NULL /\ \A d \in Trio : texts[d] # NULL

\* check_prompt_assembly takes the spec's text and reads the other two off the disk:
\* one it cannot read is a finding, and so is one it finds at fault.
Assembly ==
    LET onDisk == [d \in Trio |-> IF d = "spec.md" THEN dr.texts[d] ELSE TextOf(d)] IN
    /\ Drafting("trio", "assembly")
    /\ \/ /\ ~Runs(dr.texts) /\ UNCHANGED failures
          /\ dr' = [dr EXCEPT !.at = "coverage"]
       \/ /\ Runs(dr.texts) /\ UNCHANGED failures
          /\ \E state \in IF \E d \in Trio : onDisk[d] = NULL THEN {"refused"} ELSE {"passed", "refused"} :
             dr' = [dr EXCEPT !.at = "coverage", !.assembly = Answer(state, onDisk)]
       \/ Runs(dr.texts) /\ Fail /\ dr' = [dr EXCEPT !.at = "coverage"]

\* check_slice_coverage over the page's tasks, or nothing to say without them.
Coverage ==
    /\ Drafting("trio", "coverage")
    /\ IF dr.graph # NULL /\ dr.texts["tasks.md"] # NULL
       THEN \/ /\ UNCHANGED failures
               /\ \E state \in {"passed", "refused"} :
                  dr' = [dr EXCEPT !.at = "done",
                                   !.coverage = Answer(state, dr.texts["tasks.md"])]
            \/ Fail /\ dr' = [dr EXCEPT !.at = "done"]
       ELSE dr' = [dr EXCEPT !.at = "done"] /\ UNCHANGED failures

---------------------------------------------------------------------------------
(* The index *)

Degraded(note) == dr' = [dr EXCEPT !.at = "done", !.notes = {note}]

\* The seam asked without a look at its root.
ExistsUnasked ==
    /\ Drafting("index", "place") /\ UNCHANGED failures
    /\ dr' = [dr EXCEPT !.at = "walk"]

Exists ==
    /\ Drafting("index", "place") /\ UNCHANGED failures
    /\ IF root = "nothing" THEN Degraded("specs_root") ELSE dr' = [dr EXCEPT !.at = "kind"]

IsDir ==
    /\ Drafting("index", "kind") /\ UNCHANGED failures
    /\ IF root # "directory" THEN Degraded("specs_root") ELSE dr' = [dr EXCEPT !.at = "walk"]

\* read_roadmap takes a root that is not there for a corpus with nothing in it, and
\* raises for a corpus of which any spec does not parse.
Walk ==
    /\ Drafting("index", "walk")
    /\ \/ root = "nothing" /\ dr' = [dr EXCEPT !.at = "done"] /\ UNCHANGED failures
       \/ root = "file" /\ Degraded("specs_root") /\ UNCHANGED failures
       \/ /\ root = "directory" /\ UNCHANGED failures
          /\ IF disk["spec.md"] \in Uncompiled THEN Degraded("read_roadmap")
             ELSE dr' = [dr EXCEPT !.at = "done", !.specs = {disk["spec.md"]} \ {NULL}]
       \/ root = "directory" /\ Fail /\ Degraded("specs_root")

DraftNext ==
    \/ OpenDraft
    \/ \E room \in {"trio", "index"} : Revision(room) \/ Status(room)
    \/ Place \/ (\E d \in Trio : ReadDocument(d)) \/ Derive \/ Assembly \/ Coverage
    \/ Exists \/ IsDir \/ Walk

---------------------------------------------------------------------------------
(* Properties *)

States == {"passed", "refused", "not_run"}

Texts == [Trio -> Contents \ {Broken}]

Drafts ==
    [room : {NULL, "trio", "index"},
     at : {"idle", "revision", "status", "place", "kind", "walk", "derive", "assembly",
           "coverage", "done"} \cup Trio,
     revision : {NULL} \cup Revs, dirty : {NULL, TRUE, FALSE}, texts : Texts,
     notes : SUBSET ({"transport", "refusal", "specs_root", "read_roadmap"} \cup Trio),
     graph : {NULL} \cup (Contents \X Contents),
     derivation : [state : States, of : {NULL}],
     assembly : [state : States, of : {NULL} \cup Texts],
     coverage : [state : States, of : Contents],
     specs : SUBSET Contents]

DraftTypeOK ==
    /\ dr \in Drafts
    /\ seen \in [roots : SUBSET {"directory", "file", "nothing"}, moved : BOOLEAN]

\* The graph drawn is the graph of the documents shown: compiled from the very texts on
\* the page, wherever the checkout has been reset to meanwhile; so is what the slices are
\* checked against, and the spec.md the prompt is assembled of (read_draft: one set of
\* bytes).  The prompt's plan and tasks are read off the disk again: CleanStampIsTrue has
\* them.
GraphIsOfThePage ==
    /\ dr.graph # NULL => dr.graph = <<dr.texts["spec.md"], dr.texts["tasks.md"]>>
    /\ dr.coverage.of # NULL => dr.coverage.of = dr.graph[2]
    /\ dr.assembly.of # NULL => dr.assembly.of["spec.md"] = dr.graph[1]

\* A check refuses only a page that has everything it takes: a document not yet written
\* is never a defect of the spec (run_checks).
NeverRefusedForAbsence == dr.at = "done" =>
    /\ dr.derivation.state = "refused" => dr.texts["spec.md"] # NULL /\ dr.graph = NULL
    /\ dr.assembly.state # "not_run" => \A d \in Trio : dr.texts[d] # NULL
    /\ dr.coverage.state # "not_run" => dr.texts["tasks.md"] # NULL

\* A page stamped with a clean revision, and read while the checkout stood still, holds
\* that revision's documents, and every answer on it is about them (read_revision).
CleanStampIsTrue ==
    dr.at = "done" /\ dr.room = "trio" /\ dr.dirty = FALSE /\ ~seen.moved =>
        /\ dr.texts = Tree(dr.revision)
        /\ dr.assembly.of # NULL => dr.assembly.of = dr.texts

\* An index that is empty and names no failed read is of a root that was a directory at
\* some moment of the request: no corpus is never shown as a corpus with no specs.
EmptyIsNotUnread ==
    dr.at = "done" /\ dr.room = "index" /\ dr.specs = {} /\ dr.notes = {} =>
        "directory" \in seen.roots
=================================================================================
