------------------------------ MODULE RoomsProofs ------------------------------
(* What module Rooms promises of every spec, every graph and every checkout, proved. *)
EXTENDS Rooms, TLAPS

-----------------------------------------------------------------------------
(* The checkout *)

LEMMA BoundsGiven == MaxRev \in Nat /\ MaxMoves \in Nat /\ MaxFailures \in Nat
BY CheckoutAssumption

LEMMA NullIsNothing == NULL \notin Revs /\ NULL # TRUE /\ NULL # FALSE
<1>1. NULL \notin Int
  BY CheckoutAssumption
<1>2. NULL \notin Revs
  BY <1>1, BoundsGiven DEF Revs
<1>3. NULL # TRUE /\ NULL # FALSE
  BY CheckoutAssumption, Zenon
<1> QED BY <1>2, <1>3

LEMMA TreeTyped == ASSUME NEW r \in Revs PROVE Tree(r) \in [Trio -> Contents]
BY DEF Tree, Contents

LEMMA FailCounts ==
  ASSUME CheckoutTypeOK, Fail, UNCHANGED <<checkout, moves>>
  PROVE  CheckoutTypeOK'
<1>1. failures \in 0..MaxFailures /\ failures < MaxFailures /\ failures' = failures + 1
  BY DEF CheckoutTypeOK, Fail
<1>2. failures' \in 0..MaxFailures
  BY <1>1, BoundsGiven
<1> QED BY <1>2 DEF CheckoutTypeOK, checkout

LEMMA Reading ==
  ASSUME CheckoutTypeOK, UNCHANGED <<checkout, moves>>, UNCHANGED failures \/ Fail
  PROVE  CheckoutTypeOK'
<1>1. CASE UNCHANGED failures
  BY <1>1 DEF CheckoutTypeOK, checkout
<1> QED BY <1>1, FailCounts

\* Meanwhile the branch only grows.
LEMMA MeanwhileTyped ==
  ASSUME CheckoutTypeOK, Meanwhile
  PROVE  /\ CheckoutTypeOK'
         /\ \A s \in Stories : landed[s] # NULL => landed'[s] = landed[s]
<1> USE DEF CheckoutTypeOK
<1>1. moves' \in 0..MaxMoves
  <2>1. moves \in 0..MaxMoves /\ moves < MaxMoves /\ moves' = moves + 1
    BY DEF Meanwhile
  <2> QED BY <2>1, BoundsGiven
<1>2. UNCHANGED failures
  BY DEF Meanwhile
<1>3. ASSUME NEW s \in Stories, Merge(s)
      PROVE  /\ tip' \in Revs /\ head' \in 0..tip' /\ landed' \in [Stories -> {NULL} \cup 0..tip']
             /\ disk' = disk /\ root' = root
             /\ \A x \in Stories : landed[x] # NULL => landed'[x] = landed[x]
  <2>1. tip \in Nat /\ tip + 1 \in Revs /\ head \in 0..(tip + 1) /\ 0..tip \subseteq 0..(tip + 1)
    BY <1>3, BoundsGiven DEF Merge, Revs
  <2>2. landed' \in [Stories -> {NULL} \cup 0..(tip + 1)]
    BY <1>3, <2>1 DEF Merge
  <2> QED BY <1>3, <2>1, <2>2 DEF Merge
<1>4. CASE Reset
  <2>1. tip \in Revs /\ tip \in 0..tip
    BY BoundsGiven DEF Revs
  <2> QED BY <1>1, <1>2, <1>4, <2>1, TreeTyped DEF Reset
<1>5. ASSUME NEW d \in Trio, Edit(d)
      PROVE  UNCHANGED <<tip, landed, head, root>> /\ disk' \in [Trio -> Contents]
  BY <1>5 DEF Edit, Contents
<1>6. CASE Replace
  BY <1>1, <1>2, <1>6 DEF Replace
<1> QED BY <1>1, <1>2, <1>3, <1>4, <1>5, <1>6 DEF Meanwhile

LEMMA LandedTyped == CheckoutTypeOK => landed \in [Stories -> {NULL} \cup Revs] /\ head \in Revs
<1>1. SUFFICES ASSUME CheckoutTypeOK PROVE landed \in [Stories -> {NULL} \cup Revs] /\ head \in Revs
  OBVIOUS
<1>2. tip \in Revs /\ head \in 0..tip /\ landed \in [Stories -> {NULL} \cup 0..tip]
  BY <1>1 DEF CheckoutTypeOK
<1>3. 0..tip \subseteq Revs
  BY <1>2, BoundsGiven DEF Revs
<1> QED BY <1>2, <1>3

-----------------------------------------------------------------------------
(* The review *)

Routed == [path : UNION {p.routes : p \in Patterns}, stories : SUBSET Stories]

LEMMA ReachedTyped ==
  ASSUME NEW stories \in SUBSET Stories
  PROVE  Reached(stories) \in SUBSET Routed
<1>1. \A f : Resolve(f) \subseteq UNION {p.routes : p \in Patterns}
  BY DEF Resolve
<1> QED BY <1>1 DEF Reached, Routed

\* Before the branch is read nothing is of it, before the header's question is put it has
\* no answer, and before the judgement no story is named.
Unasked ==
    /\ rv.at \in {"idle", "identity", "manifest", "landing"} => rv.read = FALSE
    /\ rv.at \in {"idle", "identity", "manifest", "landing", "served", "contains"} =>
        rv.contains = NULL /\ rv.missing = {} /\ rv.unmerged = {}
    /\ rv.at = "judge" => rv.unmerged = {}

\* What was read of the branch is so, and is no older than the request.
FactsTrue ==
    \A s \in Stories :
        /\ rv.facts[s] # NULL => landed[s] = rv.facts[s]
        /\ atOpen[s] # NULL => landed[s] = atOpen[s]
        /\ rv.read /\ rv.facts[s] = NULL => atOpen[s] = NULL

\* The header's answer, in terms of what the request has read.
HeaderTrue ==
    /\ rv.contains = TRUE => /\ rv.read /\ rv.revision # NULL
                             /\ \A s \in rv.keys : rv.facts[s] # NULL /\ ~(rv.facts[s] > rv.revision)
    /\ rv.contains = FALSE =>
        /\ rv.read /\ rv.revision # NULL /\ rv.missing # {}
        /\ \A s \in rv.missing : rv.facts[s] # NULL => rv.facts[s] > rv.revision
    /\ rv.contains # FALSE => rv.missing = {}

\* The judgement, in terms of what the request has read.
Judged ==
    /\ rv.at \in {"files", "rendered"} /\ rv.read => \A s \in rv.keys : rv.facts[s] # NULL
    /\ rv.at = "refused" => /\ rv.read /\ rv.unmerged # {}
                            /\ \A s \in rv.unmerged : rv.facts[s] = NULL

RInv == CheckoutTypeOK /\ ReviewTypeOK /\ Unasked /\ FactsTrue /\ HeaderTrue /\ Judged

LEMMA ReviewInitHolds == CheckoutInit /\ ReviewInit => RInv
<1>1. SUFFICES ASSUME CheckoutInit, ReviewInit PROVE RInv
  OBVIOUS
<1>2. CheckoutTypeOK
  <2>1. tip \in Revs /\ head \in 0..tip /\ head \in Revs
    BY <1>1, BoundsGiven DEF CheckoutInit, Revs
  <2>2. landed \in [Stories -> {NULL} \cup 0..tip]
    BY <1>1 DEF CheckoutInit
  <2>3. disk \in [Trio -> Contents]
    BY <1>1, <2>1, TreeTyped DEF CheckoutInit, Contents
  <2> QED BY <1>1, <2>1, <2>2, <2>3, BoundsGiven DEF CheckoutInit, CheckoutTypeOK
<1>3. rv \in Reviews
  BY <1>1 DEF ReviewInit, NoReview, Reviews
<1> QED
  BY <1>1, <1>2, <1>3, NullIsNothing
     DEF RInv, ReviewTypeOK, Unasked, FactsTrue, HeaderTrue, Judged, ReviewInit, NoReview

LEMMA ReviewStep == ASSUME RInv, ReviewNext PROVE RInv'
<1> USE NullIsNothing DEF RInv, ReviewTypeOK, Unasked, FactsTrue, HeaderTrue, Judged
<1>1. CASE OpenReview
  <2>1. CheckoutTypeOK'
    BY <1>1, Reading DEF OpenReview, checkout
  <2>2. Headings(disk["spec.md"]) \in SUBSET Stories
    BY DEF Headings
  <2>3. \/ rv' = [rv EXCEPT !.at = "not_found"]
        \/ rv' = [rv EXCEPT !.at = "raised"]
        \/ rv' = [rv EXCEPT !.at = "identity", !.headings = Headings(disk["spec.md"])]
    BY <1>1 DEF OpenReview
  <2>4. atOpen' \in [Stories -> {NULL} \cup Revs] /\ atOpen' = landed /\ landed' = landed
    BY <1>1, LandedTyped DEF OpenReview, checkout
  <2>5. rv' \in Reviews
    <3>1. PICK h \in SUBSET Stories : h = Headings(disk["spec.md"])
      BY <2>2
    <3>2. CASE rv' = [rv EXCEPT !.at = "not_found"]
      BY <3>2 DEF Reviews
    <3>3. CASE rv' = [rv EXCEPT !.at = "raised"]
      BY <3>3 DEF Reviews
    <3>4. CASE rv' = [rv EXCEPT !.at = "identity", !.headings = h]
      BY <3>4 DEF Reviews
    <3> QED BY <2>3, <3>1, <3>2, <3>3, <3>4
  <2>6. rv.at = "idle" /\ rv.read = FALSE
    BY <1>1 DEF OpenReview
  <2> QED BY <2>1, <2>3, <2>4, <2>5, <2>6 DEF Reviews
<1>2. CASE StoryIdentity
  <2>1. CheckoutTypeOK'
    BY <1>2, Reading DEF StoryIdentity, Reviewing, checkout
  <2>2. PICK keys \in SUBSET Stories :
          \/ rv' = [rv EXCEPT !.at = "manifest", !.keys = keys]
          \/ rv' = [rv EXCEPT !.at = "raised"]
    <3>1. rv.headings \in SUBSET Stories
      BY DEF Reviews
    <3>2. \A keys \in Graphs \cup {{}} : keys \in SUBSET Stories
      BY ReviewAssumption
    <3>3. CASE rv' = [rv EXCEPT !.at = "raised"]
      BY <3>1, <3>3
    <3>4. CASE \E keys \in Graphs \cup {{}} :
                 rv' = [rv EXCEPT !.at = "manifest", !.keys = IF keys # {} THEN keys ELSE rv.headings]
      BY <3>1, <3>2, <3>4
    <3> QED BY <1>2, <3>3, <3>4 DEF StoryIdentity
  <2>3. rv' \in Reviews
    BY <2>2 DEF Reviews
  <2>4. UNCHANGED <<landed, atOpen>> /\ rv.at = "identity"
    BY <1>2 DEF StoryIdentity, Reviewing, checkout
  <2> QED BY <2>1, <2>2, <2>3, <2>4 DEF Reviews
<1>3. CASE Manifest
  <2>1. CheckoutTypeOK'
    BY <1>3, Reading DEF Manifest, Reviewing, checkout
  <2>2. \/ rv' = [rv EXCEPT !.at = "landing", !.manifest = TRUE]
        \/ rv' = [rv EXCEPT !.at = "landing"]
    BY <1>3 DEF Manifest
  <2>3. rv' \in Reviews
    BY <2>2 DEF Reviews
  <2>4. UNCHANGED <<landed, atOpen>> /\ rv.at = "manifest"
    BY <1>3 DEF Manifest, Reviewing, checkout
  <2> QED BY <2>1, <2>2, <2>3, <2>4 DEF Reviews
<1>4. CASE LandingFacts
  <2>1. CheckoutTypeOK'
    BY <1>4, Reading DEF LandingFacts, Reviewing, checkout
  <2>2. \/ rv' = [rv EXCEPT !.at = "served", !.read = TRUE, !.facts = landed]
        \/ rv' = [rv EXCEPT !.at = "served"]
    BY <1>4 DEF LandingFacts
  <2>3. rv' \in Reviews
    BY <2>2, LandedTyped DEF Reviews
  <2>4. UNCHANGED <<landed, atOpen>> /\ rv.at = "landing"
    BY <1>4 DEF LandingFacts, Reviewing, checkout
  <2> QED BY <2>1, <2>2, <2>3, <2>4 DEF Reviews
<1>5. CASE ServedRevision
  <2>1. CheckoutTypeOK'
    BY <1>5, Reading DEF ServedRevision, Reviewing, checkout
  <2>2. \/ rv' = [rv EXCEPT !.at = "contains", !.revision = head]
        \/ rv' = [rv EXCEPT !.at = "contains"]
    BY <1>5 DEF ServedRevision
  <2>3. rv' \in Reviews
    BY <2>2, LandedTyped DEF Reviews
  <2>4. UNCHANGED <<landed, atOpen>> /\ rv.at = "served"
    BY <1>5 DEF ServedRevision, Reviewing, checkout
  <2>5. /\ rv'.facts = rv.facts /\ rv'.read = rv.read /\ rv'.keys = rv.keys
        /\ rv'.contains = NULL /\ rv'.missing = {} /\ rv'.unmerged = {} /\ rv'.at = "contains"
    <3>1. rv \in Reviews /\ rv.contains = NULL /\ rv.missing = {} /\ rv.unmerged = {}
      BY <2>4
    <3>2. CASE rv' = [rv EXCEPT !.at = "contains", !.revision = head]
      BY <3>1, <3>2 DEF Reviews
    <3>3. CASE rv' = [rv EXCEPT !.at = "contains"]
      BY <3>1, <3>3 DEF Reviews
    <3> QED BY <2>2, <3>2, <3>3
  <2> QED BY <2>1, <2>3, <2>4, <2>5
<1>6. CASE ContainsEpic
  <2>1. CheckoutTypeOK'
    BY <1>6, Reading DEF ContainsEpic, Reviewing, checkout
  <2>2. UNCHANGED <<landed, atOpen>> /\ rv.at = "contains"
    BY <1>6 DEF ContainsEpic, Reviewing, checkout
  <2>3. CASE rv' = [rv EXCEPT !.at = "judge"]
    <3>1. rv' \in Reviews
      BY <2>3 DEF Reviews
    <3> QED BY <2>1, <2>2, <2>3, <3>1 DEF Reviews
  <2>4. CASE /\ rv.revision # NULL /\ rv.read
             /\ rv' = [rv EXCEPT !.at = "judge", !.contains = Missing = {}, !.missing = Missing]
    <3>1. Missing \in SUBSET rv.keys /\ (Missing = {}) \in {NULL, TRUE, FALSE}
      BY DEF Missing
    <3>2. rv' \in Reviews
      BY <2>4, <3>1 DEF Reviews
    <3>3. \A s \in rv.keys : s \notin Missing <=> rv.facts[s] # NULL /\ ~(rv.facts[s] > rv.revision)
      BY DEF Missing, OnBranch
    <3>4. Unasked' /\ FactsTrue' /\ Judged'
      BY <2>2, <2>4, <3>2 DEF Reviews
    <3>5. HeaderTrue'
      <4>1. /\ rv'.contains = (Missing = {}) /\ rv'.missing = Missing
            /\ rv'.keys = rv.keys /\ rv'.facts = rv.facts
            /\ rv'.revision = rv.revision /\ rv'.read = rv.read
        BY <2>4 DEF Reviews
      <4>2. CASE Missing = {}
        <5>1. rv'.contains = TRUE
          BY <4>1, <4>2
        <5> QED BY <2>4, <3>3, <4>1, <4>2, <5>1
      <4>3. CASE Missing # {}
        <5>1. rv'.contains = FALSE
          BY <4>1, <4>3
        <5>2. \A s \in Missing : rv.facts[s] # NULL => rv.facts[s] > rv.revision
          BY DEF Missing, OnBranch
        <5> QED BY <2>4, <4>1, <4>3, <5>1, <5>2
      <4> QED BY <4>2, <4>3
    <3> QED BY <2>1, <2>2, <2>4, <3>1, <3>2, <3>4, <3>5 DEF Reviews
  <2> QED BY <1>6, <2>3, <2>4 DEF ContainsEpic
<1>7. CASE Judge
  <2> DEFINE named == {s \in rv.keys : ~OnBranch(s)}
  <2>1. CheckoutTypeOK'
    BY <1>7, Reading DEF Judge, Reviewing, checkout
  <2>2. UNCHANGED <<landed, atOpen>> /\ rv.at = "judge"
    BY <1>7 DEF Judge, Reviewing, checkout
  <2>3. CASE rv.read /\ named # {} /\ rv' = [rv EXCEPT !.at = "refused", !.unmerged = named]
    <3>1. named \in SUBSET rv.keys /\ \A s \in named : rv.facts[s] = NULL
      BY DEF OnBranch
    <3> HIDE DEF named
    <3>2. rv' \in Reviews
      BY <2>3, <3>1 DEF Reviews
    <3> QED BY <2>1, <2>2, <2>3, <3>1, <3>2 DEF Reviews
  <2>4. CASE ~(rv.read /\ named # {}) /\ rv' = [rv EXCEPT !.at = "files"]
    <3>1. named = {} => \A s \in rv.keys : rv.facts[s] # NULL
      BY DEF OnBranch
    <3> HIDE DEF named
    <3>2. rv' \in Reviews
      BY <2>4 DEF Reviews
    <3> QED BY <2>1, <2>2, <2>4, <3>1, <3>2 DEF Reviews
  <2> QED BY <1>7, <2>3, <2>4 DEF Judge
<1>8. CASE Files
  <2>1. CheckoutTypeOK'
    BY <1>8, Reading DEF Files, Reviewing, checkout
  <2>2. UNCHANGED <<landed, atOpen>> /\ rv.at = "files"
    BY <1>8 DEF Files, Reviewing, checkout
  <2>3. PICK routes \in SUBSET Routed : rv' = [rv EXCEPT !.at = "rendered", !.routes = routes]
    <3>1. PICK lost \in SUBSET {s \in rv.keys : OnBranch(s)} :
            rv' = [rv EXCEPT !.at = "rendered", !.routes =
                    IF rv.manifest THEN Reached({s \in rv.keys : OnBranch(s)} \ lost) ELSE {}]
      BY <1>8 DEF Files
    <3>2. rv.keys \in SUBSET Stories
      BY DEF Reviews
    <3>3. Reached({s \in rv.keys : OnBranch(s)} \ lost) \in SUBSET Routed
      BY <3>2, ReachedTyped
    <3> QED BY <3>1, <3>3
  <2>4. rv' \in Reviews
    BY <2>3 DEF Reviews, Routed
  <2> QED BY <2>1, <2>2, <2>3, <2>4 DEF Reviews
<1> QED BY <1>1, <1>2, <1>3, <1>4, <1>5, <1>6, <1>7, <1>8 DEF ReviewNext

\* The checkout moves, or the drafting table reads: the review stands still, and what it
\* has read of the branch stays so.
LEMMA ReviewStands ==
  ASSUME RInv, CheckoutTypeOK', UNCHANGED review,
         \A s \in Stories : landed[s] # NULL => landed'[s] = landed[s]
  PROVE  RInv'
<1>1. UNCHANGED <<rv, atOpen>>
  BY DEF review
<1>2. FactsTrue'
  BY <1>1, NullIsNothing DEF RInv, FactsTrue
<1>3. ReviewTypeOK' /\ Unasked' /\ HeaderTrue' /\ Judged'
  BY <1>1 DEF RInv, ReviewTypeOK, Unasked, HeaderTrue, Judged
<1> QED BY <1>2, <1>3 DEF RInv

-----------------------------------------------------------------------------
(* The drafting table *)

Before == {"idle", "revision", "status", "place", "kind", "walk", "derive"} \cup Trio

\* No answer is there before its check has run, nor a graph before the derivation.
Unanswered ==
    /\ dr.at \in Before => dr.graph = NULL /\ dr.derivation = NotRun
    /\ dr.at \in Before \cup {"assembly"} => dr.assembly = NotRun
    /\ dr.at \in Before \cup {"assembly", "coverage"} => dr.coverage = NotRun

\* A check's answer, in terms of what the page holds.
AnswersHave ==
    /\ dr.derivation.state = "refused" => dr.texts["spec.md"] # NULL /\ dr.graph = NULL
    /\ dr.assembly.state # "not_run" => \A d \in Trio : dr.texts[d] # NULL
    /\ dr.coverage.state # "not_run" => dr.texts["tasks.md"] # NULL

\* The index walks only what it saw to be a directory.
WalkSaw ==
    /\ dr.at # "idle" => root \in seen.roots
    /\ dr.at = "walk" => "directory" \in seen.roots
    /\ dr.room = "index" /\ dr.at = "done" /\ dr.notes = {} => "directory" \in seen.roots

\* A page is stamped before anything else of it is read.
Unstamped == dr.at \in {"idle", "revision", "status"} => dr.dirty = NULL

Answering == {"derive", "assembly", "coverage", "done"}

\* While the checkout stands still, a clean stamp is of the tree there is, and what has
\* been read so far is that tree's.
CleanSoFar == dr.room = "trio" /\ ~seen.moved =>
    /\ dr.at = "status" => dr.revision = head
    /\ dr.dirty = FALSE =>
        /\ dr.revision = head /\ disk = Tree(head) /\ root = "directory"
        /\ dr.at \in {"plan.md", "tasks.md"} \cup Answering => dr.texts["spec.md"] = head
        /\ dr.at \in {"tasks.md"} \cup Answering => dr.texts["plan.md"] = head
        /\ dr.at \in Answering => dr.texts["tasks.md"] = head
        /\ dr.assembly.of # NULL => dr.assembly.of = dr.texts

DInv ==
    /\ CheckoutTypeOK /\ DraftTypeOK /\ Unanswered /\ GraphIsOfThePage /\ AnswersHave
    /\ WalkSaw /\ Unstamped /\ CleanSoFar

LEMMA TextsTyped ==
  ASSUME CheckoutTypeOK, NEW d \in Trio
  PROVE  TextOf(d) \in Contents \ {Broken}
<1>1. NULL # Broken /\ NULL \in Contents
  BY CheckoutAssumption DEF Contents
<1> QED BY <1>1 DEF TextOf, CheckoutTypeOK

\* A commit's documents decode, and a clean tree reads as its commit.
LEMMA CleanText ==
  ASSUME CheckoutTypeOK, root = "directory", disk = Tree(head), NEW d \in Trio
  PROVE  TextOf(d) = head
<1>1. head \in Int /\ Broken \notin Int
  BY CheckoutAssumption, LandedTyped DEF Revs
<1>2. disk[d] = head
  BY DEF Tree
<1> QED BY <1>1, <1>2 DEF TextOf

LEMMA DraftInitHolds == CheckoutInit /\ ReviewInit /\ DraftInit => DInv
<1>1. SUFFICES ASSUME CheckoutInit, ReviewInit, DraftInit PROVE DInv
  OBVIOUS
<1>2. CheckoutTypeOK
  BY <1>1, ReviewInitHolds DEF RInv
<1>3. NULL # Broken /\ NULL \in Contents
  BY CheckoutAssumption DEF Contents
<1>4. dr \in Drafts
  BY <1>1, <1>3 DEF DraftInit, NoDraft, Drafts, NotRun, Answer, Unread, States, Texts
<1>5. seen \in [roots : SUBSET {"directory", "file", "nothing"}, moved : BOOLEAN]
  BY <1>1 DEF DraftInit
<1>6. Unanswered /\ GraphIsOfThePage /\ AnswersHave /\ WalkSaw /\ Unstamped /\ CleanSoFar
  BY <1>1, NullIsNothing DEF DraftInit, NoDraft, NotRun, Answer, Unanswered, GraphIsOfThePage, AnswersHave,
     WalkSaw, Unstamped, CleanSoFar
<1> QED BY <1>2, <1>4, <1>5, <1>6 DEF DInv, DraftTypeOK

\* Before the derivation there is no answer to disturb, whatever a step reads.
LEMMA NoAnswerYet ==
  ASSUME DInv, dr.at \in Before, dr' \in Drafts,
         dr'.graph = dr.graph, dr'.derivation = dr.derivation,
         dr'.assembly = dr.assembly, dr'.coverage = dr.coverage
  PROVE  Unanswered' /\ GraphIsOfThePage' /\ AnswersHave' /\ dr'.assembly.of = NULL
BY DEF DInv, Unanswered, GraphIsOfThePage, AnswersHave, NotRun, Answer

\* What a stamp, or the lack of one, is written with keeps the request's shape.
LEMMA StampTyped ==
  ASSUME NEW x \in Drafts
  PROVE  /\ \A room \in {"trio", "index"} :
              [x EXCEPT !.room = room, !.at = "revision"] \in Drafts
         /\ [x EXCEPT !.room = "trio", !.at = "done", !.notes = {"refusal"}] \in Drafts
         /\ \A r \in Revs :
              [x EXCEPT !.at = "status", !.revision = r] \in Drafts
         /\ [x EXCEPT !.at = "place"] \in Drafts
         /\ \A dirty \in {NULL, TRUE, FALSE} :
              [x EXCEPT !.at = "place", !.dirty = dirty] \in Drafts
         /\ [x EXCEPT !.at = "place", !.revision = NULL] \in Drafts
         /\ [x EXCEPT !.at = "spec.md"] \in Drafts
         /\ [x EXCEPT !.at = "done", !.notes = {"transport"}] \in Drafts
<1>1. ASSUME NEW room \in {"trio", "index"} PROVE [x EXCEPT !.room = room, !.at = "revision"] \in Drafts
  BY DEF Drafts
<1>2. [x EXCEPT !.room = "trio", !.at = "done", !.notes = {"refusal"}] \in Drafts
  BY DEF Drafts, Trio
<1>3. ASSUME NEW r \in Revs PROVE [x EXCEPT !.at = "status", !.revision = r] \in Drafts
  BY DEF Drafts
<1>4. [x EXCEPT !.at = "place"] \in Drafts
  BY DEF Drafts, Trio
<1>5. ASSUME NEW dirty \in {NULL, TRUE, FALSE} PROVE [x EXCEPT !.at = "place", !.dirty = dirty] \in Drafts
  BY DEF Drafts
<1>6. [x EXCEPT !.at = "place", !.revision = NULL] \in Drafts
  BY DEF Drafts, Trio
<1>7. [x EXCEPT !.at = "spec.md"] \in Drafts
  BY DEF Drafts, Trio
<1>8. [x EXCEPT !.at = "done", !.notes = {"transport"}] \in Drafts
  BY DEF Drafts, Trio
<1> QED BY <1>1, <1>2, <1>3, <1>4, <1>5, <1>6, <1>7, <1>8

LEMMA OpenKeeps == ASSUME DInv, OpenDraft PROVE DInv'
<1>0. root \in {"directory", "file", "nothing"}
  BY DEF DInv, CheckoutTypeOK
<1>1. CheckoutTypeOK'
  BY Reading DEF DInv, OpenDraft, checkout
<1>2. dr.at = "idle" /\ dr.dirty = NULL /\ dr \in Drafts
  BY DEF OpenDraft, DInv, Unstamped, DraftTypeOK
<1>3. \/ \E room \in {"trio", "index"} : dr' = [dr EXCEPT !.room = room, !.at = "revision"]
      \/ dr' = [dr EXCEPT !.room = "trio", !.at = "done", !.notes = {"refusal"}]
  BY DEF OpenDraft
<1>4. dr' \in Drafts
  BY <1>2, <1>3, StampTyped
<1>5. /\ dr'.graph = dr.graph /\ dr'.derivation = dr.derivation /\ dr'.assembly = dr.assembly
      /\ dr'.coverage = dr.coverage /\ dr'.dirty = NULL
      /\ dr'.at = "revision" \/ (dr'.at = "done" /\ dr'.room = "trio")
  <2>1. CASE \E room \in {"trio", "index"} : dr' = [dr EXCEPT !.room = room, !.at = "revision"]
    BY <1>2, <2>1 DEF Drafts
  <2>2. CASE dr' = [dr EXCEPT !.room = "trio", !.at = "done", !.notes = {"refusal"}]
    BY <1>2, <2>2 DEF Drafts
  <2> QED BY <1>3, <2>1, <2>2
<1>6. seen' = [roots |-> {root}, moved |-> FALSE] /\ root' = root
  BY DEF OpenDraft, checkout
<1>7. seen' \in [roots : SUBSET {"directory", "file", "nothing"}, moved : BOOLEAN]
  BY <1>0, <1>6
<1>8. Unanswered' /\ GraphIsOfThePage' /\ AnswersHave'
  BY <1>2, <1>4, <1>5, NoAnswerYet DEF Before
<1>9. WalkSaw' /\ Unstamped' /\ CleanSoFar'
  BY <1>5, <1>6, NullIsNothing DEF WalkSaw, Unstamped, CleanSoFar
<1> QED BY <1>1, <1>4, <1>7, <1>8, <1>9 DEF DInv, DraftTypeOK

LEMMA RevisionKeeps ==
  ASSUME DInv, NEW room \in {"trio", "index"}, Revision(room)
  PROVE  DInv'
<1>1. CheckoutTypeOK'
  BY Reading DEF DInv, Revision, Drafting, checkout
<1>2. dr.at = "revision" /\ dr.dirty = NULL /\ dr \in Drafts /\ head \in Revs
  BY LandedTyped DEF Revision, Drafting, DInv, Unstamped, DraftTypeOK
<1>3. \/ dr' = [dr EXCEPT !.at = "status", !.revision = head]
      \/ dr' = [dr EXCEPT !.at = "place"]
  BY DEF Revision
<1>4. dr' \in Drafts
  <2>1. [dr EXCEPT !.at = "status", !.revision = head] \in Drafts /\ [dr EXCEPT !.at = "place"] \in Drafts
    BY <1>2, StampTyped
  <2> QED BY <1>3, <2>1
<1>5. /\ dr'.graph = dr.graph /\ dr'.derivation = dr.derivation /\ dr'.assembly = dr.assembly
      /\ dr'.coverage = dr.coverage /\ dr'.dirty = NULL /\ dr'.room = dr.room
      /\ dr'.at = "place" \/ (dr'.at = "status" /\ dr'.revision = head)
  <2>1. CASE dr' = [dr EXCEPT !.at = "status", !.revision = head]
    BY <1>2, <2>1 DEF Drafts
  <2>2. CASE dr' = [dr EXCEPT !.at = "place"]
    BY <1>2, <2>2 DEF Drafts
  <2> QED BY <1>3, <2>1, <2>2
<1>6. seen' = seen /\ root' = root /\ head' = head
  BY DEF Revision, Drafting, checkout
<1>7. Unanswered' /\ GraphIsOfThePage' /\ AnswersHave'
  BY <1>2, <1>4, <1>5, NoAnswerYet DEF Before
<1>8. WalkSaw' /\ Unstamped' /\ CleanSoFar'
  BY <1>2, <1>5, <1>6, NullIsNothing DEF DInv, WalkSaw, Unstamped, CleanSoFar
<1> QED BY <1>1, <1>4, <1>6, <1>7, <1>8 DEF DInv, DraftTypeOK

LEMMA StatusKeeps ==
  ASSUME DInv, NEW room \in {"trio", "index"}, Status(room)
  PROVE  DInv'
<1>1. CheckoutTypeOK'
  BY Reading DEF DInv, Status, Drafting, checkout
<1>2. dr.at = "status" /\ dr.dirty = NULL /\ dr \in Drafts
  BY DEF Status, Drafting, DInv, Unstamped, DraftTypeOK
<1>3. Dirty \in {NULL, TRUE, FALSE}
  BY DEF Dirty
<1>4. \/ root = "directory" /\ dr' = [dr EXCEPT !.at = "place", !.dirty = Dirty]
      \/ dr' = [dr EXCEPT !.at = "place", !.revision = NULL]
  BY DEF Status
<1>5. dr' \in Drafts
  BY <1>2, <1>3, <1>4, StampTyped
<1>6. /\ dr'.graph = dr.graph /\ dr'.derivation = dr.derivation /\ dr'.assembly = dr.assembly
      /\ dr'.coverage = dr.coverage /\ dr'.room = dr.room /\ dr'.at = "place"
      /\ dr'.dirty = NULL \/ (root = "directory" /\ dr'.dirty = Dirty /\ dr'.revision = dr.revision)
  <2>1. CASE root = "directory" /\ dr' = [dr EXCEPT !.at = "place", !.dirty = Dirty]
    BY <1>2, <1>3, <2>1 DEF Drafts
  <2>2. CASE dr' = [dr EXCEPT !.at = "place", !.revision = NULL]
    BY <1>2, <1>3, <2>2 DEF Drafts
  <2> QED BY <1>4, <2>1, <2>2
<1>7. seen' = seen /\ root' = root /\ head' = head /\ disk' = disk
  BY DEF Status, Drafting, checkout
<1>8. Unanswered' /\ GraphIsOfThePage' /\ AnswersHave' /\ dr'.assembly.of = NULL
  BY <1>2, <1>5, <1>6, NoAnswerYet DEF Before
<1>9. WalkSaw' /\ Unstamped'
  BY <1>2, <1>6, <1>7 DEF DInv, WalkSaw, Unstamped
<1>10. CleanSoFar'
  <2>1. SUFFICES ASSUME dr.room = "trio", ~seen.moved, dr'.dirty = FALSE
                 PROVE  dr'.revision = head /\ disk = Tree(head) /\ root = "directory"
    BY <1>6, <1>7, <1>8 DEF CleanSoFar, Answering
  <2>2. dr'.dirty = Dirty /\ dr'.revision = dr.revision /\ root = "directory"
    BY <1>6, <2>1, NullIsNothing
  <2>3. dr.revision = head
    BY <1>2, <2>1 DEF DInv, CleanSoFar
  <2> QED BY <2>1, <2>2, <2>3 DEF Dirty
<1> QED BY <1>1, <1>5, <1>7, <1>8, <1>9, <1>10 DEF DInv, DraftTypeOK

LEMMA PlaceKeeps == ASSUME DInv, Place PROVE DInv'
<1>1. CheckoutTypeOK'
  BY Reading DEF DInv, Place, Drafting, checkout
<1>2. dr.at = "place" /\ dr.room = "trio" /\ dr \in Drafts
  BY DEF Place, Drafting, DInv, DraftTypeOK
<1>3. \/ root = "directory" /\ dr' = [dr EXCEPT !.at = "spec.md"]
      \/ root # "directory" /\ dr' = [dr EXCEPT !.at = "done", !.notes = {"transport"}]
  BY DEF Place
<1>4. dr' \in Drafts
  BY <1>2, <1>3, StampTyped
<1>5. /\ dr'.graph = dr.graph /\ dr'.derivation = dr.derivation /\ dr'.assembly = dr.assembly
      /\ dr'.coverage = dr.coverage /\ dr'.room = "trio"
      /\ dr'.dirty = dr.dirty /\ dr'.revision = dr.revision
      /\ dr'.at = "spec.md" \/ (dr'.at = "done" /\ root # "directory")
  <2>1. CASE dr' = [dr EXCEPT !.at = "spec.md"]
    BY <1>2, <2>1 DEF Drafts
  <2>2. CASE root # "directory" /\ dr' = [dr EXCEPT !.at = "done", !.notes = {"transport"}]
    BY <1>2, <2>2 DEF Drafts
  <2> QED BY <1>3, <2>1, <2>2
<1>6. seen' = seen /\ root' = root /\ head' = head /\ disk' = disk
  BY DEF Place, Drafting, checkout
<1>7. Unanswered' /\ GraphIsOfThePage' /\ AnswersHave' /\ dr'.assembly.of = NULL
  BY <1>2, <1>4, <1>5, NoAnswerYet DEF Before
<1>8. WalkSaw' /\ Unstamped'
  BY <1>2, <1>5, <1>6 DEF DInv, WalkSaw, Unstamped
<1>9. CleanSoFar'
  BY <1>2, <1>5, <1>6, <1>7 DEF DInv, CleanSoFar, Answering
<1> QED BY <1>1, <1>4, <1>6, <1>7, <1>8, <1>9 DEF DInv, DraftTypeOK

LEMMA ReadKeeps == ASSUME DInv, NEW d \in Trio, ReadDocument(d) PROVE DInv'
<1>1. CheckoutTypeOK'
  BY Reading DEF DInv, ReadDocument, Drafting, checkout
<1>2. dr.at = d /\ dr.room = "trio" /\ dr \in Drafts /\ dr.texts \in Texts
  BY DEF ReadDocument, Drafting, DInv, DraftTypeOK, Drafts
<1>3. PICK notes \in SUBSET ({"transport", "refusal", "specs_root", "read_roadmap"} \cup Trio) :
        dr' = [dr EXCEPT !.at = Following[d], !.texts[d] = TextOf(d), !.notes = notes]
  <2>1. dr.notes \in SUBSET ({"transport", "refusal", "specs_root", "read_roadmap"} \cup Trio)
    BY <1>2 DEF Drafts
  <2> QED BY <2>1 DEF ReadDocument
<1>4. [dr.texts EXCEPT ![d] = TextOf(d)] \in Texts
  BY <1>2, TextsTyped DEF DInv, Texts
<1>5. \/ d = "spec.md" /\ Following[d] = "plan.md"
      \/ d = "plan.md" /\ Following[d] = "tasks.md"
      \/ d = "tasks.md" /\ Following[d] = "derive"
  BY DEF Following, Trio
<1>6. dr' \in Drafts
  BY <1>2, <1>3, <1>4, <1>5 DEF Drafts, Trio
<1>7. /\ dr'.graph = dr.graph /\ dr'.derivation = dr.derivation /\ dr'.assembly = dr.assembly
      /\ dr'.coverage = dr.coverage /\ dr'.room = "trio" /\ dr'.at = Following[d]
      /\ dr'.dirty = dr.dirty /\ dr'.revision = dr.revision
      /\ dr'.texts = [dr.texts EXCEPT ![d] = TextOf(d)]
  BY <1>2, <1>3 DEF Drafts
<1>8. seen' = seen /\ root' = root /\ head' = head /\ disk' = disk
  BY DEF ReadDocument, Drafting, checkout
<1>9. Unanswered' /\ GraphIsOfThePage' /\ AnswersHave' /\ dr'.assembly.of = NULL
  BY <1>2, <1>6, <1>7, NoAnswerYet DEF Before
<1>10. WalkSaw' /\ Unstamped'
  BY <1>2, <1>5, <1>7, <1>8 DEF DInv, WalkSaw, Unstamped, Trio
<1>11. CleanSoFar'
  <2>1. CASE dr.dirty = FALSE /\ ~seen.moved
    <3>1. dr.revision = head /\ disk = Tree(head) /\ root = "directory"
      BY <1>2, <2>1 DEF DInv, CleanSoFar
    <3>2. TextOf(d) = head
      BY <3>1, CleanText DEF DInv
    <3>3. dr'.texts[d] = head /\ \A e \in Trio \ {d} : dr'.texts[e] = dr.texts[e]
      BY <1>2, <1>7, <3>2 DEF Texts
    <3>4. /\ d # "spec.md" => dr.texts["spec.md"] = head
          /\ d = "tasks.md" => dr.texts["plan.md"] = head
      BY <1>2, <2>1 DEF DInv, CleanSoFar, Trio
    <3>5. /\ dr'.at \in {"plan.md", "tasks.md"} \cup Answering => dr'.texts["spec.md"] = head
          /\ dr'.at \in {"tasks.md"} \cup Answering => dr'.texts["plan.md"] = head
          /\ dr'.at \in Answering => dr'.texts["tasks.md"] = head
      BY <1>5, <1>7, <3>3, <3>4 DEF Answering, Trio
    <3> QED BY <1>5, <1>7, <1>8, <1>9, <3>1, <3>5 DEF CleanSoFar
  <2>2. CASE dr.dirty # FALSE \/ seen.moved
    BY <1>5, <1>7, <1>8, <2>2 DEF CleanSoFar
  <2> QED BY <2>1, <2>2
<1> QED BY <1>1, <1>6, <1>8, <1>9, <1>10, <1>11 DEF DInv, DraftTypeOK

\* A check answers of a page that is read: what it leaves of the page stays as it was.
LEMMA CheckKeeps ==
  ASSUME DInv, UNCHANGED <<checkout, moves, seen>>, UNCHANGED failures \/ Fail,
         dr.room = "trio", dr'.room = "trio", dr.at \in Answering, dr'.at \in Answering,
         dr'.texts = dr.texts, dr'.dirty = dr.dirty, dr'.revision = dr.revision
  PROVE  /\ CheckoutTypeOK' /\ WalkSaw' /\ Unstamped'
         /\ (dr'.assembly = dr.assembly => CleanSoFar')
<1>1. CheckoutTypeOK'
  BY Reading DEF DInv
<1>2. seen' = seen /\ root' = root /\ head' = head /\ disk' = disk
  BY DEF checkout
<1>3. WalkSaw' /\ Unstamped'
  BY <1>2 DEF DInv, WalkSaw, Unstamped, Answering
<1>4. dr'.assembly = dr.assembly => CleanSoFar'
  BY <1>2 DEF DInv, CleanSoFar, Answering
<1> QED BY <1>1, <1>3, <1>4

LEMMA DeriveKeeps == ASSUME DInv, Derive PROVE DInv'
<1>1. dr.at = "derive" /\ dr.room = "trio" /\ dr \in Drafts
  BY DEF Derive, Drafting, DInv, DraftTypeOK
<1>2. dr.texts \in Texts /\ dr.derivation = NotRun /\ dr.graph = NULL
      /\ dr.assembly = NotRun /\ dr.coverage = NotRun
  BY <1>1 DEF DInv, Unanswered, Before, Drafts
<1>3. PICK derivation \in [state : States, of : {NULL}], graph \in {NULL} \cup (Contents \X Contents) :
        /\ dr' = [dr EXCEPT !.at = "assembly", !.derivation = derivation, !.graph = graph]
        /\ derivation.state = "refused" => dr.texts["spec.md"] # NULL /\ graph = NULL
        /\ graph # NULL => graph = <<dr.texts["spec.md"], dr.texts["tasks.md"]>>
  <2>1. <<dr.texts["spec.md"], dr.texts["tasks.md"]>> \in Contents \X Contents
    BY <1>2 DEF Texts, Trio
  <2>2. CASE dr' = [dr EXCEPT !.at = "assembly"]
    <3>1. dr' = [dr EXCEPT !.at = "assembly", !.derivation = NotRun, !.graph = NULL]
      BY <1>1, <1>2, <2>2 DEF Drafts
    <3>2. NotRun \in [state : States, of : {NULL}] /\ NotRun.state # "refused"
      BY DEF NotRun, Answer, States
    <3> QED BY <3>1, <3>2
  <2>3. CASE /\ dr.texts["spec.md"] # NULL
             /\ dr' = [dr EXCEPT !.at = "assembly", !.derivation = Answer("refused", NULL)]
    <3>1. dr' = [dr EXCEPT !.at = "assembly", !.derivation = Answer("refused", NULL),
                           !.graph = NULL]
      BY <1>1, <1>2, <2>3 DEF Drafts
    <3>2. Answer("refused", NULL) \in [state : States, of : {NULL}]
      BY DEF Answer, States
    <3> QED BY <2>3, <3>1, <3>2
  <2>4. CASE dr' = [dr EXCEPT !.at = "assembly", !.derivation = Answer("passed", NULL),
                              !.graph = <<dr.texts["spec.md"], dr.texts["tasks.md"]>>]
    <3>1. Answer("passed", NULL) \in [state : States, of : {NULL}]
      BY DEF Answer, States
    <3> QED BY <2>1, <2>4, <3>1 DEF Answer
  <2> QED BY <2>2, <2>3, <2>4 DEF Derive
<1>4. dr' \in Drafts
  BY <1>1, <1>3 DEF Drafts
<1>5. /\ dr'.at = "assembly" /\ dr'.room = "trio" /\ dr'.texts = dr.texts
      /\ dr'.dirty = dr.dirty /\ dr'.revision = dr.revision
      /\ dr'.derivation = derivation /\ dr'.graph = graph
      /\ dr'.assembly = dr.assembly /\ dr'.coverage = dr.coverage
  BY <1>1, <1>3 DEF Drafts
<1>6. Unanswered' /\ GraphIsOfThePage' /\ AnswersHave'
  BY <1>2, <1>3, <1>5 DEF Unanswered, GraphIsOfThePage, AnswersHave, NotRun, Answer, Before, Trio
<1>7. UNCHANGED <<checkout, moves, seen>> /\ (UNCHANGED failures \/ Fail)
  BY DEF Derive, Drafting
<1>8. CheckoutTypeOK' /\ WalkSaw' /\ Unstamped' /\ CleanSoFar'
  BY <1>1, <1>5, <1>7, CheckKeeps DEF Answering
<1> QED BY <1>4, <1>6, <1>7, <1>8 DEF DInv, DraftTypeOK

LEMMA AssemblyKeeps == ASSUME DInv, Assembly PROVE DInv'
<1> DEFINE onDisk == [d \in Trio |-> IF d = "spec.md" THEN dr.texts[d] ELSE TextOf(d)]
<1>1. dr.at = "assembly" /\ dr.room = "trio" /\ dr \in Drafts
  BY DEF Assembly, Drafting, DInv, DraftTypeOK
<1>2. dr.texts \in Texts /\ dr.assembly = NotRun /\ dr.coverage = NotRun
  BY <1>1 DEF DInv, Unanswered, Before, Drafts, Trio
<1>3. onDisk \in Texts /\ onDisk["spec.md"] = dr.texts["spec.md"]
  BY <1>2, TextsTyped DEF DInv, Texts, Trio
<1>4. PICK state \in States :
        /\ dr' = [dr EXCEPT !.at = "coverage",
                            !.assembly = IF state = "not_run" THEN NotRun
                                         ELSE Answer(state, onDisk)]
        /\ state # "not_run" => Runs(dr.texts)
  <2>1. CASE dr' = [dr EXCEPT !.at = "coverage"]
    <3>1. dr' = [dr EXCEPT !.at = "coverage", !.assembly = NotRun]
      BY <1>1, <1>2, <2>1 DEF Drafts
    <3> QED BY <3>1 DEF States
  <2>2. CASE /\ Runs(dr.texts)
             /\ \E state \in {"passed", "refused"} :
                  dr' = [dr EXCEPT !.at = "coverage", !.assembly = Answer(state, onDisk)]
    BY <2>2 DEF States
  <2> QED BY <2>1, <2>2 DEF Assembly
<1> DEFINE answer == IF state = "not_run" THEN NotRun ELSE Answer(state, onDisk)
<1>5. answer \in [state : States, of : {NULL} \cup Texts]
  BY <1>3 DEF NotRun, Answer
<1>6. /\ answer.state # "not_run" => Runs(dr.texts)
      /\ answer.of # NULL => answer.of = onDisk /\ Runs(dr.texts)
  BY <1>4 DEF NotRun, Answer
<1>7. dr' = [dr EXCEPT !.at = "coverage", !.assembly = answer]
  BY <1>4
<1> HIDE DEF answer
<1>8. dr' \in Drafts
  BY <1>1, <1>5, <1>7 DEF Drafts
<1>9. /\ dr'.at = "coverage" /\ dr'.room = "trio" /\ dr'.texts = dr.texts
      /\ dr'.dirty = dr.dirty /\ dr'.revision = dr.revision
      /\ dr'.derivation = dr.derivation /\ dr'.graph = dr.graph
      /\ dr'.assembly = answer /\ dr'.coverage = dr.coverage
  BY <1>1, <1>7 DEF Drafts
<1>10. GraphIsOfThePage'
  <2>1. answer.of # NULL => answer.of["spec.md"] = dr.graph[1]
    BY <1>3, <1>6 DEF DInv, GraphIsOfThePage, Runs
  <2> QED BY <1>9, <2>1 DEF DInv, GraphIsOfThePage
<1>11. Unanswered' /\ AnswersHave'
  BY <1>2, <1>6, <1>9 DEF DInv, Unanswered, AnswersHave, NotRun, Answer, Before, Trio, Runs
<1>12. UNCHANGED <<checkout, moves, seen>> /\ (UNCHANGED failures \/ Fail)
  BY DEF Assembly, Drafting
<1>13. CheckoutTypeOK' /\ WalkSaw' /\ Unstamped'
  BY <1>1, <1>9, <1>12, CheckKeeps DEF Answering
<1>14. CleanSoFar'
  <2>1. SUFFICES ASSUME ~seen.moved, dr.dirty = FALSE, answer.of # NULL
                 PROVE  answer.of = dr.texts
    BY <1>1, <1>9, <1>12 DEF DInv, CleanSoFar, checkout, Answering
  <2>2. disk = Tree(head) /\ root = "directory" /\ \A d \in Trio : dr.texts[d] = head
    BY <1>1, <2>1 DEF DInv, CleanSoFar, Answering, Trio
  <2>3. \A d \in Trio : TextOf(d) = head
    BY <2>2, CleanText DEF DInv
  <2>4. \A d \in Trio : onDisk[d] = dr.texts[d]
    BY <2>2, <2>3
  <2>5. onDisk = dr.texts
    BY <1>2, <1>3, <2>4 DEF Texts
  <2> QED BY <1>6, <2>1, <2>5
<1> QED BY <1>8, <1>10, <1>11, <1>12, <1>13, <1>14 DEF DInv, DraftTypeOK

LEMMA CoverageKeeps == ASSUME DInv, Coverage PROVE DInv'
<1>1. dr.at = "coverage" /\ dr.room = "trio" /\ dr \in Drafts
  BY DEF Coverage, Drafting, DInv, DraftTypeOK
<1>2. dr.texts \in Texts /\ dr.coverage = NotRun
  BY <1>1 DEF DInv, Unanswered, Before, Drafts, Trio
<1>3. PICK answer \in [state : States, of : Contents] :
        /\ dr' = [dr EXCEPT !.at = "done", !.coverage = answer]
        /\ answer.state # "not_run" => dr.texts["tasks.md"] # NULL
        /\ answer.of # NULL => dr.graph # NULL /\ answer.of = dr.texts["tasks.md"]
  <2>1. NotRun \in [state : States, of : Contents] /\ dr.texts["tasks.md"] \in Contents
    BY <1>2 DEF NotRun, Answer, States, Contents, Texts, Trio
  <2>2. CASE dr' = [dr EXCEPT !.at = "done"]
    <3>1. dr' = [dr EXCEPT !.at = "done", !.coverage = NotRun]
      BY <1>1, <1>2, <2>2 DEF Drafts
    <3> QED BY <2>1, <3>1 DEF NotRun, Answer
  <2>3. ASSUME NEW state \in {"passed", "refused"}, dr.graph # NULL, dr.texts["tasks.md"] # NULL,
               dr' = [dr EXCEPT !.at = "done",
                                !.coverage = Answer(state, dr.texts["tasks.md"])]
        PROVE  \E answer \in [state : States, of : Contents] :
                 /\ dr' = [dr EXCEPT !.at = "done", !.coverage = answer]
                 /\ answer.state # "not_run" => dr.texts["tasks.md"] # NULL
                 /\ answer.of # NULL => dr.graph # NULL /\ answer.of = dr.texts["tasks.md"]
    <3>1. Answer(state, dr.texts["tasks.md"]) \in [state : States, of : Contents]
      BY <2>1 DEF Answer, States
    <3> QED BY <2>3, <3>1 DEF Answer
  <2> QED BY <2>2, <2>3 DEF Coverage
<1>4. dr' \in Drafts
  BY <1>1, <1>3 DEF Drafts
<1>5. /\ dr'.at = "done" /\ dr'.room = "trio" /\ dr'.texts = dr.texts
      /\ dr'.dirty = dr.dirty /\ dr'.revision = dr.revision
      /\ dr'.derivation = dr.derivation /\ dr'.graph = dr.graph
      /\ dr'.assembly = dr.assembly /\ dr'.coverage = answer
  BY <1>1, <1>3 DEF Drafts
<1>6. GraphIsOfThePage'
  BY <1>3, <1>5 DEF DInv, GraphIsOfThePage
<1>7. Unanswered' /\ AnswersHave'
  BY <1>3, <1>5 DEF DInv, Unanswered, AnswersHave, Before, Trio
<1>8. UNCHANGED <<checkout, moves, seen>> /\ (UNCHANGED failures \/ Fail)
  BY DEF Coverage, Drafting
<1>9. CheckoutTypeOK' /\ WalkSaw' /\ Unstamped' /\ CleanSoFar'
  BY <1>1, <1>5, <1>8, CheckKeeps DEF Answering
<1> QED BY <1>4, <1>6, <1>7, <1>8, <1>9 DEF DInv, DraftTypeOK

LEMMA IndexKeeps == ASSUME DInv, Exists \/ IsDir \/ Walk PROVE DInv'
<1>1. /\ dr.room = "index" /\ dr.at \in {"place", "kind", "walk"} /\ dr \in Drafts
      /\ UNCHANGED <<checkout, moves, seen>> /\ (UNCHANGED failures \/ Fail)
  BY DEF Exists, IsDir, Walk, Drafting, DInv, DraftTypeOK
<1>2. CheckoutTypeOK'
  BY <1>1, Reading DEF DInv
<1>3. PICK note \in {"specs_root", "read_roadmap"}, specs \in SUBSET Contents :
        \/ dr' = [dr EXCEPT !.at = "done", !.notes = {note}]
        \/ dr.at = "place" /\ dr' = [dr EXCEPT !.at = "kind"]
        \/ dr.at = "kind" /\ root = "directory" /\ dr' = [dr EXCEPT !.at = "walk"]
        \/ dr.at = "walk" /\ dr' = [dr EXCEPT !.at = "done", !.specs = specs]
  <2>1. CASE Exists
    BY <2>1 DEF Exists, Drafting, Degraded
  <2>2. CASE IsDir
    BY <2>2 DEF IsDir, Drafting, Degraded
  <2>3. CASE Walk
    <3>1. disk["spec.md"] \in Contents /\ dr.specs \in SUBSET Contents
      BY <1>1 DEF DInv, CheckoutTypeOK, Drafts, Trio
    <3>2. CASE dr' = [dr EXCEPT !.at = "done"]
      <4>1. dr' = [dr EXCEPT !.at = "done", !.specs = dr.specs]
        BY <1>1, <3>2 DEF Drafts
      <4> QED BY <2>3, <3>1, <4>1 DEF Walk, Drafting
    <3>3. CASE dr' = [dr EXCEPT !.at = "done", !.specs = {disk["spec.md"]} \ {NULL}]
      BY <2>3, <3>1, <3>3 DEF Walk, Drafting
    <3>4. CASE \E note \in {"specs_root", "read_roadmap"} : Degraded(note)
      BY <3>4 DEF Degraded
    <3> QED BY <2>3, <3>2, <3>3, <3>4 DEF Walk
  <2> QED BY <2>1, <2>2, <2>3
<1>4. dr' \in Drafts
  <2>1. CASE dr' = [dr EXCEPT !.at = "done", !.notes = {note}]
    BY <1>1, <2>1 DEF Drafts
  <2>2. CASE dr.at = "place" /\ dr' = [dr EXCEPT !.at = "kind"]
    BY <1>1, <2>2 DEF Drafts
  <2>3. CASE dr.at = "kind" /\ root = "directory" /\ dr' = [dr EXCEPT !.at = "walk"]
    BY <1>1, <2>3 DEF Drafts
  <2>4. CASE dr.at = "walk" /\ dr' = [dr EXCEPT !.at = "done", !.specs = specs]
    BY <1>1, <2>4 DEF Drafts
  <2> QED BY <1>3, <2>1, <2>2, <2>3, <2>4
<1>5. /\ dr'.graph = dr.graph /\ dr'.derivation = dr.derivation /\ dr'.assembly = dr.assembly
      /\ dr'.coverage = dr.coverage /\ dr'.room = "index"
      /\ dr'.at \in {"done", "kind", "walk"}
      /\ dr'.at = "walk" => root = "directory"
      /\ dr'.at = "done" /\ dr'.notes = {} => dr.at = "walk"
  <2>1. CASE dr' = [dr EXCEPT !.at = "done", !.notes = {note}]
    BY <1>1, <2>1 DEF Drafts
  <2>2. CASE dr.at = "place" /\ dr' = [dr EXCEPT !.at = "kind"]
    BY <1>1, <2>2 DEF Drafts
  <2>3. CASE dr.at = "kind" /\ root = "directory" /\ dr' = [dr EXCEPT !.at = "walk"]
    BY <1>1, <2>3 DEF Drafts
  <2>4. CASE dr.at = "walk" /\ dr' = [dr EXCEPT !.at = "done", !.specs = specs]
    BY <1>1, <2>4 DEF Drafts
  <2> QED BY <1>3, <2>1, <2>2, <2>3, <2>4
<1>6. seen' = seen /\ root' = root
  BY <1>1 DEF checkout
<1>7. Unanswered' /\ GraphIsOfThePage' /\ AnswersHave'
  BY <1>1, <1>4, <1>5, NoAnswerYet DEF Before
<1>8. WalkSaw' /\ Unstamped' /\ CleanSoFar'
  BY <1>1, <1>5, <1>6 DEF DInv, WalkSaw, Unstamped, CleanSoFar
<1> QED BY <1>2, <1>4, <1>6, <1>7, <1>8 DEF DInv, DraftTypeOK

LEMMA DraftStep == ASSUME DInv, DraftNext PROVE DInv' /\ UNCHANGED landed
<1>1. DInv'
  BY OpenKeeps, RevisionKeeps, StatusKeeps, PlaceKeeps, ReadKeeps, DeriveKeeps, AssemblyKeeps,
     CoverageKeeps, IndexKeeps DEF DraftNext
<1>2. UNCHANGED checkout
  BY DEF DraftNext, OpenDraft, Revision, Status, Place, ReadDocument, Derive, Assembly, Coverage,
     Exists, IsDir, Walk, Drafting
<1> QED BY <1>1, <1>2 DEF checkout

\* A page half read has seen the checkout move.
LEMMA MoveKeeps == ASSUME DInv, Move PROVE DInv'
<1>1. CheckoutTypeOK'
  BY MeanwhileTyped DEF DInv, Move
<1>2. root' \in {"directory", "file", "nothing"}
  BY <1>1 DEF CheckoutTypeOK
<1>3. dr' = dr /\ seen' = [roots |-> seen.roots \cup {root'}, moved |-> TRUE]
  BY DEF Move
<1>4. DraftTypeOK'
  BY <1>2, <1>3 DEF DInv, DraftTypeOK
<1>5. Unanswered' /\ GraphIsOfThePage' /\ AnswersHave' /\ Unstamped'
  BY <1>3 DEF DInv, Unanswered, GraphIsOfThePage, AnswersHave, Unstamped
<1>6. WalkSaw' /\ CleanSoFar'
  BY <1>3 DEF DInv, WalkSaw, CleanSoFar
<1> QED BY <1>1, <1>4, <1>5, <1>6 DEF DInv

LEMMA DraftStands ==
  ASSUME DInv, CheckoutTypeOK', UNCHANGED <<draft, checkout>>
  PROVE  DInv'
BY DEF DInv, DraftTypeOK, Unanswered, GraphIsOfThePage, AnswersHave, WalkSaw, Unstamped,
   CleanSoFar, draft, checkout

-----------------------------------------------------------------------------
(* Both *)

LEMMA Inductive == Spec => [](RInv /\ DInv)
<1>1. Init => RInv /\ DInv
  BY ReviewInitHolds, DraftInitHolds DEF Init
<1>2. RInv /\ DInv /\ [Next]_vars => (RInv /\ DInv)'
  <2>1. SUFFICES ASSUME RInv, DInv, [Next]_vars PROVE RInv' /\ DInv'
    OBVIOUS
  <2>2. CASE ReviewNext /\ UNCHANGED draft
    <3>1. RInv'
      BY <2>1, <2>2, ReviewStep
    <3>2. UNCHANGED checkout
      BY <2>2 DEF ReviewNext, OpenReview, StoryIdentity, Manifest, LandingFacts, ServedRevision,
         ContainsEpic, Judge, Files, Reviewing
    <3>3. CheckoutTypeOK'
      BY <3>1 DEF RInv
    <3> QED BY <2>1, <2>2, <3>1, <3>2, <3>3, DraftStands
  <2>3. CASE DraftNext /\ UNCHANGED review
    <3>1. DInv' /\ UNCHANGED landed
      BY <2>1, <2>3, DraftStep
    <3>2. CheckoutTypeOK'
      BY <3>1 DEF DInv
    <3> QED BY <2>1, <2>3, <3>1, <3>2, ReviewStands
  <2>4. CASE Move
    <3>1. DInv' /\ UNCHANGED review
      BY <2>1, <2>4, MoveKeeps DEF Move, review
    <3>2. CheckoutTypeOK' /\ \A s \in Stories : landed[s] # NULL => landed'[s] = landed[s]
      BY <2>1, <2>4, MeanwhileTyped DEF Move, RInv
    <3> QED BY <2>1, <3>1, <3>2, ReviewStands
  <2>5. CASE UNCHANGED vars
    <3>1. UNCHANGED <<checkout, moves, failures, review, draft, landed>>
      BY <2>5 DEF vars, checkout
    <3>2. CheckoutTypeOK'
      BY <2>1, <3>1, Reading DEF RInv
    <3> QED BY <2>1, <3>1, <3>2, ReviewStands, DraftStands
  <2> QED BY <2>1, <2>2, <2>3, <2>4, <2>5 DEF Next
<1> QED BY <1>1, <1>2, PTL DEF Spec

\* The review names only stories it shows, and its page and the drafting table's hold only
\* what their handlers can have put there, however the checkout moves between the reads
\* (render_review, read_draft, read_corpus).
THEOREM RoomsWellFormed == Spec => []TypeOK
<1>1. RInv /\ DInv => TypeOK
  BY DEF RInv, DInv, TypeOK
<1> QED BY <1>1, Inductive, PTL

\* A review that renders says of its revision only what is so, though the branch and the
\* checkout move between the read of each (_contains_epic).
THEOREM HeaderIsTrue == Spec => []ContainsIsTrue
<1>1. RInv => ContainsIsTrue
  <2>1. SUFFICES ASSUME RInv PROVE ContainsIsTrue
    OBVIOUS
  <2>2. /\ rv.revision \in {NULL} \cup Revs /\ rv.facts \in [Stories -> {NULL} \cup Revs]
        /\ rv.keys \subseteq Stories /\ rv.missing \subseteq Stories
    BY <2>1 DEF RInv, ReviewTypeOK, Reviews
  <2>3. \A s \in Stories : rv.facts[s] # NULL => landed[s] = rv.facts[s] /\ landed[s] # NULL
    BY <2>1 DEF RInv, FactsTrue
  <2>4. \A a \in Revs, b \in Revs : ~(a > b) <=> a <= b
    BY BoundsGiven DEF Revs
  <2>5. ASSUME rv.contains = TRUE
        PROVE  rv.read /\ \A s \in rv.keys : Carries(rv.revision, s)
    <3>1. rv.read /\ rv.revision \in Revs
      BY <2>1, <2>2, <2>5 DEF RInv, HeaderTrue
    <3>2. ASSUME NEW s \in rv.keys PROVE Carries(rv.revision, s)
      <4>1. rv.facts[s] # NULL /\ ~(rv.facts[s] > rv.revision) /\ rv.facts[s] \in Revs
        BY <2>1, <2>2, <2>5 DEF RInv, HeaderTrue
      <4> QED BY <2>2, <2>3, <2>4, <3>1, <4>1 DEF Carries
    <3> QED BY <3>1, <3>2
  <2>6. ASSUME rv.contains = FALSE
        PROVE  /\ rv.read /\ rv.missing # {}
               /\ rv.at = "rendered" => \A s \in rv.missing : ~Carries(rv.revision, s)
    <3>1. rv.read /\ rv.revision \in Revs /\ rv.missing # {}
      BY <2>1, <2>2, <2>6 DEF RInv, HeaderTrue
    <3>2. ASSUME rv.at = "rendered", NEW s \in rv.missing PROVE ~Carries(rv.revision, s)
      <4>1. s \in rv.keys /\ s \in Stories
        BY <2>1, <2>2 DEF RInv, ReviewTypeOK
      <4>2. rv.facts[s] # NULL
        BY <2>1, <3>1, <3>2, <4>1 DEF RInv, Judged
      <4>3. rv.facts[s] > rv.revision /\ rv.facts[s] \in Revs
        BY <2>1, <2>2, <2>6, <4>1, <4>2 DEF RInv, HeaderTrue
      <4> QED BY <2>3, <2>4, <3>1, <4>1, <4>2, <4>3 DEF Carries
    <3> QED BY <3>1, <3>2
  <2>7. rv.contains # FALSE => rv.missing = {}
    BY <2>1 DEF RInv, HeaderTrue
  <2> QED BY <2>5, <2>6, <2>7 DEF ContainsIsTrue
<1> QED BY <1>1, Inductive, PTL

\* A refused epic names no story the branch carried when the request came (EpicNotLanded).
THEOREM RefusalsAreEarned == Spec => []RefusalIsTrue
<1>1. RInv => RefusalIsTrue
  BY DEF RInv, ReviewTypeOK, Reviews, FactsTrue, Judged, RefusalIsTrue
<1> QED BY <1>1, Inductive, PTL

\* What is rendered of a branch that was read has landed whole (render_review).
THEOREM NoHalfEpic == Spec => []HalfIsNeverRendered
<1>1. RInv => HalfIsNeverRendered
  BY DEF RInv, ReviewTypeOK, Reviews, FactsTrue, Judged, HalfIsNeverRendered
<1> QED BY <1>1, Inductive, PTL

\* The graph and what the slices are checked against are of the documents on the page, and
\* the prompt is assembled of the page's spec.md, for every content there is (read_draft's
\* one set of bytes).  The prompt's plan and tasks are read again, and not claimed.
THEOREM OnePage == Spec => []GraphIsOfThePage
<1>1. DInv => GraphIsOfThePage
  BY DEF DInv
<1> QED BY <1>1, Inductive, PTL

\* No check refuses a page for want of a document (run_checks).
THEOREM AbsenceIsNoDefect == Spec => []NeverRefusedForAbsence
<1>1. DInv => NeverRefusedForAbsence
  BY DEF DInv, AnswersHave, NeverRefusedForAbsence
<1> QED BY <1>1, Inductive, PTL

\* A clean stamp read while the checkout stood still is the page's own, though HEAD, the
\* status and the documents are four reads (read_revision).
THEOREM StampsAreTrue == Spec => []CleanStampIsTrue
<1>1. DInv => CleanStampIsTrue
  <2>1. SUFFICES ASSUME DInv, dr.at = "done", dr.room = "trio", dr.dirty = FALSE, ~seen.moved
                 PROVE  /\ dr.texts = Tree(dr.revision)
                        /\ dr.assembly.of # NULL => dr.assembly.of = dr.texts
    BY DEF CleanStampIsTrue
  <2>2. /\ dr.revision = head /\ \A d \in Trio : dr.texts[d] = head
        /\ dr.assembly.of # NULL => dr.assembly.of = dr.texts
    BY <2>1 DEF DInv, CleanSoFar, Answering, Trio
  <2>3. dr.texts \in Texts
    BY <2>1 DEF DInv, DraftTypeOK, Drafts
  <2>4. dr.texts = [d \in Trio |-> dr.texts[d]]
    BY <2>3 DEF Texts
  <2> QED BY <2>2, <2>4 DEF Tree
<1> QED BY <1>1, Inductive, PTL

\* An empty index is of a corpus that was there (draft_index.read_corpus).
THEOREM EmptyIsRead == Spec => []EmptyIsNotUnread
<1>1. DInv => EmptyIsNotUnread
  BY DEF DInv, WalkSaw, EmptyIsNotUnread
<1> QED BY <1>1, Inductive, PTL
================================================================================
