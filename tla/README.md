# TLA+ for ergane-web

ergane-web is a pane on the Ergane factory: a FastAPI process (`src/pane/`) that reads the
factory, takes its deliveries, and lets an operator answer them, and a React frontend
(`src/web/src/`) that draws what the pane serves. The pane has exactly one verb, the Answer;
everything else it does is a read. What is hard about it follows from that: one write that
must never go out twice, and many reads, taken at different moments and failing separately,
that must not add up to something false.

This directory holds the specifications of that code, the TLC runs over them and the proofs.

- [The system](#the-system): components, state, operations, how they interact, what is hard
- [The modules](#the-modules): what each models and how it corresponds to the code
- [The runs](#the-runs): what each shows, its bounds and its fairness
- [What is proved](#what-is-proved)
- [Where the code and its documents part](#where-the-code-and-its-documents-part)
- [What is left out, and why](#what-is-left-out-and-why)
- [The plan](#the-plan)

## The system

The backend is one process and one asyncio event loop. The code between two `await`s runs
undisturbed; every interleaving below is an interleaving at awaits. Three things live as long
as the process: the in-flight registry, the broadcaster with its queues, and the live reader
with its Temporal client. One thing outlives it: the SQLite table of deliveries. The frontend
keeps its state in the page and in `localStorage`.

| Component | Source | State | Operations | Correct when |
|---|---|---|---|---|
| Delivery store | `pane/attention_store.py` | table `attention`, one row per answerable id, one per Notice | `upsert_delivery`, `record_ruling`, `record_press`, `list_items` | a served request is stored once; an answer is never unsaid |
| Intake | `pane/intake.py` | none | `POST /intake`: classify, store, publish | accepted means stored and pushed |
| Answer route | `pane/answer.py` | in-flight registry (process memory) | `POST /api/attention/{id}/answer` | one call per item; no slot leaks; no word of the pane's own |
| Attention assembly | `pane/attention.py` | none; reads store, registry, factory | `settlement_state`, `assemble_attention_section` | the state shown is derived, first branch wins |
| Event stream | `pane/events.py` | one queue per open stream, the rail last sent | subscribe, poll, drain, publish | a client that keeps up ends on the truth |
| Live reader | `pane/readers.py` | one shared Temporal client | eleven reads, two settlement calls | a failed read is a degraded entry, never an absence; one client serves everyone |
| Floor document | `pane/floor_document.py`, `pane/stage.py` | none beyond a request | `assemble_floor_document`, `assemble_stage` | no node lost, no foreign edge drawn, two joins that agree |
| Showfloor | `pane/showfloor.py`, `web/src/showfloor/` | the room's selection | `assemble_showfloor_document`, `_story` (the ladder) | a failed read never reads as a rung reached or not reached |
| Landing facts | `pane/landing.py`, `pane/revision.py` | memo of scanned specs, keyed by revision | `landing_facts` | each document's answer is the branch at one moment of its reading, whoever filled the memo |
| Desk room | `web/src/desk/`, `web/src/api/` | document, first read's fate, per-item guard | GET, stream handlers, submit | controls are live only where an answer is wanted |
| Review room | `pane/review.py`, `web/src/review/` | the request's reads of the checkout; notes in `localStorage` | `assemble_review_document`; take a note, copy | the header says of the served revision only what is so; half an epic is never rendered as landed |
| Drafting table | `pane/draft.py`, `pane/draft_index.py`, `pane/checks.py` | the request's reads of the checkout | a spec's trio under a stamp, its three checks, the index | one page, one set of bytes; a check that cannot run neither passes nor refuses |
| Auth, config, app | `pane/auth.py`, `pane/config.py`, `pane/app.py` | environment read once | token gate, wiring, lifespan | every route behind the one gate |
| Audit gate | `scripts/audit_gate.py` | the two reports under `audit/` | clean, ask pip-audit and npm audit, write, judge | a lookup not made in full is not a pass; no report outlives its run |

How they interact. The factory calls intake; intake writes the store and publishes to the
broadcaster. The operator's browser calls the Answer route, which reads the store, claims a
slot in the registry, calls the factory through the reader, writes the store, releases the
slot and publishes. Each open stream assembles a floor document per poll (through the reader,
the store and the registry) and drains its broadcaster queue in between. The Desk holds one
document, replaced by its first GET and by each `floor` event, and upserts each `attention`
event into it. It also holds one showfloor rail, brought by a GET of its own and then kept by
upserting the `showfloor` events, which carry only the entries a stream found changed.

The review room and the drafting table read another program's working copy: one `git` call or
file at a time, in handlers that never await, while the factory merges, the roadmap resets the
checkout, and the operator edits. The audit gate is a script of its own; it meets the rest of the
system nowhere, and itself in the files an earlier run left.

What is hard:

- **Interleaving.** Two Answers to one item, both past the first check and meeting across the
  await of their bodies (`answer.py:96-122`). Two first reads both opening a client
  (`readers.py:274-279`).
- **Order.** The event of an answer is assembled after the row is written and the slot
  released (`answer.py:148-165`); a queue is subscribed before the first document is
  assembled and drained after it (`events.py:85-123`); a GET answers late, over newer state
  (`Desk.tsx:63-73`).
- **Deltas.** A stream sends a rail entry once (`events.py:105-109`); what the Desk does with it
  before its own document has landed decides what it shows from then on (`Desk.tsx:54-87`).
- **Staleness.** One assembly reads the registry, then awaits, then reads the rows, then awaits
  each join (`attention.py:227-257`). The Desk's guard opens on a response while the truth
  arrives by another connection (`AnswerColumn.tsx:66-76`).
- **A checkout that moves.** A review asks for the stories, the branch, the revision and what the
  revision contains, one after another (`review.py`); a drafting page is stamped before it is read
  (`draft.py`). Nothing holds the tree still between.
- **Two joins of one answer.** A row and a stage are made apart of the same two reads
  (`floor_document.py:374-380`), one of which has two doors.
- **Failure in part.** A settlement call that raises may or may not have been heard; a store
  that cannot be read empties the list; a factory read that fails is not a resolution; a report
  with one package skipped is neither a report nor none.
- **Crash.** The slots are lost, the calls on the wire are not, the rows stay.
- **Re-delivery.** The factory delivers a served request again, possibly changed.

`PROJECT.json` lists each hazard at its line with the properties that would catch it.

## The modules

| Module | Models | Kind |
|---|---|---|
| `Settlement` | what the verb promises | abstract specification |
| `Attention` | store, intake, Answer route, registry, settlement calls, broadcaster | component, refines `Settlement` |
| `AttentionProofs` | theorems about `Attention` | proofs |
| `Desk` | assembly, event stream, the Desk room, over `Attention` | composition |
| `DeskProofs` | theorems about `Desk` | proofs |
| `LandingRead` | what a document's read of the landing branch promises | abstract specification |
| `Showfloor` | the story ladders, the rail chip, the live and landing reads, the landing memo | component, refines `LandingRead` |
| `ShowfloorProofs` | theorems about `Showfloor` | proofs |
| `Rail` | the rail's assembly, the stream's deltas, the Desk's copy | component |
| `RailProofs` | theorems about `Rail` | proofs |
| `FloorDocument` | documents assembled at once: the sections, the workgraph's two doors, the two joins, the shared client | component |
| `FloorDocumentProofs` | theorems about `FloorDocument` | proofs |
| `Checkout` | the working copy the two document rooms read, and how it moves | environment |
| `Review` | the review room's document, over `Checkout` | component |
| `Draft` | the drafting table's two documents, over `Checkout` | component |
| `Rooms` | both rooms over one checkout | composition |
| `RoomsProofs` | theorems about `Rooms` | proofs |
| `AuditGate` | runs of the gate in one worktree | component |
| `AuditGateProofs` | theorems about `AuditGate` | proofs |
| `MCAttention`, `MCDesk`, `MCShowfloor`, `MCRail`, `MCFloorDocument`, `MCRooms`, `MCAuditGate` | instances for TLC | |

### Settlement

Three variables: the items with a call out, the words the factory has said of each item, and
the word the pane holds. A call may leave only while none is out for its item; a word is
recorded only at the end of a call, and only if it was said, or is the one word the pane may
derive (`SIGNAL_FAILED`, for Escalations). It says nothing of handlers, replies, crashes or
deliveries.

### Attention

State. `stored`, `actions`, `last_ruling`, `pressed_choice`, `signal_state` are the columns of
the answerable rows that anything reads; `notices` counts Notice rows; `registry` is
`InFlightRegistry._ids`; `pc`, `item`, `answer`, `outcome` are the locals of each running Answer
handler; `open` and `queue` are the broadcaster's subscribed queues. `said`, `resolved` and
`orphans` are the factory as the pane can tell it apart: what it was told and answered, what its
reads report, and the calls of a dead process still on the wire.

Actions. The Answer handler has three awaits (request body, `settle_question`,
`press_escalation`), so it has these steps: `Arrive` (404 and first 409 check), then `Refuse` or
`Submit` (validation, `claim`, the call issued), then the end of the call (`CallAnswered`,
`ReplyLost`, `CallLost`), then `RecordRuling` or `RecordPress` (write, `finally`
release, event, all without an await), or `Abandon` (a relay or a write that raises: the release
alone). `Deliver` and `DeliverNotice` are intake with the store's
two statements; `Subscribe`, `Take`, `Unsubscribe` are a stream's use of its queue; `Crash` is a
restart. The registry's lock is held over no await and adds no step.

The settlement state is an operator, as in the code: nothing stores it. It is the first branch
that applies of in flight, settled, ruled, pressed and waiting (`attention.py:49-92`).

A kind is fixed by the id. The factory mints an id for a Question or for an Escalation; a
re-delivery under the other kind would be an `INSERT OR IGNORE` that changes nothing.

### Desk

State. `asm[r]` is the assembly running for reader `r` (each Desk has two: its stream's polls
and its one GET), with what it has read so far; `doc[s]` is the attention section Desk `s`
holds; `first[s]` is what became of its GET (`isLoading` and `errorStatus`); `pending[s][i]` is
the guard of one answer column. `trusted[s]` is a history variable: the stream, and not the
GET, last replaced the document.

Actions. An assembly is split at its awaits: the rest of the floor, `Snapshot` (the registry
is read), `ListRows` or `StoreUnread` (open escalations awaited, then the rows), `Join` (the
factory's word on each), then the document is handed over. An Escalation the factory lists and the
store did not return, one delivered included when the store could not be read, is `Undelivered`:
drawn waiting, with no control. `Emit`, `Upsert` and `Land` are the
three ways a document or an item reaches the room. `Drop`, `Reload`, `Restart`, `GetFails` lose
connections. `Press` is the room's own submission, guarded by what the room draws (`Live`),
and starts `Arrive`; `Release` is its response. `Strangers` says whether others answer too:
another tab, another operator.

`UpsertAttention` is the reducer of that name: the item under its id replaced or added. `NULL` is
the room with no document, and `RoomAssumption` tells it from every room that holds one.

The wire between the stream's generator and the browser adds no state: an event sent and not
yet handled is one still queued, and a poll slow to arrive is an assembly slow to end.

### Showfloor

One rail entry of the showfloor document. State. `memo` is `LandingReader`'s head and scanned
facts (one reader per process, `landing.py:157-173`); `asm[a]` holds the locals of an assembly in
progress (`_assemble_spec`, `_BoundReads`, `AssemblyLanding`); `entry[a]` is the entry it handed
over last. `epic`, `node`, `skewed`, `merged`, `branch` and `declared` are the factory and the
checkout as the pane's reads tell them apart: whether the floor lists the spec's epic, each
node's live state, the nodes its answer leaves out, what the merge queue has merged, what the
local branch carries, and the frontmatter. `witnessed` is a history variable: the stories that
one of the two sources could place past `ready` at every moment since the assembly began. `seen` is
another: what the branch has been since the assembly fixed its head, and `landing` keeps in an
entry what it was built of.

Actions. `Begin` reads the corpus; `FloorRead` is the one `collect_floor` of an assembly;
`EpicAnswers` is the live read; `Finish` resumes it, reads the landing branch through the memo
and builds the entry, without an await between (`showfloor.py:884-950`). `OtherSpec` is the same
assembly reading the branch for a spec before this one, which is what fixes its head and may
reset the memo. `LiveFails` and `FinishUnread` are the two reads failing separately.

The ladder is a chain of operators over what was read: `Story` picks the source (`_story`),
`Placed` places a live state (`derive_ladder`), `Undispatched`, `AllDone` and `Unplaceable` are the
three ladders drawn without one. `Ladder` keeps where a ladder stands and how it is worded; the
six stops' own statuses are a function of that. `Stories` are the spec's: dates, subjects and
evidence of a landing change no ladder and are left out. `StoryAttested`, the mutant, is the code
before `landing_facts` was bound: `_story` passes `attested` only where no landing reader is,
and production always binds one (`showfloor.py:700-727`).

### Rail

The whole rail, over `Showfloor`'s one entry: an entry is a word here, and `degraded` one of
them. State. `asm[r]` is an assembly in progress for the stream's poll or for the Desk's GET: the
specs left to read, one await each (`showfloor.py:804-808`), and the rail so far; `previous` is the
generator's local of that name; `wire` holds the events it yielded that the browser has not
handled; `shown` and `first` are the Desk's `showfloor` and the fate of the GET that brings it.
`truth` is what reading a spec would give now, `NULL` off the corpus. `missed` is a history
variable: an event of this connection reached the room before its document did.

Actions. `Begin` lists the corpus (or fails to, an empty rail), `ReadSpec` reads the next spec;
`Emit` compares one entry and sends it if it differs; `Connect` starts a generator with an empty
baseline; `Deliver` upserts or drops; `Land` and `GetFails` are the ends of the GET; `Drop` and
`Reload` lose the connection and what was on it. A read that raises out of the assembly ends the
generator, which is a `Drop`.

### FloorDocument

State. `seam` and `archive` are the two files a workgraph may be in, `live` what each epic's
workflow would answer; `client` is `LiveReader._client`, `opened` the connections nobody has
closed; `req[r]` holds the locals of one assembly in progress: the sections left, the epics left,
the answer in hand, the epics joined, `degraded`, and the error that ended it, if one did.
`told[r][e]` is a history variable: what the reads of `e` found.

Actions. One per section, split at its awaits: `ReadFloor` (with a connection of its own),
`OpenClient`, `Connected`, `ConnectRefused` (the shared client, opened by whoever finds none),
`ReadAttention`, `ReadStores`, then per epic `EpicStatus` and `JoinEpic`, then `Serve`. `Move`
changes one file or one workflow; `Shutdown` closes the client that was kept. Each read may fail in
the ways the code tells apart (`transport`, `refusal`, `unparseable`, `mismatch`), and where the
code does not translate an error the document is lost, as there.

The joins are operators: `ReadWorkgraph`, `GraphMismatch`, `Cards`, `Stage`. A name is a model
value with a casefolded form (`Fold`), because the two spellings of a story are what the mismatch
is about. Ranks, findings, budget and the order of lanes are left out. `IdsAssumption`: the
nodes of one graph have distinct ids, as compiled graphs do.

### Checkout, Review, Draft, Rooms

`Checkout` is the environment: the landing branch's `tip` and which revision `landed` each story,
the `head` the working tree is on, the three documents on `disk`, and what the specs `root` is. A
revision's documents are its number; an edit is content of no commit. `Meanwhile` merges a story,
resets the tree to the tip, edits a document, or replaces the root, between any two reads.

`Review`: `rv` is the request, one step per read in the code's order: `OpenReview`,
`StoryIdentity`, `Manifest`, `LandingFacts`, `ServedRevision`, `ContainsEpic`, then `Judge`
(`EpicNotLanded` or not) and `Files`. `atOpen` remembers what had landed when the request came. What
the graph declares is any of `Graphs`; what a commit changed and which routes a file reaches
are constants.

`Draft`: `dr` is the request of either room: `OpenDraft`, `Revision`, `Status` (the stamp), then
`Place`, `ReadDocument`, `Derive`, `Assembly`, `Coverage` (the trio) or `Exists`, `IsDir`, `Walk` (the index). An
answer carries what it is about (`of`), which is what the properties compare with the page.
What the seams of the factory's own package say of a page they can read is nondeterministic.
`seen` is a history variable: what the root has been, and whether the checkout has moved.

`Rooms` puts both over one checkout. The handlers never await, so one request is part-way at a
time; and since a request keeps nothing for the next (the landing memo is `Showfloor`'s), one is
enough.

### AuditGate

State. `pc`, `policy`, `audits`, `verdict` are a run's; `disk` is `audit/`, each report with the
run that wrote it; `known` is what the advisory services would answer of the two lockfiles now, and
`asked` (history) what they would have when each was asked. Actions follow `main` and `collect`:
`ReadPolicy`, `Clean`, `Export`, `PipAudit` (which writes a file, whole, half or not at all, and
exits with any code) or `PipAuditExpires`, `NpmAudit`, `WriteReports`, `Judge`; `Stop` ends a run at any
step, `Move` changes what is known. npm's rollup (`NpmReport`) is written from how the gate reads
it: a package's severity is the highest of what it depends on. `PolicyAssumption` has the declared
paths under `audit/`, as `pyproject.toml` does, or out of the worktree, which is refused.

## The runs

Passing runs check the whole state space of their bounds. Deadlock is checked except in `floor`,
`unreachable`, `rooms` and `audit`, whose requests or runs are finite in number and end; in the
others the pane never has to stop: a delivery may repeat, a poll comes round.

| Run | Bounds | Shows |
|---|---|---|
| `attention` | a Question, an Escalation with two payloads, two handlers, two calls, a Notice, one crash, one stream; handlers symmetric | `TypeOK`, `SlotsAreCalls`, `OnlyTheFactorysWord`, `OnlyDeliveredChoices`, `LastEventIsCurrent`, `AnswersSurvive`, and the refinement `KeepsTheVerb` |
| `desk` | an Escalation listed before it is delivered and answered twice, a Notice, a restart, one connection lost or page reloaded | `DeskTypeOK`, `CaughtUpDeskIsTrue` |
| `desk_live` | a Question, one call from anywhere, a drop, a failed read | `CaughtUpDeskIsTrue` and `CaughtUpControlsAreWanted` under those too; `DeliveredIsShown`, `InFlightClears`, `SlotsAreReleased` under fairness |
| `showfloor` | one story, three live states, a request and a poll, one failed read | `TypeOK`, `PlacedThroughout`, `LandedIsTrue`, `ReadsOneMoment`, and `LandedReadsLanded` under fairness |
| `rail` | two specs, any corpus, one move of the floor, one drop or reload, one failed read | `TypeOK`, `BaselineHeld`, and `RailSettles` under fairness |
| `floor` | two documents, one epic, three graphs, three answers, any two files, one move, one failure; requests symmetric | `TypeOK`, `EveryNodeOnce`, `OnlyItsOwnEdges`, `RowAndStageAgree`, `GraphFailureIsTold`, and `ClientIsShared` |
| `rooms` | two stories, three revisions, three moves, one failed read, a graph of one story or of both | `TypeOK`, `ContainsIsTrue`, `RefusalIsTrue`, `HalfIsNeverRendered`, `GraphIsOfThePage`, `NeverRefusedForAbsence`, `CleanStampIsTrue`, `EmptyIsNotUnread` |
| `audit` | two runs in one worktree, three policies (two refused), two packages in each world, one depending on the other, two moves | `TypeOK`, `VerdictIsTrue`, `NoStaleReport`, `ThresholdIsNpms` |
| `resend` | an Escalation, no reply lost, no restart | a counterexample to `FailedMeansNothingHeard` |
| `reanswer` | one operator, one Desk, nothing lost | a counterexample to `NoCallOnSettled` |
| `drift` | two specs, one move, nothing lost, nothing failed | a counterexample to `RoomsDoNotDrift` |
| `unreachable` | as `floor` | a counterexample to `RefusedConnectionIsDegraded` |

Why the bounds are enough. The hazards of the Answer route need two handlers on one item and a
crash with a call out; items do not affect one another except by sharing
the registry and the queues, so one of each kind shows every interleaving of the two branches.
Two payloads tell the payload pressed from another delivered with it, and from one delivered
later. In `Desk` one Desk has two readers, which is what its races need; Desks share nothing
but the backend. Two calls let the second answer's event, the first one's document and a stale
GET meet. `attention` declares its handlers symmetric: it checks safety only, and no action or
property names one handler. The other runs declare no symmetry: liveness does not allow it,
and their sets have one or two members. In `Showfloor` the ladders of two
stories meet only in the rail chip and in the memo, and the live states meet only in one table;
`ShowfloorProofs` covers every set of both for the three invariants and the refinement, so the run spends its states on
the two assemblies the memo's races need and on liveness: a state before dispatch, one under way
and one merged. In `Rail` specs meet only in their order on the wire and in
the corpus read, which two show; a degraded read and the next poll's good one change an entry and change it back,
before and after the one move.

In `FloorDocument` epics meet in `degraded` alone, whose entries name their epic; two documents are
what the client's race needs. The three graphs are the epic's own, the same in the other spelling
with a node that has no id, and another epic's; the three answers name two stories, one, and none.
In `Rooms` two stories tell half an epic from a whole one, and the third revision lets one land
between the branch's read and the revision's. In `AuditGate` a second run is what a stale report
needs, and a package that depends on another is what separates npm's rollup from its advisories.

Named bounds: `MaxCalls`, `MaxCrashes`, `MaxNotices` (`Attention`); `MaxDrops`, `MaxFailures`
(`Desk`, `Showfloor`, `Rail`); `MaxMoves` (`Rail`, `FloorDocument`, `Checkout`, `AuditGate`);
`MaxFailures` (`FloorDocument`, `Checkout`); `MaxRev` (`Checkout`); `MaxRuns` (`AuditGate`). Each
is a guard of the action it bounds and of nothing else.

Fairness. `Attention`'s `FairSpec`, which `FairDesk` contains: a call that is out ends, in an answer or in a raise (the RPC client has a
deadline), and the event loop resumes a handler whose await is done. No fairness on deliveries,
arrivals, submissions, restarts, nor on which way a call ends. `FairDesk` adds: a read ends, in an
answer or a degraded entry; the poll's timer fires; a document that is built is sent; an
EventSource reconnects by itself. A queue is drained without fairness of its own: the poll makes
up for it, which is what `InFlightClears` is about. `Showfloor`'s `FairSpec`: each poll of a stream
begins an assembly, and a read ends. The factory, the checkout and the operator are never made to
move; `LandedReadsLanded` starts from a floor that finished. `Rail`'s
`FairSpec`: an EventSource reconnects, a poll comes round, a read ends, an assembled entry is sent
and a connection that holds delivers in order. `FloorDocument`, `Rooms` and `AuditGate` state
safety only, and no fairness.

`CaughtUpDeskIsTrue` claims what can be claimed of the columns, and not of the state; of the state,
`CaughtUpControlsAreWanted` claims the one thing an operator acts on, that no live control stands
on an item the table holds settled. A document
is built of a registry read first and of rows read later, so it may show an item in flight
whose ruling it carries already; `InFlightClears` says that this ends. It also asks that the
stream replaced the document last: the GET may land late with an older one, which stands until
the next poll.

## What is proved

`AttentionProofs`, for every set of items, payloads, handlers, streams and every bound, from
`AttentionAssumption` (the kinds are disjoint, the words are distinct, `LateWords` is not
empty, the bounds are naturals); the last theorem also from `NoticeAssumption` (no correlation
id is one that a Notice's row mints):

| Theorem | States | Along |
|---|---|---|
| `TypeCorrect` | `[]TypeOK` | one step per action. `TypeOK` is inductive because it carries the kind filters of the two `UPDATE`s, that a handler not idle has an item, and that a relay answers with a ruling |
| `OneCallPerItem` | `[]SlotsAreCalls` | inductive with `TypeOK`: a claim adds a slot that no call held, an end removes the only call's slot. The second conjunct (no two calls on an item) is what makes the release of one safe for the other |
| `NoMintedWord` | `[]OnlyTheFactorysWord` | `WordInv` strengthens it with `AnswersWereSaid`: the outcome a handler carries to its write was said already, and what the factory has said only grows |
| `NothingUndelivered` | `[]OnlyDeliveredChoices` | `PressInv` strengthens it with the payloads on their way: of a handler whose call is out, and of an orphan. It rests on rows that are never rewritten |
| `NoAnswerUnsaid` | `AnswersSurvive` | step by step from `TypeOK` |
| `VerbKept` | `Spec => KeepsTheVerb` | the refinement: `VerbStep` maps each step to one of `Settlement`'s or to a stutter, from `TypeOK`, `SlotsAreCalls` and `WordInv` |
| `DrainedIsCurrent` | `[]LastEventIsCurrent` | `QueuesEndOnTheRows`: in every queue the newest event of an item is its row with the slot free, whoever holds the slot. The property itself is not inductive, as an abandoned answer frees a slot and publishes nothing; it is safe because no row changes under a slot. `AppendOwn`, `AppendOther` and `TailEnds` say what publishing and taking do to a queue's newest event |

`DeskProofs`, for every number of Desks over that core, any number of restarts, drops, reloads and
failed reads, from the same assumptions and `RoomAssumption`:

| Theorem | States | Along |
|---|---|---|
| `DeskRunsTheCore` | `DeskSpec => Spec` | each step of the composition is one of `Attention`'s or leaves its variables alone. `Reload` is the step that needs an invariant: it unsubscribes a stream that may be lost already, and `ClosedQueuesEmpty` says that this changes nothing |
| `DesksWellFormed` | `[]DeskTypeOK` | `DeskShape`: what an assembly has gathered is typed too, half of it or all |
| `CaughtUpIsTrue` | `[]CaughtUpDeskIsTrue` | `BehindTheQueue`, below |
| `CaughtUpControls` | `[]CaughtUpControlsAreWanted` | the same: a drawn item is its row's columns and a state made of some registry, and a state that leaves the controls live is one of an unsettled row |
| `DesksKeepTheVerb` | `DeskSpec => KeepsTheVerb` | from `DeskRunsTheCore` and `VerbKept` |

`CaughtUpDeskIsTrue` speaks of a queue that is empty, and says nothing while one is not: no step that
takes the last event preserves it by itself. `BehindTheQueue` says of every moment what the room will
hold once it has taken what is on its queue: each item is its row (`Drawn`), or an event of it is
still to come (`Announced`), and the newest such event is its row (`QueuesEndOnTheRows`, proved with
`DrainedIsCurrent`). The same is said of each assembly in progress, of what it has read
(`ItemsBehind`, with `RowsBehind` for the rows it has listed and not joined), because its stream was subscribed before
its first read and a row that changes afterwards announces itself on the queue. A document assembled
for the GET is behind no queue, which is why `trusted` is a conjunct. An item
that a document leaves out was settled by what the assembly read; `OnlyTheFactorysWord` makes that
the factory's own word, and `FactoryGrows` keeps it resolved.

`ShowfloorProofs`, for every set of stories, every set of live states (learned or not), every
number of assemblies and failures, from `ShowfloorAssumption`:

| Theorem | States | Along |
|---|---|---|
| `EntriesWellFormed` | `[]TypeOK` | operator lemmas on the tables (`StopTable`, `ChipTable`), on `Story` and on the rail chip, whose oldest frozen story exists because the stories are finite naturals; then one step per action |
| `NothingLandsUnlanded` | `[]LandedIsTrue` | `MemoInv`: the facts kept under a head hold all that head carried and nothing the branch does not. `FactoryInv`: a node reads MERGED only if it merged; `AsmInv` carries that over to the live answer. So a story drawn landed merged, whichever source placed it and whoever filled the memo |
| `NothingFallsBetween` | `[]PlacedThroughout` | `FactoryInv`: a merged node is never PENDING again. `AsmInv`: a head is resolved after the floor was read, so a story that the branch placed all along, and the live answer did not, is under that head. Were the head resolved first (`BeginResolving`), `AsmInv` fails |
| `MemoIsARead` | `Spec => ReadsOneMoment` | the refinement of `LandingRead`: `ReadStep` maps each step, from `LadderInv` and `MomentInv`, below |

`LadderInv` is the conjunction of those parts with `EntryInv`, which carries both claims over to
the entries handed out.

`LandingReader` calls its memo "exactly sound because the read is pure": facts at a given head cannot
change. The scan is not at the head, though (`landing.py:131-135` says so): what is kept under a head
may have been scanned after the branch left it. `MomentInv` is why no document can tell. Such facts
are found only by an assembly that had resolved the same head, so began its read before the scan;
an assembly that resolves the head anew finds that it is still the branch, and then `MemoInv`
squeezes the facts between the two. `ReadInSpan` is that argument, and it needs a branch that
only grows: `MoveOn` says so of the abstract branch and `Fetch` of the modelled one. A branch forced back
to a head it had left, with later facts under it, is outside the model and outside the promise.
`EntryAssumption` tells an entry being built from every entry handed over.

`RailProofs`, for every corpus, every set of words and every bound, from `RailAssumption`:

| Theorem | States | Along |
|---|---|---|
| `RailsWellFormed` | `[]TypeOK` | one step per action, the assembly's record rebuilt by `AsmWith` |
| `NothingForgotten` | `[]BaselineHeld` | inductive with `TypeOK` and `DocumentFromGet` (no document before the GET lands). `AppendKeeps`, `AppendRemembers` and `DeliverKeeps` say what sending and delivering one event do to what is remembered of each spec |

`FloorDocumentProofs`, for every set of documents, epics, graphs and answers, from
`FloorDocumentAssumption` and, for `NoNodeIsLost`, `IdsAssumption`:

| Theorem | States | Along |
|---|---|---|
| `DocumentsWellFormed` | `[]TypeOK` | `DocInv`, below |
| `NoNodeIsLost` | `[]EveryNodeOnce` | `EveryNodeDrawn`: what `Cards` draws of an answer's node, whether the graph declares it or not |
| `NoForeignEdges` | `[]OnlyItsOwnEdges` | `OwnEdges`: `GraphMismatch` in terms of the stories shared |
| `TwoJoinsAgree` | `[]RowAndStageAgree` | `RowIsStage`, from `DeclaredAreDrawn`, which says what the declared cards are |
| `NoSilentGraph` | `[]GraphFailureIsTold` | `ReadTyped`, on the two doors of a workgraph |
| `OneClient` | `ClientIsShared` | `Kept`: with a connection open and none kept, every document has ended |

`DocInv` is inductive where the five invariants are not: `Shown` ties each joined epic, and exactly
the `degraded` entries that name it, to what was told of it; `Ahead` says that nothing is yet told,
shown or degraded of an epic still to be read but the one at hand; `Held` says when a
connection is in hand. The five are then about operators alone.

`RoomsProofs`, for every set of stories, graphs, changed files and route patterns, any number of
revisions and moves, from `CheckoutAssumption` and `ReviewAssumption`:

| Theorem | States | Along |
|---|---|---|
| `RoomsWellFormed` | `[]TypeOK` | `RInv` and `DInv`, below, and one step per action |
| `HeaderIsTrue` | `[]ContainsIsTrue` | `FactsTrue` (what was read of the branch is still so) and `HeaderTrue` (the answer in terms of what was read) |
| `RefusalsAreEarned` | `[]RefusalIsTrue` | `FactsTrue` and `Judged`: a story not found by the read had not landed when the request came |
| `NoHalfEpic` | `[]HalfIsNeverRendered` | the same |
| `OnePage` | `[]GraphIsOfThePage`: of the graph, the coverage and the assembly's spec.md, and not of its plan and tasks, which the code reads again | with `Unanswered`: nothing is answered before the texts are read |
| `AbsenceIsNoDefect` | `[]NeverRefusedForAbsence` | `AnswersHave` |
| `StampsAreTrue` | `[]CleanStampIsTrue` | `CleanSoFar`: while nothing has moved, a clean stamp is of the tree there is, and each text read so far is its |
| `EmptyIsRead` | `[]EmptyIsNotUnread` | `WalkSaw` |

The two rooms share nothing but the checkout, so each has its own invariant (`RInv`, `DInv`) and the
other's steps leave it alone.

`AuditGateProofs`, for every policy, lockfile, dependency graph and answer, from the assumptions of
`AuditGate`:

| Theorem | States | Along |
|---|---|---|
| `GateWellFormed` | `[]TypeOK` | `IInv`, below |
| `NoUnearnedPass` | `[]VerdictIsTrue` | `PythonTrue`, `NodeTrue` (an audit that is complete says what its service knew when asked), `Written` and `Said` |
| `NothingStale` | `[]NoStaleReport` | inductive with `Phases`: the files are gone before anything of a run is written |
| `SameThreshold` | `[]ThresholdIsNpms` | that a rollup and the findings beneath it reach the same height, by the transitivity of `Through` |

Only model-checked: the liveness properties (`LandedReadsLanded`, `RailSettles`, `DeliveredIsShown`,
`InFlightClears`, `SlotsAreReleased`), liveness being outside this prover.

## Where the code and its documents part

- **`resend`.** `answer.py:141-143`: "SIGNAL_FAILED means nothing was recorded"; `ruling.ts:37`:
  "nothing was recorded; resending is safe". A press accepted once and failed once is shown so,
  with its first choice heard.
- **`reanswer`.** `AnswerColumn.tsx:25-27`: a settled or ruled item offers no way to re-answer.
  The guard opens on the response, the settled state comes later on the stream, and the server
  does not ask whether the item is answered: a second call goes out for a Question that the
  table holds RESOLVED.
- **`drift`.** `web/src/api/events.ts:10-13`: with the Desk on the stream "the two rooms cannot
  drift apart between polls". A GET assembled before a change and landing after the event that
  carried it leaves the Desk on the old entry: the event was dropped for want of a document
  (`Desk.tsx:87`), the generator remembers sending it, and a poll sends differences only. The
  proved half is `BaselineHeld`: a Desk whose document came first never falls out of step. The
  Showfloor room passes no `onShowfloor` at all (`Showfloor.tsx:288`) and keeps the rail of its
  GET until it is reloaded.

- **`unreachable`.** `specs/001-the-desk-sees-the-floor/contracts/floor-document.md:133-134`: a
  connection refused is a degraded `transport` entry of a document that is served.
  `LiveReader` opens its client before the `try` that translates (`readers.py:337-338`, 316-317), so
  the first document asked for while Temporal refuses is lost.

Seen beside these, with no run:

- A Desk whose first `GET /api/floor` failed draws the failed read over every document its stream
  delivers (`errorStatus` is set at `Desk.tsx:65-72` and never cleared); `DeliveredIsShown` leaves such
  a Desk out.
- `specs/009-a-landed-epic-reads-landed/spec.md:230-232`: a story neither source can place must not
  default to the ladder's first stop. When the live read fails and the branch is read and does not
  carry the story, it is drawn at `ready`, though it may be building (`showfloor.py:1069-1080`).
  `PlacedThroughout` is what does hold.
- `web/src/showfloor/Showfloor.tsx:125-128`: "Landed is the chip, not the frontmatter"; `specs/009`
  209-211: "the branch wins". The ladders obey; the rail chip falls through to the frontmatter
  (`showfloor.py:1372-1373`), so a spec attested landed wears the chip with no story landed.
- A workgraph that does not match the answered nodes is refused for the row, as
  `floor_document.py:49-51` has it, and still laid out as the stage, which is given the graph as read
  (`floor_document.py:378-380`). `RowAndStageAgree` leaves such an epic out; `OnlyItsOwnEdges` is of
  the row.
- A seam that does not parse is degraded `transport` by the live reader, where the comment at
  `floor_document.py:329-333` has it `unparseable`; `GraphFailureIsTold` claims the archive's half.
- `list_findings` and `rollup` (`readers.py:546`, 563) translate a store that is not there and no
  `sqlite3.Error` of one that is: a locked store is an error instead of a document (`ReadStores`).
- `_BoundReads.workgraph` and `_story_identity` (`showfloor.py:739-748`, 866-871) do not catch
  `UnicodeDecodeError`: one file with broken bytes takes the document with it.
- `derive_ladder`'s docstring (`showfloor.py:342-343`) says an unreadable branch leaves an
  attestation standing, where `_story` draws the story unknown.
- The revision served is the checkout's at the request and not, as `revision.py:22-24` has it, the
  one the process was started from (`revision.py:112`): after a reset under a running service the
  header names bytes nobody serves.
- When the landing branch moves between a review's reads, the header may say that the served
  revision lacks a story which it carries by the time the page is drawn; `ContainsIsTrue` asks only
  that what is said was so of the revision named. A spec without stories is rendered as landed and
  contained, vacuously.
- `check_prompt_assembly` is handed the page's spec and reads plan and tasks from the disk again,
  against `draft.py:297-302` and `checks.py:135-137` ("one set of bytes"). `GraphIsOfThePage` claims the
  rest, and `CleanStampIsTrue` asks for it only while the checkout stood still.
- The stamp is read before the documents it is drawn over (`draft.py:188-190`): a page read across a
  reset wears the older revision. A document that does not decode is drawn as absent, with a note.
- The gate writes an incomplete pip-audit report while it prints that no report was written
  (`audit_gate.py:326-342`, 597-600, against 31-37 and 588-593).
- A declared report path inside the worktree and outside `audit/` is let through by `read_policy`, and
  nothing cleans it between runs; `PolicyAssumption` excludes it. A refused policy, or a stop before
  the cleaning, leaves the reports of an earlier run; `NoStaleReport` speaks of a run that has
  cleaned. A gate that crashes exits 1, which is also `EXIT_ABOVE_THRESHOLD`.

## What is left out, and why

Abstracted in the modules above: text, timestamps, the wording and the rank order of items;
expiry and the countdown (rendering of a deadline the factory reports); a malformed delivery or
request body (refused with no effect); the escalation id inside a payload (a payload is one
value); a `get_item` that fails after the write it follows (the word recorded, and no event until
the next poll). A raising `stored_items` and a failing GET are bounded by `MaxFailures`; a failing
`open_escalations` is the empty answer and a failing join is an unknown fate, both always
possible. The reads of one document's joins are one step: each is independent of the others and
monotone, so any set of them that the separate reads could report, one step can.
In `Showfloor` the branch only grows: a force-push or a local reset of the landing branch is not
modelled. The factory chooses a node's state freely among `NodeStates` (it may go back for another
attempt) until it is final. The room's own selection and the evidence section are left out. In
`FloorDocument` the attention section is one read that needs the client (`Desk` has its inside), and
the two files of a workgraph are read in one step. A workgraph that parses to something other than an
object, which raises where it is first used as one, is not among `Files`: the compiler writes objects
only. `StateOf` has one value for what a row words `unknown` and the stage lists beside a null. The
run's one failure lets one of health and spend fail per behaviour; the theorems cover any number. In the document rooms the landing memo is left to
`Showfloor`, the branch only grows, and one document is edited at a time; a route manifest is one that parses
and whose entries have their keys, or one that does not load, which is a note: an entry without its key raises
a `KeyError` that `_manifest` does not catch (`review.py:157-171`, 721-726), and the request is an error of
which nothing is claimed. `Uncompiled` stands for
the refusals of two external seams, the deriver and the index's reader of frontmatter, whose
verdicts are inputs and meet in no property. In `rooms` one step of a request
loses its reads; in `RoomsProofs` any number of steps. In `AuditGate` each world
is one lockfile, a finding is its severity, and what is printed is left out.

Not modelled:

- presentation: components of `web/src` that draw a document already assembled;
- auth and configuration: a comparison per request, an environment read once;
- the fixture reader: it replays recorded answers, and no operation changes its state;
- the sweep (`pane/sweep.py`): a pure scan of the frontend's routes against the manifest, made once
  by a test;
- the fixture recorders: scripts run by hand once, around the external factory, that rebuild a
  repository's history and record it; a fifth of the implementation's lines, and none of them runs
  beside the pane;
- the review room's own page: notes kept in one browser's `localStorage` by one actor.

## The plan

Done, in order: `Settlement`, `Attention`, `AttentionProofs`; `Desk`, `DeskProofs`; `Showfloor` (the ladder and the
landing memo) over `LandingRead`, `ShowfloorProofs`; `Rail`, `RailProofs`; `FloorDocument` with the shared client,
`FloorDocumentProofs`; `Checkout`, `Review`, `Draft`, `Rooms`, `RoomsProofs`; `AuditGate`,
`AuditGateProofs`.

Left, in order of what it would add:

1. The Showfloor room's staging of the newest landing, which reads dates and subjects the models
   leave out, and the commit metadata behind it (`landing.py:295`).
2. A checkout whose landing branch is force-pushed, under both the memo and the review room.
