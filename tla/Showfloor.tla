-------------------------------- MODULE Showfloor --------------------------------
(***************************************************************************)
(* One rail entry of the showfloor document (pane/showfloor.py): the status  *)
(* ladder of each story, layered from the epic's live answer and from the    *)
(* landing branch (pane/landing.py), each read at its own moment and failing *)
(* by itself.                                                               *)
(*                                                                         *)
(* Assemblies run side by side, one per request and one per open stream.     *)
(* Each reads the running epics once, before any spec; awaits the spec's      *)
(* live answer; and then, in the step that resumes it, reads the branch.  The *)
(* process keeps one memo of what it scanned off the branch, keyed by a head  *)
(* that each assembly resolves once, at the first spec it reads.             *)
(*                                                                         *)
(* The factory and the checkout are outside this repository: node states move *)
(* as the factory likes, the branch only grows, and the checkout sees it late. *)
(***************************************************************************)
EXTENDS Naturals, FiniteSets

CONSTANTS Stories,      \* the spec's stories, in the document's order
          NodeStates,   \* the live states the factory puts a node in
          Assemblies,   \* the assemblies that can run at once
          NULL,         \* Python None
          MaxFailures   \* bound: reads that fail

STATE_TO_STOP ==
    [PENDING |-> "ready", KEY_ISSUED |-> "building", RUNNING |-> "building",
     WAITING_OPERATOR |-> "building", VERIFYING |-> "verifying", PASSED |-> "pr_open",
     PR_OPEN |-> "pr_open", ENQUEUED |-> "queue", MERGED |-> "merged"]

TERMINAL_STATES == {"FAILED", "KILLED"}
Final == TERMINAL_STATES \cup {"MERGED"}

Stops == {STATE_TO_STOP[state] : state \in DOMAIN STATE_TO_STOP}

SPEC_STATE_CHIPS ==
    [draft |-> "draft", ready |-> "ready", deferred |-> "draft", landed |-> "landed"]

ASSUME ShowfloorAssumption ==
    /\ Stories \subseteq Nat /\ IsFiniteSet(Stories)
    /\ {"PENDING", "ENQUEUED", "MERGED"} \subseteq NodeStates
    /\ NULL \notin NodeStates \cup DOMAIN STATE_TO_STOP \cup Stops /\ \A S \in SUBSET Stories : NULL # S
    /\ MaxFailures \in Nat

VARIABLES
    \* The factory and the repository.
    epic,       \* the spec's epic: "none", "running", or "gone" from the floor
    node,       \* node[k]: the live state of story k
    skewed,     \* the stories the epic's answer leaves out
    merged,     \* the stories whose landing is on the branch upstream
    branch,     \* the stories whose landing the checkout's branch carries
    declared,   \* the spec's frontmatter state
    \* The process.
    memo,       \* LandingReader: the head it stands for, and the facts scanned
    asm,        \* asm[a]: the assembly a, and what it has read
    entry,      \* entry[a]: the rail entry a built last, NULL while it runs
    failures

world == <<epic, node, skewed, merged, branch, declared>>
vars == <<epic, node, skewed, merged, branch, declared, memo, asm, entry, failures>>

---------------------------------------------------------------------------------
(* The ladder *)

\* Where a ladder stands and how it is worded; the six stops' own statuses follow.
Ladder(state, stop_key, tone, chip, frozen) ==
    [state |-> state, stop_key |-> stop_key, tone |-> tone, chip |-> chip, frozen |-> frozen]

\* The operator is waited on at the stop the work reached.
Waited(state, stop_key, awaiting, tone, chip) ==
    IF awaiting THEN Ladder(state, stop_key, "waiting", "waiting on you", FALSE)
    ELSE Ladder(state, stop_key, tone, chip, FALSE)

AllDone(state, awaiting) == Waited(state, "merged", awaiting, "done", "merged")

\* No epic answered for it: at `ready`, or all done where an attestation speaks.
Undispatched(spec_state, dispatched, awaiting, attested) ==
    IF spec_state = "landed" /\ ~dispatched /\ attested THEN AllDone(NULL, awaiting)
    ELSE Waited(NULL, "ready", awaiting, "normal",
                IF dispatched THEN NULL ELSE SPEC_STATE_CHIPS[spec_state])

\* The factory's word worn where its stop's belongs.
PlacedRaw(state, awaiting) ==
    IF state \in TERMINAL_STATES THEN Ladder(state, NULL, "terminal", state, TRUE)
    ELSE IF state \notin DOMAIN STATE_TO_STOP THEN Ladder(state, NULL, "unknown", NULL, FALSE)
    ELSE IF STATE_TO_STOP[state] = "merged" THEN AllDone(state, awaiting)
    ELSE Waited(state, STATE_TO_STOP[state], awaiting \/ state = "WAITING_OPERATOR",
                "normal", state)

\* derive_ladder, of a state the answer carried.
Placed(state, awaiting) ==
    IF state \in TERMINAL_STATES THEN Ladder(state, NULL, "terminal", state, TRUE)
    ELSE IF state \notin DOMAIN STATE_TO_STOP THEN Ladder(state, NULL, "unknown", NULL, FALSE)
    ELSE IF STATE_TO_STOP[state] = "merged" THEN AllDone(state, awaiting)
    ELSE Waited(state, STATE_TO_STOP[state], awaiting \/ state = "WAITING_OPERATOR",
                "normal", STATE_TO_STOP[state])

Unplaceable == Ladder(NULL, NULL, "unknown", NULL, FALSE)

\* An attested spec's stories are taken for landed where the branch lacks them.
StoryAttested(k, a, landing) ==
    IF a.live[k] # NULL THEN Placed(a.live[k], k \in a.parked)
    ELSE IF landing # NULL /\ k \in landing THEN AllDone(NULL, FALSE)
    ELSE IF landing # NULL
         THEN Undispatched(a.declared, a.dispatched, k \in a.parked, TRUE)
    ELSE Unplaceable

\* _story: the live answer, else the branch, else neither.  landing is NULL when
\* the branch could not be read.
Story(k, a, landing) ==
    IF a.live[k] # NULL THEN Placed(a.live[k], k \in a.parked)
    ELSE IF landing # NULL /\ k \in landing THEN AllDone(NULL, FALSE)
    ELSE IF landing # NULL
         THEN Undispatched(a.declared, a.dispatched, k \in a.parked, FALSE)
    ELSE Unplaceable

First(S) == CHOOSE k \in S : \A m \in S : k <= m

\* _rail_chip: someone waited on, something dead, what is live, all landed, the
\* declaration.
RailChip(spec_state, ladders) ==
    LET waiting == {k \in Stories : ladders[k].tone = "waiting"}
        frozen == {k \in Stories : ladders[k].frozen}
        live == {k \in Stories : ladders[k].state # NULL /\ ladders[k].stop_key # "merged"}
    IN  IF waiting # {} THEN "waiting on you"
        ELSE IF frozen # {} THEN ladders[First(frozen)].chip
        ELSE IF live # {} THEN ladders[First(live)].chip
        ELSE IF Stories # {} /\ \A k \in Stories : ladders[k].stop_key = "merged"
             THEN "landed"
        ELSE SPEC_STATE_CHIPS[spec_state]

\* What the factory itself still calls merged.
LandedByAnswer(ladders) == {k \in Stories : ladders[k].state = "MERGED"}

\* The room's count: the ladders that reached their last stop.
LandedByLadder(ladders) == {k \in Stories : ladders[k].stop_key = "merged"}

\* The tally of landed stories, and whether it is one to trust.
Entry(a, landing, failed) ==
    LET ladders == [k \in Stories |-> Story(k, a, landing)]
    IN  [ladders |-> ladders,
         chip |-> RailChip(a.declared, ladders),
         landed |-> LandedByLadder(ladders),
         unsure |-> \E k \in Stories : ladders[k].tone = "unknown" /\ ladders[k].stop_key = NULL,
         disagreement |-> a.declared = "landed" /\ landing # NULL /\ Stories \ landing # {},
         failed |-> failed,
         landing |-> landing,
         witnessed |-> a.witnessed]

---------------------------------------------------------------------------------
(* The factory, the branch and the checkout *)

\* One of the two sources could place story k past `ready`, were it asked now.
Placeable(k) ==
    \/ epic = "running" /\ k \notin skewed /\ node[k] # "PENDING"
    \/ k \in branch

\* A step of the world: an assembly that runs goes on witnessing only the stories
\* that stay placeable, and one that has its head sees what the branch becomes.
Meanwhile ==
    /\ asm' = [a \in Assemblies |->
                 [asm[a] EXCEPT !.witnessed = {k \in @ : Placeable(k)'},
                                !.seen = IF @ = {} THEN {} ELSE @ \cup {branch'}]]
    /\ UNCHANGED <<memo, entry, failures>>

Dispatch ==
    /\ epic = "none"
    /\ epic' = "running"
    /\ skewed' \in SUBSET Stories
    /\ UNCHANGED <<node, merged, branch, declared>>
    /\ Meanwhile

\* The factory moves a node on, or back to another attempt.
Advance(k, state) ==
    /\ epic = "running" /\ node[k] \notin Final /\ k \notin merged
    /\ state \notin {"PENDING", "MERGED"}
    /\ node' = [node EXCEPT ![k] = state]
    /\ UNCHANGED <<epic, skewed, merged, branch, declared>>
    /\ Meanwhile

\* The merge queue merges an enqueued story; the epic notices afterwards.
Merge(k) ==
    /\ epic = "running" /\ node[k] = "ENQUEUED"
    /\ merged' = merged \cup {k}
    /\ UNCHANGED <<epic, node, skewed, branch, declared>>
    /\ Meanwhile

Notice(k) ==
    /\ epic = "running" /\ k \in merged
    /\ node' = [node EXCEPT ![k] = "MERGED"]
    /\ UNCHANGED <<epic, skewed, merged, branch, declared>>
    /\ Meanwhile

\* The checkout's branch catches up with a landing.
Fetch(k) ==
    /\ k \in merged
    /\ branch' = branch \cup {k}
    /\ UNCHANGED <<epic, node, skewed, merged, declared>>
    /\ Meanwhile

\* The epic is over, and the floor no longer lists it.
Close ==
    /\ epic = "running"
    /\ \A k \in Stories : node[k] \in Final
    /\ epic' = "gone"
    /\ UNCHANGED <<node, skewed, merged, branch, declared>>
    /\ Meanwhile

\* The operator edits the frontmatter: a claim, whatever has landed.
Attest ==
    /\ declared = "ready"
    /\ declared' = "landed"
    /\ UNCHANGED <<epic, node, skewed, merged, branch>>
    /\ Meanwhile

---------------------------------------------------------------------------------
(* Assembling the entry *)

Unnamed == [k \in Stories |-> NULL]

Idle ==
    [phase |-> "idle", declared |-> NULL, dispatched |-> FALSE, live |-> Unnamed,
     parked |-> {}, head |-> NULL, seen |-> {}, unread |-> FALSE, witnessed |-> {}]

\* The branch's head resolved as the assembly starts, before the epics are read.
BeginResolving(a) ==
    /\ asm[a].phase = "idle"
    /\ asm' = [asm EXCEPT ![a] = [Idle EXCEPT !.phase = "floor", !.declared = declared,
                                              !.head = branch, !.seen = {branch},
                                              !.witnessed = {k \in Stories : Placeable(k)}]]
    /\ entry' = [entry EXCEPT ![a] = NULL]
    /\ UNCHANGED <<world, memo, failures>>

\* The corpus is read, the spec's declared state with it.
Begin(a) ==
    /\ asm[a].phase = "idle"
    /\ asm' = [asm EXCEPT ![a] = [Idle EXCEPT !.phase = "floor", !.declared = declared,
                                              !.witnessed = {k \in Stories : Placeable(k)}]]
    /\ entry' = [entry EXCEPT ![a] = NULL]
    /\ UNCHANGED <<world, memo, failures>>

\* The running epics, read once per assembly: the spec's epic is asked only if it
\* is among them.
FloorRead(a) ==
    /\ asm[a].phase = "floor"
    /\ asm' = [asm EXCEPT ![a].phase = IF epic = "running" THEN "asking" ELSE "reading"]
    /\ UNCHANGED <<world, memo, entry, failures>>

\* The epic answers, also one that ended since: a state for each node it names, and
\* the nodes somebody is waited on for.
EpicAnswers(a) ==
    /\ asm[a].phase = "asking"
    /\ \E parked \in SUBSET {k \in Stories \ skewed : node[k] \notin Final} :
        asm' = [asm EXCEPT ![a].phase = "reading", ![a].dispatched = TRUE,
                           ![a].live = [k \in Stories |-> IF k \in skewed THEN NULL ELSE node[k]],
                           ![a].parked = parked]
    /\ UNCHANGED <<world, memo, entry, failures>>

\* Either live read fails: a note, and nothing known of any node.
LiveFails(a) ==
    /\ asm[a].phase \in {"floor", "asking"}
    /\ failures < MaxFailures
    /\ failures' = failures + 1
    /\ asm' = [asm EXCEPT ![a].phase = "reading", ![a].unread = TRUE]
    /\ UNCHANGED <<world, memo, entry>>

\* The head an assembly reads under: resolved once, at its first spec.
HeadOf(a) == IF asm[a].head = NULL THEN branch ELSE asm[a].head

\* What the branch has been since then.
SeenBy(a) == IF asm[a].head = NULL THEN {branch} ELSE asm[a].seen

\* Whatever was scanned first, under whichever head.
MemoKept(head) == IF memo.facts = NULL THEN [head |-> head, facts |-> NULL] ELSE memo

\* The memo under a head: another head's facts are dropped.
MemoAt(head) == IF memo.head = head THEN memo ELSE [head |-> head, facts |-> NULL]

\* The assembly reads the branch for another spec, before this one.
OtherSpec(a) ==
    /\ asm[a].phase \in {"asking", "reading"}
    /\ asm' = [asm EXCEPT ![a].head = HeadOf(a), ![a].seen = SeenBy(a)]
    /\ memo' = MemoAt(HeadOf(a))
    /\ UNCHANGED <<world, entry, failures>>

\* The scan takes the branch as it stands, not as it stood at any head.
Scan == branch

\* The branch is read, or remembered under the head this assembly resolved.
LandingOf(a) == IF MemoAt(HeadOf(a)).facts = NULL THEN Scan ELSE MemoAt(HeadOf(a)).facts

Finish(a) ==
    /\ asm[a].phase = "reading"
    /\ memo' = [head |-> HeadOf(a), facts |-> LandingOf(a)]
    /\ entry' = [entry EXCEPT ![a] =
                    Entry(asm[a], LandingOf(a), IF asm[a].unread THEN {"live"} ELSE {})]
    /\ asm' = [asm EXCEPT ![a] = Idle]
    /\ UNCHANGED <<world, failures>>

\* The head cannot be resolved, or the scan fails under one that was.
FinishUnread(a) ==
    /\ asm[a].phase = "reading"
    /\ failures < MaxFailures
    /\ failures' = failures + 1
    /\ memo' \in {memo, MemoAt(HeadOf(a))}
    /\ entry' = [entry EXCEPT ![a] =
                    Entry(asm[a], NULL, IF asm[a].unread THEN {"live", "landing"} ELSE {"landing"})]
    /\ asm' = [asm EXCEPT ![a] = Idle]
    /\ UNCHANGED world

---------------------------------------------------------------------------------
Init ==
    /\ epic = "none"
    /\ node = [k \in Stories |-> "PENDING"]
    /\ skewed = {}
    /\ merged = {}
    /\ branch = {}
    /\ declared = "ready"
    /\ memo = [head |-> NULL, facts |-> NULL]
    /\ asm = [a \in Assemblies |-> Idle]
    /\ entry = [a \in Assemblies |-> NULL]
    /\ failures = 0

World ==
    \/ Dispatch \/ Close \/ Attest
    \/ \E k \in Stories :
        \/ Merge(k) \/ Notice(k) \/ Fetch(k)
        \/ \E state \in NodeStates : Advance(k, state)

\* The steps an assembly takes when no read fails.
Assembling(a) == Begin(a) \/ FloorRead(a) \/ EpicAnswers(a) \/ Finish(a)

Next ==
    \/ World
    \/ \E a \in Assemblies :
        Assembling(a) \/ OtherSpec(a) \/ LiveFails(a) \/ FinishUnread(a)

Spec == Init /\ [][Next]_vars

\* Every poll begins an assembly, and a read ends.  Nothing the factory does must
\* happen.
FairSpec == Spec /\ \A a \in Assemblies : WF_vars(Assembling(a))

---------------------------------------------------------------------------------
(* Properties *)

Tones == {"normal", "waiting", "done", "terminal", "unknown"}
Chips == Stops \cup TERMINAL_STATES \cup {"waiting on you", NULL}
             \cup {SPEC_STATE_CHIPS[s] : s \in DOMAIN SPEC_STATE_CHIPS}

\* A head is told from another by what the branch carries at it.
Heads == {NULL} \cup SUBSET Stories

Locals ==
    [phase : {"idle", "floor", "asking", "reading"},
     declared : {"ready", "landed", NULL}, dispatched : BOOLEAN,
     live : [Stories -> {NULL} \cup NodeStates], parked : SUBSET Stories,
     head : Heads, seen : SUBSET Heads, unread : BOOLEAN, witnessed : SUBSET Stories]

Ladders ==
    [state : {NULL} \cup NodeStates, stop_key : {NULL} \cup Stops, tone : Tones,
     chip : Chips, frozen : BOOLEAN]

Entries ==
    [ladders : [Stories -> Ladders], chip : Chips, landed : SUBSET Stories,
     unsure : BOOLEAN, disagreement : BOOLEAN, failed : SUBSET {"live", "landing"},
     landing : Heads,
     witnessed : SUBSET Stories]

\* An entry being built is told from every entry handed over.
ASSUME EntryAssumption == NULL \notin Entries

\* The shape of the world, of the memo, of each assembly and of each entry: every
\* ladder stands at one of the six stops or at none, and wears a chip of the table.
TypeOK ==
    /\ epic \in {"none", "running", "gone"}
    /\ node \in [Stories -> NodeStates]
    /\ skewed \subseteq Stories /\ merged \subseteq Stories /\ branch \subseteq merged
    /\ declared \in {"ready", "landed"}
    /\ memo \in [head : Heads, facts : Heads]
    /\ asm \in [Assemblies -> Locals]
    /\ \A a \in Assemblies : asm[a].phase # "idle" => asm[a].declared \in {"ready", "landed"}
    /\ entry \in [Assemblies -> {NULL} \cup Entries]
    /\ failures \in 0..MaxFailures

\* A story that one of its two sources could place, at every moment while a document
\* was assembled, is not drawn as never started, when the live read was made: neither
\* an epic that ends between the reads, nor a memo another assembly filled, lets it
\* fall between them.
PlacedThroughout ==
    \A a \in Assemblies : entry[a] # NULL /\ "live" \notin entry[a].failed =>
        \A k \in entry[a].witnessed : entry[a].ladders[k].stop_key # "ready"

\* What the room counts as landed has landed upstream, whatever the frontmatter
\* claims and whichever reads failed (specs/009 FR-002).
LandedIsTrue ==
    \A a \in Assemblies : entry[a] # NULL => entry[a].landed \subseteq merged

Reads == INSTANCE LandingRead
         WITH open <- [a \in Assemblies |-> asm[a].seen],
              answer <- [a \in Assemblies |-> IF entry[a] = NULL THEN NULL ELSE entry[a].landing]

\* Every entry's landing facts are the branch as it stood at one moment between the
\* resolving of the head and the read, although the memo is keyed by that head, filled
\* by a scan that is not pinned to it and shared by every assembly: "exactly sound"
\* (landing.py, LandingReader) without the purity it is argued from.
ReadsOneMoment == Reads!Spec

\* An epic whose every story the branch carries, and whose own answer is over or all
\* merged, comes to read landed in every document and stays so: its state aging out
\* of the factory takes nothing back (specs/009, User Story 1).
Finished ==
    branch = Stories /\ (epic = "gone" \/ \A k \in Stories : node[k] = "MERGED")

LandedReadsLanded ==
    [](Finished => <>[](\A a \in Assemblies : entry[a] # NULL => entry[a].landed = Stories))
=================================================================================
