----------------------------- MODULE ShowfloorProofs -----------------------------
(***************************************************************************)
(* What a rail entry says, for every set of stories, of live states and of    *)
(* assemblies sharing the landing memo, and for any number of failed reads.  *)
(***************************************************************************)
EXTENDS Showfloor, FiniteSetTheorems, WellFoundedInduction, TLAPS

(* The ladder's operators *)

\* Of the six stops, only PENDING stands at `ready` and only MERGED at `merged`.
LEMMA StopTable ==
    /\ \A s \in DOMAIN STATE_TO_STOP : STATE_TO_STOP[s] \in Stops
    /\ \A s \in DOMAIN STATE_TO_STOP : STATE_TO_STOP[s] = "ready" => s = "PENDING"
    /\ \A s \in DOMAIN STATE_TO_STOP : STATE_TO_STOP[s] = "merged" => s = "MERGED"
    /\ {"ready", "merged"} \subseteq Stops
BY DEF STATE_TO_STOP, Stops

\* Every declared state has a chip.
LEMMA ChipTable == \A d \in {"ready", "landed"} : SPEC_STATE_CHIPS[d] \in Chips
BY DEF SPEC_STATE_CHIPS, Chips

\* A non-empty set of stories has a first one in the document's order.
LEMMA FirstIsFirst ==
    ASSUME NEW S, S \subseteq Stories, S # {}
    PROVE  First(S) \in S /\ \A m \in S : First(S) <= m
<1> DEFINE Upto(k) == {m \in S : m <= k}
           D == {Upto(k) : k \in S}
<1>0. S \subseteq Nat
    BY ShowfloorAssumption
<1>1. IsFiniteSet(S)
    BY ShowfloorAssumption, FS_Subset
<1>2. IsWellFoundedOn(StrictSubsetOrdering(S), SUBSET S)
    BY <1>1, FS_StrictSubsetOrderingWellFounded, FS_FiniteSubsetsOfFinite
<1>3. D \subseteq SUBSET S /\ D # {}
    OBVIOUS
<1> HIDE DEF D
<1>4. PICK x \in D : \A y \in D : <<y, x>> \notin StrictSubsetOrdering(S)
    BY <1>2, <1>3, WFMin, Zenon
<1>5. PICK k \in S : x = Upto(k)
    BY <1>4 DEF D
<1>6. ASSUME NEW m \in S, ~(k <= m)
      PROVE  FALSE
    <2>1. m \in Nat /\ k \in Nat
        BY <1>0
    <2>2. m < k
        BY <1>6, <2>1
    <2>3. k \in Upto(k) /\ k \notin Upto(m)
        BY <2>1, <2>2
    <2>4. ASSUME NEW p \in Upto(m) PROVE p \in Upto(k)
        BY <1>0, <2>1, <2>2
    <2>5. Upto(m) \in D
        BY DEF D
    <2>6. <<Upto(m), x>> \in StrictSubsetOrdering(S)
        BY <1>5, <2>3, <2>4 DEF StrictSubsetOrdering
    <2>7. QED
        BY <1>4, <2>5, <2>6
<1>7. QED
    BY <1>6 DEF First

\* A live state is placed at a stop of the table or at none: at `ready` only if it
\* is PENDING, at `merged` only if it is MERGED.
LEMMA PlacedWhere ==
    ASSUME NEW state \in NodeStates, NEW awaiting \in BOOLEAN
    PROVE  /\ Placed(state, awaiting) \in Ladders
           /\ Placed(state, awaiting).stop_key = "ready" => state = "PENDING"
           /\ Placed(state, awaiting).stop_key = "merged" => state = "MERGED"
<1> USE ShowfloorAssumption DEF Ladder, Ladders, Tones, Chips
<1>1. NULL # "ready" /\ NULL # "merged"
    BY StopTable
<1>2. CASE state \in TERMINAL_STATES
    BY <1>1, <1>2 DEF Placed
<1>3. CASE state \notin TERMINAL_STATES /\ state \notin DOMAIN STATE_TO_STOP
    BY <1>1, <1>3 DEF Placed
<1>4. CASE /\ state \notin TERMINAL_STATES /\ state \in DOMAIN STATE_TO_STOP
           /\ STATE_TO_STOP[state] = "merged"
    BY <1>4, StopTable DEF Placed, AllDone, Waited
<1>5. CASE /\ state \notin TERMINAL_STATES /\ state \in DOMAIN STATE_TO_STOP
           /\ STATE_TO_STOP[state] # "merged"
    BY <1>5, StopTable DEF Placed, Waited
<1>6. QED
    BY <1>2, <1>3, <1>4, <1>5

\* A story is drawn at `ready` only if the epic said PENDING, or named it in no
\* answer and the branch was read and lacks it; at `merged` only if the epic said
\* MERGED or the branch carries it.
LEMMA StoryWhere ==
    ASSUME NEW k \in Stories, NEW a \in Locals, a.declared \in {"ready", "landed"},
           NEW landing \in Heads
    PROVE  /\ Story(k, a, landing) \in Ladders
           /\ Story(k, a, landing).stop_key = "ready" =>
                  \/ a.live[k] = "PENDING"
                  \/ a.live[k] = NULL /\ landing # NULL /\ k \notin landing
           /\ Story(k, a, landing).stop_key = "merged" =>
                  \/ a.live[k] = "MERGED"
                  \/ landing # NULL /\ k \in landing
<1> USE ShowfloorAssumption
<1>1. NULL # "ready" /\ NULL # "merged"
    BY StopTable
<1>2. a.live[k] \in {NULL} \cup NodeStates /\ (k \in a.parked) \in BOOLEAN
    BY DEF Locals
<1>3. CASE a.live[k] # NULL
    BY <1>2, <1>3, PlacedWhere DEF Story
<1>4. CASE a.live[k] = NULL /\ landing # NULL /\ k \in landing
    <2>1. Story(k, a, landing) = Ladder(NULL, "merged", "done", "merged", FALSE)
        BY <1>4 DEF Story, AllDone, Waited
    <2>2. QED
        BY <1>4, <2>1, StopTable DEF Ladder, Ladders, Tones, Chips
<1>5. CASE a.live[k] = NULL /\ landing # NULL /\ k \notin landing
    <2>1. Story(k, a, landing) = Undispatched(a.declared, a.dispatched, k \in a.parked, FALSE)
        BY <1>5 DEF Story
    <2>2. {"normal", "waiting"} \subseteq Tones
          /\ {NULL, "waiting on you", SPEC_STATE_CHIPS[a.declared]} \subseteq Chips
        BY ChipTable DEF Tones, Chips
    <2>3. PICK tone \in Tones, chip \in Chips :
            Story(k, a, landing) = Ladder(NULL, "ready", tone, chip, FALSE)
        BY <2>1, <2>2 DEF Undispatched, Waited
    <2>4. QED
        BY <1>1, <1>5, <2>3, StopTable DEF Ladder, Ladders
<1>6. CASE a.live[k] = NULL /\ landing = NULL
    BY <1>1, <1>6 DEF Story, Unplaceable, Ladder, Ladders, Tones, Chips
<1>7. QED
    BY <1>3, <1>4, <1>5, <1>6

\* The rail wears a chip of the table.
LEMMA RailChipType ==
    ASSUME NEW ladders \in [Stories -> Ladders], NEW d \in {"ready", "landed"}
    PROVE  RailChip(d, ladders) \in Chips
<1> DEFINE waiting == {k \in Stories : ladders[k].tone = "waiting"}
           frozen == {k \in Stories : ladders[k].frozen}
           live == {k \in Stories : ladders[k].state # NULL /\ ladders[k].stop_key # "merged"}
<1>1. \A k \in Stories : ladders[k].chip \in Chips
    BY DEF Ladders
<1>2. frozen # {} => ladders[First(frozen)].chip \in Chips
    BY <1>1, FirstIsFirst
<1>3. live # {} => ladders[First(live)].chip \in Chips
    BY <1>1, FirstIsFirst
<1>4. "waiting on you" \in Chips /\ "landed" \in Chips
    BY DEF Chips, SPEC_STATE_CHIPS
<1>5. SPEC_STATE_CHIPS[d] \in Chips
    BY ChipTable
<1> HIDE DEF waiting, frozen, live
<1>6. RailChip(d, ladders) =
        IF waiting # {} THEN "waiting on you"
        ELSE IF frozen # {} THEN ladders[First(frozen)].chip
        ELSE IF live # {} THEN ladders[First(live)].chip
        ELSE IF Stories # {} /\ \A k \in Stories : ladders[k].stop_key = "merged"
             THEN "landed"
        ELSE SPEC_STATE_CHIPS[d]
    BY DEF RailChip, waiting, frozen, live
<1>7. QED
    BY <1>2, <1>3, <1>4, <1>5, <1>6

\* What an entry is built of.
LEMMA EntryWhere ==
    ASSUME NEW a \in Locals, a.declared \in {"ready", "landed"}, NEW landing \in Heads,
           NEW failed \in SUBSET {"live", "landing"}
    PROVE  /\ Entry(a, landing, failed) \in Entries
           /\ \A k \in Stories :
                Entry(a, landing, failed).ladders[k] = Story(k, a, landing)
           /\ Entry(a, landing, failed).landed =
                {k \in Stories : Story(k, a, landing).stop_key = "merged"}
           /\ Entry(a, landing, failed).failed = failed
           /\ Entry(a, landing, failed).witnessed = a.witnessed
           /\ Entry(a, landing, failed).landing = landing
<1> DEFINE ladders == [k \in Stories |-> Story(k, a, landing)]
           entryOf == Entry(a, landing, failed)
<1>1. ladders \in [Stories -> Ladders]
    BY StoryWhere
<1>2. RailChip(a.declared, ladders) \in Chips
    BY <1>1, RailChipType
<1>3. /\ entryOf.ladders = ladders
      /\ entryOf.landed = {k \in Stories : ladders[k].stop_key = "merged"}
      /\ entryOf.failed = failed /\ entryOf.witnessed = a.witnessed
      /\ entryOf.landing = landing
    BY DEF Entry, LandedByLadder
<1>4. a.witnessed \in SUBSET Stories
    BY DEF Locals
<1>5. entryOf \in Entries
    <2> HIDE DEF ladders
    <2>1. entryOf = [ladders |-> ladders, chip |-> RailChip(a.declared, ladders),
                     landed |-> {k \in Stories : ladders[k].stop_key = "merged"},
                     unsure |-> \E k \in Stories :
                                   ladders[k].tone = "unknown" /\ ladders[k].stop_key = NULL,
                     disagreement |-> a.declared = "landed" /\ landing # NULL
                                         /\ Stories \ landing # {},
                     failed |-> failed, witnessed |-> a.witnessed, landing |-> landing]
        BY DEF Entry, LandedByLadder, ladders
    <2>2. QED
        BY <1>1, <1>2, <1>4, <2>1 DEF Entries
<1>6. QED
    BY <1>3, <1>5

(* Type correctness *)

LEMMA InitShape == Init => TypeOK
<1> SUFFICES ASSUME Init PROVE TypeOK
    OBVIOUS
<1> USE ShowfloorAssumption
<1>1. Idle \in Locals
    BY DEF Idle, Unnamed, Locals, Heads
<1>2. Idle.phase = "idle"
    BY DEF Idle
<1>3. asm \in [Assemblies -> Locals]
      /\ \A a \in Assemblies : asm[a].phase = "idle"
    BY <1>1, <1>2 DEF Init
<1>4. QED
    BY <1>3 DEF Init, TypeOK, Heads

\* The world's steps leave each assembly what it had read.
LEMMA MeanwhileShape ==
    ASSUME TypeOK, Meanwhile, branch' \subseteq Stories
    PROVE  /\ asm' \in [Assemblies -> Locals]
           /\ \A a \in Assemblies :
                /\ asm'[a].phase = asm[a].phase /\ asm'[a].declared = asm[a].declared
                /\ asm'[a].live = asm[a].live /\ asm'[a].head = asm[a].head
                /\ asm'[a].unread = asm[a].unread
                /\ asm'[a].witnessed = {k \in asm[a].witnessed : Placeable(k)'}
                /\ asm'[a].seen = IF asm[a].seen = {} THEN {} ELSE asm[a].seen \cup {branch'}
           /\ memo' = memo /\ entry' = entry /\ failures' = failures
<1>1. ASSUME NEW a \in Assemblies
      PROVE  /\ asm'[a] \in Locals
             /\ asm'[a].phase = asm[a].phase /\ asm'[a].declared = asm[a].declared
             /\ asm'[a].live = asm[a].live /\ asm'[a].head = asm[a].head
             /\ asm'[a].unread = asm[a].unread
             /\ asm'[a].witnessed = {k \in asm[a].witnessed : Placeable(k)'}
             /\ asm'[a].seen = IF asm[a].seen = {} THEN {} ELSE asm[a].seen \cup {branch'}
    <2> DEFINE w == {k \in asm[a].witnessed : Placeable(k)'}
               seen == IF asm[a].seen = {} THEN {} ELSE asm[a].seen \cup {branch'}
    <2>1. asm[a] \in Locals /\ asm'[a] = [asm[a] EXCEPT !.witnessed = w, !.seen = seen]
        BY DEF Meanwhile, TypeOK
    <2>2. w \in SUBSET Stories /\ seen \in SUBSET Heads
        BY <2>1 DEF Locals, Heads
    <2> HIDE DEF w, seen
    <2>3. /\ asm'[a] \in Locals /\ asm'[a].witnessed = w /\ asm'[a].seen = seen
          /\ asm'[a].phase = asm[a].phase /\ asm'[a].declared = asm[a].declared
          /\ asm'[a].live = asm[a].live /\ asm'[a].head = asm[a].head
          /\ asm'[a].unread = asm[a].unread
        BY <2>1, <2>2 DEF Locals
    <2>4. QED
        BY <2>3 DEF w, seen
<1>2. asm' = [a \in Assemblies |-> asm'[a]]
    BY DEF Meanwhile
<1>3. asm' \in [Assemblies -> Locals]
    BY <1>1, <1>2
<1>4. QED
    BY <1>1, <1>3 DEF Meanwhile

\* The head an assembly reads under, and what it reads under it.
LEMMA LandingShape ==
    ASSUME TypeOK, NEW a \in Assemblies
    PROVE  /\ HeadOf(a) \in Heads /\ LandingOf(a) \in Heads
           /\ MemoAt(HeadOf(a)) \in [head : Heads, facts : Heads]
           /\ HeadOf(a) # NULL /\ LandingOf(a) # NULL
           /\ SeenBy(a) \in SUBSET Heads
<1>1. branch \in SUBSET Stories /\ branch # NULL
    BY ShowfloorAssumption DEF TypeOK
<1>2. asm[a].head \in Heads
    BY DEF TypeOK, Locals
<1>3. HeadOf(a) \in Heads /\ HeadOf(a) # NULL
    BY <1>1, <1>2 DEF HeadOf, Heads
<1>4. MemoAt(HeadOf(a)) \in [head : Heads, facts : Heads]
    BY <1>3 DEF MemoAt, TypeOK, Heads
<1>5. SeenBy(a) \in SUBSET Heads
    BY <1>1 DEF SeenBy, TypeOK, Locals, Heads
<1>6. QED
    BY <1>1, <1>3, <1>4, <1>5 DEF LandingOf, Scan, Heads

\* A step of one assembly.
LEMMA AssemblyShape ==
    ASSUME TypeOK, NEW a \in Assemblies, NEW r \in Locals,
           r.phase # "idle" => r.declared \in {"ready", "landed"},
           asm' = [asm EXCEPT ![a] = r], UNCHANGED world,
           memo' \in [head : Heads, facts : Heads],
           entry' \in [Assemblies -> {NULL} \cup Entries], failures' \in 0..MaxFailures
    PROVE  TypeOK'
BY DEF TypeOK, world

LEMMA ShapeStep == TypeOK /\ [Next]_vars => TypeOK'
<1> SUFFICES ASSUME TypeOK, [Next]_vars PROVE TypeOK'
    OBVIOUS
<1> USE ShowfloorAssumption
<1>0. ASSUME NEW a \in Assemblies, asm[a].phase # "idle"
      PROVE  asm[a].declared \in {"ready", "landed"}
    BY <1>0 DEF TypeOK
<1>1. ASSUME World PROVE TypeOK'
    <2>1. Meanwhile
        BY <1>1 DEF World, Dispatch, Advance, Merge, Notice, Fetch, Close, Attest
    <2>2. epic' \in {"none", "running", "gone"} /\ declared' \in {"ready", "landed"}
        BY <1>1 DEF World, Dispatch, Advance, Merge, Notice, Fetch, Close, Attest, TypeOK
    <2>3. node' \in [Stories -> NodeStates]
        BY <1>1 DEF World, Dispatch, Advance, Merge, Notice, Fetch, Close, Attest, TypeOK
    <2>4. skewed' \subseteq Stories /\ merged' \subseteq Stories
        BY <1>1 DEF World, Dispatch, Advance, Merge, Notice, Fetch, Close, Attest, TypeOK
    <2>5. branch' \subseteq merged'
        BY <1>1 DEF World, Dispatch, Advance, Merge, Notice, Fetch, Close, Attest, TypeOK
    <2>6. branch' \subseteq Stories
        BY <2>4, <2>5
    <2>7. QED
        BY <2>1, <2>2, <2>3, <2>4, <2>5, <2>6, MeanwhileShape DEF TypeOK
<1>2. ASSUME NEW a \in Assemblies
      PROVE  asm[a] \in Locals /\ Idle \in Locals /\ Idle.phase = "idle"
    BY DEF TypeOK, Idle, Unnamed, Locals, Heads
<1>3. ASSUME NEW a \in Assemblies, Begin(a) PROVE TypeOK'
    <2> DEFINE r == [Idle EXCEPT !.phase = "floor", !.declared = declared,
                                 !.witnessed = {k \in Stories : Placeable(k)}]
    <2>1. r \in Locals /\ r.declared = declared
        BY <1>2 DEF Locals, TypeOK
    <2> HIDE DEF r
    <2>2. asm' = [asm EXCEPT ![a] = r]
        BY <1>3 DEF Begin, r
    <2>3. QED
        BY <1>3, <2>1, <2>2, AssemblyShape DEF Begin, TypeOK
<1>4. ASSUME NEW a \in Assemblies, FloorRead(a) PROVE TypeOK'
    <2> DEFINE r == [asm[a] EXCEPT !.phase = IF epic = "running" THEN "asking" ELSE "reading"]
    <2>1. r \in Locals /\ r.declared = asm[a].declared
        BY <1>2 DEF Locals
    <2> HIDE DEF r
    <2>2. asm' = [asm EXCEPT ![a] = r]
        BY <1>4 DEF FloorRead, r
    <2>3. QED
        BY <1>0, <1>4, <2>1, <2>2, AssemblyShape DEF FloorRead, TypeOK
<1>5. ASSUME NEW a \in Assemblies, EpicAnswers(a) PROVE TypeOK'
    <2>1. PICK parked \in SUBSET Stories :
            asm' = [asm EXCEPT ![a].phase = "reading", ![a].dispatched = TRUE,
                               ![a].live = [k \in Stories |-> IF k \in skewed THEN NULL
                                                             ELSE node[k]],
                               ![a].parked = parked]
        BY <1>5 DEF EpicAnswers
    <2> DEFINE live == [k \in Stories |-> IF k \in skewed THEN NULL ELSE node[k]]
               r == [asm[a] EXCEPT !.phase = "reading", !.dispatched = TRUE,
                                   !.live = live, !.parked = parked]
    <2>2. asm' = [asm EXCEPT ![a] = r]
        BY <2>1
    <2>3. live \in [Stories -> {NULL} \cup NodeStates]
        BY DEF TypeOK
    <2> HIDE DEF live
    <2>4. r \in Locals /\ r.declared = asm[a].declared
        BY <1>2, <2>3 DEF Locals
    <2> HIDE DEF r
    <2>5. QED
        BY <1>0, <1>5, <2>2, <2>4, AssemblyShape DEF EpicAnswers, TypeOK
<1>6. ASSUME NEW a \in Assemblies, LiveFails(a) PROVE TypeOK'
    <2> DEFINE r == [asm[a] EXCEPT !.phase = "reading", !.unread = TRUE]
    <2>1. r \in Locals /\ r.declared = asm[a].declared
        BY <1>2 DEF Locals
    <2>2. failures' \in 0..MaxFailures
        BY <1>6 DEF LiveFails, TypeOK
    <2> HIDE DEF r
    <2>3. asm' = [asm EXCEPT ![a] = r]
        BY <1>6 DEF LiveFails, r
    <2>4. QED
        BY <1>0, <1>6, <2>1, <2>2, <2>3, AssemblyShape DEF LiveFails, TypeOK
<1>7. ASSUME NEW a \in Assemblies, OtherSpec(a) PROVE TypeOK'
    <2> DEFINE r == [asm[a] EXCEPT !.head = HeadOf(a), !.seen = SeenBy(a)]
    <2>1. r \in Locals /\ r.declared = asm[a].declared
        BY <1>2, LandingShape DEF Locals
    <2> HIDE DEF r
    <2>2. asm' = [asm EXCEPT ![a] = r]
        BY <1>7 DEF OtherSpec, r
    <2>3. QED
        BY <1>0, <1>7, <2>1, <2>2, LandingShape, AssemblyShape DEF OtherSpec, TypeOK
<1>8. ASSUME NEW a \in Assemblies, asm[a].phase = "reading", NEW landing \in Heads,
             NEW failed \in SUBSET {"live", "landing"},
             entry' = [entry EXCEPT ![a] = Entry(asm[a], landing, failed)]
      PROVE  entry' \in [Assemblies -> {NULL} \cup Entries]
    <2>1. Entry(asm[a], landing, failed) \in Entries
        BY <1>2, <1>8, EntryWhere DEF TypeOK
    <2>2. QED
        BY <1>8, <2>1 DEF TypeOK
<1>9. ASSUME NEW a \in Assemblies, Finish(a) PROVE TypeOK'
    <2> DEFINE failed == IF asm[a].unread THEN {"live"} ELSE {}
    <2>0. failed \in SUBSET {"live", "landing"}
        OBVIOUS
    <2>1. entry' \in [Assemblies -> {NULL} \cup Entries]
        BY <1>8, <1>9, <2>0, LandingShape DEF Finish
    <2>2. memo' \in [head : Heads, facts : Heads]
        BY <1>9, LandingShape DEF Finish
    <2>3. QED
        BY <1>2, <1>9, <2>1, <2>2, AssemblyShape DEF Finish, TypeOK
<1>10. ASSUME NEW a \in Assemblies, FinishUnread(a) PROVE TypeOK'
    <2>1. NULL \in Heads
        BY DEF Heads
    <2> DEFINE failed == IF asm[a].unread THEN {"live", "landing"} ELSE {"landing"}
    <2>0. failed \in SUBSET {"live", "landing"}
        OBVIOUS
    <2>2. entry' \in [Assemblies -> {NULL} \cup Entries]
        BY <1>8, <1>10, <2>0, <2>1 DEF FinishUnread
    <2>3. memo' \in [head : Heads, facts : Heads] /\ failures' \in 0..MaxFailures
        BY <1>10, LandingShape DEF FinishUnread, TypeOK
    <2>4. QED
        BY <1>2, <1>10, <2>2, <2>3, AssemblyShape DEF FinishUnread, TypeOK
<1>11. ASSUME UNCHANGED vars PROVE TypeOK'
    BY <1>11 DEF vars, TypeOK
<1>12. QED
    BY <1>1, <1>3, <1>4, <1>5, <1>6, <1>7, <1>9, <1>10, <1>11 DEF Next, Assembling

\* Every reachable state has the shape TypeOK states: in particular every ladder the
\* room draws stands at one of the six stops or at none, and wears a chip of the table.
THEOREM EntriesWellFormed == Spec => []TypeOK
BY InitShape, ShapeStep, PTL DEF Spec

(* What lets the two sources stand in for one another *)

\* A node says MERGED only after its merge, and is never PENDING again once merged;
\* nothing merges before the epic is dispatched.
FactoryInv ==
    /\ \A k \in Stories : node[k] = "MERGED" => k \in merged
    /\ \A k \in merged : node[k] # "PENDING"
    /\ epic = "none" => merged = {}

\* What is remembered under a head holds all that the branch carried at that head,
\* and nothing the branch does not carry.
MemoInv ==
    memo.facts # NULL =>
        memo.head # NULL /\ memo.head \subseteq memo.facts /\ memo.facts \subseteq branch

\* What an assembly has read so far.
AsmInv(a) ==
    /\ asm[a].head # NULL => asm[a].head \subseteq branch
    /\ \A k \in Stories : asm[a].live[k] = "MERGED" => k \in merged
    /\ asm[a].phase # "idle" => \A k \in asm[a].witnessed : Placeable(k)
    /\ asm[a].phase = "floor" => asm[a].head = NULL /\ asm[a].live = Unnamed
    /\ asm[a].phase = "asking" =>
        /\ epic # "none"
        /\ asm[a].head # NULL => asm[a].witnessed \cap skewed \subseteq asm[a].head
    /\ asm[a].phase = "reading" /\ ~asm[a].unread =>
        \A k \in asm[a].witnessed :
            /\ asm[a].live[k] # "PENDING"
            /\ asm[a].live[k] = NULL =>
                k \in branch /\ (asm[a].head # NULL => k \in asm[a].head)

EntryInv(a) ==
    entry[a] # NULL =>
        /\ entry[a].landed \subseteq merged
        /\ "live" \notin entry[a].failed =>
            \A k \in entry[a].witnessed : entry[a].ladders[k].stop_key # "ready"

LadderInv ==
    FactoryInv /\ MemoInv /\ \A a \in Assemblies : AsmInv(a) /\ EntryInv(a)

LEMMA InitLadder == Init => LadderInv
<1> SUFFICES ASSUME Init PROVE LadderInv
    OBVIOUS
<1>1. FactoryInv /\ MemoInv
    BY DEF Init, FactoryInv, MemoInv
<1>2. ASSUME NEW a \in Assemblies PROVE AsmInv(a) /\ EntryInv(a)
    <2>1. asm[a] = Idle /\ entry[a] = NULL
        BY <1>2 DEF Init
    <2>2. \A k \in Stories : Unnamed[k] = NULL
        BY DEF Unnamed
    <2>3. NULL # "MERGED"
        BY ShowfloorAssumption
    <2>4. QED
        BY <2>1, <2>2, <2>3 DEF AsmInv, EntryInv, Idle
<1>3. QED
    BY <1>1, <1>2 DEF LadderInv

\* The factory and the checkout only add to what was true.
LEMMA WorldGrows ==
    ASSUME TypeOK, FactoryInv, World
    PROVE  /\ FactoryInv' /\ Meanwhile
           /\ merged \subseteq merged' /\ branch \subseteq branch'
           /\ branch' \subseteq Stories
           /\ epic # "none" => epic' # "none" /\ skewed' = skewed
<1> USE ShowfloorAssumption DEF TypeOK, FactoryInv
<1>1. Meanwhile
    BY DEF World, Dispatch, Advance, Merge, Notice, Fetch, Close, Attest
<1>2. CASE Dispatch
    BY <1>1, <1>2 DEF Dispatch
<1>3. CASE \E k \in Stories, state \in NodeStates : Advance(k, state)
    BY <1>1, <1>3 DEF Advance
<1>4. CASE \E k \in Stories : Merge(k)
    BY <1>1, <1>4 DEF Merge
<1>5. CASE \E k \in Stories : Notice(k)
    BY <1>1, <1>5 DEF Notice
<1>6. CASE \E k \in Stories : Fetch(k)
    BY <1>1, <1>6 DEF Fetch
<1>7. CASE Close
    BY <1>1, <1>7 DEF Close
<1>8. CASE Attest
    BY <1>1, <1>8 DEF Attest
<1>9. QED
    BY <1>2, <1>3, <1>4, <1>5, <1>6, <1>7, <1>8 DEF World

\* The world's steps keep what the process has read true.
LEMMA WorldLadder ==
    ASSUME TypeOK, LadderInv, World
    PROVE  LadderInv'
<1>1. /\ FactoryInv' /\ Meanwhile
      /\ merged \subseteq merged' /\ branch \subseteq branch'
      /\ branch' \subseteq Stories
      /\ epic # "none" => epic' # "none" /\ skewed' = skewed
    BY WorldGrows DEF LadderInv
<1>2. /\ \A a \in Assemblies :
            /\ asm'[a].phase = asm[a].phase /\ asm'[a].live = asm[a].live
            /\ asm'[a].head = asm[a].head /\ asm'[a].unread = asm[a].unread
            /\ asm'[a].witnessed = {k \in asm[a].witnessed : Placeable(k)'}
      /\ memo' = memo /\ entry' = entry
    BY <1>1, MeanwhileShape
<1>3. MemoInv'
    BY <1>1, <1>2 DEF LadderInv, MemoInv
<1>4. ASSUME NEW a \in Assemblies PROVE EntryInv(a)'
    BY <1>1, <1>2 DEF LadderInv, EntryInv
<1>5. ASSUME NEW a \in Assemblies PROVE AsmInv(a)'
    <2>1. AsmInv(a)
        BY DEF LadderInv
    <2>2. /\ asm'[a].head # NULL => asm'[a].head \subseteq branch'
          /\ \A k \in Stories : asm'[a].live[k] = "MERGED" => k \in merged'
          /\ asm'[a].phase = "floor" => asm'[a].head = NULL /\ asm'[a].live = Unnamed
        BY <1>1, <1>2, <2>1 DEF AsmInv
    <2>3. \A k \in asm'[a].witnessed : Placeable(k)' /\ k \in asm[a].witnessed
        BY <1>2
    <2>4. asm'[a].phase = "asking" =>
            /\ epic' # "none"
            /\ asm'[a].head # NULL => asm'[a].witnessed \cap skewed' \subseteq asm'[a].head
        BY <1>1, <1>2, <2>1, <2>3 DEF AsmInv
    <2>5. asm'[a].phase = "reading" /\ ~asm'[a].unread =>
            \A k \in asm'[a].witnessed :
                /\ asm'[a].live[k] # "PENDING"
                /\ asm'[a].live[k] = NULL =>
                    k \in branch' /\ (asm'[a].head # NULL => k \in asm'[a].head)
        BY <1>1, <1>2, <2>1, <2>3 DEF AsmInv
    <2>6. QED
        BY <2>2, <2>3, <2>4, <2>5 DEF AsmInv, Unnamed
<1>6. QED
    BY <1>1, <1>3, <1>4, <1>5 DEF LadderInv

\* What an assembly reads off the branch is landed, and holds what the branch carried
\* at the head it reads under.
LEMMA LandingSound ==
    ASSUME TypeOK, MemoInv, NEW a \in Assemblies,
           asm[a].head # NULL => asm[a].head \subseteq branch
    PROVE  /\ HeadOf(a) # NULL /\ HeadOf(a) \subseteq branch
           /\ asm[a].head = NULL => HeadOf(a) = branch
           /\ asm[a].head # NULL => HeadOf(a) = asm[a].head
           /\ LandingOf(a) # NULL
           /\ HeadOf(a) \subseteq LandingOf(a) /\ LandingOf(a) \subseteq branch
           /\ MemoAt(HeadOf(a)).facts # NULL =>
                /\ MemoAt(HeadOf(a)).head \subseteq MemoAt(HeadOf(a)).facts
                /\ MemoAt(HeadOf(a)).facts \subseteq branch
           /\ MemoAt(HeadOf(a)).head = HeadOf(a)
<1>1. /\ HeadOf(a) # NULL /\ HeadOf(a) \subseteq branch
      /\ asm[a].head = NULL => HeadOf(a) = branch
      /\ asm[a].head # NULL => HeadOf(a) = asm[a].head
    BY LandingShape DEF HeadOf
<1>2. /\ MemoAt(HeadOf(a)).head = HeadOf(a)
      /\ MemoAt(HeadOf(a)).facts # NULL =>
            /\ HeadOf(a) \subseteq MemoAt(HeadOf(a)).facts
            /\ MemoAt(HeadOf(a)).facts \subseteq branch
    BY DEF MemoAt, MemoInv
<1>3. QED
    BY <1>1, <1>2, LandingShape DEF LandingOf, Scan

\* A step of one assembly that keeps its own part of the invariant, and the memo's.
LEMMA AssemblyLadder ==
    ASSUME TypeOK, LadderInv, UNCHANGED world, NEW a \in Assemblies,
           MemoInv', AsmInv(a)', EntryInv(a)',
           \A b \in Assemblies \ {a} : asm'[b] = asm[b] /\ entry'[b] = entry[b]
    PROVE  LadderInv'
<1>1. ASSUME NEW b \in Assemblies \ {a} PROVE AsmInv(b)' /\ EntryInv(b)'
    BY DEF LadderInv, AsmInv, EntryInv, Placeable, Unnamed, world
<1>2. FactoryInv'
    BY DEF LadderInv, FactoryInv, world
<1>3. QED
    BY <1>1, <1>2 DEF LadderInv

\* Handing an entry over keeps what was claimed of entries.
LEMMA EntrySound ==
    ASSUME TypeOK, NEW a \in Assemblies, AsmInv(a), asm[a].phase = "reading",
           NEW landing \in Heads, NEW failed \in SUBSET {"live", "landing"},
           landing # NULL => landing \subseteq merged,
           "live" \notin failed /\ landing # NULL =>
                /\ ~asm[a].unread
                /\ asm[a].head = NULL => branch \subseteq landing
                /\ asm[a].head # NULL => asm[a].head \subseteq landing,
           "live" \notin failed => ~asm[a].unread
    PROVE  LET e == Entry(asm[a], landing, failed)
           IN  /\ e # NULL => e.landed \subseteq merged
               /\ "live" \notin e.failed =>
                    \A k \in e.witnessed : e.ladders[k].stop_key # "ready"
<1> DEFINE e == Entry(asm[a], landing, failed)
<1>1. asm[a] \in Locals /\ asm[a].declared \in {"ready", "landed"}
    BY DEF TypeOK
<1>2. /\ \A k \in Stories : e.ladders[k] = Story(k, asm[a], landing)
      /\ e.landed = {k \in Stories : Story(k, asm[a], landing).stop_key = "merged"}
      /\ e.failed = failed /\ e.witnessed = asm[a].witnessed
    BY <1>1, EntryWhere
<1>3. e.landed \subseteq merged
    BY <1>1, <1>2, StoryWhere DEF AsmInv
<1>4. ASSUME "live" \notin failed, NEW k \in asm[a].witnessed
      PROVE  e.ladders[k].stop_key # "ready"
    <2>1. k \in Stories
        BY <1>1 DEF Locals
    <2>2. /\ asm[a].live[k] # "PENDING"
          /\ asm[a].live[k] = NULL =>
                k \in branch /\ (asm[a].head # NULL => k \in asm[a].head)
        BY <1>4 DEF AsmInv
    <2>3. QED
        BY <1>1, <1>2, <1>4, <2>1, <2>2, StoryWhere
<1>5. QED
    BY <1>2, <1>3, <1>4

LEMMA LadderStep == TypeOK /\ LadderInv /\ [Next]_vars => LadderInv'
<1> SUFFICES ASSUME TypeOK, LadderInv, [Next]_vars PROVE LadderInv'
    OBVIOUS
<1> USE ShowfloorAssumption
<1>1. FactoryInv /\ MemoInv /\ \A a \in Assemblies : AsmInv(a) /\ EntryInv(a)
    BY DEF LadderInv
<1>2. ASSUME NEW a \in Assemblies
      PROVE  asm[a] \in Locals /\ asm \in [Assemblies -> Locals]
             /\ entry \in [Assemblies -> {NULL} \cup Entries]
    BY DEF TypeOK
<1>3. ASSUME NEW a \in Assemblies, Begin(a) PROVE LadderInv'
    <2>1. /\ asm'[a].phase = "floor" /\ asm'[a].head = NULL /\ asm'[a].live = Unnamed
          /\ asm'[a].witnessed = {k \in Stories : Placeable(k)}
        BY <1>2, <1>3 DEF Begin, Idle
    <2>2. \A k \in Stories : Unnamed[k] # "MERGED"
        BY DEF Unnamed
    <2>3. AsmInv(a)'
        BY <1>3, <2>1, <2>2 DEF Begin, AsmInv, Placeable, Unnamed, world
    <2>4. EntryInv(a)' /\ MemoInv'
        BY <1>1, <1>2, <1>3 DEF Begin, EntryInv, MemoInv, world
    <2>5. \A b \in Assemblies \ {a} : asm'[b] = asm[b] /\ entry'[b] = entry[b]
        BY <1>2, <1>3 DEF Begin
    <2>6. QED
        BY <1>3, <2>3, <2>4, <2>5, AssemblyLadder DEF Begin
<1>4. ASSUME NEW a \in Assemblies, UNCHANGED <<world, entry>>, MemoInv', AsmInv(a)',
             \A b \in Assemblies \ {a} : asm'[b] = asm[b]
      PROVE  LadderInv'
    <2>1. EntryInv(a)'
        BY <1>1, <1>4 DEF EntryInv, world
    <2>2. QED
        BY <1>4, <2>1, AssemblyLadder DEF world
<1>5. ASSUME NEW a \in Assemblies, FloorRead(a) PROVE LadderInv'
    <2>1. /\ asm'[a].phase = (IF epic = "running" THEN "asking" ELSE "reading")
          /\ asm'[a].head = asm[a].head /\ asm'[a].live = asm[a].live
          /\ asm'[a].witnessed = asm[a].witnessed
          /\ \A b \in Assemblies \ {a} : asm'[b] = asm[b]
        BY <1>2, <1>5 DEF FloorRead, Locals
    <2>2. /\ asm[a].head = NULL /\ \A k \in Stories : asm[a].live[k] = NULL
          /\ \A k \in asm[a].witnessed : Placeable(k) /\ k \in Stories
        BY <1>1, <1>2, <1>5 DEF FloorRead, AsmInv, Unnamed, Locals
    <2>3. UNCHANGED world
        BY <1>5 DEF FloorRead
    <2>4. AsmInv(a)'
        BY <2>1, <2>2, <2>3 DEF AsmInv, Placeable, world
    <2>5. MemoInv'
        BY <1>1, <1>5 DEF FloorRead, MemoInv, world
    <2>6. QED
        BY <1>4, <1>5, <2>1, <2>4, <2>5 DEF FloorRead
<1>6. ASSUME NEW a \in Assemblies, EpicAnswers(a) PROVE LadderInv'
    <2> DEFINE live == [k \in Stories |-> IF k \in skewed THEN NULL ELSE node[k]]
    <2>1. /\ asm'[a].phase = "reading" /\ asm'[a].live = live
          /\ asm'[a].head = asm[a].head /\ asm'[a].witnessed = asm[a].witnessed
          /\ \A b \in Assemblies \ {a} : asm'[b] = asm[b]
        <3>1. PICK parked :
                asm' = [asm EXCEPT ![a].phase = "reading", ![a].dispatched = TRUE,
                                   ![a].live = live, ![a].parked = parked]
            BY <1>6 DEF EpicAnswers
        <3> HIDE DEF live
        <3>2. QED
            BY <1>2, <3>1 DEF Locals
    <2>2. UNCHANGED world
        BY <1>6 DEF EpicAnswers
    <2>3. /\ asm[a].head # NULL => asm[a].head \subseteq branch
          /\ asm[a].head # NULL => asm[a].witnessed \cap skewed \subseteq asm[a].head
          /\ \A k \in asm[a].witnessed : Placeable(k) /\ k \in Stories
        BY <1>1, <1>2, <1>6 DEF EpicAnswers, AsmInv, Locals
    <2>4. \A k \in Stories : live[k] = "MERGED" => k \in merged
        BY <1>1 DEF FactoryInv
    <2>5. \A k \in asm[a].witnessed :
            /\ live[k] # "PENDING"
            /\ live[k] = NULL => k \in branch /\ k \in skewed
        <3>1. TAKE k \in asm[a].witnessed
        <3>2. k \in Stories /\ Placeable(k) /\ node[k] \in NodeStates
            BY <2>3 DEF TypeOK
        <3>3. CASE k \in skewed
            <4>1. live[k] = NULL
                BY <3>2, <3>3
            <4>2. k \in branch
                BY <3>2, <3>3 DEF Placeable
            <4>3. QED
                BY <3>3, <4>1, <4>2
        <3>4. CASE k \notin skewed
            <4>1. live[k] = node[k] /\ node[k] # NULL
                BY <3>2, <3>4
            <4>2. k \in branch => node[k] # "PENDING"
                BY <1>1 DEF FactoryInv, TypeOK
            <4>3. QED
                BY <3>2, <4>1, <4>2 DEF Placeable
        <3>5. QED
            BY <3>3, <3>4
    <2>6. AsmInv(a)'
        <3> HIDE DEF live
        <3> QED
            BY <2>1, <2>2, <2>3, <2>4, <2>5 DEF AsmInv, Placeable, world
    <2>7. MemoInv'
        BY <1>1, <1>6 DEF EpicAnswers, MemoInv, world
    <2>8. QED
        BY <1>4, <1>6, <2>1, <2>6, <2>7 DEF EpicAnswers
<1>7. ASSUME NEW a \in Assemblies, LiveFails(a) PROVE LadderInv'
    <2>1. /\ asm'[a].phase = "reading" /\ asm'[a].unread = TRUE
          /\ asm'[a].live = asm[a].live /\ asm'[a].head = asm[a].head
          /\ asm'[a].witnessed = asm[a].witnessed
          /\ \A b \in Assemblies \ {a} : asm'[b] = asm[b]
        BY <1>2, <1>7 DEF LiveFails, Locals
    <2>2. UNCHANGED world
        BY <1>7 DEF LiveFails
    <2>3. AsmInv(a)'
        BY <1>1, <1>7, <2>1, <2>2 DEF LiveFails, AsmInv, Placeable, world
    <2>4. MemoInv'
        BY <1>1, <1>7 DEF LiveFails, MemoInv, world
    <2>5. QED
        BY <1>4, <1>7, <2>1, <2>3, <2>4 DEF LiveFails
<1>8. ASSUME NEW a \in Assemblies
      PROVE  asm[a].head # NULL => asm[a].head \subseteq branch
    BY <1>1 DEF AsmInv
<1>9. ASSUME NEW a \in Assemblies, OtherSpec(a) PROVE LadderInv'
    <2>1. /\ asm'[a].phase = asm[a].phase /\ asm'[a].unread = asm[a].unread
          /\ asm'[a].live = asm[a].live /\ asm'[a].head = HeadOf(a)
          /\ asm'[a].witnessed = asm[a].witnessed
          /\ \A b \in Assemblies \ {a} : asm'[b] = asm[b]
        BY <1>2, <1>9 DEF OtherSpec, Locals
    <2>2. UNCHANGED world
        BY <1>9 DEF OtherSpec
    <2>3. /\ HeadOf(a) \subseteq branch
          /\ asm[a].head = NULL => HeadOf(a) = branch
          /\ asm[a].head # NULL => HeadOf(a) = asm[a].head
        BY <1>1, <1>8, LandingSound
    <2>4. asm[a].phase = "asking" =>
            epic # "none" /\ \A k \in asm[a].witnessed : Placeable(k)
        BY <1>1 DEF AsmInv
    <2>5. asm[a].phase = "asking" => asm[a].witnessed \cap skewed \subseteq HeadOf(a)
        BY <1>1, <2>3, <2>4 DEF AsmInv, Placeable
    <2>6. AsmInv(a)'
        <3>1. asm[a].phase = "asking" \/ asm[a].phase = "reading"
            BY <1>9 DEF OtherSpec
        <3>2. QED
            BY <1>1, <2>1, <2>2, <2>3, <2>5, <3>1 DEF AsmInv, Placeable, world
    <2>7. MemoInv'
        BY <1>1, <1>8, <1>9, <2>2, LandingSound DEF OtherSpec, MemoInv, world
    <2>8. QED
        BY <1>4, <1>9, <2>1, <2>6, <2>7 DEF OtherSpec
<1>10. ASSUME NEW a \in Assemblies, NEW landing \in Heads,
              NEW failed \in SUBSET {"live", "landing"}, UNCHANGED world,
              asm[a].phase = "reading",
              entry' = [entry EXCEPT ![a] = Entry(asm[a], landing, failed)],
              asm' = [asm EXCEPT ![a] = Idle], MemoInv',
              landing # NULL => landing \subseteq branch,
              "live" \notin failed => ~asm[a].unread,
              "live" \notin failed /\ landing # NULL =>
                    /\ asm[a].head = NULL => branch \subseteq landing
                    /\ asm[a].head # NULL => asm[a].head \subseteq landing
       PROVE  LadderInv'
    <2>1. asm'[a] = Idle /\ entry'[a] = Entry(asm[a], landing, failed)
          /\ \A b \in Assemblies \ {a} : asm'[b] = asm[b] /\ entry'[b] = entry[b]
        BY <1>2, <1>10
    <2>2. AsmInv(a)'
        <3>1. \A k \in Stories : Unnamed[k] # "MERGED"
            BY DEF Unnamed
        <3>2. QED
            BY <1>10, <2>1, <3>1 DEF AsmInv, Idle
    <2>3. landing # NULL => landing \subseteq merged
        BY <1>10 DEF TypeOK
    <2>4. EntryInv(a)'
        <3> DEFINE e == Entry(asm[a], landing, failed)
        <3>1. /\ e # NULL => e.landed \subseteq merged
              /\ "live" \notin e.failed =>
                    \A k \in e.witnessed : e.ladders[k].stop_key # "ready"
            BY <1>1, <1>10, <2>3, EntrySound
        <3> HIDE DEF e
        <3>2. entry'[a] = e
            BY <2>1 DEF e
        <3>3. QED
            BY <1>10, <3>1, <3>2 DEF EntryInv, world
    <2>5. QED
        BY <1>10, <2>1, <2>2, <2>4, AssemblyLadder
<1>11. ASSUME NEW a \in Assemblies, Finish(a) PROVE LadderInv'
    <2> DEFINE failed == IF asm[a].unread THEN {"live"} ELSE {}
    <2>1. failed \in SUBSET {"live", "landing"} /\ ("live" \notin failed => ~asm[a].unread)
        OBVIOUS
    <2>2. /\ LandingOf(a) \in Heads /\ LandingOf(a) # NULL
          /\ LandingOf(a) \subseteq branch /\ HeadOf(a) # NULL
          /\ HeadOf(a) \subseteq LandingOf(a)
          /\ asm[a].head = NULL => HeadOf(a) = branch
          /\ asm[a].head # NULL => HeadOf(a) = asm[a].head
        BY <1>1, <1>8, LandingShape, LandingSound
    <2>3. MemoInv'
        BY <1>11, <2>2 DEF Finish, MemoInv, world
    <2> HIDE DEF failed
    <2>4. entry' = [entry EXCEPT ![a] = Entry(asm[a], LandingOf(a), failed)]
        BY <1>11 DEF Finish, failed
    <2>5. /\ asm[a].head = NULL => branch \subseteq LandingOf(a)
          /\ asm[a].head # NULL => asm[a].head \subseteq LandingOf(a)
        BY <2>2
    <2>6. asm[a].phase = "reading" /\ asm' = [asm EXCEPT ![a] = Idle] /\ UNCHANGED world
        BY <1>11 DEF Finish
    <2>7. QED
        BY <1>10, <2>1, <2>2, <2>3, <2>4, <2>5, <2>6
<1>12. ASSUME NEW a \in Assemblies, FinishUnread(a) PROVE LadderInv'
    <2> DEFINE failed == IF asm[a].unread THEN {"live", "landing"} ELSE {"landing"}
    <2>1. failed \in SUBSET {"live", "landing"} /\ ("live" \notin failed => ~asm[a].unread)
        OBVIOUS
    <2>2. MemoInv'
        BY <1>1, <1>8, <1>12, LandingSound DEF FinishUnread, MemoInv, world
    <2> HIDE DEF failed
    <2>3. entry' = [entry EXCEPT ![a] = Entry(asm[a], NULL, failed)]
        BY <1>12 DEF FinishUnread, failed
    <2>4. NULL \in Heads
        BY DEF Heads
    <2>5. QED
        BY <1>10, <1>12, <2>1, <2>2, <2>3, <2>4 DEF FinishUnread
<1>13. ASSUME World PROVE LadderInv'
    BY <1>13, WorldLadder
<1>14. ASSUME UNCHANGED vars PROVE LadderInv'
    BY <1>1, <1>14
    DEF vars, LadderInv, FactoryInv, MemoInv, AsmInv, EntryInv, Placeable, Unnamed
<1>15. QED
    BY <1>3, <1>5, <1>6, <1>7, <1>9, <1>11, <1>12, <1>13, <1>14 DEF Next, Assembling

LEMMA LadderAlways == Spec => []LadderInv
BY InitShape, InitLadder, ShapeStep, LadderStep, PTL DEF Spec

(* What the room may rely on *)

\* What any entry counts as landed has landed upstream, whatever the frontmatter
\* claims, whoever filled the memo and whichever reads failed (_story, _rail_chip).
THEOREM NothingLandsUnlanded == Spec => []LandedIsTrue
<1>1. LadderInv => LandedIsTrue
    BY DEF LadderInv, EntryInv, LandedIsTrue
<1>2. QED
    BY <1>1, LadderAlways, PTL

\* A story that one of its two sources could place throughout an assembly whose live
\* read was made is not drawn as never started: asking the epic before the branch, and
\* resolving the head after it, is enough for any number of assemblies (_assemble_spec).
THEOREM NothingFallsBetween == Spec => []PlacedThroughout
<1>1. LadderInv => PlacedThroughout
    BY DEF LadderInv, EntryInv, PlacedThroughout
<1>2. QED
    BY <1>1, LadderAlways, PTL

(* The memo is a read of one moment *)

\* The branch has been, since a fixed its head, all that a has seen; and what the memo
\* holds under that head is of a moment a has seen, whoever scanned it.  A branch that
\* only grows never comes back to a head it left, so facts scanned later than the head
\* they are kept under are only ever read by assemblies that were reading already.
SeenInv(a) ==
    /\ asm[a].seen = {} <=> asm[a].head = NULL
    /\ asm[a].phase \in {"idle", "floor"} => asm[a].head = NULL
    /\ asm[a].head # NULL => branch \in asm[a].seen
    /\ asm[a].head # NULL /\ memo.head = asm[a].head /\ memo.facts # NULL =>
            memo.facts \in asm[a].seen

MomentInv == \A a \in Assemblies : SeenInv(a)

\* An assembly that has no head yet may take one whose facts are in the memo: they are
\* the branch as it stands.  So it reads a moment of its own in either case.
LEMMA ReadInSpan ==
    ASSUME TypeOK, MemoInv, NEW a \in Assemblies, SeenInv(a),
           asm[a].head # NULL => asm[a].head \subseteq branch
    PROVE  /\ HeadOf(a) # NULL /\ SeenBy(a) # {}
           /\ branch \in SeenBy(a)
           /\ LandingOf(a) \in SeenBy(a) /\ LandingOf(a) \in SUBSET Stories
           /\ MemoAt(HeadOf(a)).facts # NULL => MemoAt(HeadOf(a)).facts \in SeenBy(a)
<1>1. HeadOf(a) # NULL /\ LandingOf(a) # NULL /\ LandingOf(a) \in Heads
    BY LandingShape
<1>2. branch \in SeenBy(a)
    BY DEF SeenBy, SeenInv
<1>3. ASSUME MemoAt(HeadOf(a)).facts # NULL
      PROVE  MemoAt(HeadOf(a)).facts \in SeenBy(a)
    <2>1. MemoAt(HeadOf(a)) = memo /\ memo.head = HeadOf(a) /\ memo.facts # NULL
        BY <1>3 DEF MemoAt
    <2>2. CASE asm[a].head = NULL
        <3>1. branch \subseteq memo.facts /\ memo.facts \subseteq branch
            BY <2>1, <2>2 DEF HeadOf, MemoInv
        <3>2. memo.facts = branch
            BY <3>1
        <3>3. QED
            BY <1>2, <2>1, <3>2
    <2>3. CASE asm[a].head # NULL
        BY <2>1, <2>3 DEF HeadOf, SeenBy, SeenInv
    <2>4. QED
        BY <2>2, <2>3
<1>4. LandingOf(a) \in SeenBy(a)
    BY <1>2, <1>3 DEF LandingOf, Scan
<1>5. QED
    BY <1>1, <1>2, <1>3, <1>4 DEF Heads

\* The memo is left as it was, or emptied, or filled with the branch as it stands: then
\* what the others may find in it is still of a moment they have seen.
LEMMA MemoMoves ==
    ASSUME MomentInv, NEW a \in Assemblies, UNCHANGED branch,
           \A b \in Assemblies \ {a} : asm'[b] = asm[b],
           memo'.facts # NULL =>
                memo' = memo \/ memo'.facts = branch,
           SeenInv(a)'
    PROVE  MomentInv'
<1>1. ASSUME NEW b \in Assemblies \ {a} PROVE SeenInv(b)'
    BY DEF MomentInv, SeenInv
<1>2. QED
    BY <1>1 DEF MomentInv

LEMMA MomentStep == TypeOK /\ LadderInv /\ MomentInv /\ [Next]_vars => MomentInv'
<1> SUFFICES ASSUME TypeOK, LadderInv, MomentInv, [Next]_vars PROVE MomentInv'
    OBVIOUS
<1> USE ShowfloorAssumption
<1>1. ASSUME NEW a \in Assemblies
      PROVE  /\ SeenInv(a) /\ MemoInv
             /\ asm[a].head # NULL => asm[a].head \subseteq branch
             /\ asm[a] \in Locals /\ asm \in [Assemblies -> Locals]
    BY DEF MomentInv, LadderInv, AsmInv, TypeOK
<1>2. ASSUME World PROVE MomentInv'
    <2>1. /\ memo' = memo /\ branch' \subseteq Stories
          /\ \A a \in Assemblies :
                /\ asm'[a].phase = asm[a].phase /\ asm'[a].head = asm[a].head
                /\ asm'[a].seen = IF asm[a].seen = {} THEN {} ELSE asm[a].seen \cup {branch'}
        BY <1>2, WorldGrows, MeanwhileShape DEF LadderInv
    <2>2. QED
        BY <2>1 DEF MomentInv, SeenInv
<1>3. ASSUME NEW a \in Assemblies, Begin(a) PROVE MomentInv'
    <2>1. asm'[a].head = NULL /\ asm'[a].seen = {}
          /\ \A b \in Assemblies \ {a} : asm'[b] = asm[b]
        BY <1>1, <1>3 DEF Begin, Idle
    <2>2. SeenInv(a)'
        BY <2>1 DEF SeenInv
    <2>3. QED
        BY <1>3, <2>1, <2>2, MemoMoves DEF Begin, world
<1>4. ASSUME NEW a \in Assemblies, UNCHANGED <<branch, memo>>,
             asm'[a].head = asm[a].head, asm'[a].seen = asm[a].seen,
             asm'[a].phase \in {"asking", "reading"},
             \A b \in Assemblies \ {a} : asm'[b] = asm[b]
      PROVE  MomentInv'
    <2>1. SeenInv(a)'
        BY <1>1, <1>4 DEF SeenInv
    <2>2. QED
        BY <1>4, <2>1, MemoMoves
<1>5. ASSUME NEW a \in Assemblies, FloorRead(a) PROVE MomentInv'
    <2>1. /\ asm'[a].phase = (IF epic = "running" THEN "asking" ELSE "reading")
          /\ asm'[a].head = asm[a].head /\ asm'[a].seen = asm[a].seen
          /\ \A b \in Assemblies \ {a} : asm'[b] = asm[b]
        BY <1>1, <1>5 DEF FloorRead, Locals
    <2>2. QED
        BY <1>4, <1>5, <2>1 DEF FloorRead, world
<1>6. ASSUME NEW a \in Assemblies, EpicAnswers(a) PROVE MomentInv'
    <2> DEFINE live == [k \in Stories |-> IF k \in skewed THEN NULL ELSE node[k]]
    <2>1. PICK parked :
            asm' = [asm EXCEPT ![a].phase = "reading", ![a].dispatched = TRUE,
                               ![a].live = live, ![a].parked = parked]
        BY <1>6 DEF EpicAnswers
    <2> HIDE DEF live
    <2>2. /\ asm'[a].phase = "reading"
          /\ asm'[a].head = asm[a].head /\ asm'[a].seen = asm[a].seen
          /\ \A b \in Assemblies \ {a} : asm'[b] = asm[b]
        BY <1>1, <2>1 DEF Locals
    <2>3. QED
        BY <1>4, <1>6, <2>2 DEF EpicAnswers, world
<1>7. ASSUME NEW a \in Assemblies, LiveFails(a) PROVE MomentInv'
    <2>1. /\ asm'[a].phase = "reading"
          /\ asm'[a].head = asm[a].head /\ asm'[a].seen = asm[a].seen
          /\ \A b \in Assemblies \ {a} : asm'[b] = asm[b]
        BY <1>1, <1>7 DEF LiveFails, Locals
    <2>2. QED
        BY <1>4, <1>7, <2>1 DEF LiveFails, world
<1>8. ASSUME NEW a \in Assemblies, OtherSpec(a) PROVE MomentInv'
    <2>1. /\ asm'[a].phase = asm[a].phase /\ asm[a].phase \in {"asking", "reading"}
          /\ asm'[a].head = HeadOf(a) /\ asm'[a].seen = SeenBy(a)
          /\ \A b \in Assemblies \ {a} : asm'[b] = asm[b]
          /\ memo' = MemoAt(HeadOf(a)) /\ branch' = branch
        BY <1>1, <1>8 DEF OtherSpec, Locals, world
    <2>2. SeenInv(a)'
        BY <1>1, <2>1, ReadInSpan DEF SeenInv
    <2>3. memo'.facts # NULL => memo' = memo
        BY <2>1 DEF MemoAt
    <2>4. QED
        BY <2>1, <2>2, <2>3, MemoMoves
<1>9. ASSUME NEW a \in Assemblies, asm' = [asm EXCEPT ![a] = Idle]
      PROVE  SeenInv(a)' /\ \A b \in Assemblies \ {a} : asm'[b] = asm[b]
    BY <1>1, <1>9 DEF SeenInv, Idle
<1>10. ASSUME NEW a \in Assemblies, Finish(a) PROVE MomentInv'
    <2>1. /\ memo' = [head |-> HeadOf(a), facts |-> LandingOf(a)]
          /\ asm' = [asm EXCEPT ![a] = Idle] /\ branch' = branch
        BY <1>10 DEF Finish, world
    <2>2. LandingOf(a) = branch \/ memo' = memo
        BY <2>1 DEF LandingOf, Scan, MemoAt, TypeOK
    <2>3. QED
        BY <1>9, <2>1, <2>2, MemoMoves
<1>11. ASSUME NEW a \in Assemblies, FinishUnread(a) PROVE MomentInv'
    <2>1. /\ memo' \in {memo, MemoAt(HeadOf(a))}
          /\ asm' = [asm EXCEPT ![a] = Idle] /\ branch' = branch
        BY <1>11 DEF FinishUnread, world
    <2>2. memo'.facts # NULL => memo' = memo
        BY <2>1 DEF MemoAt
    <2>3. QED
        BY <1>9, <2>1, <2>2, MemoMoves
<1>12. ASSUME UNCHANGED vars PROVE MomentInv'
    BY <1>12 DEF vars, MomentInv, SeenInv
<1>13. QED
    BY <1>2, <1>3, <1>5, <1>6, <1>7, <1>8, <1>10, <1>11, <1>12 DEF Next, Assembling

LEMMA MomentAlways == Spec => []MomentInv
<1>1. Init => MomentInv
    BY DEF Init, MomentInv, SeenInv, Idle
<1>2. QED
    BY <1>1, MomentStep, EntriesWellFormed, LadderAlways, PTL DEF Spec

\* What the abstract specification sees of the assemblies and of the entries.
Opened == [a \in Assemblies |-> asm[a].seen]
Given == [a \in Assemblies |-> IF entry[a] = NULL THEN NULL ELSE entry[a].landing]

\* Handing an entry over gives the answer it was built of.
LEMMA Gives ==
    ASSUME TypeOK, NEW a \in Assemblies, asm[a].phase = "reading", NEW landing \in Heads,
           NEW failed \in SUBSET {"live", "landing"},
           entry' = [entry EXCEPT ![a] = Entry(asm[a], landing, failed)],
           asm' = [asm EXCEPT ![a] = Idle]
    PROVE  /\ Given' = [Given EXCEPT ![a] = landing]
           /\ Opened' = [Opened EXCEPT ![a] = {}]
<1>1. /\ entry'[a] \in Entries /\ entry'[a].landing = landing /\ asm'[a].seen = {}
      /\ \A b \in Assemblies \ {a} : entry'[b] = entry[b] /\ asm'[b] = asm[b]
    <2>1. asm[a] \in Locals /\ asm[a].declared \in {"ready", "landed"}
        BY ShowfloorAssumption DEF TypeOK
    <2>2. /\ Entry(asm[a], landing, failed) \in Entries
          /\ Entry(asm[a], landing, failed).landing = landing
        BY <2>1, EntryWhere
    <2>3. QED
        BY <2>2 DEF TypeOK, Idle
<1>2. entry'[a] # NULL
    BY <1>1, EntryAssumption
<1>3. Opened' = [Opened EXCEPT ![a] = {}]
    <2>1. \A b \in Assemblies : Opened'[b] = IF b = a THEN {} ELSE Opened[b]
        BY <1>1 DEF Opened
    <2>2. QED
        BY <2>1 DEF Opened
<1>4. \A b \in Assemblies : Given'[b] = IF b = a THEN landing ELSE Given[b]
    BY <1>1, <1>2 DEF Given
<1>5. Given' = [Given EXCEPT ![a] = landing]
    BY <1>4 DEF Given
<1>6. QED
    BY <1>3, <1>5

LEMMA ReadStep ==
    TypeOK /\ LadderInv /\ MomentInv /\ [Next]_vars => [Reads!Next]_Reads!abstractVars
<1> SUFFICES ASSUME TypeOK, LadderInv, MomentInv, [Next]_vars
             PROVE  \/ Reads!Next
                    \/ UNCHANGED <<branch, Opened, Given>>
    BY DEF Reads!abstractVars, Opened, Given
<1> USE ShowfloorAssumption
<1>1. ASSUME NEW a \in Assemblies
      PROVE  /\ SeenInv(a) /\ MemoInv
             /\ asm[a].head # NULL => asm[a].head \subseteq branch
             /\ asm[a] \in Locals /\ asm \in [Assemblies -> Locals]
             /\ entry \in [Assemblies -> {NULL} \cup Entries]
    BY DEF MomentInv, LadderInv, AsmInv, TypeOK
<1>2. ASSUME World PROVE Reads!Next
    <2>1. /\ branch \subseteq branch' /\ branch' \subseteq Stories /\ entry' = entry
          /\ \A a \in Assemblies :
                asm'[a].seen = IF asm[a].seen = {} THEN {} ELSE asm[a].seen \cup {branch'}
        BY <1>2, WorldGrows, MeanwhileShape DEF LadderInv
    <2>2. /\ Opened' = [a \in Assemblies |->
                IF Opened[a] = {} THEN {} ELSE Opened[a] \cup {branch'}]
          /\ UNCHANGED Given
        BY <2>1 DEF Opened, Given
    <2>3. PICK carried \in SUBSET Stories : carried = branch'
        BY <2>1
    <2>4. Reads!MoveOn(carried)
        BY <2>1, <2>2, <2>3 DEF Reads!MoveOn, Opened, Given
    <2>5. QED
        BY <2>4 DEF Reads!Next
<1>3. ASSUME NEW a \in Assemblies, Begin(a) PROVE Reads!Next
    <2>1. /\ asm'[a].seen = {} /\ entry'[a] = NULL /\ UNCHANGED branch
          /\ \A b \in Assemblies \ {a} : asm'[b] = asm[b] /\ entry'[b] = entry[b]
        BY <1>1, <1>3 DEF Begin, Idle, world
    <2>2. /\ Opened' = [Opened EXCEPT ![a] = {}]
          /\ Given' = [Given EXCEPT ![a] = NULL]
        BY <2>1 DEF Opened, Given
    <2>3. Reads!Refuse(a)
        BY <2>1, <2>2 DEF Reads!Refuse, Opened, Given
    <2>4. QED
        BY <2>3 DEF Reads!Next
<1>4. ASSUME NEW a \in Assemblies, FloorRead(a) \/ EpicAnswers(a) \/ LiveFails(a)
      PROVE  UNCHANGED <<branch, Opened, Given>>
    <2>1. \A b \in Assemblies : asm'[b].seen = asm[b].seen
        <3>1. CASE FloorRead(a)
            BY <1>1, <3>1 DEF FloorRead, Locals
        <3>2. CASE LiveFails(a)
            BY <1>1, <3>2 DEF LiveFails, Locals
        <3>3. CASE EpicAnswers(a)
            <4> DEFINE live == [k \in Stories |-> IF k \in skewed THEN NULL ELSE node[k]]
            <4>1. PICK parked :
                    asm' = [asm EXCEPT ![a].phase = "reading", ![a].dispatched = TRUE,
                                       ![a].live = live, ![a].parked = parked]
                BY <3>3 DEF EpicAnswers
            <4> HIDE DEF live
            <4>2. QED
                BY <1>1, <4>1 DEF Locals
        <3>4. QED
            BY <1>4, <3>1, <3>2, <3>3
    <2>2. UNCHANGED <<branch, entry>>
        BY <1>4 DEF FloorRead, EpicAnswers, LiveFails, world
    <2>3. QED
        BY <2>1, <2>2 DEF Opened, Given
<1>5. ASSUME NEW a \in Assemblies, OtherSpec(a)
      PROVE  Reads!Next \/ UNCHANGED <<branch, Opened, Given>>
    <2>1. /\ asm'[a].seen = SeenBy(a) /\ UNCHANGED <<branch, entry>>
          /\ \A b \in Assemblies \ {a} : asm'[b] = asm[b]
        BY <1>1, <1>5 DEF OtherSpec, Locals, world
    <2>2. CASE asm[a].head = NULL
        <3>1. asm[a].seen = {} /\ SeenBy(a) = {branch}
            BY <1>1, <2>2 DEF SeenInv, SeenBy
        <3>2. /\ Opened[a] = {} /\ Opened' = [Opened EXCEPT ![a] = {branch}]
              /\ UNCHANGED Given
            BY <2>1, <3>1 DEF Opened, Given
        <3>3. Reads!Open(a)
            BY <2>1, <3>2 DEF Reads!Open, Opened, Given
        <3>4. QED
            BY <3>3 DEF Reads!Next
    <2>3. CASE asm[a].head # NULL
        <3>1. SeenBy(a) = asm[a].seen
            BY <2>3 DEF SeenBy
        <3>2. QED
            BY <2>1, <3>1 DEF Opened, Given
    <2>4. QED
        BY <2>2, <2>3
<1>6. ASSUME NEW a \in Assemblies, Finish(a) PROVE Reads!Next
    <2> DEFINE failed == IF asm[a].unread THEN {"live"} ELSE {}
    <2>1. failed \in SUBSET {"live", "landing"}
        OBVIOUS
    <2> HIDE DEF failed
    <2>2. /\ asm[a].phase = "reading" /\ asm' = [asm EXCEPT ![a] = Idle] /\ UNCHANGED branch
          /\ entry' = [entry EXCEPT ![a] = Entry(asm[a], LandingOf(a), failed)]
        BY <1>6 DEF Finish, failed, world
    <2>3. LandingOf(a) \in SeenBy(a) /\ LandingOf(a) \in SUBSET Stories
        BY <1>1, ReadInSpan
    <2>4. /\ Given' = [Given EXCEPT ![a] = LandingOf(a)]
          /\ Opened' = [Opened EXCEPT ![a] = {}]
        BY <2>1, <2>2, LandingShape, Gives
    <2>5. SeenBy(a) = IF Opened[a] = {} THEN {branch} ELSE Opened[a]
        BY <1>1 DEF SeenBy, SeenInv, Opened
    <2>6. PICK carried \in SUBSET Stories : carried = LandingOf(a)
        BY <2>3
    <2>7. Reads!Answer(a, carried)
        BY <2>2, <2>3, <2>4, <2>5, <2>6 DEF Reads!Answer, Opened, Given
    <2>8. QED
        BY <2>7 DEF Reads!Next
<1>7. ASSUME NEW a \in Assemblies, FinishUnread(a) PROVE Reads!Next
    <2> DEFINE failed == IF asm[a].unread THEN {"live", "landing"} ELSE {"landing"}
    <2>1. failed \in SUBSET {"live", "landing"} /\ NULL \in Heads
        BY DEF Heads
    <2> HIDE DEF failed
    <2>2. /\ asm[a].phase = "reading" /\ asm' = [asm EXCEPT ![a] = Idle] /\ UNCHANGED branch
          /\ entry' = [entry EXCEPT ![a] = Entry(asm[a], NULL, failed)]
        BY <1>7 DEF FinishUnread, failed, world
    <2>3. /\ Given' = [Given EXCEPT ![a] = NULL]
          /\ Opened' = [Opened EXCEPT ![a] = {}]
        BY <2>1, <2>2, Gives
    <2>4. Reads!Refuse(a)
        BY <2>2, <2>3 DEF Reads!Refuse, Opened, Given
    <2>5. QED
        BY <2>4 DEF Reads!Next
<1>8. CASE UNCHANGED vars
    BY <1>8 DEF vars, Opened, Given
<1>9. QED
    BY <1>2, <1>3, <1>4, <1>5, <1>6, <1>7, <1>8 DEF Next, Assembling

\* The memo is no more than a read of the branch: for any number of assemblies, however
\* their steps and the branch's interleave, each entry's landing facts are the branch at
\* one moment of the assembly that read them (LandingReader, AssemblyLanding).
THEOREM MemoIsARead == Spec => ReadsOneMoment
<1>1. Init => Reads!Init
    <2> SUFFICES ASSUME Init PROVE Reads!Init
        OBVIOUS
    <2>1. \A a \in Assemblies : asm[a].seen = {} /\ entry[a] = NULL
        BY DEF Init, Idle
    <2>2. QED
        BY <2>1 DEF Init, Reads!Init
<1>2. QED
    BY <1>1, ReadStep, EntriesWellFormed, LadderAlways, MomentAlways, PTL
    DEF Spec, ReadsOneMoment, Reads!Spec
=================================================================================
