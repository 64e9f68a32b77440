------------------------------- MODULE DeskProofs -------------------------------
(***************************************************************************)
(* What holds of the Desk over the backend core, for every number of items,  *)
(* streams, handlers, drops, reloads, restarts and failed reads.             *)
(***************************************************************************)
EXTENDS Desk, AttentionProofs

(* The shape of the assemblies and of the rooms *)

RowRecords ==
    [offers : SUBSET Choices, ruling : Rulings \cup {NULL}, signal : Signals \cup {NULL},
     pressed : Choices \cup {NULL}]

\* Rows as an assembly has read them: of the items, and the Notices' under their ids.
Tables ==
    {t \in UNION {[held -> RowRecords \cup {<<>>}] : held \in SUBSET Ids} :
        \A i \in DOMAIN t \cap Items : t[i] \in RowRecords}

\* Assembled items, each under the id it carries.
Documents ==
    {d \in UNION {[held -> Envelopes] : held \in SUBSET Ids} : \A i \in DOMAIN d : d[i].id = i}

Asms ==
    [phase : {"idle", "floor", "listing", "joining", "built"}, flights : SUBSET Items,
     read : BOOLEAN, rows : Tables, items : Documents]

\* DeskTypeOK as an induction needs it: an assembly's rows are rows, which Join turns
\* into items.
DeskShape ==
    /\ asm \in [Readers -> Asms]
    /\ doc \in [Streams -> Documents \cup {NULL}]
    /\ first \in [Streams -> {"loading", "landed", "failed"}]
    /\ pending \in [Streams -> [Items -> Calls \cup {NULL}]]
    /\ trusted \in [Streams -> BOOLEAN]

\* A queue nobody is subscribed to is empty: a reload that finds no stream to drop
\* changes nothing of the core.
ClosedQueuesEmpty == \A s \in Streams \ open : queue[s] = <<>>

---------------------------------------------------------------------------------
(* What a room is behind by *)

\* An event of i is still to be taken from q.
Announced(q, i) == \E k \in DOMAIN q : q[k].id = i

\* v is the table's row of i, whatever was in flight and known when it was assembled.
Drawn(v, i) == \E b \in BOOLEAN, known \in BOOLEAN : v = ItemView(i, Row(i), b, known)

\* items draws i as its row is, or leaves out an item the factory has resolved.
Accounted(items, i) == IF i \in DOMAIN items THEN Drawn(items[i], i) ELSE i \in resolved

\* Rows read for stream s: each is the table's, or an event that tells of it is queued.
RowsBehind(s, rows) ==
    /\ \A i \in stored : Announced(queue[s], i) \/ (i \in DOMAIN rows /\ rows[i] = Row(i))
    /\ \A k \in 1..notices :
        Announced(queue[s], <<"notice", k>>) \/ <<"notice", k>> \in DOMAIN rows

\* The same of a document.
ItemsBehind(s, items) ==
    /\ \A i \in stored : Announced(queue[s], i) \/ Accounted(items, i)
    /\ \A k \in 1..notices :
        Announced(queue[s], <<"notice", k>>) \/ <<"notice", k>> \in DOMAIN items

\* What becomes the truth about the table once the queue is drained: the rows of an
\* assembly under way, then its items, then the document of the room.  CaughtUpDeskIsTrue
\* speaks of the empty queue alone, and says nothing of how it got there.
Behind(s) ==
    LET a == asm[Poll(s)]
    IN  /\ a.phase = "joining" /\ a.read => RowsBehind(s, a.rows)
        /\ a.phase = "built" /\ a.read => ItemsBehind(s, a.items)
        /\ a.phase = "idle" /\ trusted[s] => ItemsBehind(s, doc[s])

BehindTheQueue == \A s \in open : Behind(s)

---------------------------------------------------------------------------------
(* The composition takes the core's steps, and no others *)

\* A step of the core keeps the queues nobody reads empty.
LEMMA ClosedStep == ASSUME TypeOK, ClosedQueuesEmpty, [Next]_vars PROVE ClosedQueuesEmpty'
<1>1. ASSUME NEW e, queue' = Fanout(e), open' = open PROVE ClosedQueuesEmpty'
    BY <1>1 DEF Fanout, ClosedQueuesEmpty
<1>2. CASE UNCHANGED <<open, queue>>
    BY <1>2 DEF ClosedQueuesEmpty
<1>3. ASSUME NEW i \in Items, NEW offered \in SUBSET Choices, Deliver(i, offered)
      PROVE  ClosedQueuesEmpty'
    BY <1>1, <1>2, <1>3 DEF Deliver
<1>4. CASE DeliverNotice
    BY <1>1, <1>4 DEF DeliverNotice
<1>5. ASSUME NEW c \in Calls, Finish(c) PROVE ClosedQueuesEmpty'
    <2>1. CASE UNCHANGED <<open, queue>>
        BY <1>2, <2>1
    <2>2. CASE open' = open /\ \E i \in Items : PublishItem(i)
        BY <1>1, <2>2 DEF PublishItem
    <2>3. QED
        BY <1>5, <2>1, <2>2 DEF Finish, RecordRuling, RecordPress, RecordPressAs, Abandon
<1>6. ASSUME NEW s \in Streams, Subscribe(s) \/ Take(s) \/ Unsubscribe(s)
      PROVE  ClosedQueuesEmpty'
    BY <1>6 DEF Subscribe, Take, Unsubscribe, ClosedQueuesEmpty, TypeOK
<1>7. CASE Crash
    BY <1>7 DEF Crash, ClosedQueuesEmpty
<1>8. QED
    BY <1>2, <1>3, <1>4, <1>5, <1>6, <1>7
    DEF Next, CallEnds, vars, Arrive, Refuse, Submit, CallAnswered, ReplyLost, CallLost,
        FactorySettles, OrphanArrives, OrphanLost

\* Every step of the Desk is one of the core's, or leaves the core alone.
LEMMA CoreStep ==
    ASSUME TypeOK, ClosedQueuesEmpty, [DeskNext]_deskVars
    PROVE  [Next]_vars
<1>1. CASE Backend
    BY <1>1 DEF Backend, Next
<1>2. ASSUME NEW r \in Readers, Assembling(r) \/ StoreUnread(r) PROVE UNCHANGED vars
    BY <1>2 DEF Assembling, Snapshot, ListRows, Join, StoreUnread, List, Assemble, core
<1>3. ASSUME NEW s \in Streams, Connect(s) \/ Upsert(s) \/ Drop(s)
      PROVE  Next
    BY <1>3 DEF Connect, Upsert, Drop, Next
<1>4. ASSUME NEW s \in Streams, Deadline(s) \/ Emit(s) \/ Land(s) \/ GetFails(s)
      PROVE  UNCHANGED vars
    BY <1>4 DEF Deadline, Emit, Land, GetFails, Assemble, core
<1>5. ASSUME NEW s \in Streams, Reload(s) PROVE Next \/ UNCHANGED vars
    <2>1. /\ open' = open \ {s} /\ queue' = [queue EXCEPT ![s] = <<>>]
          /\ UNCHANGED <<row, registry, handlers, factory, bounds>>
        BY <1>5 DEF Reload
    <2>2. CASE s \in open
        BY <2>1, <2>2 DEF Unsubscribe, Next
    <2>3. CASE s \notin open
        <3>1. queue[s] = <<>> /\ queue \in [Streams -> Seq(Envelopes)]
            BY <2>3 DEF ClosedQueuesEmpty, TypeOK
        <3>2. queue' = queue /\ open' = open
            BY <2>1, <2>3, <3>1
        <3>3. QED
            BY <2>1, <3>2 DEF vars, row, handlers, factory, bounds
    <2>4. QED
        BY <2>2, <2>3
<1>6. ASSUME NEW s \in Streams, NEW i \in Items, Release(s, i) PROVE UNCHANGED vars
    BY <1>6 DEF Release, core
<1>7. ASSUME NEW s \in Streams, NEW i \in Items, NEW c \in Calls, Press(s, i, c) PROVE Next
    BY <1>7 DEF Press, Next
<1>8. CASE Restart
    BY <1>8 DEF Restart, Next
<1>9. CASE UNCHANGED deskVars
    BY <1>9 DEF deskVars, core
<1>10. QED
    BY <1>1, <1>2, <1>3, <1>4, <1>5, <1>6, <1>7, <1>8, <1>9 DEF DeskNext

LEMMA DeskIsClosed == DeskSpec => [](TypeOK /\ ClosedQueuesEmpty)
<1>1. DeskInit => TypeOK /\ ClosedQueuesEmpty
    BY InitType DEF DeskInit, Init, ClosedQueuesEmpty
<1>2. ASSUME TypeOK, ClosedQueuesEmpty, [DeskNext]_deskVars
      PROVE  TypeOK' /\ ClosedQueuesEmpty'
    BY <1>2, CoreStep, TypeStep, ClosedStep
<1>3. QED
    BY <1>1, <1>2, PTL DEF DeskSpec

\* The Desk, its streams and its presses run the backend core, and nothing else runs it:
\* whatever the core promises alone it promises under any number of Desks.
THEOREM DeskRunsTheCore == DeskSpec => Spec
<1>1. DeskInit => Init
    BY DEF DeskInit
<1>2. QED
    BY <1>1, DeskIsClosed, CoreStep, PTL DEF DeskSpec, Spec

---------------------------------------------------------------------------------
(* The shape of the Desk *)

LEMMA NothingAssembled == <<>> \in Documents /\ <<>> \in Tables /\ Idle \in Asms
<1>1. \A S : <<>> \in [{} -> S]
    OBVIOUS
<1>2. <<>> \in Documents
    BY <1>1 DEF Documents
<1>3. <<>> \in Tables
    BY <1>1 DEF Tables
<1>4. QED
    BY <1>2, <1>3 DEF Idle, Asms

LEMMA NoDocument == NULL \notin Documents
    BY RoomAssumption DEF Documents

\* One part of an assembly rewritten, the others as they were.
LEMMA AsmWith ==
    ASSUME NEW a \in Asms
    PROVE  /\ \A f \in SUBSET Items : [a EXCEPT !.phase = "listing", !.flights = f] \in Asms
           /\ \A b \in BOOLEAN, t \in Tables :
                [a EXCEPT !.phase = "joining", !.read = b, !.rows = t] \in Asms
    BY DEF Asms

LEMMA IdleWith ==
    /\ [Idle EXCEPT !.phase = "floor"] \in Asms
    /\ \A b \in BOOLEAN, d \in Documents :
        [Idle EXCEPT !.phase = "built", !.read = b, !.items = d] \in Asms
    BY NothingAssembled DEF Asms, Idle

\* Rows as they are read are a table.
LEMMA RowsTyped ==
    ASSUME TypeOK, NEW held \in SUBSET Ids, NEW listed \in SUBSET Items
    PROVE  /\ RowsRead(held, listed) \in Tables
           /\ DOMAIN RowsRead(held, listed) = held \cup listed
<1> DEFINE t == RowsRead(held, listed)
<1>1. ASSUME NEW i \in Items PROVE Row(i) \in RowRecords
    BY DEF Row, RowRecords, TypeOK
<1>2. /\ DOMAIN t = held \cup listed
      /\ t \in [held \cup listed -> RowRecords \cup {<<>>}]
      /\ \A i \in DOMAIN t \cap Items : t[i] \in RowRecords
    <2>1. \A i \in held \cup listed : t[i] =
            IF i \notin Items THEN <<>> ELSE IF i \in held THEN Row(i) ELSE Undelivered
        BY DEF RowsRead
    <2>2. Undelivered \in RowRecords
        BY DEF Undelivered, RowRecords
    <2>3. DOMAIN t = held \cup listed /\ t = [i \in held \cup listed |-> t[i]]
        BY DEF RowsRead
    <2> HIDE DEF t
    <2>4. \A i \in held \cup listed : t[i] \in RowRecords \cup {<<>>} /\ (i \in Items => t[i] \in RowRecords)
        BY <1>1, <2>1, <2>2
    <2>5. QED
        BY <2>3, <2>4
<1>3. held \cup listed \in SUBSET Ids
    BY DEF Ids
<1> HIDE DEF t
<1>4. t \in Tables
    BY <1>2, <1>3 DEF Tables
<1>5. QED
    BY <1>2, <1>4 DEF t

\* What Join hands over is a document.
LEMMA UnsettledTyped ==
    ASSUME NEW a \in Asms, NEW known
    PROVE  /\ Unsettled(a, known) \in Documents
           /\ DOMAIN Unsettled(a, known) =
                {j \in DOMAIN a.rows : View(a, j, known).state # "settled"}
<1> DEFINE d == Unsettled(a, known)
           held == {j \in DOMAIN a.rows : View(a, j, known).state # "settled"}
<1>1. a.rows \in Tables /\ a.flights \in SUBSET Items
    BY DEF Asms
<1>2. DOMAIN a.rows \in SUBSET Ids /\ \A i \in DOMAIN a.rows \cap Items : a.rows[i] \in RowRecords
    BY <1>1 DEF Tables
<1>3. ASSUME NEW i \in DOMAIN a.rows
      PROVE  View(a, i, known) \in Envelopes /\ View(a, i, known).id = i
    <2>1. CASE i \in Items
        <3> DEFINE flying == i \in a.flights \cap Delivered(a.rows)
                  v == ItemView(i, a.rows[i], flying, i \in known)
        <3>1. SettlementState(a.rows[i], flying, i \in known) \in
                {"none", "waiting", "in_flight", "ruled", "settled"}
            BY DEF SettlementState
        <3>2. a.rows[i] \in RowRecords
            BY <1>2, <2>1
        <3>3. v \in Envelopes /\ v.id = i
            BY <2>1, <3>1, <3>2 DEF ItemView, Envelopes, RowRecords
        <3>4. QED
            BY <2>1, <3>3 DEF View
    <2>2. CASE i \notin Items
        <3>1. i \in {"notice"} \X (1..MaxNotices)
            BY <1>2, <2>2 DEF Ids
        <3>2. View(a, i, known) = NoticeView(i[2])
            BY <2>2 DEF View
        <3>3. i = <<"notice", i[2]>>
            BY <3>1
        <3>4. QED
            BY <3>1, <3>2, <3>3 DEF NoticeView, Envelopes
    <2>3. QED
        BY <2>1, <2>2
<1>4. d = [i \in held |-> View(a, i, known)]
    BY DEF Unsettled
<1> HIDE DEF d
<1>5. held \in SUBSET Ids
    BY <1>2
<1>6. d \in [held -> Envelopes] /\ DOMAIN d = held /\ \A i \in DOMAIN d : d[i].id = i
    BY <1>3, <1>4
<1> HIDE DEF held
<1>7. d \in Documents
    BY <1>5, <1>6 DEF Documents
<1>8. QED
    BY <1>6, <1>7 DEF d, held

\* An event upserted into a document.
LEMMA UpsertTyped ==
    ASSUME NEW d \in Documents, NEW e \in Envelopes
    PROVE  UpsertAttention(d, e) \in Documents
<1> DEFINE u == UpsertAttention(d, e)
<1>1. DOMAIN d \in SUBSET Ids /\ d \in [DOMAIN d -> Envelopes] /\ \A i \in DOMAIN d : d[i].id = i
    BY DEF Documents
<1>2. DOMAIN d \cup {e.id} \in SUBSET Ids
    BY <1>1 DEF Envelopes, Ids
<1>3. /\ u \in [DOMAIN d \cup {e.id} -> Envelopes]
      /\ \A i \in DOMAIN u : u[i].id = i
    BY <1>1 DEF UpsertAttention
<1>4. QED
    BY <1>2, <1>3 DEF Documents

LEMMA ReadersAre == \A s \in Streams : Poll(s) \in Readers /\ Get(s) \in Readers /\ Poll(s) # Get(s)
    BY DEF Poll, Get, Readers

\* The assembly of one reader moved on, the others as they were.
LEMMA AsmMoves ==
    ASSUME DeskShape, NEW r \in Readers, NEW a \in Asms, asm' = [asm EXCEPT ![r] = a]
    PROVE  /\ asm' \in [Readers -> Asms]
           /\ asm'[r] = a /\ \A q \in Readers \ {r} : asm'[q] = asm[q]
    BY DEF DeskShape

\* What listing does to an assembly.
LEMMA Listed ==
    ASSUME TypeOK, DeskShape, NEW r \in Readers, NEW held \in SUBSET Ids, NEW b \in BOOLEAN,
           List(r, held, b)
    PROVE  \E listed \in SUBSET Items, a \in Asms :
            /\ asm' = [asm EXCEPT ![r] = a]
            /\ a.phase = "joining" /\ a.read = b /\ a.rows = RowsRead(held, listed)
<1>1. PICK listed \in SUBSET (Escalations \ resolved) :
        asm' = [asm EXCEPT ![r].phase = "joining", ![r].read = b,
                           ![r].rows = RowsRead(held, listed)]
    BY DEF List
<1> DEFINE t == RowsRead(held, listed)
           a == [asm[r] EXCEPT !.phase = "joining", !.read = b, !.rows = t]
<1>2. listed \in SUBSET Items
    BY DEF Items
<1>3. t \in Tables
    BY <1>2, RowsTyped
<1> HIDE DEF t
<1>4. asm[r] \in Asms
    BY DEF DeskShape
<1>5. a \in Asms
    BY <1>3, <1>4, AsmWith
<1>6. asm' = [asm EXCEPT ![r] = a]
    BY <1>1, <1>4 DEF DeskShape, t
<1>7. a.phase = "joining" /\ a.read = b /\ a.rows = t
    BY <1>4 DEF Asms
<1> HIDE DEF a
<1>8. QED
    BY <1>2, <1>5, <1>6, <1>7 DEF t

\* What joining does to one.
LEMMA Joined ==
    ASSUME DeskShape, NEW r \in Readers, Join(r)
    PROVE  \E known \in SUBSET resolved, a \in Asms :
            /\ asm' = [asm EXCEPT ![r] = a]
            /\ a.phase = "built" /\ a.read = asm[r].read /\ a.items = Unsettled(asm[r], known)
<1>1. PICK known \in SUBSET (DOMAIN asm[r].rows \cap resolved) :
        asm' = [asm EXCEPT ![r] = [Idle EXCEPT !.phase = "built", !.read = asm[r].read,
                                               !.items = Unsettled(asm[r], known)]]
    BY DEF Join, Assemble
<1> DEFINE d == Unsettled(asm[r], known)
           a == [Idle EXCEPT !.phase = "built", !.read = asm[r].read, !.items = d]
<1>2. asm[r] \in Asms
    BY DEF DeskShape
<1>3. d \in Documents /\ asm[r].read \in BOOLEAN
    BY <1>2, UnsettledTyped DEF Asms
<1>4. asm' = [asm EXCEPT ![r] = a]
    BY <1>1
<1> HIDE DEF d
<1>5. a \in Asms
    BY <1>3, IdleWith
<1>6. a.phase = "built" /\ a.read = asm[r].read /\ a.items = d
    BY DEF Idle
<1> HIDE DEF a
<1>7. QED
    BY <1>4, <1>5, <1>6 DEF d

LEMMA ShapeStep == ASSUME TypeOK, DeskShape, [DeskNext]_deskVars PROVE DeskShape'
<1>1. CASE UNCHANGED desk
    BY <1>1 DEF desk, DeskShape
<1>2. ASSUME asm' \in [Readers -> Asms], UNCHANGED <<doc, first, pending, trusted>>
      PROVE  DeskShape'
    BY <1>2 DEF DeskShape
<1>3. ASSUME NEW r \in Readers, Assembling(r) \/ StoreUnread(r) PROVE DeskShape'
    <2>1. UNCHANGED <<doc, first, pending, trusted>>
        BY <1>3 DEF Assembling, Snapshot, ListRows, StoreUnread, Join, Assemble, List
    <2>2. CASE Snapshot(r)
        <3>1. asm[r] \in Asms /\ registry \in SUBSET Items
            BY DEF DeskShape, TypeOK
        <3>2. [asm[r] EXCEPT !.phase = "listing", !.flights = registry] \in Asms
            BY <3>1, AsmWith
        <3>3. asm' = [asm EXCEPT ![r] = [asm[r] EXCEPT !.phase = "listing", !.flights = registry]]
            BY <2>2 DEF Snapshot, Assemble
        <3>4. asm' \in [Readers -> Asms]
            BY <3>2, <3>3, AsmMoves
        <3>5. QED
            BY <1>2, <2>1, <3>4
    <2>3. ASSUME NEW held \in SUBSET Ids, NEW b \in BOOLEAN, List(r, held, b) PROVE DeskShape'
        <3>1. PICK a \in Asms : asm' = [asm EXCEPT ![r] = a]
            BY <2>3, Listed
        <3>2. asm' \in [Readers -> Asms]
            BY <3>1, AsmMoves
        <3>3. QED
            BY <1>2, <2>1, <3>2
    <2>4. CASE ListRows(r)
        <3>1. stored \cup ({"notice"} \X (1..notices)) \in SUBSET Ids
            BY AttentionAssumption DEF TypeOK, Ids
        <3>2. QED
            BY <2>3, <2>4, <3>1 DEF ListRows
    <2>5. CASE StoreUnread(r)
        BY <2>3, <2>5 DEF StoreUnread
    <2>6. CASE Join(r)
        BY <1>2, <2>1, <2>6, Joined, AsmMoves
    <2>7. QED
        BY <1>3, <2>2, <2>4, <2>5, <2>6 DEF Assembling
<1>4. ASSUME NEW s \in Streams, NEW r \in {Poll(s), Get(s)}
      PROVE  /\ r \in Readers /\ asm[r].items \in Documents /\ asm[r].read \in BOOLEAN
             /\ [asm EXCEPT ![r] = Idle] \in [Readers -> Asms]
             /\ [asm EXCEPT ![r] = [Idle EXCEPT !.phase = "floor"]] \in [Readers -> Asms]
    <2>1. r \in Readers
        BY <1>4, ReadersAre
    <2>2. asm[r] \in Asms
        BY <2>1 DEF DeskShape
    <2>3. asm[r].items \in Documents /\ asm[r].read \in BOOLEAN
        BY <2>2 DEF Asms
    <2>4. Idle \in Asms /\ [Idle EXCEPT !.phase = "floor"] \in Asms
        BY NothingAssembled, IdleWith
    <2> HIDE DEF Idle
    <2>5. QED
        BY <2>1, <2>3, <2>4 DEF DeskShape
<1>5. ASSUME NEW s \in Streams, NEW items PROVE Kept(s, items) \in [Items -> Calls \cup {NULL}]
    BY <1>5 DEF Kept, DeskShape
<1>6. ASSUME NEW s \in Streams, Connect(s) PROVE DeskShape'
    BY <1>2, <1>4, <1>6 DEF Connect
<1>7. ASSUME NEW s \in Streams, Deadline(s) PROVE DeskShape'
    BY <1>2, <1>4, <1>7 DEF Deadline, Assemble
<1>8. ASSUME NEW s \in Streams, Emit(s) PROVE DeskShape'
    <2>1. /\ asm' = [asm EXCEPT ![Poll(s)] = Idle] /\ first' = first
          /\ doc' = [doc EXCEPT ![s] = asm[Poll(s)].items]
          /\ pending' = [pending EXCEPT ![s] = Kept(s, asm[Poll(s)].items)]
          /\ trusted' = [trusted EXCEPT ![s] = asm[Poll(s)].read]
        BY <1>8 DEF Emit
    <2>2. /\ asm[Poll(s)].items \in Documents /\ asm[Poll(s)].read \in BOOLEAN
          /\ [asm EXCEPT ![Poll(s)] = Idle] \in [Readers -> Asms]
          /\ Kept(s, asm[Poll(s)].items) \in [Items -> Calls \cup {NULL}]
        BY <1>4, <1>5
    <2> HIDE DEF Idle, Kept
    <2>3. QED
        BY <2>1, <2>2 DEF DeskShape
<1>9. ASSUME NEW s \in Streams, Upsert(s) PROVE DeskShape'
    <2>1. doc' \in [Streams -> Documents \cup {NULL}]
        <3> DEFINE e == Head(queue[s])
        <3>1. CASE doc[s] = NULL
            BY <1>9, <3>1 DEF Upsert, DeskShape
        <3>2. CASE doc[s] # NULL
            <4>1. e \in Envelopes
                BY <1>9 DEF Upsert, Take, TypeOK
            <4>2. doc[s] \in Documents
                BY <3>2 DEF DeskShape
            <4>3. doc' = [doc EXCEPT ![s] = UpsertAttention(doc[s], e)]
                BY <1>9, <3>2 DEF Upsert
            <4>4. UpsertAttention(doc[s], e) \in Documents
                BY <4>1, <4>2, UpsertTyped
            <4>5. QED
                BY <4>3, <4>4 DEF DeskShape
        <3>3. QED
            BY <3>1, <3>2
    <2>2. QED
        BY <1>9, <2>1 DEF Upsert, DeskShape
<1>10. ASSUME NEW s \in Streams, Land(s) PROVE DeskShape'
    <2>1. /\ asm' = [asm EXCEPT ![Get(s)] = Idle] /\ first' = [first EXCEPT ![s] = "landed"]
          /\ doc' = [doc EXCEPT ![s] = asm[Get(s)].items]
          /\ pending' = [pending EXCEPT ![s] = Kept(s, asm[Get(s)].items)]
          /\ trusted' = [trusted EXCEPT ![s] = FALSE]
        BY <1>10 DEF Land
    <2>2. /\ asm[Get(s)].items \in Documents
          /\ [asm EXCEPT ![Get(s)] = Idle] \in [Readers -> Asms]
          /\ Kept(s, asm[Get(s)].items) \in [Items -> Calls \cup {NULL}]
        BY <1>4, <1>5
    <2> HIDE DEF Idle, Kept
    <2>3. QED
        BY <2>1, <2>2 DEF DeskShape
<1>11. ASSUME NEW s \in Streams, GetFails(s) PROVE DeskShape'
    <2>1. asm' \in [Readers -> Asms]
        BY <1>4, <1>11 DEF GetFails
    <2>2. QED
        BY <1>11, <2>1 DEF GetFails, DeskShape
<1>12. ASSUME NEW s \in Streams, Drop(s) PROVE DeskShape'
    BY <1>2, <1>4, <1>12 DEF Drop
<1>13. ASSUME NEW s \in Streams, Reload(s) PROVE DeskShape'
    <2>1. asm' \in [Readers -> Asms]
        <3>1. Idle \in Asms /\ [Idle EXCEPT !.phase = "floor"] \in Asms
            BY NothingAssembled, IdleWith
        <3>2. asm' = [asm EXCEPT ![Poll(s)] = Idle, ![Get(s)] = [Idle EXCEPT !.phase = "floor"]]
            BY <1>13 DEF Reload
        <3> HIDE DEF Idle
        <3>3. QED
            BY <3>1, <3>2 DEF DeskShape
    <2>2. QED
        BY <1>13, <2>1 DEF Reload, DeskShape
<1>14. ASSUME NEW s \in Streams, NEW i \in Items, Release(s, i) PROVE DeskShape'
    BY <1>14 DEF Release, DeskShape
<1>15. ASSUME NEW s \in Streams, NEW i \in Items, NEW c \in Calls, Press(s, i, c) PROVE DeskShape'
    BY <1>15 DEF Press, DeskShape
<1>16. CASE Restart
    <2>1. asm' \in [Readers -> Asms]
        BY <1>16, NothingAssembled DEF Restart
    <2>2. QED
        BY <1>16, <2>1 DEF Restart, DeskShape
<1>17. QED
    BY <1>1, <1>3, <1>6, <1>7, <1>8, <1>9, <1>10, <1>11, <1>12, <1>13, <1>14, <1>15, <1>16
    DEF DeskNext, deskVars, desk

\* What every assembly reads, every document on its way and every room's document are
\* of their types, whatever was lost, reloaded or restarted on the way.
LEMMA DeskIsShaped == DeskSpec => []DeskShape
<1>1. DeskInit => DeskShape
    <2> SUFFICES ASSUME DeskInit PROVE DeskShape
        OBVIOUS
    <2>1. Idle \in Asms /\ [Idle EXCEPT !.phase = "floor"] \in Asms
        BY NothingAssembled, IdleWith
    <2>2. asm = [r \in Readers |-> IF r[2] = "get" THEN [Idle EXCEPT !.phase = "floor"] ELSE Idle]
        BY DEF DeskInit
    <2> HIDE DEF Idle
    <2>3. asm \in [Readers -> Asms]
        BY <2>1, <2>2
    <2>4. QED
        BY <2>3 DEF DeskInit, DeskShape
<1>2. QED
    BY <1>1, ShapeStep, DeskIsClosed, PTL DEF DeskSpec

\* Every reachable state of any number of Desks over the core is well typed.
THEOREM DesksWellFormed == DeskSpec => []DeskTypeOK
<1>1. ASSUME NEW d \in Documents PROVE \A i \in DOMAIN d : i \in Ids /\ d[i] \in Envelopes /\ d[i].id = i
    BY DEF Documents
<1>2. ASSUME NEW a \in Asms
      PROVE  /\ a.phase \in {"idle", "floor", "listing", "joining", "built"}
             /\ a.flights \subseteq Items /\ DOMAIN a.rows \subseteq Ids /\ a.items \in Documents
    BY DEF Asms, Tables
<1>3. ASSUME DeskShape PROVE DeskTypeOK
    <2>1. \A r \in Readers : asm[r] \in Asms
        BY <1>3 DEF DeskShape
    <2>2. \A items \in {asm[r].items : r \in Readers} \cup {doc[s] : s \in Streams} :
            items # NULL => items \in Documents
        BY <1>2, <1>3, <2>1 DEF DeskShape
    <2>3. QED
        BY <1>1, <1>2, <1>3, <2>1, <2>2 DEF DeskShape, DeskTypeOK
<1>4. QED
    BY <1>3, DeskIsShaped, PTL

---------------------------------------------------------------------------------
(* A Desk that has caught up is true *)

LEMMA Appended ==
    ASSUME NEW q \in Seq(Envelopes), NEW e \in Envelopes
    PROVE  /\ Announced(Append(q, e), e.id)
           /\ \A i : Announced(q, i) => Announced(Append(q, e), i)
<1> DEFINE p == Append(q, e)
<1>1. /\ Len(q) \in Nat /\ DOMAIN p = 1..(Len(q) + 1) /\ p[Len(q) + 1] = e
      /\ DOMAIN q = 1..Len(q) /\ \A k \in 1..Len(q) : p[k] = q[k]
    OBVIOUS
<1> HIDE DEF p
<1>2. Len(q) + 1 \in DOMAIN p /\ \A k \in DOMAIN q : k \in DOMAIN p
    BY <1>1
<1>3. QED
    BY <1>1, <1>2 DEF Announced, p

\* What is said of the table as it moves, on every stream that is open: what was
\* announced stays so, and whatever of it changes is announced.
Told(s) ==
    /\ \A i : Announced(queue[s], i) => Announced(queue[s], i)'
    /\ \A i \in stored' : \/ Announced(queue[s], i)'
                          \/ i \in stored /\ Row(i)' = Row(i)
    /\ \A k \in 1..notices' : Announced(queue[s], <<"notice", k>>)' \/ k \in 1..notices

LEMMA ToldOfNothing ==
    ASSUME UNCHANGED row, NEW s, queue'[s] = queue[s] PROVE Told(s)
    BY DEF Told, Announced, Row, row

LEMMA ToldOfOne ==
    ASSUME TypeOK, NEW e \in Envelopes, queue' = Fanout(e),
           \A i \in stored' : i = e.id \/ (i \in stored /\ Row(i)' = Row(i)),
           \A k \in 1..notices' : <<"notice", k>> = e.id \/ k \in 1..notices,
           NEW s \in open
    PROVE  Told(s)
<1>1. queue[s] \in Seq(Envelopes) /\ queue'[s] = Append(queue[s], e)
    BY DEF TypeOK, Fanout
<1>2. /\ Announced(queue'[s], e.id)
      /\ \A i : Announced(queue[s], i) => Announced(queue'[s], i)
    BY <1>1, Appended
<1>3. \A i : Announced(queue[s], i)' <=> Announced(queue'[s], i)
    BY DEF Announced
<1>4. QED
    BY <1>2, <1>3 DEF Told

\* A step of the core that neither takes an event nor moves a stream tells of all it does.
LEMMA CoreTells ==
    ASSUME TypeOK, TypeOK', Backend \/ \E c \in Calls, i \in Items : Arrive(c, i)
    PROVE  open' = open /\ \A s \in open : Told(s)
<1>1. ASSUME NEW i \in Items, NEW offered \in SUBSET Choices, Deliver(i, offered)
      PROVE  open' = open /\ \A s \in open : Told(s)
    <2>1. open' = open /\ notices' = notices /\ stored' = stored \cup {i}
          /\ UNCHANGED <<last_ruling, pressed_choice, signal_state>>
        BY <1>1 DEF Deliver
    <2>2. CASE i \in stored
        <3>1. UNCHANGED <<row, queue>>
            BY <1>1, <2>1, <2>2 DEF Deliver, row
        <3>2. QED
            BY <2>1, <3>1, ToldOfNothing
    <2>3. CASE i \notin stored
        <3> DEFINE e == ItemView(i, [Row(i) EXCEPT !.offers = offered], FALSE, FALSE)
        <3>1. e \in Envelopes /\ e.id = i
            BY EventViewType DEF ItemView
        <3>2. queue' = Fanout(e) /\ actions' = [actions EXCEPT ![i] = offered]
            BY <1>1, <2>3 DEF Deliver
        <3>3. \A j \in stored' : j = i \/ (j \in stored /\ Row(j)' = Row(j))
            BY <2>1, <3>2 DEF Row, TypeOK
        <3>4. \A k \in 1..notices' : <<"notice", k>> = e.id \/ k \in 1..notices
            BY <2>1
        <3> HIDE DEF e
        <3>5. ASSUME NEW s \in open PROVE Told(s)
            BY <3>1, <3>2, <3>3, <3>4, ToldOfOne
        <3>6. QED
            BY <2>1, <3>5
    <2>4. QED
        BY <2>2, <2>3
<1>2. CASE DeliverNotice
    <2> DEFINE e == NoticeView(notices')
    <2>1. /\ notices' = notices + 1 /\ notices \in Nat /\ open' = open /\ queue' = Fanout(e)
          /\ notices' \in 1..MaxNotices
          /\ UNCHANGED <<stored, actions, last_ruling, pressed_choice, signal_state>>
        BY <1>2, AttentionAssumption DEF DeliverNotice, TypeOK
    <2>2. e \in Envelopes /\ e.id = <<"notice", notices'>>
        BY <2>1 DEF NoticeView, Envelopes
    <2>3. \A k \in 1..notices' : k = notices' \/ k \in 1..notices
        BY <2>1
    <2>4. \A j \in stored' : j \in stored /\ Row(j)' = Row(j)
        BY <2>1 DEF Row
    <2> HIDE DEF e
    <2>5. QED
        BY <2>1, <2>2, <2>3, <2>4, ToldOfOne
<1>3. ASSUME NEW i \in Items, PublishItem(i), UNCHANGED <<open, stored, notices>>,
             \A j \in Items \ {i} : Row(j)' = Row(j)
      PROVE  open' = open /\ \A s \in open : Told(s)
    <2> DEFINE e == EventView(i)'
    <2>1. e \in Envelopes /\ e.id = i
        <3>1. SettlementState(Row(i), i \in registry, FALSE)' \in
                {"none", "waiting", "in_flight", "ruled", "settled"}
            BY DEF SettlementState
        <3>2. QED
            BY <3>1 DEF EventView, ItemView, Row, Envelopes, TypeOK
    <2>2. queue' = Fanout(e)
        BY <1>3 DEF PublishItem
    <2>3. \A j \in stored' : j = i \/ (j \in stored /\ Row(j)' = Row(j))
        BY <1>3 DEF TypeOK
    <2>4. \A k \in 1..notices' : <<"notice", k>> = e.id \/ k \in 1..notices
        BY <1>3
    <2> HIDE DEF e
    <2>5. ASSUME NEW s \in open PROVE Told(s)
        BY <2>1, <2>2, <2>3, <2>4, ToldOfOne
    <2>6. QED
        BY <1>3, <2>5
<1>4. ASSUME NEW c \in Calls, NEW i \in Items, RecordRuling(c, i)
      PROVE  open' = open /\ \A s \in open : Told(s)
    <2>1. \A j \in Items \ {i} : Row(j)' = Row(j)
        BY <1>4 DEF RecordRuling, Row, TypeOK
    <2>2. QED
        BY <1>3, <1>4, <2>1 DEF RecordRuling
<1>5. ASSUME NEW c \in Calls, NEW i \in Items, RecordPress(c, i)
      PROVE  open' = open /\ \A s \in open : Told(s)
    <2>1. \A j \in Items \ {i} : Row(j)' = Row(j)
        BY <1>5 DEF RecordPress, RecordPressAs, Row, TypeOK
    <2>2. QED
        BY <1>3, <1>5, <2>1 DEF RecordPress, RecordPressAs
<1>6. CASE UNCHANGED <<row, queue, open>>
    BY <1>6, ToldOfNothing
<1>7. QED
    BY <1>1, <1>2, <1>4, <1>5, <1>6
    DEF Backend, CallEnds, Finish, Arrive, Refuse, Submit, CallAnswered, ReplyLost, CallLost,
        Abandon, FactorySettles, OrphanArrives, OrphanLost

\* What is told of leaves rows and items behind by no more than the queue.
LEMMA StaysBehind ==
    ASSUME NEW s, Told(s), resolved \subseteq resolved'
    PROVE  /\ \A rows : RowsBehind(s, rows) => RowsBehind(s, rows)'
           /\ \A items : ItemsBehind(s, items) => ItemsBehind(s, items)'
<1>1. ASSUME NEW i, Row(i)' = Row(i) PROVE \A v : Drawn(v, i) => Drawn(v, i)'
    BY <1>1 DEF Drawn, ItemView, SettlementState, Settled, Ruled
<1>2. ASSUME NEW rows, RowsBehind(s, rows) PROVE RowsBehind(s, rows)'
    BY <1>2 DEF Told, RowsBehind
<1>3. ASSUME NEW items, ItemsBehind(s, items) PROVE ItemsBehind(s, items)'
    <2>1. ASSUME NEW i \in stored' PROVE Announced(queue[s], i)' \/ Accounted(items, i)'
        <3>1. CASE Announced(queue[s], i)'
            BY <3>1
        <3>2. CASE ~Announced(queue[s], i)'
            <4>1. i \in stored /\ Row(i)' = Row(i) /\ ~Announced(queue[s], i)
                BY <2>1, <3>2 DEF Told
            <4>2. Accounted(items, i)
                BY <1>3, <4>1 DEF ItemsBehind
            <4>3. QED
                BY <1>1, <4>1, <4>2 DEF Accounted
        <3>3. QED
            BY <3>1, <3>2
    <2>2. \A k \in 1..notices' :
            Announced(queue[s], <<"notice", k>>)' \/ <<"notice", k>> \in DOMAIN items
        BY <1>3 DEF Told, ItemsBehind
    <2>3. QED
        BY <2>1, <2>2 DEF ItemsBehind
<1>4. QED
    BY <1>2, <1>3

\* A stream whose assembly and room stand still.
LEMMA BehindStands ==
    ASSUME NEW s, Behind(s), Told(s), resolved \subseteq resolved',
           asm'[Poll(s)] = asm[Poll(s)], doc'[s] = doc[s], trusted'[s] = trusted[s]
    PROVE  Behind(s)'
<1> DEFINE rows == asm[Poll(s)].rows
           items == asm[Poll(s)].items
           held == doc[s]
<1>1. /\ RowsBehind(s, rows) => RowsBehind(s, asm[Poll(s)].rows)'
      /\ ItemsBehind(s, items) => ItemsBehind(s, asm[Poll(s)].items)'
      /\ ItemsBehind(s, held) => ItemsBehind(s, doc[s])'
    <2>1. asm'[Poll(s)].rows = rows /\ asm'[Poll(s)].items = items /\ doc'[s] = held
        OBVIOUS
    <2> HIDE DEF rows, items, held
    <2>2. /\ RowsBehind(s, rows) => \A t : t = rows => RowsBehind(s, t)'
          /\ ItemsBehind(s, items) => \A t : t = items => ItemsBehind(s, t)'
          /\ ItemsBehind(s, held) => \A t : t = held => ItemsBehind(s, t)'
        BY StaysBehind
    <2>3. QED
        BY <2>1, <2>2 DEF Poll
<1>2. QED
    BY <1>1 DEF Behind, Poll

\* Rows and items that are the ones meant, at the step that reads or hands them over.
LEMMA ListedBehind ==
    ASSUME TypeOK, NEW s \in Streams, NEW listed \in SUBSET Items
    PROVE  RowsBehind(s, RowsRead(stored \cup ({"notice"} \X (1..notices)), listed))
<1> DEFINE held == stored \cup ({"notice"} \X (1..notices))
           t == RowsRead(held, listed)
<1>1. DOMAIN t = held \cup listed /\ \A i \in stored : t[i] = Row(i)
    BY DEF RowsRead, TypeOK
<1>2. stored \subseteq held /\ \A k \in 1..notices : <<"notice", k>> \in held
    OBVIOUS
<1> HIDE DEF t, held
<1>3. RowsBehind(s, t)
    BY <1>1, <1>2 DEF RowsBehind
<1>4. QED
    BY <1>3 DEF t, held

\* Assembling rows into items leaves the stream no further behind: what is left out is
\* settled, by the factory's word or by a ruling the factory gave.
LEMMA JoinedBehind ==
    ASSUME TypeOK, OnlyTheFactorysWord, NEW s \in Streams, NEW a \in Asms,
           NEW known \in SUBSET resolved, RowsBehind(s, a.rows)
    PROVE  ItemsBehind(s, Unsettled(a, known))
<1> DEFINE d == Unsettled(a, known)
<1>1. /\ DOMAIN d = {j \in DOMAIN a.rows : View(a, j, known).state # "settled"}
      /\ \A i \in DOMAIN d : d[i] = View(a, i, known)
    BY DEF Unsettled
<1> HIDE DEF d
<1>2. ASSUME NEW i \in stored, i \in DOMAIN a.rows, a.rows[i] = Row(i) PROVE Accounted(d, i)
    <2> DEFINE b == i \in a.flights \cap Delivered(a.rows)
               c == i \in known
    <2>1. i \in Items
        BY DEF TypeOK
    <2>2. View(a, i, known) = ItemView(i, Row(i), b, c)
        BY <1>2, <2>1 DEF View
    <2>3. b \in BOOLEAN /\ c \in BOOLEAN /\ (c => i \in resolved)
        OBVIOUS
    <2> HIDE DEF b, c
    <2>4. CASE i \in DOMAIN d
        BY <1>1, <2>2, <2>3, <2>4 DEF Accounted, Drawn
    <2>5. CASE i \notin DOMAIN d
        <3>1. SettlementState(Row(i), b, c) = "settled"
            BY <1>1, <1>2, <2>2, <2>5 DEF ItemView
        <3>2. c \/ last_ruling[i] = "RESOLVED"
            BY <2>3, <3>1 DEF SettlementState, Settled, Row
        <3>3. i \in resolved
            BY <2>1, <2>3, <3>2 DEF OnlyTheFactorysWord
        <3>4. QED
            BY <2>5, <3>3 DEF Accounted
    <2>6. QED
        BY <2>4, <2>5
<1>3. ASSUME NEW k \in 1..notices, <<"notice", k>> \in DOMAIN a.rows
      PROVE  <<"notice", k>> \in DOMAIN d
    <2>0. k \in 1..MaxNotices
        BY AttentionAssumption DEF TypeOK
    <2>1. <<"notice", k>> \notin Items
        BY <2>0, NoticeAssumption
    <2>2. View(a, <<"notice", k>>, known).state = "none"
        BY <2>1 DEF View, NoticeView
    <2>3. QED
        BY <1>1, <1>3, <2>2
<1>4. ItemsBehind(s, d)
    BY <1>2, <1>3 DEF RowsBehind, ItemsBehind
<1>5. QED
    BY <1>4 DEF d

\* An event taken is told by the document from then on.
LEMMA UpsertBehind ==
    ASSUME TypeOK, QueuesEndOnTheRows, NEW s \in open, Take(s), NEW d, ItemsBehind(s, d),
           NEW u, u = UpsertAttention(d, Head(queue[s]))
    PROVE  ItemsBehind(s, u)'
<1> DEFINE q == queue[s]
           e == Head(q)
           rest == Tail(q)
<1>1. /\ q \in Seq(Envelopes) /\ q # <<>> /\ queue'[s] = rest
      /\ UNCHANGED <<stored, actions, last_ruling, pressed_choice, signal_state, notices, resolved>>
    BY DEF Take, TypeOK, row, factory
<1>2. /\ DOMAIN u = DOMAIN d \cup {e.id} /\ u[e.id] = e
      /\ \A i \in DOMAIN d \ {e.id} : u[i] = d[i]
    BY DEF UpsertAttention
<1>3. /\ Len(q) \in Nat /\ Len(q) > 0 /\ DOMAIN q = 1..Len(q) /\ DOMAIN rest = 1..(Len(q) - 1)
      /\ \A k \in 1..(Len(q) - 1) : rest[k] = q[k + 1]
      /\ e = q[1]
    BY <1>1
<1> HIDE DEF rest
<1>4. ASSUME NEW i, Announced(q, i), i # e.id PROVE Announced(rest, i)
    <2>1. PICK k \in DOMAIN q : q[k].id = i
        BY <1>4 DEF Announced
    <2>2. k # 1 /\ k \in 1..Len(q)
        BY <1>3, <1>4, <2>1
    <2>3. k - 1 \in 1..(Len(q) - 1) /\ rest[k - 1] = q[k]
        BY <1>3, <2>2
    <2>4. QED
        BY <1>3, <2>1, <2>3 DEF Announced
<1>5. ASSUME NEW i \in Items, i = e.id, ~Announced(rest, i) PROVE e = Recorded(i)
    <2>1. ASSUME NEW m \in DOMAIN q, m > 1 PROVE q[m].id # i
        <3>1. m - 1 \in DOMAIN rest /\ rest[m - 1] = q[m]
            BY <1>3, <2>1
        <3>2. QED
            BY <1>5, <3>1 DEF Announced
    <2>2. 1 \in DOMAIN q /\ Newest(q, 1, i)
        BY <1>3, <1>5, <2>1 DEF Newest
    <2>3. QED
        BY <1>3, <2>2 DEF QueuesEndOnTheRows, EndsOn
<1> HIDE DEF e
<1>6. ASSUME NEW i \in stored PROVE Announced(rest, i) \/ Accounted(u, i)
    <2>1. i \in Items
        BY DEF TypeOK
    <2>2. CASE i = e.id /\ ~Announced(rest, i)
        <3>1. u[i] = ItemView(i, Row(i), FALSE, FALSE) /\ i \in DOMAIN u
            BY <1>2, <1>5, <2>1, <2>2 DEF Recorded
        <3>2. QED
            BY <3>1 DEF Accounted, Drawn
    <2>3. CASE i # e.id
        <3>1. Announced(q, i) \/ Accounted(d, i)
            BY DEF ItemsBehind
        <3>2. QED
            BY <1>2, <1>4, <2>3, <3>1 DEF Accounted
    <2>4. QED
        BY <2>2, <2>3
<1>7. ASSUME NEW k \in 1..notices
      PROVE  Announced(rest, <<"notice", k>>) \/ <<"notice", k>> \in DOMAIN u
    BY <1>2, <1>4 DEF ItemsBehind
<1>8. \A i, v : Drawn(v, i)' <=> Drawn(v, i)
    BY <1>1 DEF Drawn, ItemView, Row, SettlementState, Settled, Ruled
<1>9. \A i : (Announced(queue[s], i))' <=> Announced(rest, i)
    BY <1>1 DEF Announced
<1>10. QED
    BY <1>1, <1>6, <1>7, <1>8, <1>9 DEF ItemsBehind, Accounted

\* A room the stream has filled holds a document.
TrustedHold == \A s \in Streams : trusted[s] => doc[s] # NULL

LEMMA TrustedStep == ASSUME DeskShape, TrustedHold, TypeOK, [DeskNext]_deskVars PROVE TrustedHold'
<1>1. CASE UNCHANGED <<doc, trusted>>
    BY <1>1 DEF TrustedHold
<1>2. ASSUME NEW s \in Streams, Emit(s) PROVE TrustedHold'
    <2>1. asm[Poll(s)].items # NULL
        BY ReadersAre, NoDocument DEF DeskShape, Asms
    <2>2. QED
        BY <1>2, <2>1 DEF Emit, DeskShape, TrustedHold
<1>3. ASSUME NEW s \in Streams, Upsert(s) PROVE TrustedHold'
    <2>1. CASE doc[s] = NULL
        BY <1>3, <2>1 DEF Upsert, TrustedHold
    <2>2. CASE doc[s] # NULL
        <3>1. doc[s] \in Documents /\ Head(queue[s]) \in Envelopes
            BY <1>3, <2>2 DEF Upsert, Take, TypeOK, DeskShape
        <3>2. UpsertAttention(doc[s], Head(queue[s])) # NULL
            BY <3>1, UpsertTyped, NoDocument
        <3>3. QED
            BY <1>3, <2>2, <3>2 DEF Upsert, DeskShape, TrustedHold
    <2>3. QED
        BY <2>1, <2>2
<1>4. ASSUME NEW s \in Streams, Land(s) \/ Reload(s) PROVE TrustedHold'
    BY <1>4 DEF Land, Reload, DeskShape, TrustedHold
<1>5. QED
    BY <1>1, <1>2, <1>3, <1>4
    DEF DeskNext, deskVars, desk, Assembling, StoreUnread, Snapshot, ListRows, List, Join, Assemble,
        Connect, Deadline, GetFails, Drop, Release, Press, Restart

LEMMA BehindStep ==
    ASSUME TypeOK, TypeOK', OnlyTheFactorysWord, QueuesEndOnTheRows, DeskShape, BehindTheQueue,
           TrustedHold, [DeskNext]_deskVars, resolved \subseteq resolved'
    PROVE  BehindTheQueue'
<1> \A t \in open : Behind(t) /\ t \in Streams
    BY DEF BehindTheQueue, TypeOK
<1>1. ASSUME \A t \in open' : t \in open /\ Told(t), UNCHANGED <<asm, doc, trusted>>
      PROVE  BehindTheQueue'
    BY <1>1, BehindStands DEF BehindTheQueue
<1>2. CASE Backend /\ UNCHANGED desk
    BY <1>1, <1>2, CoreTells DEF desk
<1>3. ASSUME NEW s \in Streams, NEW i \in Items, NEW c \in Calls, Press(s, i, c)
      PROVE  BehindTheQueue'
    BY <1>1, <1>3, CoreTells DEF Press
<1>4. ASSUME NEW s \in Streams, NEW i \in Items, Release(s, i) PROVE BehindTheQueue'
    <2>1. UNCHANGED <<row, queue, open, asm, doc, trusted>>
        BY <1>4 DEF Release, core, vars, row
    <2>2. QED
        BY <1>1, <2>1, ToldOfNothing
<1>5. CASE UNCHANGED deskVars
    <2>1. UNCHANGED <<row, queue, open, asm, doc, trusted>>
        BY <1>5 DEF deskVars, desk, core, vars, row
    <2>2. QED
        BY <1>1, <2>1, ToldOfNothing
<1>6. CASE Restart
    <2>1. open' = {}
        BY <1>6 DEF Restart, Crash
    <2>2. QED
        BY <2>1 DEF BehindTheQueue
\* From here on one reader or one room moves: the other streams stand.
<1>7. ASSUME NEW s \in Streams, NEW r, r = Poll(s) \/ r = Get(s)
      PROVE  r \in Readers /\ \A t \in Streams \ {s} : Poll(t) # r
    BY <1>7 DEF Poll, Get, Readers
<1>8. ASSUME NEW s \in Streams, \A t \in open' : t # s => t \in open /\ Told(t),
             \A t \in Streams \ {s} : /\ asm'[Poll(t)] = asm[Poll(t)]
                                      /\ doc'[t] = doc[t] /\ trusted'[t] = trusted[t],
             s \in open' => Behind(s)'
      PROVE  BehindTheQueue'
    BY <1>8, BehindStands DEF BehindTheQueue
<1>9. ASSUME NEW r \in Readers, Assembling(r) \/ StoreUnread(r) PROVE BehindTheQueue'
    <2>1. UNCHANGED <<row, queue, open, registry, stored, notices, resolved, doc, trusted>>
        BY <1>9
        DEF Assembling, StoreUnread, Snapshot, ListRows, List, Join, Assemble, core, vars, row
    <2>2. PICK a \in Asms : asm' = [asm EXCEPT ![r] = a] /\ \A s \in open : r = Poll(s) =>
            /\ a.phase = "joining" /\ a.read => RowsBehind(s, a.rows)
            /\ a.phase = "built" /\ a.read => ItemsBehind(s, a.items)
            /\ a.phase # "idle"
        <3>1. asm[r] \in Asms
            BY DEF DeskShape
        <3>2. CASE Snapshot(r)
            <4> DEFINE a == [asm[r] EXCEPT !.phase = "listing", !.flights = registry]
            <4>1. a \in Asms
                BY <3>1, AsmWith DEF TypeOK
            <4>2. a.phase = "listing"
                BY <3>1 DEF Asms
            <4>3. asm' = [asm EXCEPT ![r] = a]
                BY <3>2 DEF Snapshot, Assemble
            <4> HIDE DEF a
            <4>4. QED
                BY <4>1, <4>2, <4>3
        <3>3. CASE ListRows(r)
            <4> DEFINE held == stored \cup ({"notice"} \X (1..notices))
            <4>1. List(r, held, TRUE)
                BY <3>3 DEF ListRows
            <4> held \in SUBSET Ids
                BY AttentionAssumption DEF TypeOK, Ids
            <4>2. PICK listed \in SUBSET Items, a \in Asms :
                    /\ asm' = [asm EXCEPT ![r] = a]
                    /\ a.phase = "joining" /\ a.read = TRUE /\ a.rows = RowsRead(held, listed)
                BY <4>1, Listed
            <4>3. \A s \in open : RowsBehind(s, a.rows)
                BY <4>2, ListedBehind
            <4>4. QED
                BY <4>2, <4>3
        <3>4. CASE StoreUnread(r)
            <4>1. {} \in SUBSET Ids /\ List(r, {}, FALSE)
                BY <3>4 DEF StoreUnread
            <4>2. PICK a \in Asms : asm' = [asm EXCEPT ![r] = a] /\ a.phase = "joining" /\ a.read = FALSE
                BY <4>1, Listed
            <4>3. QED
                BY <4>2
        <3>5. CASE Join(r)
            <4>1. PICK known \in SUBSET resolved, a \in Asms :
                    /\ asm' = [asm EXCEPT ![r] = a]
                    /\ a.phase = "built" /\ a.read = asm[r].read
                    /\ a.items = Unsettled(asm[r], known)
                BY <3>5, Joined
            <4>2. asm[r].phase = "joining"
                BY <3>5 DEF Join
            <4>3. ASSUME NEW s \in open, r = Poll(s), a.read PROVE ItemsBehind(s, a.items)
                <5>1. RowsBehind(s, asm[r].rows)
                    BY <4>1, <4>2, <4>3 DEF Behind
                <5>2. QED
                    BY <3>1, <4>1, <5>1, JoinedBehind
            <4>4. QED
                BY <4>1, <4>3
        <3>6. QED
            BY <1>9, <3>2, <3>3, <3>4, <3>5 DEF Assembling
    <2>3. asm'[r] = a /\ \A q \in Readers \ {r} : asm'[q] = asm[q]
        BY <2>2, AsmMoves
    <2>4. \A t \in open : Told(t)
        BY <2>1, ToldOfNothing
    <2>5. PICK s \in Streams : r = Poll(s) \/ r = Get(s)
        BY DEF Readers, Poll, Get
    <2>6. \A t \in Streams : t # s \/ r = Get(s) => asm'[Poll(t)] = asm[Poll(t)]
        BY <1>7, <2>3, <2>5, ReadersAre
    <2>7. ASSUME s \in open' PROVE Behind(s)'
        <3>1. CASE r = Get(s)
            BY <2>1, <2>4, <2>6, <2>7, <3>1, BehindStands
        <3>2. CASE r = Poll(s)
            <4>1. /\ a.phase = "joining" /\ a.read => RowsBehind(s, a.rows)
                  /\ a.phase = "built" /\ a.read => ItemsBehind(s, a.items)
                  /\ a.phase # "idle" /\ s \in open
                BY <2>1, <2>2, <2>7, <3>2
            <4>2. /\ RowsBehind(s, a.rows) => RowsBehind(s, a.rows)'
                  /\ ItemsBehind(s, a.items) => ItemsBehind(s, a.items)'
                BY <2>4, <4>1, StaysBehind
            <4>3. asm'[Poll(s)] = a
                BY <2>3, <3>2
            <4>4. QED
                BY <4>1, <4>2, <4>3 DEF Behind, Poll
        <3>3. QED
            BY <2>5, <3>1, <3>2
    <2>8. QED
        BY <1>8, <2>1, <2>4, <2>6, <2>7
<1>10. ASSUME NEW s \in Streams, NEW r, NEW a \in Asms, r = Poll(s) \/ r = Get(s),
              asm' = [asm EXCEPT ![r] = a]
       PROVE  /\ asm'[r] = a /\ \A t \in Streams \ {s} : asm'[Poll(t)] = asm[Poll(t)]
              /\ r = Get(s) => asm'[Poll(s)] = asm[Poll(s)]
    BY <1>7, <1>10, AsmMoves, ReadersAre
<1>11. /\ Idle \in Asms /\ Idle.phase = "idle"
       /\ [Idle EXCEPT !.phase = "floor"] \in Asms /\ [Idle EXCEPT !.phase = "floor"].phase = "floor"
    BY NothingAssembled, IdleWith DEF Idle
<1>12. ASSUME NEW s \in Streams, asm' = [asm EXCEPT ![Poll(s)] = [Idle EXCEPT !.phase = "floor"]],
              \A t \in open' : t # s => t \in open /\ Told(t), UNCHANGED <<doc, trusted>>
       PROVE  BehindTheQueue'
    <2> DEFINE a == [Idle EXCEPT !.phase = "floor"]
    <2>1. a \in Asms /\ a.phase = "floor"
        BY <1>11
    <2>2. asm' = [asm EXCEPT ![Poll(s)] = a]
        BY <1>12
    <2> HIDE DEF a, Idle
    <2>3. asm'[Poll(s)] = a /\ \A t \in Streams \ {s} : asm'[Poll(t)] = asm[Poll(t)]
        BY <1>10, <2>1, <2>2
    <2>4. Behind(s)'
        BY <2>1, <2>3 DEF Behind, Poll
    <2>5. QED
        BY <1>8, <1>12, <2>3, <2>4
<1>13. ASSUME NEW s \in Streams, Connect(s) PROVE BehindTheQueue'
    <2>1. /\ UNCHANGED <<row, doc, trusted>> /\ open' = open \cup {s}
          /\ queue' = [queue EXCEPT ![s] = <<>>]
          /\ asm' = [asm EXCEPT ![Poll(s)] = [Idle EXCEPT !.phase = "floor"]]
        BY <1>13 DEF Connect, Subscribe
    <2>2. \A t \in open' : t # s => t \in open /\ queue'[t] = queue[t]
        BY <2>1 DEF TypeOK
    <2>3. QED
        BY <1>12, <2>1, <2>2, ToldOfNothing
<1>14. ASSUME NEW s \in Streams, Deadline(s) PROVE BehindTheQueue'
    <2>1. /\ UNCHANGED <<row, open, queue, doc, trusted>>
          /\ asm' = [asm EXCEPT ![Poll(s)] = [Idle EXCEPT !.phase = "floor"]]
        BY <1>14 DEF Deadline, Assemble, core, vars, row
    <2>2. QED
        BY <1>12, <2>1, ToldOfNothing
<1>15. ASSUME NEW s \in Streams, Emit(s) PROVE BehindTheQueue'
    <2> DEFINE a == asm[Poll(s)]
    <2>1. /\ UNCHANGED <<row, open, queue>> /\ a.phase = "built"
          /\ asm' = [asm EXCEPT ![Poll(s)] = Idle]
          /\ doc' = [doc EXCEPT ![s] = a.items] /\ trusted' = [trusted EXCEPT ![s] = a.read]
        BY <1>15 DEF Emit, core, vars, row
    <2>2. \A t \in open : Told(t)
        BY <2>1, ToldOfNothing
    <2>3. asm'[Poll(s)] = Idle /\ \A t \in Streams \ {s} : asm'[Poll(t)] = asm[Poll(t)]
        BY <1>10, <1>11, <2>1
    <2>4. /\ doc'[s] = a.items /\ trusted'[s] = a.read
          /\ \A t \in Streams \ {s} : doc'[t] = doc[t] /\ trusted'[t] = trusted[t]
        BY <2>1 DEF DeskShape
    <2>5. ASSUME s \in open' PROVE Behind(s)'
        <3>1. a.read => ItemsBehind(s, a.items)
            BY <2>1, <2>5 DEF Behind
        <3>2. ASSUME NEW d, d = doc'[s], a.read PROVE ItemsBehind(s, d)'
            BY <2>1, <2>2, <2>4, <2>5, <3>1, <3>2, StaysBehind
        <3>3. a.read => ItemsBehind(s, doc[s])'
            BY <3>2
        <3>4. QED
            BY <1>11, <2>3, <2>4, <3>3 DEF Behind, Poll
    <2>6. QED
        BY <1>8, <2>1, <2>2, <2>3, <2>4, <2>5
<1>16. ASSUME NEW s \in Streams, Upsert(s) PROVE BehindTheQueue'
    <2>1. /\ Take(s) /\ asm[Poll(s)].phase = "idle" /\ UNCHANGED <<asm, trusted>>
          /\ UNCHANGED <<row, open>> /\ s \in open /\ queue' = [queue EXCEPT ![s] = Tail(@)]
        BY <1>16 DEF Upsert, Take
    <2>2. \A t \in open' : t # s => t \in open /\ Told(t)
        BY <2>1, ToldOfNothing DEF TypeOK
    <2>3. \A t \in Streams \ {s} : doc'[t] = doc[t]
        BY <1>16 DEF Upsert, DeskShape
    <2>4. ASSUME trusted[s] PROVE ItemsBehind(s, doc[s])'
        <3>1. ItemsBehind(s, doc[s]) /\ doc[s] # NULL
            BY <2>1, <2>4 DEF Behind, TrustedHold
        <3>2. doc'[s] = UpsertAttention(doc[s], Head(queue[s]))
            BY <1>16, <3>1 DEF Upsert, DeskShape
        <3>3. ASSUME NEW d, d = doc'[s] PROVE ItemsBehind(s, d)'
            BY <2>1, <3>1, <3>2, <3>3, UpsertBehind
        <3>4. QED
            BY <3>3
    <2>5. Behind(s)'
        BY <2>1, <2>4 DEF Behind, Poll
    <2>6. QED
        BY <1>8, <2>1, <2>2, <2>3, <2>5
<1>17. ASSUME NEW s \in Streams, Land(s) PROVE BehindTheQueue'
    <2>1. /\ UNCHANGED <<row, open, queue>> /\ asm' = [asm EXCEPT ![Get(s)] = Idle]
          /\ doc' = [doc EXCEPT ![s] = asm[Get(s)].items] /\ trusted' = [trusted EXCEPT ![s] = FALSE]
        BY <1>17 DEF Land, core, vars, row
    <2>2. \A t \in open : Told(t)
        BY <2>1, ToldOfNothing
    <2>3. \A t \in Streams : asm'[Poll(t)] = asm[Poll(t)]
        BY <1>10, <1>11, <2>1
    <2>4. /\ trusted'[s] = FALSE
          /\ \A t \in Streams \ {s} : doc'[t] = doc[t] /\ trusted'[t] = trusted[t]
        BY <2>1 DEF DeskShape
    <2>5. ASSUME s \in open' PROVE Behind(s)'
        <3>1. ASSUME NEW a, a = asm[Poll(s)]
              PROVE  /\ a.phase = "joining" /\ a.read => RowsBehind(s, a.rows)'
                     /\ a.phase = "built" /\ a.read => ItemsBehind(s, a.items)'
            <4>1. /\ a.phase = "joining" /\ a.read => RowsBehind(s, a.rows)
                  /\ a.phase = "built" /\ a.read => ItemsBehind(s, a.items)
                BY <2>1, <2>5, <3>1 DEF Behind
            <4>2. QED
                BY <2>1, <2>2, <2>5, <4>1, StaysBehind
        <3>2. QED
            BY <2>3, <2>4, <3>1 DEF Behind, Poll
    <2>6. QED
        BY <1>8, <2>1, <2>2, <2>3, <2>4, <2>5
<1>18. ASSUME NEW s \in Streams, GetFails(s) PROVE BehindTheQueue'
    <2>1. /\ UNCHANGED <<row, open, queue, doc, trusted>> /\ asm' = [asm EXCEPT ![Get(s)] = Idle]
        BY <1>18 DEF GetFails, core, vars, row
    <2>2. \A t \in open : Told(t)
        BY <2>1, ToldOfNothing
    <2>3. \A t \in Streams : asm'[Poll(t)] = asm[Poll(t)]
        BY <1>10, <1>11, <2>1
    <2>4. s \in open => Behind(s)'
        BY <2>1, <2>2, <2>3, BehindStands
    <2>5. QED
        BY <1>8, <2>1, <2>2, <2>3, <2>4
<1>19. ASSUME NEW s \in Streams, Drop(s) PROVE BehindTheQueue'
    <2>1. /\ UNCHANGED <<row, doc, trusted>> /\ asm' = [asm EXCEPT ![Poll(s)] = Idle]
          /\ open' = open \ {s} /\ queue' = [queue EXCEPT ![s] = <<>>]
        BY <1>19 DEF Drop, Unsubscribe
    <2>2. \A t \in open' : t # s /\ t \in open /\ queue'[t] = queue[t]
        BY <2>1 DEF TypeOK
    <2>3. \A t \in Streams \ {s} : asm'[Poll(t)] = asm[Poll(t)]
        BY <1>10, <1>11, <2>1
    <2>4. QED
        BY <1>8, <2>1, <2>2, <2>3, ToldOfNothing
<1>20. ASSUME NEW s \in Streams, Reload(s) PROVE BehindTheQueue'
    <2>1. /\ UNCHANGED row /\ open' = open \ {s} /\ queue' = [queue EXCEPT ![s] = <<>>]
          /\ doc' = [doc EXCEPT ![s] = NULL] /\ trusted' = [trusted EXCEPT ![s] = FALSE]
          /\ asm' = [asm EXCEPT ![Poll(s)] = Idle, ![Get(s)] = [Idle EXCEPT !.phase = "floor"]]
        BY <1>20 DEF Reload
    <2>2. \A t \in open' : t # s /\ t \in open /\ queue'[t] = queue[t]
        BY <2>1 DEF TypeOK
    <2>3. \A t \in Streams \ {s} :
            asm'[Poll(t)] = asm[Poll(t)] /\ doc'[t] = doc[t] /\ trusted'[t] = trusted[t]
        BY <1>7, <2>1, ReadersAre DEF DeskShape
    <2>4. QED
        BY <1>8, <2>2, <2>3, <2>1, ToldOfNothing
<1>21. QED
    BY <1>2, <1>3, <1>4, <1>5, <1>6, <1>9, <1>13, <1>14, <1>15, <1>16, <1>17, <1>18, <1>19, <1>20
    DEF DeskNext

LEMMA DeskIsBehindTheQueue == DeskSpec => [](TrustedHold /\ BehindTheQueue)
<1>1. DeskInit => TrustedHold /\ BehindTheQueue
    BY DEF DeskInit, Init, TrustedHold, BehindTheQueue
<1>2. ASSUME TypeOK, TypeOK', OnlyTheFactorysWord, QueuesEndOnTheRows, DeskShape, TrustedHold,
             BehindTheQueue, [Next]_vars, [DeskNext]_deskVars
      PROVE  TrustedHold' /\ BehindTheQueue'
    BY <1>2, FactoryGrows, TrustedStep, BehindStep
<1>3. Spec => [](TypeOK /\ OnlyTheFactorysWord /\ QueuesEndOnTheRows)
    BY TypeCorrect, NoMintedWord, EventsAlways, PTL
<1>4. QED
    BY <1>1, <1>2, <1>3, DeskRunsTheCore, DeskIsShaped, PTL DEF DeskSpec, Spec

LEMMA CaughtUpDraws ==
    ASSUME TypeOK, BehindTheQueue, NEW s \in Streams, CaughtUp(s)
    PROVE  ItemsBehind(s, doc[s]) /\ \A i : ~Announced(queue[s], i)
    BY DEF CaughtUp, BehindTheQueue, Behind, Announced

\* A room that has taken what its stream had for it shows the table: for every number of
\* items, streams, handlers, restarts, drops, reloads and failed reads, and whatever was
\* read before and after whatever else.
THEOREM CaughtUpIsTrue == DeskSpec => []CaughtUpDeskIsTrue
<1>1. ASSUME TypeOK, BehindTheQueue PROVE CaughtUpDeskIsTrue
    <2>1. ASSUME NEW s \in Streams, CaughtUp(s)
          PROVE  /\ \A i \in stored : Accounted(doc[s], i)
                 /\ \A k \in 1..notices : <<"notice", k>> \in DOMAIN doc[s]
        BY <1>1, <2>1, CaughtUpDraws DEF ItemsBehind
    <2>2. ASSUME NEW v, NEW i, Drawn(v, i)
          PROVE  /\ v.offers = actions[i] /\ v.ruling = last_ruling[i]
                 /\ v.signal = signal_state[i] /\ v.pressed = pressed_choice[i]
        BY <2>2 DEF Drawn, ItemView, Row
    <2>3. QED
        BY <2>1, <2>2 DEF CaughtUpDeskIsTrue, Accounted
<1>2. QED
    BY <1>1, TypeCorrect, DeskRunsTheCore, DeskIsBehindTheQueue, PTL

\* Nor does it offer an answer to what the table holds answered.
THEOREM CaughtUpControls == DeskSpec => []CaughtUpControlsAreWanted
<1>1. ASSUME TypeOK, BehindTheQueue PROVE CaughtUpControlsAreWanted
    <2> SUFFICES ASSUME NEW s \in Streams, NEW i \in stored, CaughtUp(s), Live(s, i)
                 PROVE  /\ last_ruling[i] \in {NULL, "SIGNAL_FAILED"}
                        /\ signal_state[i] \in {NULL, "SIGNAL_FAILED"}
        BY DEF CaughtUpControlsAreWanted
    <2>1. Drawn(doc[s][i], i)
        BY <1>1, CaughtUpDraws DEF ItemsBehind, Accounted, Live
    <2>2. PICK b \in BOOLEAN, known \in BOOLEAN : doc[s][i] = ItemView(i, Row(i), b, known)
        BY <2>1 DEF Drawn
    <2>3. /\ doc[s][i].state = SettlementState(Row(i), b, known)
          /\ doc[s][i].ruling = last_ruling[i] /\ doc[s][i].signal = signal_state[i]
        BY <2>2 DEF ItemView, Row
    <2>4. /\ i \in Items /\ signal_state[i] \in Signals \cup {NULL}
          /\ i \in Questions => signal_state[i] = NULL
          /\ i \in Escalations => last_ruling[i] = NULL
        BY <1>1 DEF TypeOK
    <2>5. CASE doc[s][i].state = "waiting"
        <3>1. last_ruling[i] = NULL /\ signal_state[i] # "SIGNAL_FAILED" /\ signal_state[i] # "accepted"
            BY <2>3, <2>5 DEF SettlementState, Ruled, Row
        <3>2. QED
            BY <2>4, <3>1 DEF Signals
    <2>6. CASE doc[s][i].state = "ruled"
        <3>1. "SIGNAL_FAILED" \in {last_ruling[i], signal_state[i]}
            BY <2>3, <2>6 DEF Live, Retriable
        <3>2. QED
            BY <2>4, <3>1, AttentionAssumption DEF Items, Signals
    <2>7. QED
        BY <2>5, <2>6 DEF Live
<1>2. QED
    BY <1>1, TypeCorrect, DeskRunsTheCore, DeskIsBehindTheQueue, PTL

\* The verb is kept under any number of Desks, their retries and their reloads.
THEOREM DesksKeepTheVerb == DeskSpec => KeepsTheVerb
<1>1. QED
    BY VerbKept, DeskRunsTheCore
=================================================================================
