---------------------------------- MODULE Desk ----------------------------------
(***************************************************************************)
(* The attention list on its way to the operator, over the backend core: the *)
(* assembly of a floor document (pane/attention.py, pane/floor_document.py), *)
(* the event stream that sends one per poll and the broadcaster's events in   *)
(* between (pane/events.py), and the room that holds the result               *)
(* (web/src/desk/Desk.tsx, AnswerColumn.tsx, web/src/api/events.ts).          *)
(*                                                                         *)
(* An assembly awaits the factory several times, and each part of what it     *)
(* renders is read at another of these points: the in-flight slots, then the  *)
(* rows, then the factory's word on each, and the rest of the floor before it *)
(* is sent.  Two assemblies run for one Desk: its stream's, over and over, and *)
(* the one GET it makes as it mounts, on a connection of its own.             *)
(***************************************************************************)
EXTENDS Attention, TLC

CONSTANTS Strangers,    \* TRUE: clients other than the Desks answer too
          MaxDrops,     \* bound: connections lost and rooms reloaded
          MaxFailures   \* bound: reads that fail

ASSUME DeskAssumption ==
    /\ Strangers \in BOOLEAN
    /\ MaxDrops \in Nat /\ MaxFailures \in Nat

VARIABLES
    asm,       \* asm[r]: the assembly that runs for reader r
    doc,       \* doc[s]: the attention section Desk s holds, NULL before any
    first,     \* first[s]: what became of the GET the Desk mounted with
    pending,   \* pending[s][i]: the handler of the Desk's own POST for i
    trusted,   \* trusted[s]: the stream, not the GET, last replaced doc[s]
    drops, failures

desk == <<asm, doc, first, pending, trusted, drops, failures>>
core == vars
deskVars == <<core, desk>>

Ids == Items \cup ({"notice"} \X (1..MaxNotices))
Poll(s) == <<s, "poll">>
Get(s) == <<s, "get">>
Readers == Streams \X {"poll", "get"}

\* A room with no document is told from every room that holds one.
ASSUME RoomAssumption == \A held \in SUBSET Ids : NULL \notin [held -> Envelopes]

Idle == [phase |-> "idle", flights |-> {}, read |-> TRUE, rows |-> <<>>, items |-> <<>>]

---------------------------------------------------------------------------------
(* Assembling a floor document *)

\* Reader r moves its assembly on; nothing else changes.
Assemble(r, next) ==
    /\ asm' = [asm EXCEPT ![r] = next]
    /\ UNCHANGED <<core, doc, first, pending, trusted, drops, failures>>

\* The floor is read; assemble_attention_section starts with the in-flight slots.
Snapshot(r) ==
    /\ asm[r].phase = "floor"
    /\ Assemble(r, [asm[r] EXCEPT !.phase = "listing", !.flights = registry])

\* An Escalation only the factory told of: no payload of it, and no word on it.
Undelivered == [offers |-> {}, ruling |-> NULL, signal |-> NULL, pressed |-> NULL]

\* The rows for the ids the store holds, and behind them the Escalations the
\* factory lists as open that the store did not return, delivered here or not:
\* shown, with no controls.
RowsRead(held, listed) ==
    [i \in held \cup listed |->
        IF i \notin Items THEN <<>> ELSE IF i \in held THEN Row(i) ELSE Undelivered]

\* The rows the store returned, of items: of these alone are the slots and the
\* factory's resolution asked.  A row of an Escalation always has payloads.
Delivered(rows) == {i \in DOMAIN rows \cap Items : i \in Questions \/ rows[i].offers # {}}

\* open_escalations has answered (a failed read lists nothing), and the rows are
\* read in the same step.
List(r, held, read) ==
    /\ asm[r].phase = "listing"
    /\ \E listed \in SUBSET (Escalations \ resolved) :
        asm' = [asm EXCEPT ![r].phase = "joining", ![r].read = read,
                           ![r].rows = RowsRead(held, listed)]
    /\ UNCHANGED <<core, doc, first, pending, trusted, drops>>

ListRows(r) ==
    /\ List(r, stored \cup ({"notice"} \X (1..notices)), TRUE)
    /\ UNCHANGED failures

\* stored_items cannot read the store: a degraded entry, and no rows.
StoreUnread(r) ==
    /\ failures < MaxFailures
    /\ failures' = failures + 1
    /\ List(r, {}, FALSE)

\* Assembled from the parts read at their different points.
View(a, i, known) ==
    IF i \in Items THEN
        ItemView(i, a.rows[i], i \in a.flights \cap Delivered(a.rows), i \in known)
    ELSE NoticeView(i[2])

\* Only what nobody has answered is taken to be waiting on the operator.
WaitingOnly(a, known) ==
    [i \in {j \in DOMAIN a.rows : View(a, j, known).state \in {"waiting", "none"}} |->
        View(a, i, known)]

\* The rows served as they were read.
Unassembled(a, known) == a.rows

\* The assembled items, the settled ones left out (unsettled_only).
Unsettled(a, known) ==
    [i \in {j \in DOMAIN a.rows : View(a, j, known).state # "settled"} |-> View(a, i, known)]

\* The joins: a resolution the factory reports is known unless its read failed.
\* Reading the rest of the floor is awaited before the document is sent.
Join(r) ==
    /\ asm[r].phase = "joining"
    /\ \E known \in SUBSET (Delivered(asm[r].rows) \cap resolved) :
        Assemble(r, [Idle EXCEPT !.phase = "built", !.read = asm[r].read,
                                 !.items = Unsettled(asm[r], known)])

---------------------------------------------------------------------------------
(* The event stream and the GET *)

\* An EventSource connects, or reconnects: the queue is subscribed before the
\* first document is assembled.
Connect(s) ==
    /\ Subscribe(s)
    /\ asm' = [asm EXCEPT ![Poll(s)] = [Idle EXCEPT !.phase = "floor"]]
    /\ UNCHANGED <<doc, first, pending, trusted, drops, failures>>

\* The poll's deadline passes, whatever is still queued.
Deadline(s) ==
    /\ s \in open
    /\ asm[Poll(s)].phase = "idle"
    /\ Assemble(Poll(s), [Idle EXCEPT !.phase = "floor"])

\* An answer column the new document no longer holds unmounts, its guard with it.
Kept(s, items) ==
    [i \in Items |-> IF i \in DOMAIN items THEN pending[s][i] ELSE NULL]

\* What is queued is taken for older than the document, and dropped with it.
EmitDraining(s) ==
    /\ asm[Poll(s)].phase = "built"
    /\ doc' = [doc EXCEPT ![s] = asm[Poll(s)].items]
    /\ pending' = [pending EXCEPT ![s] = Kept(s, asm[Poll(s)].items)]
    /\ trusted' = [trusted EXCEPT ![s] = asm[Poll(s)].read]
    /\ asm' = [asm EXCEPT ![Poll(s)] = Idle]
    /\ queue' = [queue EXCEPT ![s] = <<>>]
    /\ UNCHANGED <<row, registry, handlers, open, factory, bounds, first, drops, failures>>

\* The document merged under what the Desk already holds.
EmitMerging(s) ==
    LET merged == IF doc[s] = NULL THEN asm[Poll(s)].items ELSE doc[s] @@ asm[Poll(s)].items
    IN  /\ asm[Poll(s)].phase = "built"
        /\ doc' = [doc EXCEPT ![s] = merged]
        /\ pending' = [pending EXCEPT ![s] = Kept(s, merged)]
        /\ trusted' = [trusted EXCEPT ![s] = asm[Poll(s)].read]
        /\ asm' = [asm EXCEPT ![Poll(s)] = Idle]
        /\ UNCHANGED <<core, first, drops, failures>>

\* A floor event: the document replaces the Desk's, and the queue drains next.
Emit(s) ==
    /\ asm[Poll(s)].phase = "built"
    /\ doc' = [doc EXCEPT ![s] = asm[Poll(s)].items]
    /\ pending' = [pending EXCEPT ![s] = Kept(s, asm[Poll(s)].items)]
    /\ trusted' = [trusted EXCEPT ![s] = asm[Poll(s)].read]
    /\ asm' = [asm EXCEPT ![Poll(s)] = Idle]
    /\ UNCHANGED <<core, first, drops, failures>>

\* upsertAttention: the item under its id replaced, or added.
UpsertAttention(items, e) ==
    [i \in DOMAIN items \cup {e.id} |-> IF i = e.id THEN e ELSE items[i]]

\* An attention event, taken only between two documents: upserted into the
\* document the Desk holds, and dropped by a Desk that holds none.
Upsert(s) ==
    /\ asm[Poll(s)].phase = "idle"
    /\ Take(s)
    /\ doc' = IF doc[s] = NULL THEN doc
              ELSE [doc EXCEPT ![s] = UpsertAttention(@, Head(queue[s]))]
    /\ UNCHANGED <<asm, first, pending, trusted, drops, failures>>

\* The GET's answer lands, whenever it lands.
Land(s) ==
    /\ asm[Get(s)].phase = "built"
    /\ doc' = [doc EXCEPT ![s] = asm[Get(s)].items]
    /\ pending' = [pending EXCEPT ![s] = Kept(s, asm[Get(s)].items)]
    /\ trusted' = [trusted EXCEPT ![s] = FALSE]
    /\ first' = [first EXCEPT ![s] = "landed"]
    /\ asm' = [asm EXCEPT ![Get(s)] = Idle]
    /\ UNCHANGED <<core, drops, failures>>

\* The GET fails, on the network or in the backend: the room keeps the error.
GetFails(s) ==
    /\ first[s] = "loading"
    /\ failures < MaxFailures
    /\ failures' = failures + 1
    /\ first' = [first EXCEPT ![s] = "failed"]
    /\ asm' = [asm EXCEPT ![Get(s)] = Idle]
    /\ UNCHANGED <<core, doc, pending, trusted, drops>>

\* The connection drops: what it had not delivered is gone, what the Desk holds stays.
Drop(s) ==
    /\ drops < MaxDrops
    /\ drops' = drops + 1
    /\ Unsubscribe(s)
    /\ asm' = [asm EXCEPT ![Poll(s)] = Idle]
    /\ UNCHANGED <<doc, first, pending, trusted, failures>>

\* The operator reloads the page: a new room, with nothing of the old one.
Reload(s) ==
    /\ drops < MaxDrops
    /\ drops' = drops + 1
    /\ open' = open \ {s}
    /\ queue' = [queue EXCEPT ![s] = <<>>]
    /\ asm' = [asm EXCEPT ![Poll(s)] = Idle, ![Get(s)] = [Idle EXCEPT !.phase = "floor"]]
    /\ doc' = [doc EXCEPT ![s] = NULL]
    /\ first' = [first EXCEPT ![s] = "loading"]
    /\ pending' = [pending EXCEPT ![s] = [i \in Items |-> NULL]]
    /\ trusted' = [trusted EXCEPT ![s] = FALSE]
    /\ UNCHANGED <<row, registry, handlers, factory, bounds, failures>>

\* The pane restarts: every stream and every request on it fails.
Restart ==
    /\ Crash
    /\ asm' = [r \in Readers |-> Idle]
    /\ first' = [s \in Streams |-> IF first[s] = "loading" THEN "failed" ELSE first[s]]
    /\ UNCHANGED <<doc, pending, trusted, drops, failures>>

---------------------------------------------------------------------------------
(* The answer column *)

\* The room draws its document only once its GET has landed.
Rendered(s) == first[s] = "landed" /\ doc[s] # NULL

\* describeRuling: SIGNAL_FAILED, on either kind, is the one retriable word.
Retriable(v) == "SIGNAL_FAILED" \in {v.ruling, v.signal}

\* A ruled item left with its controls, whatever the ruling.
LiveOnceRuled(s, i) ==
    /\ Rendered(s)
    /\ i \in DOMAIN doc[s]
    /\ i \in Questions \/ doc[s][i].offers # {}
    /\ doc[s][i].state \in {"waiting", "ruled"}
    /\ pending[s][i] = NULL

\* The controls an item is drawn with are live.
Live(s, i) ==
    /\ Rendered(s)
    /\ i \in DOMAIN doc[s]
    /\ i \in Questions \/ doc[s][i].offers # {}
    /\ doc[s][i].state \in {"waiting", "ruled"}
    /\ doc[s][i].state = "ruled" => Retriable(doc[s][i])
    /\ pending[s][i] = NULL

\* The handlers whose response some Desk still waits for.
Awaited == {pending[s][i] : s \in Streams, i \in Items} \ {NULL}

\* The operator answers: the Desk's guard closes, and its POST arrives.
Press(s, i, c) ==
    /\ Live(s, i)
    /\ c \notin Awaited
    /\ Arrive(c, i)
    /\ pending' = [pending EXCEPT ![s][i] = c]
    /\ UNCHANGED <<asm, doc, first, trusted, drops, failures>>

\* The response is back, and the guard opens: nothing in it is read.
Release(s, i) ==
    /\ pending[s][i] # NULL
    /\ pc[pending[s][i]] = "idle"
    /\ pending' = [pending EXCEPT ![s][i] = NULL]
    /\ UNCHANGED <<core, asm, doc, first, trusted, drops, failures>>

---------------------------------------------------------------------------------
DeskInit ==
    /\ Init
    /\ asm = [r \in Readers |-> IF r[2] = "get" THEN [Idle EXCEPT !.phase = "floor"] ELSE Idle]
    /\ doc = [s \in Streams |-> NULL]
    /\ first = [s \in Streams |-> "loading"]
    /\ pending = [s \in Streams |-> [i \in Items |-> NULL]]
    /\ trusted = [s \in Streams |-> FALSE]
    /\ drops = 0
    /\ failures = 0

\* The backend's steps that no Desk takes part in.
Backend ==
    \/ \E i \in Items, offered \in SUBSET Choices : Deliver(i, offered)
    \/ DeliverNotice
    \/ \E c \in Calls \ Awaited, i \in Items : Strangers /\ Arrive(c, i)
    \/ \E c \in Calls : Refuse(c)
    \/ \E c \in Calls, a \in Answers : Submit(c, a)
    \/ \E c \in Calls : CallEnds(c)
    \/ \E c \in Calls : Finish(c)
    \/ \E i \in Items : FactorySettles(i)
    \/ \E i \in Items, a \in Answers : OrphanArrives(i, a) \/ OrphanLost(i, a)

\* The steps of reader r's assembly.
Assembling(r) == Snapshot(r) \/ ListRows(r) \/ Join(r)

DeskNext ==
    \/ Backend /\ UNCHANGED desk
    \/ \E r \in Readers : Assembling(r) \/ StoreUnread(r)
    \/ \E s \in Streams :
        \/ Connect(s) \/ Deadline(s) \/ Emit(s) \/ Upsert(s)
        \/ Land(s) \/ GetFails(s) \/ Drop(s) \/ Reload(s)
    \/ \E s \in Streams, i \in Items : Release(s, i) \/ \E c \in Calls : Press(s, i, c)
    \/ Restart

DeskSpec == DeskInit /\ [][DeskNext]_deskVars

\* The backend's fairness; a read ends, in an answer or in a degraded entry; the
\* poll's timer fires; an EventSource reconnects by itself.
DeskFairness ==
    /\ \A c \in Calls :
        /\ WF_deskVars(CallEnds(c) /\ UNCHANGED desk)
        /\ WF_deskVars(Finish(c) /\ UNCHANGED desk)
    /\ \A r \in Readers : WF_deskVars(Assembling(r))
    /\ \A s \in Streams :
        WF_deskVars(Connect(s)) /\ WF_deskVars(Deadline(s))
            /\ WF_deskVars(Emit(s)) /\ WF_deskVars(Land(s))

FairDesk == DeskSpec /\ DeskFairness

---------------------------------------------------------------------------------
(* Properties *)

\* The shape of every assembly and of every room; what a room holds and what is
\* sent to it are assembled items, keyed by the id each one carries.
DeskTypeOK ==
    /\ \A r \in Readers :
        /\ asm[r].phase \in {"idle", "floor", "listing", "joining", "built"}
        /\ asm[r].flights \subseteq Items
        /\ DOMAIN asm[r].rows \subseteq Ids
    /\ \A items \in {asm[r].items : r \in Readers} \cup {doc[s] : s \in Streams} :
        items # NULL =>
            \A i \in DOMAIN items : i \in Ids /\ items[i] \in Envelopes /\ items[i].id = i
    /\ first \in [Streams -> {"loading", "landed", "failed"}]
    /\ pending \in [Streams -> [Items -> Calls \cup {NULL}]]
    /\ trusted \in [Streams -> BOOLEAN]

\* The Desk holds a document of the stream's and has taken every event since.
CaughtUp(s) ==
    /\ s \in open /\ trusted[s]
    /\ asm[Poll(s)].phase = "idle"
    /\ queue[s] = <<>>

\* A Desk that has caught up shows the table: every row it holds is drawn with
\* what it was delivered with and the last word said of it, every row it does not
\* hold is one the factory has resolved, and no Notice is missing, through every
\* interleaving of deliveries, answers, polls and reconnections.
CaughtUpDeskIsTrue ==
    \A s \in Streams : CaughtUp(s) =>
        /\ \A i \in stored \cap DOMAIN doc[s] :
            /\ doc[s][i].offers = actions[i]
            /\ doc[s][i].ruling = last_ruling[i]
            /\ doc[s][i].signal = signal_state[i]
            /\ doc[s][i].pressed = pressed_choice[i]
        /\ \A i \in stored \ DOMAIN doc[s] : i \in resolved
        /\ \A k \in 1..notices : <<"notice", k>> \in DOMAIN doc[s]

\* A Desk that has caught up offers an answer only where the table wants one: the
\* item has no word yet, or the one word that may be tried again.  What it draws was
\* read at several moments and patched by events since, and a control is live or dead
\* by the state that was drawn, not by the row.
CaughtUpControlsAreWanted ==
    \A s \in Streams, i \in stored :
        CaughtUp(s) /\ Live(s, i) =>
            /\ last_ruling[i] \in {NULL, "SIGNAL_FAILED"}
            /\ signal_state[i] \in {NULL, "SIGNAL_FAILED"}

\* A delivered item is drawn on every Desk, or the factory resolves it: no item is
\* lost with the stream (specs/003 Edge Cases), unless the room's first read failed.
DeliveredIsShown ==
    \A s \in Streams, i \in Items :
        i \in stored ~> \/ Rendered(s) /\ i \in DOMAIN doc[s]
                        \/ i \in resolved
                        \/ first[s] = "failed"

\* An item drawn in flight that no call is out for, and no accepted press explains,
\* does not stay so: a relay that raised publishes nothing, and only the next poll
\* gives the operator the controls back.
Stuck(s, i) ==
    /\ doc[s] # NULL /\ i \in DOMAIN doc[s]
    /\ doc[s][i].state = "in_flight"
    /\ i \notin registry /\ signal_state[i] # "accepted"

InFlightClears == \A s \in Streams, i \in Items : Stuck(s, i) ~> ~Stuck(s, i)

\* "A settled item loses its controls ... neither offers a way to re-answer"
\* (AnswerColumn.tsx): no call goes out for a Question the table holds RESOLVED.
NoCallOnSettled ==
    \A c \in Calls : pc[c] = "sent" => last_ruling[item[c]] # "RESOLVED"
=================================================================================
