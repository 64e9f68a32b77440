---------------------------------- MODULE Rail ----------------------------------
(***************************************************************************)
(* The showfloor's rail on its way to a Desk: assembled spec by spec, with an *)
(* await in each (pane/showfloor.py), once for the GET the Desk mounts with    *)
(* (web/src/desk/Desk.tsx) and once per poll of its event stream, which sends  *)
(* only the entries that differ from those it sent before (pane/events.py) for *)
(* the Desk to upsert (web/src/api/events.ts).  Unlike the floor document of   *)
(* module Desk, nothing ever sends the whole rail again: what the Desk shows   *)
(* is right only as long as it holds every entry the stream remembers sending. *)
(*                                                                         *)
(* How an entry is derived is module Showfloor's; here it is a word.           *)
(***************************************************************************)
EXTENDS Integers, Sequences

CONSTANTS Specs,        \* the spec dirs, in their sorted order
          Words,        \* what an assembly can make of a spec
          NULL,         \* no spec, no entry, no document
          MaxMoves,     \* bound: changes of the floor
          MaxDrops,     \* bound: connections lost and rooms reloaded
          MaxFailures   \* bound: reads that fail

Entries == Words \cup {"degraded"}

ASSUME RailAssumption ==
    /\ Specs \subseteq Nat
    /\ NULL \notin Entries
    /\ \A f \in [Specs -> Entries \cup {NULL}] : f # NULL
    /\ MaxMoves \in Nat /\ MaxDrops \in Nat /\ MaxFailures \in Nat

VARIABLES
    truth,      \* truth[s]: what reading s now would give, NULL off the corpus
    asm,        \* asm[r]: the specs r has left to read, and its rail so far
    open,       \* the Desk's stream is connected
    previous,   \* previous[s]: the entry this generator last yielded for s
    wire,       \* the showfloor events yielded and not yet delivered
    first,      \* what became of the GET the Desk mounted with
    shown,      \* the rail the Desk holds, NULL before its document
    missed,     \* history: an event of this stream came before the document
    moves, drops, failures

bounds == <<moves, drops, failures>>
vars == <<truth, asm, open, previous, wire, first, shown, missed, bounds>>

Nothing == [s \in Specs |-> NULL]
Idle == [left |-> {}, rail |-> Nothing]
Readers == {"poll", "get"}

Init ==
    /\ truth \in [Specs -> Words \cup {NULL}]
    /\ asm = [r \in Readers |-> Idle]
    /\ open = FALSE
    /\ previous = Nothing /\ wire = <<>>
    /\ first = "asked" /\ shown = NULL /\ missed = FALSE
    /\ moves = 0 /\ drops = 0 /\ failures = 0

Fail == failures < MaxFailures /\ failures' = failures + 1

---------------------------------------------------------------------------------
(* Assembling *)

\* The factory, the branch or the corpus moves on.
Move(s) ==
    /\ moves < MaxMoves /\ moves' = moves + 1
    /\ \E w \in (Words \cup {NULL}) \ {truth[s]} : truth' = [truth EXCEPT ![s] = w]
    /\ UNCHANGED <<asm, open, previous, wire, first, shown, missed, drops, failures>>

\* r's assembly reads the corpus; one that does not parse is a rail with no entry.
Begin(r) ==
    /\ \/ r = "poll" /\ open /\ asm[r] = Idle /\ UNCHANGED first
       \/ r = "get" /\ first = "asked" /\ first' = "reading"
    /\ \/ /\ asm' = [asm EXCEPT ![r].left = {s \in Specs : truth[s] # NULL}]
          /\ UNCHANGED failures
       \/ Fail /\ UNCHANGED asm
    /\ UNCHANGED <<truth, open, previous, wire, shown, missed, moves, drops>>

\* The next spec is read.  A refused read degrades in place, and so does a spec
\* that left the corpus after it was listed.
ReadSpec(r) == \E s \in asm[r].left :
    /\ \A t \in asm[r].left : s <= t
    /\ \E e \in Entries :
        /\ \/ e = truth[s] /\ UNCHANGED failures
           \/ e = "degraded" /\ truth[s] = NULL /\ UNCHANGED failures
           \/ e = "degraded" /\ Fail
        /\ asm' = [asm EXCEPT ![r].left = @ \ {s}, ![r].rail[s] = e]
    /\ UNCHANGED <<truth, open, previous, wire, first, shown, missed, moves, drops>>

---------------------------------------------------------------------------------
(* The stream *)

\* A generator whose baseline outlives its subscriber.
ConnectKeeping ==
    /\ ~open /\ open' = TRUE /\ missed' = FALSE
    /\ UNCHANGED <<truth, asm, previous, wire, first, shown, bounds>>

\* A subscription starts a generator of its own, with a baseline of its own.
Connect ==
    /\ ~open /\ open' = TRUE /\ missed' = FALSE
    /\ previous' = Nothing
    /\ UNCHANGED <<truth, asm, wire, first, shown, bounds>>

\* The poll's assembly is done: its entries are compared one after another, and one
\* that differs is remembered and sent.
Emit == \E s \in Specs : LET e == asm["poll"].rail[s] IN
    /\ asm["poll"].left = {} /\ e # NULL
    /\ \A t \in Specs : asm["poll"].rail[t] # NULL => s <= t
    /\ asm' = [asm EXCEPT !["poll"].rail[s] = NULL]
    /\ previous' = [previous EXCEPT ![s] = e]
    /\ wire' = IF previous[s] # e THEN Append(wire, [spec |-> s, entry |-> e]) ELSE wire
    /\ UNCHANGED <<truth, open, first, shown, missed, bounds>>

\* The connection is lost with what was on it, and the generator is closed.
Close ==
    /\ drops < MaxDrops /\ drops' = drops + 1
    /\ open' = FALSE /\ wire' = <<>>
    /\ UNCHANGED <<truth, previous, missed, moves, failures>>

Drop ==
    /\ open /\ Close
    /\ asm' = [asm EXCEPT !["poll"] = Idle]
    /\ UNCHANGED <<first, shown>>

---------------------------------------------------------------------------------
(* The room *)

\* The response to the GET: the document is the room's from here on.
Land ==
    /\ first = "reading" /\ asm["get"].left = {}
    /\ first' = "landed" /\ shown' = asm["get"].rail
    /\ asm' = [asm EXCEPT !["get"] = Idle]
    /\ UNCHANGED <<truth, open, previous, wire, missed, bounds>>

\* The body of a refusal, kept for a document.
GetFailsKept ==
    /\ first \in {"asked", "reading"} /\ Fail
    /\ first' = "failed" /\ shown' = <<>>
    /\ asm' = [asm EXCEPT !["get"] = Idle]
    /\ UNCHANGED <<truth, open, previous, wire, missed, moves, drops>>

\* A refused or failed read, or a body with no rail, leaves the ladders unread.
GetFails ==
    /\ first \in {"asked", "reading"} /\ Fail
    /\ first' = "failed"
    /\ asm' = [asm EXCEPT !["get"] = Idle]
    /\ UNCHANGED <<truth, open, previous, wire, shown, missed, moves, drops>>

\* The upsert without its append: a spec the document did not carry is dropped.
DeliverKnown ==
    /\ wire # <<>> /\ wire' = Tail(wire)
    /\ IF shown = NULL \/ shown[Head(wire).spec] = NULL THEN UNCHANGED shown
       ELSE shown' = [shown EXCEPT ![Head(wire).spec] = Head(wire).entry]
    /\ missed' = (missed \/ shown = NULL)
    /\ UNCHANGED <<truth, asm, open, previous, first, bounds>>

\* A showfloor event replaces the entry of its spec or appends it; before there is a
\* document it is dropped.
Deliver ==
    /\ wire # <<>> /\ wire' = Tail(wire)
    /\ IF shown = NULL THEN UNCHANGED shown
       ELSE shown' = [shown EXCEPT ![Head(wire).spec] = Head(wire).entry]
    /\ missed' = (missed \/ shown = NULL)
    /\ UNCHANGED <<truth, asm, open, previous, first, bounds>>

\* The room is mounted anew: no document, a GET of its own, a stream of its own.
Reload ==
    /\ Close
    /\ first' = "asked" /\ shown' = NULL
    /\ asm' = [r \in Readers |-> Idle]

---------------------------------------------------------------------------------
Next ==
    \/ \E s \in Specs : Move(s)
    \/ \E r \in Readers : Begin(r) \/ ReadSpec(r)
    \/ Connect \/ Emit \/ Drop
    \/ Land \/ GetFails \/ Deliver \/ Reload

Spec == Init /\ [][Next]_vars

\* An EventSource reconnects, a poll comes round, an await returns and a connection
\* that holds carries what is sent.  No move of the floor must happen.
FairSpec ==
    /\ Spec
    /\ WF_vars(Connect) /\ WF_vars(Emit) /\ WF_vars(Deliver) /\ WF_vars(Land)
    /\ \A r \in Readers : WF_vars(Begin(r)) /\ WF_vars(ReadSpec(r))

---------------------------------------------------------------------------------
(* Properties *)

Rails == [Specs -> Entries \cup {NULL}]
Events == [spec : Specs, entry : Entries]

\* The shape of everything the pane and the Desk hold of a rail.
TypeOK ==
    /\ truth \in [Specs -> Words \cup {NULL}]
    /\ asm \in [Readers -> [left : SUBSET Specs, rail : Rails]]
    /\ open \in BOOLEAN /\ missed \in BOOLEAN
    /\ previous \in Rails
    /\ wire \in Seq(Events)
    /\ first \in {"asked", "reading", "landed", "failed"}
    /\ shown \in {NULL} \cup Rails
    /\ moves \in 0..MaxMoves /\ drops \in 0..MaxDrops /\ failures \in 0..MaxFailures

\* No later event on the wire is about the spec of the i-th.
IsLast(i) == \A j \in (i + 1)..Len(wire) : wire[j].spec # wire[i].spec

Unsent(s) == \A i \in 1..Len(wire) : wire[i].spec # s

\* What the stream remembers sending of s is on the wire with nothing newer of s
\* behind it, or is what the Desk shows.
Remembered(s) ==
    \/ \E i \in 1..Len(wire) :
        wire[i] = [spec |-> s, entry |-> previous[s]] /\ IsLast(i)
    \/ Unsent(s) /\ shown # NULL /\ shown[s] = previous[s]

\* An entry the stream will not send again, because it remembers sending it, is still
\* to arrive or is shown: the deltas (events.py:105-109) and the upserts (Desk.tsx:86)
\* agree on the baseline, through reconnects and reloads, unless an event came before
\* the document did.
BaselineHeld ==
    open /\ ~missed => \A s \in Specs : previous[s] # NULL => Remembered(s)

Current == shown # NULL /\ \A s \in Specs : truth[s] # NULL => shown[s] = truth[s]

\* A Desk that has its document, and had it before its stream's first event, comes to
\* show what is so of every spec, whatever degraded reads and lost connections came
\* before (specs/005 FR-005).
RailSettles == <>[](shown # NULL /\ ~missed => Current)

\* "the two rooms cannot drift apart between polls" (events.ts:10-13): a Desk with a
\* document comes to show what is so of every spec, however the GET and the stream
\* it was mounted with were ordered.
RoomsDoNotDrift == <>[](shown # NULL => Current)
=================================================================================
