-------------------------------- MODULE Attention --------------------------------
(***************************************************************************)
(* The backend half of the pane's one verb: the delivery store              *)
(* (pane/attention_store.py), intake (pane/intake.py), the Answer handler    *)
(* and its in-flight registry (pane/answer.py), the settlement calls of the  *)
(* live reader (pane/readers.py) and the broadcaster that fans accepted      *)
(* items out to the open event streams (pane/events.py).                     *)
(*                                                                         *)
(* The process is one asyncio event loop: what a handler does between two    *)
(* awaits is one step.  The registry's lock is held over no await, so a      *)
(* claim and a release never suspend and belong to the step they stand in.   *)
(*                                                                         *)
(* The factory is outside this repository.  It is modelled by what the pane  *)
(* sees of it: the words handle_relay answers, the signals it is sent, and   *)
(* the resolution its reads report.                                         *)
(***************************************************************************)
EXTENDS Naturals, Sequences

CONSTANTS Questions,         \* correlation ids of Questions
          Escalations,       \* correlation ids of Escalations
          Choices,           \* the payloads an Escalation can be delivered with
          Refusals,          \* handle_relay's words that leave a Question open
          LateWords,         \* handle_relay's words for a Question no longer open
          Calls,             \* the Answer handlers that can run at once
          Streams,           \* the event streams that can be open at once
          NULL,              \* SQL NULL, Python None
          RepliesCanBeLost,  \* TRUE: a call may reach the factory and still raise
          MaxCalls,          \* bound: settlement calls issued in a behaviour
          MaxCrashes,        \* bound: restarts of the pane
          MaxNotices         \* bound: Notices delivered

Items == Questions \cup Escalations
Rulings == {"RESOLVED"} \cup Refusals \cup LateWords
Signals == {"accepted", "SIGNAL_FAILED"}

ASSUME AttentionAssumption ==
    /\ Questions \cap Escalations = {}
    /\ "RESOLVED" \notin Refusals \cup LateWords
    /\ LateWords # {}
    /\ Choices \cap (Rulings \cup Signals) = {}
    /\ NULL \notin Items \cup Choices \cup Rulings \cup Signals
    /\ RepliesCanBeLost \in BOOLEAN
    /\ MaxCalls \in Nat /\ MaxCrashes \in Nat /\ MaxNotices \in Nat

\* A Notice's id, minted as notice:<row>, is no correlation id: intake does not
\* enforce it, the factory's ids do not begin with that word.
ASSUME NoticeAssumption == Items \cap ({"notice"} \X (1..MaxNotices)) = {}

VARIABLES
    \* The attention table: one row per answerable id, and rows are never deleted.
    stored,          \* the answerable ids that have a row
    actions,         \* actions[i]: the payloads the row was first delivered with
    last_ruling,     \* last_ruling[i]: what handle_relay last returned
    pressed_choice,  \* pressed_choice[i]: what the last press sent
    signal_state,    \* signal_state[i]: what that press produced
    notices,         \* the number of Notice rows
    \* Process memory: the registry, the Answer handlers, the broadcaster.
    registry,        \* InFlightRegistry._ids
    pc,              \* pc[c]: where handler c stands
    item,            \* item[c]: the correlation id it answers
    answer,          \* answer[c]: the payload it presses; NULL for a text
    outcome,         \* outcome[c]: what its settlement call returned
    open,            \* the streams whose queue is subscribed
    queue,           \* queue[s]: the envelopes stream s has not taken yet
    \* The factory.
    said,            \* said[i]: a Question's words spoken, an Escalation's signals heard
    resolved,        \* the items whose factory read reports a resolution
    orphans,         \* calls a crashed pane left on the wire: <<id, payload>>
    \* Bounds.
    calls, crashes

row == <<stored, actions, last_ruling, pressed_choice, signal_state, notices>>
handlers == <<pc, item, answer, outcome>>
factory == <<said, resolved, orphans>>
bounds == <<calls, crashes>>
vars == <<stored, actions, last_ruling, pressed_choice, signal_state, notices,
          registry, pc, item, answer, outcome, open, queue,
          said, resolved, orphans, calls, crashes>>

---------------------------------------------------------------------------------
(* What the pane says of an item *)

\* The columns of an answerable item's row that an Attention item shows.
Row(i) ==
    [offers |-> actions[i], ruling |-> last_ruling[i], signal |-> signal_state[i],
     pressed |-> pressed_choice[i]]

\* The factory's own word: a read that reports a resolution, or RESOLVED.
Settled(r, known) == known \/ r.ruling = "RESOLVED"

\* Any other word: only a Question row has a ruling, only an Escalation row a signal.
Ruled(r) == r.ruling # NULL \/ r.signal = "SIGNAL_FAILED"

\* settlement_state: read time only, the first branch that applies.
SettlementState(r, in_flight, known) ==
    IF in_flight THEN "in_flight"
    ELSE IF Settled(r, known) THEN "settled"
    ELSE IF Ruled(r) THEN "ruled"
    ELSE IF r.signal = "accepted" THEN "in_flight" ELSE "waiting"

\* One item of assemble_attention, from its row, the registry as it was read,
\* whether the factory's join reported a resolution (FALSE too when none was made).
ItemView(i, r, in_flight, known) ==
    [id |-> i,
     state |-> SettlementState(r, in_flight, known),
     offers |-> r.offers,
     ruling |-> r.ruling,
     signal |-> r.signal,
     pressed |-> r.pressed]

\* What an attention event carries: no factory read rides along.
EventView(i) == ItemView(i, Row(i), i \in registry, FALSE)

\* A Notice's id is minted from its row, not from its correlation id.
NoticeView(k) ==
    [id |-> <<"notice", k>>, state |-> "none", offers |-> {}, ruling |-> NULL,
     signal |-> NULL, pressed |-> NULL]

\* AttentionBroadcaster.publish: one put on every subscribed queue, no await.
Fanout(envelope) ==
    [s \in Streams |-> IF s \in open THEN Append(queue[s], envelope) ELSE queue[s]]

\* Publish one item as it stands once the step's own writes are done.
PublishItem(i) == \E event \in {EventView(i)'} : queue' = Fanout(event)

---------------------------------------------------------------------------------
(* Intake *)

\* classify: with actions an Escalation, without a Question.
Classified(i, offered) ==
    IF i \in Questions THEN offered = {} ELSE offered # {}

\* A re-delivery that rewrites the row it finds (INSERT OR REPLACE).
DeliverReplacing(i, offered) ==
    /\ Classified(i, offered)
    /\ stored' = stored \cup {i}
    /\ actions' = [actions EXCEPT ![i] = offered]
    /\ last_ruling' = [last_ruling EXCEPT ![i] = NULL]
    /\ pressed_choice' = [pressed_choice EXCEPT ![i] = NULL]
    /\ signal_state' = [signal_state EXCEPT ![i] = NULL]
    /\ UNCHANGED <<notices, registry, handlers, open, factory, bounds>>
    /\ PublishItem(i)

\* The factory delivers, or re-delivers, an answerable item.  INSERT OR IGNORE:
\* a re-delivery stores nothing and publishes nothing.
Deliver(i, offered) ==
    /\ Classified(i, offered)
    /\ stored' = stored \cup {i}
    /\ actions' = IF i \in stored THEN actions ELSE [actions EXCEPT ![i] = offered]
    /\ queue' = IF i \in stored THEN queue
                ELSE Fanout(ItemView(i, [Row(i) EXCEPT !.offers = offered], FALSE, FALSE))
    /\ UNCHANGED <<last_ruling, pressed_choice, signal_state, notices, registry,
                   handlers, open, factory, bounds>>

\* A Notice always inserts and always publishes.
DeliverNotice ==
    /\ notices < MaxNotices
    /\ notices' = notices + 1
    /\ queue' = Fanout(NoticeView(notices'))
    /\ UNCHANGED <<stored, actions, last_ruling, pressed_choice, signal_state,
                   registry, handlers, open, factory, bounds>>

---------------------------------------------------------------------------------
(* The Answer handler *)

\* A handler whose settlement call is out, or has ended and not been recorded.
Out(c) == pc[c] \in {"sent", "answered", "raised"}

\* Everything the handler forgets as it ends.
Return(c) ==
    /\ pc' = [pc EXCEPT ![c] = "idle"]
    /\ item' = [item EXCEPT ![c] = NULL]
    /\ answer' = [answer EXCEPT ![c] = NULL]
    /\ outcome' = [outcome EXCEPT ![c] = NULL]

\* The request is accepted so far: a row exists and no call is out for it.
\* The body is awaited next.  (No row is a 404, a slot taken a 409: no effect.)
Arrive(c, i) ==
    /\ pc[c] = "idle"
    /\ i \in stored
    /\ i \notin registry
    /\ pc' = [pc EXCEPT ![c] = "body"]
    /\ item' = [item EXCEPT ![c] = i]
    /\ UNCHANGED <<row, registry, answer, outcome, open, queue, factory, bounds>>

\* Refused once the body is read: empty text, a payload not delivered (422), or
\* a slot another handler claimed during the await (409).
Refuse(c) ==
    /\ pc[c] = "body"
    /\ Return(c)
    /\ UNCHANGED <<row, registry, open, queue, factory, bounds>>

\* The claim forgotten: the check before the await is the only one.
SubmitUnclaimed(c, a) ==
    /\ pc[c] = "body"
    /\ IF item[c] \in Questions THEN a = NULL ELSE a \in actions[item[c]]
    /\ calls < MaxCalls
    /\ registry' = registry \cup {item[c]}
    /\ pc' = [pc EXCEPT ![c] = "sent"]
    /\ answer' = [answer EXCEPT ![c] = a]
    /\ calls' = calls + 1
    /\ UNCHANGED <<row, item, outcome, open, queue, factory, crashes>>

\* The delivered payloads not consulted: any well-formed payload is pressed.
SubmitUndelivered(c, a) ==
    /\ pc[c] = "body"
    /\ IF item[c] \in Questions THEN a = NULL ELSE a \in Choices
    /\ item[c] \notin registry
    /\ calls < MaxCalls
    /\ registry' = registry \cup {item[c]}
    /\ pc' = [pc EXCEPT ![c] = "sent"]
    /\ answer' = [answer EXCEPT ![c] = a]
    /\ calls' = calls + 1
    /\ UNCHANGED <<row, item, outcome, open, queue, factory, crashes>>

\* The body is read and valid, the slot is claimed and the call is issued.
Submit(c, a) ==
    /\ pc[c] = "body"
    /\ IF item[c] \in Questions THEN a = NULL ELSE a \in actions[item[c]]
    /\ item[c] \notin registry
    /\ calls < MaxCalls
    /\ registry' = registry \cup {item[c]}
    /\ pc' = [pc EXCEPT ![c] = "sent"]
    /\ answer' = [answer EXCEPT ![c] = a]
    /\ calls' = calls + 1
    /\ UNCHANGED <<row, item, outcome, open, queue, factory, crashes>>

---------------------------------------------------------------------------------
(* The settlement calls and the factory behind them *)

\* What handle_relay can answer: it resolves an open Question or refuses, and
\* one no longer open keeps its fate.
RelayWords(q) == IF q \in resolved THEN LateWords ELSE {"RESOLVED"} \cup Refusals

\* The factory takes a call for i and answers w: a relay is ruled on at once, a
\* signal only heard (its workflow decides later).
Hear(i, a, w) ==
    /\ IF i \in Questions THEN w \in RelayWords(i) ELSE w = a
    /\ said' = [said EXCEPT ![i] = @ \cup {w}]
    /\ resolved' = IF w = "RESOLVED" THEN resolved \cup {i} ELSE resolved

Words == Rulings \cup Choices

\* The call reaches the factory and its answer reaches the handler.
CallAnswered(c) ==
    /\ pc[c] = "sent"
    /\ \E w \in Words :
        /\ Hear(item[c], answer[c], w)
        /\ outcome' = [outcome EXCEPT ![c] = w]
    /\ pc' = [pc EXCEPT ![c] = "answered"]
    /\ UNCHANGED <<row, registry, item, answer, open, queue, orphans, bounds>>

\* The call reaches the factory and its answer is lost: the handler sees a raise.
ReplyLost(c) ==
    /\ RepliesCanBeLost
    /\ pc[c] = "sent"
    /\ \E w \in Words : Hear(item[c], answer[c], w)
    /\ pc' = [pc EXCEPT ![c] = "raised"]
    /\ UNCHANGED <<row, registry, item, answer, outcome, open, queue, orphans, bounds>>

\* The call never reaches the factory: no client, or a dead one.
CallLost(c) ==
    /\ pc[c] = "sent"
    /\ pc' = [pc EXCEPT ![c] = "raised"]
    /\ UNCHANGED <<row, registry, item, answer, outcome, open, queue, factory, bounds>>

\* The factory settles an item without this pane: another channel's answer, the
\* Escalation's workflow deciding, a deadline.
FactorySettles(i) ==
    /\ resolved' = resolved \cup {i}
    /\ UNCHANGED <<row, registry, handlers, open, queue, said, orphans, bounds>>

\* A call whose pane has died still arrives, or never does.
OrphanArrives(i, a) ==
    /\ <<i, a>> \in orphans
    /\ orphans' = orphans \ {<<i, a>>}
    /\ \E w \in Words : Hear(i, a, w)
    /\ UNCHANGED <<row, registry, handlers, open, queue, bounds>>

OrphanLost(i, a) ==
    /\ <<i, a>> \in orphans
    /\ orphans' = orphans \ {<<i, a>>}
    /\ UNCHANGED <<row, registry, handlers, open, queue, said, resolved, bounds>>

---------------------------------------------------------------------------------
(* The handler takes up its call's end: record, release, publish in one step *)

\* A raising relay is taken for the answer the operator hoped for.
RecordRulingOptimist(c, i) ==
    /\ pc[c] \in {"answered", "raised"}
    /\ item[c] = i /\ i \in Questions
    /\ last_ruling' = [last_ruling EXCEPT ![i] =
                          IF pc[c] = "raised" THEN "RESOLVED" ELSE outcome[c]]
    /\ registry' = registry \ {i}
    /\ Return(c)
    /\ UNCHANGED <<stored, actions, pressed_choice, signal_state, notices, open,
                   factory, bounds>>
    /\ PublishItem(i)

\* The event assembled before the slot is released.
RecordRulingEventFirst(c, i) ==
    /\ pc[c] = "answered"
    /\ item[c] = i /\ i \in Questions
    /\ last_ruling' = [last_ruling EXCEPT ![i] = outcome[c]]
    /\ registry' = registry \ {i}
    /\ Return(c)
    /\ UNCHANGED <<stored, actions, pressed_choice, signal_state, notices, open,
                   factory, bounds>>
    /\ \E event \in {ItemView(i, Row(i), TRUE, FALSE)'} : queue' = Fanout(event)

\* record_ruling, the finally clause, and the one event.
RecordRuling(c, i) ==
    /\ pc[c] = "answered"
    /\ item[c] = i /\ i \in Questions
    /\ last_ruling' = [last_ruling EXCEPT ![i] = outcome[c]]
    /\ registry' = registry \ {i}
    /\ Return(c)
    /\ UNCHANGED <<stored, actions, pressed_choice, signal_state, notices, open,
                   factory, bounds>>
    /\ PublishItem(i)

\* The release reached only on the way out that returns.
AbandonUnreleased(c, i) ==
    /\ pc[c] \in {"answered", "raised"}
    /\ item[c] = i
    /\ Return(c)
    /\ UNCHANGED <<row, registry, open, queue, factory, bounds>>

\* A relay that raises, or a write that does once the call has ended (the table is
\* locked, the disk full): the slot is released by the finally clause, nothing is
\* recorded, nothing published.
Abandon(c, i) ==
    /\ pc[c] \in {"answered", "raised"}
    /\ item[c] = i
    /\ registry' = registry \ {i}
    /\ Return(c)
    /\ UNCHANGED <<row, open, queue, factory, bounds>>

\* The press recorded under the signal word the except clause chose.
RecordPressAs(c, i, word) ==
    /\ pc[c] \in {"answered", "raised"}
    /\ item[c] = i /\ i \in Escalations
    /\ pressed_choice' = [pressed_choice EXCEPT ![i] = answer[c]]
    /\ signal_state' = [signal_state EXCEPT ![i] = word]
    /\ registry' = registry \ {i}
    /\ Return(c)
    /\ UNCHANGED <<stored, actions, last_ruling, notices, open, factory, bounds>>
    /\ PublishItem(i)

\* The exception swallowed: every press is reported accepted.
RecordPressAccepting(c, i) == RecordPressAs(c, i, "accepted")

\* The call's own return value stored where the signal word belongs.
RecordPressUnmapped(c, i) ==
    RecordPressAs(c, i, IF pc[c] = "raised" THEN "SIGNAL_FAILED" ELSE outcome[c])

\* record_press: accepted, or SIGNAL_FAILED for any raise at all.
RecordPress(c, i) ==
    RecordPressAs(c, i, IF pc[c] = "raised" THEN "SIGNAL_FAILED" ELSE "accepted")

---------------------------------------------------------------------------------
(* Streams, and the process itself *)

Subscribe(s) ==
    /\ s \notin open
    /\ open' = open \cup {s}
    /\ queue' = [queue EXCEPT ![s] = <<>>]
    /\ UNCHANGED <<row, registry, handlers, factory, bounds>>

\* The stream takes its oldest envelope and yields it.
Take(s) ==
    /\ s \in open
    /\ queue[s] # <<>>
    /\ queue' = [queue EXCEPT ![s] = Tail(@)]
    /\ UNCHANGED <<row, registry, handlers, open, factory, bounds>>

\* The client is gone: the generator's finally drops the queue.
Unsubscribe(s) ==
    /\ s \in open
    /\ open' = open \ {s}
    /\ queue' = [queue EXCEPT ![s] = <<>>]
    /\ UNCHANGED <<row, registry, handlers, factory, bounds>>

\* The pane dies and starts again: the table stays, process memory is new, and
\* the calls it had sent are still on the wire.
Crash ==
    /\ crashes < MaxCrashes
    /\ crashes' = crashes + 1
    /\ registry' = {}
    /\ pc' = [c \in Calls |-> "idle"]
    /\ item' = [c \in Calls |-> NULL]
    /\ answer' = [c \in Calls |-> NULL]
    /\ outcome' = [c \in Calls |-> NULL]
    /\ orphans' = orphans \cup {<<item[c], answer[c]>> : c \in {d \in Calls : pc[d] = "sent"}}
    /\ open' = {}
    /\ queue' = [s \in Streams |-> <<>>]
    /\ UNCHANGED <<row, said, resolved, calls>>

---------------------------------------------------------------------------------
Init ==
    /\ stored = {}
    /\ actions = [i \in Items |-> {}]
    /\ last_ruling = [i \in Items |-> NULL]
    /\ pressed_choice = [i \in Items |-> NULL]
    /\ signal_state = [i \in Items |-> NULL]
    /\ notices = 0
    /\ registry = {}
    /\ pc = [c \in Calls |-> "idle"]
    /\ item = [c \in Calls |-> NULL]
    /\ answer = [c \in Calls |-> NULL]
    /\ outcome = [c \in Calls |-> NULL]
    /\ open = {}
    /\ queue = [s \in Streams |-> <<>>]
    /\ said = [i \in Items |-> {}]
    /\ resolved = {}
    /\ orphans = {}
    /\ calls = 0
    /\ crashes = 0

Answers == Choices \cup {NULL}

\* A handler's own steps once its call has ended.
Finish(c) ==
    \E i \in Items : RecordRuling(c, i) \/ RecordPress(c, i) \/ Abandon(c, i)

\* The ways a call that is out comes back.
CallEnds(c) == CallAnswered(c) \/ ReplyLost(c) \/ CallLost(c)

Next ==
    \/ \E i \in Items, offered \in SUBSET Choices : Deliver(i, offered)
    \/ DeliverNotice
    \/ \E c \in Calls, i \in Items : Arrive(c, i)
    \/ \E c \in Calls : Refuse(c)
    \/ \E c \in Calls, a \in Answers : Submit(c, a)
    \/ \E c \in Calls : CallEnds(c)
    \/ \E c \in Calls : Finish(c)
    \/ \E i \in Items : FactorySettles(i)
    \/ \E i \in Items, a \in Answers : OrphanArrives(i, a) \/ OrphanLost(i, a)
    \/ \E s \in Streams : Subscribe(s) \/ Take(s) \/ Unsubscribe(s)
    \/ Crash

Spec == Init /\ [][Next]_vars

\* An RPC ends, by answer or by raise (the client library's deadline), and the
\* event loop resumes a handler whose await is done.  Nothing else must happen.
Fairness == \A c \in Calls : WF_vars(CallEnds(c)) /\ WF_vars(Finish(c))

FairSpec == Spec /\ Fairness

---------------------------------------------------------------------------------
(* Properties *)

Envelopes ==
    [id : Items \cup ({"notice"} \X (1..MaxNotices)),
     state : {"none", "waiting", "in_flight", "ruled", "settled"},
     offers : SUBSET Choices,
     ruling : Rulings \cup {NULL},
     signal : Signals \cup {NULL},
     pressed : Choices \cup {NULL}]

\* The shape of the table, of process memory and of what the factory holds; the
\* CHECK and the kind filters of the two UPDATEs (attention_store.py) included.
TypeOK ==
    /\ stored \subseteq Items
    /\ actions \in [Items -> SUBSET Choices]
    /\ last_ruling \in [Items -> Rulings \cup {NULL}]
    /\ \A i \in Escalations : last_ruling[i] = NULL
    /\ pressed_choice \in [Items -> Choices \cup {NULL}]
    /\ signal_state \in [Items -> Signals \cup {NULL}]
    /\ \A i \in Questions : signal_state[i] = NULL /\ pressed_choice[i] = NULL
    /\ notices \in 0..MaxNotices
    /\ registry \subseteq Items
    /\ pc \in [Calls -> {"idle", "body", "sent", "answered", "raised"}]
    /\ item \in [Calls -> Items \cup {NULL}]
    /\ \A c \in Calls : pc[c] # "idle" => item[c] \in Items
    /\ answer \in [Calls -> Choices \cup {NULL}]
    /\ outcome \in [Calls -> Words \cup {NULL}]
    /\ \A c \in Calls : pc[c] = "answered" /\ item[c] \in Questions => outcome[c] \in Rulings
    /\ open \subseteq Streams
    /\ queue \in [Streams -> Seq(Envelopes)]
    /\ said \in [Items -> SUBSET Words]
    /\ resolved \subseteq Items
    /\ orphans \subseteq Items \X (Choices \cup {NULL})
    /\ calls \in 0..MaxCalls
    /\ crashes \in 0..MaxCrashes

\* At most one settlement call per item is out of this process (specs/003
\* FR-009), and the registry holds the slots of exactly the calls that are out:
\* no path through the handler leaks a slot, which would refuse every later
\* answer with a 409, and none frees a slot early.  Handlers race each other
\* across the await of the request body, and a crash drops the slots only.
SlotsAreCalls ==
    /\ registry = {item[c] : c \in {d \in Calls : Out(d)}}
    /\ \A c, d \in Calls : Out(c) /\ Out(d) /\ item[c] = item[d] => c = d

\* The pane holds no word of its own: a recorded ruling was said by the factory
\* of that Question, an accepted press was heard by that Escalation's workflow,
\* and a Question the table calls RESOLVED is one the factory has resolved,
\* whatever was lost, refused, retried or crashed on the way.
OnlyTheFactorysWord ==
    \A i \in Items :
        /\ last_ruling[i] \in said[i] \cup {NULL}
        /\ signal_state[i] = "accepted" => pressed_choice[i] \in said[i]
        /\ last_ruling[i] = "RESOLVED" => i \in resolved

\* No signal reaches the factory that was not among the payloads it delivered
\* with the item (specs/003 FR-008): not after a re-delivery with other
\* payloads, and not from a call that outlived the process that sent it.
OnlyDeliveredChoices ==
    \A i \in Escalations : said[i] \subseteq actions[i]

\* The newest event a stream still has to take for an item is the item as the
\* table holds it, unless a call is out for it now: a stream that drains its
\* queue ends on the truth.  The event is assembled after the slot is released
\* (answer.py) and after the row is written; the other order would leave the
\* item in flight on every Desk until the next poll.
LastEventIsCurrent ==
    \A s \in open, i \in Items \ registry :
        \A k \in DOMAIN queue[s] :
            LET newest == /\ queue[s][k].id = i
                          /\ \A m \in DOMAIN queue[s] : m > k => queue[s][m].id # i
            IN  newest => queue[s][k] = EventView(i)

\* What a row was delivered with, and that it was answered, is never unsaid:
\* not by a re-delivery of a served request (003 FR-004), not by a restart, not
\* by a later answer.
AnswersSurvive ==
    [][\A i \in stored :
        /\ i \in stored'
        /\ actions'[i] = actions[i]
        /\ last_ruling[i] # NULL => last_ruling'[i] # NULL
        /\ signal_state[i] # NULL => signal_state'[i] # NULL]_vars

\* A slot that is taken is given back: no item is refused for ever as in flight.
SlotsAreReleased == \A i \in Items : i \in registry ~> i \notin registry

\* The word the pane holds for an item, as the abstract specification sees it.
RecordedWord ==
    [i \in Items |->
        IF i \in Questions THEN last_ruling[i]
        ELSE IF signal_state[i] = "accepted" THEN pressed_choice[i]
        ELSE signal_state[i]]

Verb == INSTANCE Settlement
        WITH Derivable <- Escalations, Derived <- "SIGNAL_FAILED", Silence <- NULL,
             out <- registry, recorded <- RecordedWord

\* The handlers, the registry and the table together keep the promise of the
\* verb: one call at a time, and only words that were said.
KeepsTheVerb == Verb!Spec

\* "SIGNAL_FAILED means nothing was recorded" (answer.py): an Escalation the
\* pane shows as failed, with its controls live and "resending is safe", is one
\* whose workflow has heard no press.
FailedMeansNothingHeard ==
    \A i \in Escalations : signal_state[i] = "SIGNAL_FAILED" => said[i] = {}
=================================================================================
