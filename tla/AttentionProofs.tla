----------------------------- MODULE AttentionProofs -----------------------------
(***************************************************************************)
(* What holds of the backend core for every number of Questions,             *)
(* Escalations, choices, handlers, streams, calls and crashes.               *)
(***************************************************************************)
EXTENDS Attention, TLAPS

(* Type correctness *)

\* Whatever is published is an envelope a stream can carry.
LEMMA EventViewType ==
    ASSUME TypeOK, NEW i \in Items, NEW b \in BOOLEAN, NEW k \in BOOLEAN,
           NEW offered \in SUBSET Choices
    PROVE  ItemView(i, [Row(i) EXCEPT !.offers = offered], b, k) \in Envelopes
<1> DEFINE r == [Row(i) EXCEPT !.offers = offered]
<1>1. SettlementState(r, b, k) \in {"none", "waiting", "in_flight", "ruled", "settled"}
    BY DEF SettlementState
<1>2. /\ r.offers = offered /\ r.ruling = last_ruling[i]
      /\ r.signal = signal_state[i] /\ r.pressed = pressed_choice[i]
    BY DEF Row
<1>3. QED
    BY <1>1, <1>2 DEF ItemView, Envelopes, TypeOK

\* Publishing an envelope keeps every queue a sequence of envelopes.
LEMMA FanoutType ==
    ASSUME TypeOK, NEW e \in Envelopes
    PROVE  Fanout(e) \in [Streams -> Seq(Envelopes)]
<1>1. ASSUME NEW s \in Streams
      PROVE  (IF s \in open THEN Append(queue[s], e) ELSE queue[s]) \in Seq(Envelopes)
    BY DEF TypeOK
<1>2. QED
    BY <1>1 DEF Fanout

LEMMA InitType == Init => TypeOK
<1> SUFFICES ASSUME Init PROVE TypeOK
    OBVIOUS
<1>1. queue \in [Streams -> Seq(Envelopes)]
    BY DEF Init
<1>2. QED
    BY <1>1, AttentionAssumption DEF Init, TypeOK, Items

\* The next-state relation keeps every variable in its type: one step per action.
LEMMA TypeStep == TypeOK /\ [Next]_vars => TypeOK'
<1> SUFFICES ASSUME TypeOK, [Next]_vars PROVE TypeOK'
    OBVIOUS
<1> USE AttentionAssumption
<1>1. ASSUME NEW i \in Items, NEW offered \in SUBSET Choices, Deliver(i, offered)
      PROVE  TypeOK'
    <2>1. queue' \in [Streams -> Seq(Envelopes)]
        BY <1>1, EventViewType, FanoutType DEF Deliver, TypeOK
    <2>2. stored' \subseteq Items /\ actions' \in [Items -> SUBSET Choices]
        BY <1>1 DEF Deliver, TypeOK
    <2>3. QED
        BY <1>1, <2>1, <2>2 DEF Deliver, TypeOK, handlers, factory, bounds
<1>2. ASSUME DeliverNotice
      PROVE  TypeOK'
    <2>1. notices' \in 1..MaxNotices
        BY <1>2 DEF DeliverNotice, TypeOK
    <2>2. NoticeView(notices') \in Envelopes
        BY <2>1 DEF NoticeView, Envelopes
    <2>3. queue' \in [Streams -> Seq(Envelopes)]
        BY <1>2, <2>2, FanoutType DEF DeliverNotice
    <2>4. QED
        BY <1>2, <2>1, <2>3 DEF DeliverNotice, TypeOK, handlers, factory, bounds
<1>3. ASSUME NEW c \in Calls, NEW i \in Items, Arrive(c, i)
      PROVE  TypeOK'
    BY <1>3 DEF Arrive, TypeOK, row, factory, bounds
<1>4. ASSUME NEW c \in Calls, Refuse(c)
      PROVE  TypeOK'
    BY <1>4 DEF Refuse, Return, TypeOK, row, factory, bounds
<1>5. ASSUME NEW c \in Calls, NEW a \in Answers, Submit(c, a)
      PROVE  TypeOK'
    BY <1>5 DEF Submit, Answers, TypeOK, row, factory
<1>6. ASSUME NEW i \in Items, NEW a, NEW w \in Words, Hear(i, a, w)
      PROVE  said' \in [Items -> SUBSET Words] /\ resolved' \subseteq Items
    BY <1>6 DEF Hear, TypeOK
<1>7. ASSUME NEW c \in Calls, CallAnswered(c)
      PROVE  TypeOK'
    <2>1. item[c] \in Items
        BY <1>7 DEF CallAnswered, TypeOK
    <2>2. said' \in [Items -> SUBSET Words] /\ resolved' \subseteq Items
        BY <1>6, <1>7, <2>1 DEF CallAnswered
    <2>3. /\ outcome' \in [Calls -> Words \cup {NULL}]
          /\ item[c] \in Questions => outcome'[c] \in Rulings
        BY <1>7 DEF CallAnswered, Hear, RelayWords, Rulings, TypeOK
    <2>4. QED
        BY <1>7, <2>1, <2>2, <2>3 DEF CallAnswered, TypeOK, row, bounds
<1>8. ASSUME NEW c \in Calls, ReplyLost(c)
      PROVE  TypeOK'
    <2>1. item[c] \in Items
        BY <1>8 DEF ReplyLost, TypeOK
    <2>2. said' \in [Items -> SUBSET Words] /\ resolved' \subseteq Items
        BY <1>6, <1>8, <2>1 DEF ReplyLost
    <2>3. QED
        BY <1>8, <2>1, <2>2 DEF ReplyLost, TypeOK, row, bounds
<1>9. ASSUME NEW c \in Calls, CallLost(c)
      PROVE  TypeOK'
    BY <1>9 DEF CallLost, TypeOK, row, factory, bounds
<1>10. ASSUME NEW i \in Items, FactorySettles(i)
       PROVE  TypeOK'
    BY <1>10 DEF FactorySettles, TypeOK, row, handlers, bounds
<1>11. ASSUME NEW i \in Items, NEW a \in Answers, OrphanArrives(i, a)
       PROVE  TypeOK'
    <2>1. said' \in [Items -> SUBSET Words] /\ resolved' \subseteq Items
        BY <1>6, <1>11 DEF OrphanArrives
    <2>2. QED
        BY <1>11, <2>1 DEF OrphanArrives, TypeOK, row, handlers, bounds
<1>12. ASSUME NEW i \in Items, NEW a \in Answers, OrphanLost(i, a)
       PROVE  TypeOK'
    BY <1>12 DEF OrphanLost, TypeOK, row, handlers, bounds
<1>13. ASSUME NEW i \in Items, PublishItem(i), UNCHANGED <<open, actions>>,
              last_ruling' \in [Items -> Rulings \cup {NULL}],
              pressed_choice' \in [Items -> Choices \cup {NULL}],
              signal_state' \in [Items -> Signals \cup {NULL}]
       PROVE  queue' \in [Streams -> Seq(Envelopes)]
    <2>1. EventView(i)' \in Envelopes
        BY <1>13 DEF EventView, ItemView, Row, SettlementState, Envelopes, TypeOK
    <2>2. QED
        BY <1>13, <2>1, FanoutType DEF PublishItem
<1>14. ASSUME NEW c \in Calls, NEW i \in Items, RecordRuling(c, i)
       PROVE  TypeOK'
    <2>1. /\ last_ruling' \in [Items -> Rulings \cup {NULL}]
          /\ \A e \in Escalations : last_ruling'[e] = NULL
        BY <1>14 DEF RecordRuling, TypeOK, Items
    <2>2. queue' \in [Streams -> Seq(Envelopes)]
        BY <1>13, <1>14, <2>1 DEF RecordRuling, TypeOK
    <2>3. QED
        BY <1>14, <2>1, <2>2 DEF RecordRuling, Return, TypeOK, factory, bounds
<1>15. ASSUME NEW c \in Calls, NEW i \in Items, RecordPress(c, i)
       PROVE  TypeOK'
    <2>1. /\ pressed_choice' \in [Items -> Choices \cup {NULL}]
          /\ signal_state' \in [Items -> Signals \cup {NULL}]
          /\ \A q \in Questions : signal_state'[q] = NULL /\ pressed_choice'[q] = NULL
        BY <1>15 DEF RecordPress, RecordPressAs, TypeOK, Items, Signals
    <2>2. queue' \in [Streams -> Seq(Envelopes)]
        BY <1>13, <1>15, <2>1 DEF RecordPress, RecordPressAs, TypeOK
    <2>3. QED
        BY <1>15, <2>1, <2>2
        DEF RecordPress, RecordPressAs, Return, TypeOK, factory, bounds
<1>16. ASSUME NEW c \in Calls, NEW i \in Items, Abandon(c, i)
       PROVE  TypeOK'
    BY <1>16 DEF Abandon, Return, TypeOK, row, factory, bounds
<1>17. ASSUME NEW s \in Streams, Subscribe(s) \/ Take(s) \/ Unsubscribe(s)
       PROVE  TypeOK'
    <2>1. queue' \in [Streams -> Seq(Envelopes)]
        <3>1. <<>> \in Seq(Envelopes)
            OBVIOUS
        <3>2. queue[s] # <<>> => Tail(queue[s]) \in Seq(Envelopes)
            BY DEF TypeOK
        <3>3. QED
            BY <1>17, <3>1, <3>2 DEF Subscribe, Take, Unsubscribe, TypeOK
    <2>2. open' \subseteq Streams
        BY <1>17 DEF Subscribe, Take, Unsubscribe, TypeOK
    <2>3. QED
        BY <1>17, <2>1, <2>2
        DEF Subscribe, Take, Unsubscribe, TypeOK, row, handlers, factory, bounds
<1>18. ASSUME Crash
       PROVE  TypeOK'
    <2>1. orphans' \subseteq Items \X (Choices \cup {NULL})
        BY <1>18 DEF Crash, TypeOK
    <2>2. QED
        BY <1>18, <2>1 DEF Crash, TypeOK, row
<1>19. CASE UNCHANGED vars
    BY <1>19 DEF vars, TypeOK
<1>20. QED
    BY <1>1, <1>2, <1>3, <1>4, <1>5, <1>7, <1>8, <1>9, <1>10, <1>11, <1>12,
       <1>14, <1>15, <1>16, <1>17, <1>18, <1>19
    DEF Next, CallEnds, Finish

\* Every state of the backend core is well typed.
THEOREM TypeCorrect == Spec => []TypeOK
<1>1. QED
    BY InitType, TypeStep, PTL DEF Spec

---------------------------------------------------------------------------------
(* The registry holds exactly the calls that are out *)

\* A step that leaves the registry and the handlers alone keeps the slots.
LEMMA SlotsFrame ==
    ASSUME SlotsAreCalls, UNCHANGED <<registry, pc, item>>
    PROVE  SlotsAreCalls'
    BY DEF SlotsAreCalls, Out

\* A step that only moves a handler among the states in which its call is out.
LEMMA SlotsMove ==
    ASSUME SlotsAreCalls, NEW c \in Calls, Out(c), TypeOK, UNCHANGED <<registry, item>>,
           NEW p \in {"answered", "raised"}, pc' = [pc EXCEPT ![c] = p]
    PROVE  SlotsAreCalls'
<1>1. \A d \in Calls : Out(d)' <=> Out(d)
    BY DEF Out, TypeOK
<1>2. QED
    BY <1>1 DEF SlotsAreCalls

\* A handler that ends its call gives back the slot of its item, and no other.
LEMMA SlotsRelease ==
    ASSUME SlotsAreCalls, TypeOK, NEW c \in Calls, Out(c), Return(c),
           registry' = registry \ {item[c]}
    PROVE  SlotsAreCalls'
<1>1. \A d \in Calls : Out(d)' <=> Out(d) /\ d # c
    BY DEF Out, Return, TypeOK
<1>2. \A d \in Calls : d # c => item'[d] = item[d]
    BY DEF Return, TypeOK
<1>3. \A d \in Calls : Out(d) /\ item[d] = item[c] => d = c
    BY DEF SlotsAreCalls
<1>4. QED
    BY <1>1, <1>2, <1>3 DEF SlotsAreCalls

LEMMA SlotsStep == TypeOK /\ SlotsAreCalls /\ [Next]_vars => SlotsAreCalls'
<1> SUFFICES ASSUME TypeOK, SlotsAreCalls, [Next]_vars PROVE SlotsAreCalls'
    OBVIOUS
<1>1. ASSUME NEW i \in Items, NEW offered \in SUBSET Choices, Deliver(i, offered)
      PROVE  SlotsAreCalls'
    BY <1>1, SlotsFrame DEF Deliver, handlers
<1>2. CASE DeliverNotice
    BY <1>2, SlotsFrame DEF DeliverNotice, handlers
<1>3. ASSUME NEW c \in Calls, NEW i \in Items, Arrive(c, i)
      PROVE  SlotsAreCalls'
    <2>1. \A d \in Calls : /\ Out(d)' <=> Out(d)
                           /\ Out(d) => item'[d] = item[d]
        BY <1>3 DEF Arrive, Out, TypeOK
    <2>2. QED
        BY <1>3, <2>1 DEF Arrive, SlotsAreCalls
<1>4. ASSUME NEW c \in Calls, Refuse(c)
      PROVE  SlotsAreCalls'
    <2>1. \A d \in Calls : /\ Out(d)' <=> Out(d)
                           /\ Out(d) => item'[d] = item[d]
        BY <1>4 DEF Refuse, Return, Out, TypeOK
    <2>2. QED
        BY <1>4, <2>1 DEF Refuse, SlotsAreCalls
<1>5. ASSUME NEW c \in Calls, NEW a \in Answers, Submit(c, a)
      PROVE  SlotsAreCalls'
    <2>1. \A d \in Calls : Out(d)' <=> Out(d) \/ d = c
        BY <1>5 DEF Submit, Out, TypeOK
    <2>2. ~Out(c)
        BY <1>5 DEF Submit, Out
    <2>3. \A d \in Calls : Out(d) => item[d] # item[c]
        BY <1>5 DEF Submit, SlotsAreCalls
    <2>4. item' = item /\ registry' = registry \cup {item[c]}
        BY <1>5 DEF Submit
    <2>5. QED
        BY <2>1, <2>2, <2>3, <2>4 DEF SlotsAreCalls
<1>6. ASSUME NEW c \in Calls, CallEnds(c)
      PROVE  SlotsAreCalls'
    BY <1>6, SlotsMove DEF CallEnds, CallAnswered, ReplyLost, CallLost, Out
<1>7. ASSUME NEW c \in Calls, Finish(c)
      PROVE  SlotsAreCalls'
    BY <1>7, SlotsRelease
    DEF Finish, RecordRuling, RecordPress, RecordPressAs, Abandon, Out
<1>8. ASSUME NEW i \in Items, FactorySettles(i)
      PROVE  SlotsAreCalls'
    BY <1>8, SlotsFrame DEF FactorySettles, handlers
<1>9. ASSUME NEW i \in Items, NEW a \in Answers, OrphanArrives(i, a) \/ OrphanLost(i, a)
      PROVE  SlotsAreCalls'
    BY <1>9, SlotsFrame DEF OrphanArrives, OrphanLost, handlers
<1>10. ASSUME NEW s \in Streams, Subscribe(s) \/ Take(s) \/ Unsubscribe(s)
       PROVE  SlotsAreCalls'
    BY <1>10, SlotsFrame DEF Subscribe, Take, Unsubscribe, handlers
<1>11. CASE Crash
    BY <1>11 DEF Crash, SlotsAreCalls, Out
<1>12. CASE UNCHANGED vars
    BY <1>12, SlotsFrame DEF vars
<1>13. QED
    BY <1>1, <1>2, <1>3, <1>4, <1>5, <1>6, <1>7, <1>8, <1>9, <1>10, <1>11, <1>12 DEF Next

\* At most one settlement call per item is out, and a slot is taken exactly
\* while one is, through any number of handlers, losses and crashes.
THEOREM OneCallPerItem == Spec => []SlotsAreCalls
<1>1. Init => SlotsAreCalls
    BY DEF Init, SlotsAreCalls, Out
<1>2. QED
    BY <1>1, SlotsStep, TypeCorrect, PTL DEF Spec

---------------------------------------------------------------------------------
(* The pane holds no word of its own *)

\* What a handler carries back from a call that answered: a word that was said
\* of its item, the payload itself for a press, and RESOLVED only of an item the
\* factory has resolved.  OnlyTheFactorysWord alone is not inductive: the word
\* waits in the handler between the factory's answer and the row's update.
AnswersWereSaid ==
    \A c \in Calls : pc[c] = "answered" =>
        /\ outcome[c] \in said[item[c]]
        /\ item[c] \in Escalations => outcome[c] = answer[c]
        /\ outcome[c] = "RESOLVED" => item[c] \in resolved

WordInv == OnlyTheFactorysWord /\ AnswersWereSaid

\* What the factory has said and resolved only grows.
LEMMA FactoryGrows ==
    ASSUME TypeOK, [Next]_vars
    PROVE  /\ \A i \in Items : said[i] \subseteq said'[i]
           /\ resolved \subseteq resolved'
<1>1. ASSUME NEW i \in Items, NEW a, NEW w \in Words, Hear(i, a, w)
      PROVE  /\ \A j \in Items : said[j] \subseteq said'[j]
             /\ resolved \subseteq resolved'
    BY <1>1 DEF Hear, TypeOK
<1>2. ASSUME NEW c \in Calls, CallAnswered(c) \/ ReplyLost(c)
      PROVE  /\ \A j \in Items : said[j] \subseteq said'[j]
             /\ resolved \subseteq resolved'
    <2>1. item[c] \in Items
        BY <1>2 DEF CallAnswered, ReplyLost, TypeOK
    <2>2. QED
        BY <1>1, <1>2, <2>1 DEF CallAnswered, ReplyLost
<1>3. ASSUME NEW i \in Items, NEW a \in Answers, OrphanArrives(i, a)
      PROVE  /\ \A j \in Items : said[j] \subseteq said'[j]
             /\ resolved \subseteq resolved'
    BY <1>1, <1>3 DEF OrphanArrives
<1>4. CASE UNCHANGED <<said, resolved>>
    BY <1>4
<1>5. ASSUME NEW i \in Items, FactorySettles(i)
      PROVE  /\ \A j \in Items : said[j] \subseteq said'[j]
             /\ resolved \subseteq resolved'
    BY <1>5 DEF FactorySettles
<1>6. QED
    BY <1>2, <1>3, <1>4, <1>5
    DEF Next, CallEnds, Finish, vars, factory, row, Deliver, DeliverNotice, Arrive,
        Refuse, Submit, CallLost, RecordRuling, RecordPress, RecordPressAs, Abandon,
        OrphanLost, Subscribe, Take, Unsubscribe, Crash

\* A step that touches neither the words of the table nor a handler's answer.
LEMMA WordFrame ==
    ASSUME TypeOK, WordInv, [Next]_vars,
           UNCHANGED <<last_ruling, signal_state, pressed_choice>>,
           \A c \in Calls : pc'[c] = "answered" =>
               /\ pc[c] = "answered"
               /\ item'[c] = item[c] /\ answer'[c] = answer[c] /\ outcome'[c] = outcome[c]
    PROVE  WordInv'
<1>1. \A c \in Calls : pc[c] = "answered" => item[c] \in Items
    BY DEF TypeOK
<1>2. QED
    BY <1>1, FactoryGrows DEF WordInv, OnlyTheFactorysWord, AnswersWereSaid

LEMMA WordStep == TypeOK /\ WordInv /\ [Next]_vars => WordInv'
<1> SUFFICES ASSUME TypeOK, WordInv, [Next]_vars PROVE WordInv'
    OBVIOUS
<1>1. ASSUME NEW i \in Items, NEW offered \in SUBSET Choices, Deliver(i, offered)
      PROVE  WordInv'
    BY <1>1, WordFrame DEF Deliver, handlers
<1>2. CASE DeliverNotice
    BY <1>2, WordFrame DEF DeliverNotice, handlers
<1>3. ASSUME NEW c \in Calls, NEW i \in Items, Arrive(c, i)
      PROVE  WordInv'
    BY <1>3, WordFrame DEF Arrive, TypeOK, row
<1>4. ASSUME NEW c \in Calls, Refuse(c)
      PROVE  WordInv'
    BY <1>4, WordFrame DEF Refuse, Return, TypeOK, row
<1>5. ASSUME NEW c \in Calls, NEW a \in Answers, Submit(c, a)
      PROVE  WordInv'
    BY <1>5, WordFrame DEF Submit, TypeOK, row
<1>6. ASSUME NEW c \in Calls, CallAnswered(c)
      PROVE  WordInv'
    <2>1. PICK w \in Words : /\ Hear(item[c], answer[c], w)
                             /\ outcome' = [outcome EXCEPT ![c] = w]
        BY <1>6 DEF CallAnswered
    <2>2. item[c] \in Items
        BY <1>6 DEF CallAnswered, TypeOK
    <2>3. /\ w \in said'[item[c]]
          /\ item[c] \in Escalations => w = answer[c]
          /\ w = "RESOLVED" => item[c] \in resolved'
        BY <2>1, <2>2, AttentionAssumption DEF Hear, TypeOK
    <2>4. AnswersWereSaid'
        <3> SUFFICES ASSUME NEW d \in Calls, pc'[d] = "answered"
                     PROVE  /\ outcome'[d] \in said'[item'[d]]
                            /\ item'[d] \in Escalations => outcome'[d] = answer'[d]
                            /\ outcome'[d] = "RESOLVED" => item'[d] \in resolved'
            BY DEF AnswersWereSaid
        <3>1. item' = item /\ answer' = answer
            BY <1>6 DEF CallAnswered
        <3>2. CASE d = c
            BY <3>1, <3>2, <2>1, <2>3 DEF TypeOK
        <3>3. CASE d # c
            <4>1. pc[d] = "answered" /\ outcome'[d] = outcome[d] /\ item[d] \in Items
                BY <1>6, <2>1, <3>3 DEF CallAnswered, TypeOK
            <4>2. QED
                BY <3>1, <4>1, FactoryGrows DEF WordInv, AnswersWereSaid
        <3>4. QED
            BY <3>2, <3>3
    <2>5. OnlyTheFactorysWord'
        BY <1>6, FactoryGrows DEF CallAnswered, row, WordInv, OnlyTheFactorysWord
    <2>6. QED
        BY <2>4, <2>5 DEF WordInv
<1>7. ASSUME NEW c \in Calls, ReplyLost(c) \/ CallLost(c)
      PROVE  WordInv'
    BY <1>7, WordFrame DEF ReplyLost, CallLost, TypeOK, row
<1>8. ASSUME NEW c \in Calls, NEW i \in Items, RecordRuling(c, i)
      PROVE  WordInv'
    <2>1. AnswersWereSaid'
        BY <1>8 DEF RecordRuling, Return, factory, TypeOK, WordInv, AnswersWereSaid
    <2>2. OnlyTheFactorysWord'
        BY <1>8 DEF RecordRuling, factory, TypeOK, WordInv, AnswersWereSaid, OnlyTheFactorysWord
    <2>3. QED
        BY <2>1, <2>2 DEF WordInv
<1>9. ASSUME NEW c \in Calls, NEW i \in Items, RecordPress(c, i)
      PROVE  WordInv'
    <2>1. AnswersWereSaid'
        BY <1>9
        DEF RecordPress, RecordPressAs, Return, factory, TypeOK, WordInv, AnswersWereSaid
    <2>2. pc[c] = "answered" => answer[c] \in said[i]
        BY <1>9 DEF RecordPress, RecordPressAs, WordInv, AnswersWereSaid
    <2>3. OnlyTheFactorysWord'
        BY <1>9, <2>2
        DEF RecordPress, RecordPressAs, factory, TypeOK, WordInv, OnlyTheFactorysWord
    <2>4. QED
        BY <2>1, <2>3 DEF WordInv
<1>10. ASSUME NEW c \in Calls, NEW i \in Items, Abandon(c, i)
       PROVE  WordInv'
    BY <1>10, WordFrame DEF Abandon, Return, TypeOK, row
<1>11. ASSUME NEW i \in Items, FactorySettles(i)
       PROVE  WordInv'
    BY <1>11, WordFrame DEF FactorySettles, handlers, row
<1>12. ASSUME NEW i \in Items, NEW a \in Answers, OrphanArrives(i, a) \/ OrphanLost(i, a)
       PROVE  WordInv'
    BY <1>12, WordFrame DEF OrphanArrives, OrphanLost, handlers, row
<1>13. ASSUME NEW s \in Streams, Subscribe(s) \/ Take(s) \/ Unsubscribe(s)
       PROVE  WordInv'
    BY <1>13, WordFrame DEF Subscribe, Take, Unsubscribe, handlers, row
<1>14. CASE Crash
    BY <1>14, WordFrame DEF Crash, row
<1>15. CASE UNCHANGED vars
    BY <1>15, WordFrame DEF vars
<1>16. QED
    BY <1>1, <1>2, <1>3, <1>4, <1>5, <1>6, <1>7, <1>8, <1>9, <1>10, <1>11, <1>12,
       <1>13, <1>14, <1>15
    DEF Next, CallEnds, Finish

LEMMA WordInvariant == Spec => []WordInv
<1>1. Init => WordInv
    BY AttentionAssumption DEF Init, WordInv, OnlyTheFactorysWord, AnswersWereSaid, Rulings, Signals
<1>2. QED
    BY <1>1, WordStep, TypeCorrect, PTL DEF Spec

\* Every ruling and every accepted press the pane holds is the factory's, and a
\* Question called RESOLVED is one the factory resolved.
THEOREM NoMintedWord == Spec => []OnlyTheFactorysWord
<1>1. WordInv => OnlyTheFactorysWord
    BY DEF WordInv
<1>2. QED
    BY <1>1, WordInvariant, PTL

---------------------------------------------------------------------------------
(* Only delivered payloads are pressed *)

\* OnlyDeliveredChoices is not inductive either: the payload is checked when the
\* call is issued and heard later, by a call that may have outlived its process.
\* It holds because a row, once there, keeps the payloads it came with.
PressInv ==
    /\ \A i \in Items : i \notin stored => actions[i] = {}
    /\ \A c \in Calls : pc[c] # "idle" => item[c] \in stored
    /\ \A c \in Calls : Out(c) /\ item[c] \in Escalations => answer[c] \in actions[item[c]]
    /\ \A i \in Escalations, a \in Answers : <<i, a>> \in orphans => a \in actions[i]
    /\ OnlyDeliveredChoices

\* A row stays, and stays what it was delivered with.
LEMMA RowsStay ==
    ASSUME TypeOK, [Next]_vars
    PROVE  /\ stored \subseteq stored'
           /\ \A i \in stored : actions'[i] = actions[i]
<1>1. ASSUME NEW i \in Items, NEW offered \in SUBSET Choices, Deliver(i, offered)
      PROVE  stored \subseteq stored' /\ \A j \in stored : actions'[j] = actions[j]
    BY <1>1 DEF Deliver, TypeOK
<1>2. CASE UNCHANGED <<stored, actions>>
    BY <1>2
<1>3. QED
    BY <1>1, <1>2
    DEF Next, CallEnds, Finish, vars, row, DeliverNotice, Arrive, Refuse, Submit,
        CallAnswered, ReplyLost, CallLost, FactorySettles, OrphanArrives, OrphanLost,
        RecordRuling, RecordPress, RecordPressAs, Abandon, Subscribe, Take,
        Unsubscribe, Crash

\* A step in which no handler starts, no call is issued and nothing is heard.
LEMMA PressFrame ==
    ASSUME TypeOK, PressInv, UNCHANGED <<stored, actions, said>>, orphans' \subseteq orphans,
           \A c \in Calls :
               /\ pc'[c] # "idle" => pc[c] # "idle" /\ item'[c] = item[c]
               /\ Out(c)' => Out(c) /\ answer'[c] = answer[c]
    PROVE  PressInv'
<1>1. \A c \in Calls : Out(c)' => pc'[c] # "idle"
    BY DEF Out
<1>2. QED
    BY <1>1 DEF PressInv, OnlyDeliveredChoices

\* A call that reaches an Escalation's workflow is heard as its own payload.
LEMMA HeardChoice ==
    ASSUME TypeOK, PressInv, NEW i \in Items, NEW a, NEW w \in Words, Hear(i, a, w),
           i \in Escalations => a \in actions[i], actions' = actions
    PROVE  OnlyDeliveredChoices'
BY AttentionAssumption DEF Hear, TypeOK, PressInv, OnlyDeliveredChoices, Items

LEMMA PressStep == TypeOK /\ PressInv /\ [Next]_vars => PressInv'
<1> SUFFICES ASSUME TypeOK, PressInv, [Next]_vars PROVE PressInv'
    OBVIOUS
<1>1. ASSUME NEW i \in Items, NEW offered \in SUBSET Choices, Deliver(i, offered)
      PROVE  PressInv'
    <2>1. \A j \in Items : actions[j] \subseteq actions'[j]
        BY <1>1 DEF Deliver, PressInv, TypeOK
    <2>2. \A j \in Items : j \notin stored' => actions'[j] = {}
        BY <1>1 DEF Deliver, PressInv, TypeOK
    <2>3. UNCHANGED <<pc, item, answer, orphans, said>> /\ stored \subseteq stored'
        BY <1>1 DEF Deliver, handlers, factory
    <2>4. \A c \in Calls : Out(c)' <=> Out(c)
        BY <2>3 DEF Out
    <2>5. QED
        BY <2>1, <2>2, <2>3, <2>4 DEF PressInv, OnlyDeliveredChoices, Items
<1>2. CASE DeliverNotice
    BY <1>2, PressFrame DEF DeliverNotice, handlers, factory, Out
<1>3. ASSUME NEW c \in Calls, NEW i \in Items, Arrive(c, i)
      PROVE  PressInv'
    <2>1. \A d \in Calls : Out(d)' => Out(d) /\ item'[d] = item[d]
        BY <1>3 DEF Arrive, Out, TypeOK
    <2>2. \A d \in Calls : pc'[d] # "idle" => item'[d] \in stored
        BY <1>3 DEF Arrive, TypeOK, PressInv
    <2>3. QED
        BY <1>3, <2>1, <2>2 DEF Arrive, row, factory, PressInv, OnlyDeliveredChoices
<1>4. ASSUME NEW c \in Calls, Refuse(c)
      PROVE  PressInv'
    BY <1>4, PressFrame DEF Refuse, Return, row, factory, Out, TypeOK
<1>5. ASSUME NEW c \in Calls, NEW a \in Answers, Submit(c, a)
      PROVE  PressInv'
    <2>1. item[c] \in Escalations => a \in actions[item[c]]
        BY <1>5, AttentionAssumption DEF Submit
    <2>2. \A d \in Calls : d # c => (Out(d)' <=> Out(d)) /\ answer'[d] = answer[d]
        BY <1>5 DEF Submit, Out, TypeOK
    <2>3. answer'[c] = a
        BY <1>5 DEF Submit, TypeOK
    <2>4. \A d \in Calls : pc'[d] # "idle" => pc[d] # "idle"
        BY <1>5 DEF Submit, TypeOK
    <2>5. QED
        BY <1>5, <2>1, <2>2, <2>3, <2>4 DEF Submit, row, factory, PressInv, OnlyDeliveredChoices
<1>6. ASSUME NEW c \in Calls, CallAnswered(c) \/ ReplyLost(c)
      PROVE  PressInv'
    <2>1. PICK w \in Words : Hear(item[c], answer[c], w)
        BY <1>6 DEF CallAnswered, ReplyLost
    <2>2. item[c] \in Items /\ Out(c) /\ actions' = actions
        BY <1>6 DEF CallAnswered, ReplyLost, TypeOK, Out, row
    <2>3. OnlyDeliveredChoices'
        BY <2>1, <2>2, HeardChoice DEF PressInv
    <2>4. \A d \in Calls : /\ Out(d)' <=> Out(d)
                           /\ pc'[d] # "idle" <=> pc[d] # "idle"
        BY <1>6 DEF CallAnswered, ReplyLost, Out, TypeOK
    <2>5. UNCHANGED <<stored, actions, item, answer, orphans>>
        BY <1>6 DEF CallAnswered, ReplyLost, row
    <2>6. QED
        BY <2>3, <2>4, <2>5 DEF PressInv
<1>7. ASSUME NEW c \in Calls, CallLost(c)
      PROVE  PressInv'
    BY <1>7, PressFrame DEF CallLost, row, factory, Out, TypeOK
<1>8. ASSUME NEW c \in Calls, Finish(c)
      PROVE  PressInv'
    BY <1>8, PressFrame
    DEF Finish, RecordRuling, RecordPress, RecordPressAs, Abandon, Return, row, factory,
        Out, TypeOK
<1>9. ASSUME NEW i \in Items, FactorySettles(i)
      PROVE  PressInv'
    BY <1>9, PressFrame DEF FactorySettles, row, handlers, Out
<1>10. ASSUME NEW i \in Items, NEW a \in Answers, OrphanArrives(i, a)
       PROVE  PressInv'
    <2>1. OnlyDeliveredChoices'
        BY <1>10, HeardChoice DEF OrphanArrives, PressInv, row
    <2>2. UNCHANGED <<stored, actions, pc, item, answer>> /\ orphans' \subseteq orphans
        BY <1>10 DEF OrphanArrives, row, handlers
    <2>3. \A c \in Calls : Out(c)' <=> Out(c)
        BY <2>2 DEF Out
    <2>4. QED
        BY <2>1, <2>2, <2>3 DEF PressInv
<1>11. ASSUME NEW i \in Items, NEW a \in Answers, OrphanLost(i, a)
       PROVE  PressInv'
    BY <1>11, PressFrame DEF OrphanLost, row, handlers, Out
<1>12. ASSUME NEW s \in Streams, Subscribe(s) \/ Take(s) \/ Unsubscribe(s)
       PROVE  PressInv'
    BY <1>12, PressFrame DEF Subscribe, Take, Unsubscribe, row, handlers, factory, Out
<1>13. CASE Crash
    <2>1. \A c \in Calls : pc'[c] = "idle" /\ ~Out(c)'
        BY <1>13 DEF Crash, Out
    <2>2. \A i \in Escalations, a \in Answers : <<i, a>> \in orphans' => a \in actions[i]
        BY <1>13 DEF Crash, PressInv, Out
    <2>3. UNCHANGED <<stored, actions, said>>
        BY <1>13 DEF Crash, row
    <2>4. QED
        BY <2>1, <2>2, <2>3 DEF PressInv, OnlyDeliveredChoices
<1>14. CASE UNCHANGED vars
    BY <1>14, PressFrame DEF vars, Out
<1>15. QED
    BY <1>1, <1>2, <1>3, <1>4, <1>5, <1>6, <1>7, <1>8, <1>9, <1>10, <1>11, <1>12,
       <1>13, <1>14
    DEF Next, CallEnds

\* Nothing is signalled that the factory did not offer with the item.
THEOREM NothingUndelivered == Spec => []OnlyDeliveredChoices
<1>1. Init => PressInv
    BY DEF Init, PressInv, OnlyDeliveredChoices, Out, Items
<1>2. PressInv => OnlyDeliveredChoices
    BY DEF PressInv
<1>3. QED
    BY <1>1, <1>2, PressStep, TypeCorrect, PTL DEF Spec

---------------------------------------------------------------------------------
(* Answers survive, and the promise of the verb is kept *)

\* Neither NULL nor a mistyped word is ever written over an answer.
THEOREM NoAnswerUnsaid == Spec => AnswersSurvive
<1> DEFINE Survives ==
        \A i \in stored :
            /\ i \in stored'
            /\ actions'[i] = actions[i]
            /\ last_ruling[i] # NULL => last_ruling'[i] # NULL
            /\ signal_state[i] # NULL => signal_state'[i] # NULL
<1>1. TypeOK /\ [Next]_vars => [Survives]_vars
    <2> SUFFICES ASSUME TypeOK, [Next]_vars PROVE Survives
        OBVIOUS
    <2>1. stored \subseteq stored' /\ \A i \in stored : actions'[i] = actions[i]
        BY RowsStay
    <2>2. ASSUME NEW c \in Calls, NEW i \in Items, RecordRuling(c, i)
          PROVE  \A j \in Items : /\ last_ruling[j] # NULL => last_ruling'[j] # NULL
                                  /\ signal_state[j] # NULL => signal_state'[j] # NULL
        BY <2>2, AttentionAssumption DEF RecordRuling, TypeOK
    <2>3. ASSUME NEW c \in Calls, NEW i \in Items, RecordPress(c, i)
          PROVE  \A j \in Items : /\ last_ruling[j] # NULL => last_ruling'[j] # NULL
                                  /\ signal_state[j] # NULL => signal_state'[j] # NULL
        BY <2>3, AttentionAssumption DEF RecordPress, RecordPressAs, TypeOK, Signals
    <2>4. stored \subseteq Items
        BY DEF TypeOK
    <2>5. \/ \E c \in Calls, i \in Items : RecordRuling(c, i) \/ RecordPress(c, i)
          \/ UNCHANGED <<last_ruling, signal_state>>
        BY DEF Next, CallEnds, Finish, vars, row, Deliver, DeliverNotice, Arrive, Refuse,
               Submit, CallAnswered, ReplyLost, CallLost, FactorySettles, OrphanArrives,
               OrphanLost, Abandon, Subscribe, Take, Unsubscribe, Crash
    <2>6. \A j \in Items : /\ last_ruling[j] # NULL => last_ruling'[j] # NULL
                           /\ signal_state[j] # NULL => signal_state'[j] # NULL
        BY <2>2, <2>3, <2>5
    <2>7. ASSUME NEW i \in stored
          PROVE  /\ i \in stored'
                 /\ actions'[i] = actions[i]
                 /\ last_ruling[i] # NULL => last_ruling'[i] # NULL
                 /\ signal_state[i] # NULL => signal_state'[i] # NULL
        <3>1. i \in Items
            BY <2>4
        <3>2. i \in stored' /\ actions'[i] = actions[i]
            BY <2>1
        <3>3. last_ruling[i] # NULL => last_ruling'[i] # NULL
            BY <2>6, <3>1
        <3>4. signal_state[i] # NULL => signal_state'[i] # NULL
            BY <2>6, <3>1
        <3>5. QED
            BY <3>2, <3>3, <3>4
    <2>8. QED
        BY <2>7 DEF Survives
<1>2. QED
    BY <1>1, TypeCorrect, PTL DEF Spec, AnswersSurvive

\* A step that moves no slot, hears no word and writes no row stutters.
LEMMA VerbStutter ==
    ASSUME UNCHANGED <<registry, said, last_ruling, pressed_choice, signal_state>>
    PROVE  UNCHANGED Verb!abstractVars
BY DEF Verb!abstractVars, RecordedWord

\* Hearing a call is the abstract factory speaking.
LEMMA VerbHears ==
    ASSUME NEW i \in Items, NEW a, NEW w \in Words, Hear(i, a, w),
           UNCHANGED <<registry, last_ruling, pressed_choice, signal_state>>
    PROVE  Verb!Next
<1>1. RecordedWord' = RecordedWord
    BY DEF RecordedWord
<1>2. Verb!Say(i, w)
    BY <1>1 DEF Verb!Say, Hear
<1>3. QED
    BY <1>2 DEF Verb!Next

\* Every step of the backend core is a step of the verb, or none.
LEMMA VerbStep ==
    TypeOK /\ SlotsAreCalls /\ WordInv /\ [Next]_vars => [Verb!Next]_(Verb!abstractVars)
<1> SUFFICES ASSUME TypeOK, SlotsAreCalls, WordInv, [Next]_vars
             PROVE  Verb!Next \/ UNCHANGED Verb!abstractVars
    OBVIOUS
<1>1. ASSUME NEW c \in Calls, NEW a \in Answers, Submit(c, a)
      PROVE  Verb!Next
    <2>1. item[c] \in Items
        BY <1>1 DEF Submit, TypeOK
    <2>2. RecordedWord' = RecordedWord
        BY <1>1 DEF Submit, row, RecordedWord
    <2>3. Verb!Send(item[c])
        BY <1>1, <2>2 DEF Submit, factory, Verb!Send
    <2>4. QED
        BY <2>1, <2>3 DEF Verb!Next
<1>2. ASSUME NEW c \in Calls, CallEnds(c)
      PROVE  Verb!Next \/ UNCHANGED Verb!abstractVars
    <2>1. item[c] \in Items
        BY <1>2 DEF CallEnds, CallAnswered, ReplyLost, CallLost, TypeOK
    <2>2. CASE CallLost(c)
        BY <2>2, VerbStutter DEF CallLost, row, factory
    <2>3. CASE CallAnswered(c) \/ ReplyLost(c)
        <3>1. PICK w \in Words : Hear(item[c], answer[c], w)
            BY <2>3 DEF CallAnswered, ReplyLost
        <3>2. QED
            BY <2>1, <2>3, <3>1, VerbHears DEF CallAnswered, ReplyLost, row
    <2>4. QED
        BY <1>2, <2>2, <2>3 DEF CallEnds
<1>3. ASSUME NEW i \in Items, NEW a \in Answers, OrphanArrives(i, a)
      PROVE  Verb!Next
    <2>1. PICK w \in Words : Hear(i, a, w)
        BY <1>3 DEF OrphanArrives
    <2>2. QED
        BY <1>3, <2>1, VerbHears DEF OrphanArrives, row
<1>4. ASSUME NEW c \in Calls, Out(c)
      PROVE  item[c] \in registry
    BY <1>4 DEF SlotsAreCalls
<1>5. ASSUME NEW c \in Calls, NEW i \in Items, RecordRuling(c, i)
      PROVE  Verb!Next
    <2>1. i \in registry /\ outcome[c] \in said[i] /\ outcome[c] \in Words
        BY <1>4, <1>5 DEF RecordRuling, Out, WordInv, AnswersWereSaid, TypeOK
    <2>2. RecordedWord' = [RecordedWord EXCEPT ![i] = outcome[c]]
        BY <1>5 DEF RecordRuling, RecordedWord, TypeOK
    <2>3. Verb!Record(i, outcome[c])
        BY <1>5, <2>1, <2>2 DEF RecordRuling, factory, Verb!Record
    <2>4. QED
        BY <2>1, <2>3 DEF Verb!Next
<1>6. ASSUME NEW c \in Calls, NEW i \in Items, RecordPress(c, i)
      PROVE  Verb!Next
    <2> DEFINE w == IF pc[c] = "raised" THEN "SIGNAL_FAILED" ELSE answer[c]
    <2>1. i \in registry /\ i \in Escalations /\ i \notin Questions
        BY <1>4, <1>6, AttentionAssumption DEF RecordPress, RecordPressAs, Out
    <2>2. pc[c] = "answered" => answer[c] \in said[i]
        BY <1>6 DEF RecordPress, RecordPressAs, WordInv, AnswersWereSaid
    <2>3. said[i] \subseteq Words
        BY <1>6 DEF TypeOK
    <2>4. RecordedWord' = [RecordedWord EXCEPT ![i] = w]
        BY <1>6, <2>1 DEF RecordPress, RecordPressAs, RecordedWord, TypeOK
    <2>5. Verb!Record(i, w)
        BY <1>6, <2>1, <2>2, <2>4
        DEF RecordPress, RecordPressAs, factory, Verb!Record
    <2>6. w \in Words \cup {"SIGNAL_FAILED"}
        BY <1>6, <2>2, <2>3 DEF RecordPress, RecordPressAs
    <2>7. QED
        BY <2>5, <2>6 DEF Verb!Next
<1>7. ASSUME NEW c \in Calls, NEW i \in Items, Abandon(c, i)
      PROVE  Verb!Next
    <2>1. RecordedWord' = RecordedWord
        BY <1>7 DEF Abandon, row, RecordedWord
    <2>2. Verb!GiveUp(i)
        BY <1>4, <1>7, <2>1 DEF Abandon, Out, factory, Verb!GiveUp
    <2>3. QED
        BY <2>2 DEF Verb!Next
<1>8. CASE Crash
    <2>1. RecordedWord' = RecordedWord
        BY <1>8 DEF Crash, row, RecordedWord
    <2>2. Verb!Forget
        BY <1>8, <2>1 DEF Crash, Verb!Forget
    <2>3. QED
        BY <2>2 DEF Verb!Next
<1>9. CASE UNCHANGED <<registry, said, last_ruling, pressed_choice, signal_state>>
    BY <1>9, VerbStutter
<1>10. QED
    BY <1>1, <1>2, <1>3, <1>5, <1>6, <1>7, <1>8, <1>9
    DEF Next, Finish, vars, row, factory, Deliver, DeliverNotice, Arrive, Refuse,
        FactorySettles, OrphanLost, Subscribe, Take, Unsubscribe

\* The handlers, the registry and the table implement the verb's promise.
THEOREM VerbKept == Spec => KeepsTheVerb
<1>1. Init => Verb!Init
    BY AttentionAssumption DEF Init, Verb!Init, RecordedWord, Signals, Items
<1>2. QED
    BY <1>1, VerbStep, TypeCorrect, OneCallPerItem, WordInvariant, PTL
    DEF Spec, KeepsTheVerb, Verb!Spec

---------------------------------------------------------------------------------
(* A drained queue ends on the truth *)

Newest(q, k, i) == q[k].id = i /\ \A m \in DOMAIN q : m > k => q[m].id # i

\* The newest event of i in the queue q, if it holds one, is e.
EndsOn(q, i, e) == \A k \in DOMAIN q : Newest(q, k, i) => q[k] = e

\* What an event says of i once its slot is free.
Recorded(i) == ItemView(i, Row(i), FALSE, FALSE)

\* LastEventIsCurrent speaks of the items no call is out for, and is not inductive: an
\* answer that is abandoned frees a slot and publishes nothing.  What makes that harmless
\* is that no row changes under a slot either, so the events of a taken item stay true of
\* its row.
QueuesEndOnTheRows == \A s \in open, i \in Items : EndsOn(queue[s], i, Recorded(i))

LEMMA AppendOwn ==
    ASSUME NEW q \in Seq(Envelopes), NEW e \in Envelopes
    PROVE  EndsOn(Append(q, e), e.id, e)
<1> DEFINE p == Append(q, e)
<1>1. /\ Len(q) \in Nat /\ DOMAIN p = 1..(Len(q) + 1) /\ p[Len(q) + 1] = e
    OBVIOUS
<1> HIDE DEF p
<1>2. ASSUME NEW k \in DOMAIN p, Newest(p, k, e.id) PROVE p[k] = e
    <2>1. k \in 1..(Len(q) + 1) /\ Len(q) + 1 \in DOMAIN p
        BY <1>1
    <2>2. ~(Len(q) + 1 > k)
        BY <1>1, <1>2, <2>1 DEF Newest
    <2>3. k = Len(q) + 1
        BY <1>1, <2>1, <2>2
    <2>4. QED
        BY <1>1, <2>3
<1>3. QED
    BY <1>2 DEF EndsOn, p

LEMMA AppendOther ==
    ASSUME NEW q \in Seq(Envelopes), NEW e \in Envelopes, NEW i, NEW v,
           e.id # i, EndsOn(q, i, v)
    PROVE  EndsOn(Append(q, e), i, v)
<1> DEFINE p == Append(q, e)
<1>1. /\ Len(q) \in Nat /\ DOMAIN p = 1..(Len(q) + 1) /\ p[Len(q) + 1] = e
      /\ DOMAIN q = 1..Len(q) /\ \A k \in 1..Len(q) : p[k] = q[k]
    OBVIOUS
<1> HIDE DEF p
<1>2. ASSUME NEW k \in DOMAIN p, Newest(p, k, i) PROVE p[k] = v
    <2>1. k \in 1..(Len(q) + 1) /\ k # Len(q) + 1
        BY <1>1, <1>2 DEF Newest
    <2>2. k \in DOMAIN q /\ q[k] = p[k]
        BY <1>1, <2>1
    <2>3. ASSUME NEW m \in DOMAIN q, m > k PROVE q[m].id # i
        <3>1. m \in DOMAIN p /\ p[m] = q[m]
            BY <1>1
        <3>2. QED
            BY <1>2, <2>3, <3>1 DEF Newest
    <2>4. Newest(q, k, i)
        BY <1>2, <2>2, <2>3 DEF Newest
    <2>5. QED
        BY <2>2, <2>4 DEF EndsOn
<1>3. QED
    BY <1>2 DEF EndsOn, p

LEMMA TailEnds ==
    ASSUME NEW q \in Seq(Envelopes), q # <<>>, NEW i, NEW v, EndsOn(q, i, v)
    PROVE  EndsOn(Tail(q), i, v)
<1> DEFINE t == Tail(q)
<1>1. /\ Len(q) \in Nat /\ Len(q) > 0 /\ DOMAIN q = 1..Len(q) /\ DOMAIN t = 1..(Len(q) - 1)
      /\ \A k \in 1..(Len(q) - 1) : t[k] = q[k + 1]
    OBVIOUS
<1> HIDE DEF t
<1>2. ASSUME NEW k \in DOMAIN t, Newest(t, k, i) PROVE t[k] = v
    <2>1. k \in 1..(Len(q) - 1) /\ k + 1 \in DOMAIN q /\ t[k] = q[k + 1]
        BY <1>1
    <2>2. ASSUME NEW m \in DOMAIN q, m > k + 1 PROVE q[m].id # i
        <3>1. m - 1 \in DOMAIN t /\ m - 1 > k /\ t[m - 1] = q[m]
            BY <1>1, <2>1, <2>2
        <3>2. QED
            BY <1>2, <3>1 DEF Newest
    <2>3. Newest(q, k + 1, i)
        BY <1>2, <2>1, <2>2 DEF Newest
    <2>4. QED
        BY <2>1, <2>3 DEF EndsOn
<1>3. QED
    BY <1>2 DEF EndsOn, t

\* Rows and queues left alone, or dropped.
LEMMA EventsFrame ==
    ASSUME QueuesEndOnTheRows, UNCHANGED <<actions, last_ruling, pressed_choice, signal_state>>,
           open' \subseteq open, \A s \in open' : queue'[s] = queue[s]
    PROVE  QueuesEndOnTheRows'
<1>1. \A i \in Items : Recorded(i)' = Recorded(i)
    BY DEF Recorded, ItemView, Row, SettlementState, Settled, Ruled
<1>2. QED
    BY <1>1 DEF QueuesEndOnTheRows

\* An event of the row as it is written, or of no row at all.
LEMMA PublishEnds ==
    ASSUME TypeOK, QueuesEndOnTheRows, NEW e \in Envelopes,
           queue' = Fanout(e), open' = open,
           \A j \in Items : \/ e.id = j /\ e = Recorded(j)'
                            \/ e.id # j /\ Recorded(j)' = Recorded(j)
    PROVE  QueuesEndOnTheRows'
<1>1. ASSUME NEW s \in open, NEW j \in Items PROVE EndsOn(queue'[s], j, Recorded(j)')
    <2>1. queue[s] \in Seq(Envelopes) /\ queue'[s] = Append(queue[s], e)
        BY DEF TypeOK, Fanout
    <2>2. CASE e.id = j /\ e = Recorded(j)'
        BY <2>1, <2>2, AppendOwn
    <2>3. CASE e.id # j /\ Recorded(j)' = Recorded(j)
        BY <2>1, <2>3, AppendOther DEF QueuesEndOnTheRows
    <2>4. QED
        BY <2>2, <2>3
<1>2. QED
    BY <1>1 DEF QueuesEndOnTheRows

LEMMA EventsStep == TypeOK /\ QueuesEndOnTheRows /\ TypeOK' /\ [Next]_vars => QueuesEndOnTheRows'
<1> SUFFICES ASSUME TypeOK, QueuesEndOnTheRows, TypeOK', [Next]_vars PROVE QueuesEndOnTheRows'
    OBVIOUS
<1>1. ASSUME NEW i \in Items, NEW offered \in SUBSET Choices, Deliver(i, offered)
      PROVE  QueuesEndOnTheRows'
    <2>1. CASE i \in stored
        BY <1>1, <2>1, EventsFrame DEF Deliver
    <2>2. CASE i \notin stored
        <3> DEFINE e == ItemView(i, [Row(i) EXCEPT !.offers = offered], FALSE, FALSE)
        <3>1. e \in Envelopes
            BY EventViewType
        <3>2. e.id = i
            BY DEF ItemView
        <3>3. /\ actions' = [actions EXCEPT ![i] = offered] /\ queue' = Fanout(e) /\ open' = open
              /\ UNCHANGED <<last_ruling, pressed_choice, signal_state>>
            BY <1>1, <2>2 DEF Deliver
        <3>4. Row(i)' = [Row(i) EXCEPT !.offers = offered] /\ \A j \in Items \ {i} : Row(j)' = Row(j)
            BY <3>3 DEF Row, TypeOK
        <3>5. e = Recorded(i)' /\ \A j \in Items \ {i} : Recorded(j)' = Recorded(j)
            BY <3>4 DEF Recorded, ItemView, SettlementState, Settled, Ruled
        <3> HIDE DEF e
        <3>6. QED
            BY <3>1, <3>2, <3>3, <3>5, PublishEnds
    <2>3. QED
        BY <2>1, <2>2
<1>2. CASE DeliverNotice
    <2> DEFINE e == NoticeView(notices')
    <2>1. notices' \in 1..MaxNotices
        BY <1>2, AttentionAssumption DEF DeliverNotice, TypeOK
    <2>2. e \in Envelopes /\ e.id = <<"notice", notices'>>
        BY <2>1 DEF NoticeView, Envelopes
    <2>3. \A j \in Items : e.id # j
        BY <2>1, <2>2, NoticeAssumption
    <2>4. queue' = Fanout(e) /\ UNCHANGED <<open, actions, last_ruling, pressed_choice, signal_state>>
        BY <1>2 DEF DeliverNotice
    <2>5. \A j \in Items : Recorded(j)' = Recorded(j)
        BY <2>4 DEF Recorded, ItemView, Row, SettlementState, Settled, Ruled
    <2> HIDE DEF e
    <2>6. QED
        BY <2>2, <2>3, <2>4, <2>5, PublishEnds
<1>3. ASSUME NEW i \in Items, PublishItem(i), UNCHANGED <<open, actions>>, i \notin registry',
             \A j \in Items \ {i} : Row(j)' = Row(j)
      PROVE  QueuesEndOnTheRows'
    <2> DEFINE e == Recorded(i)'
    <2>1. e \in Envelopes /\ e.id = i
        <3>1. SettlementState(Row(i), FALSE, FALSE)' \in {"none", "waiting", "in_flight", "ruled", "settled"}
            BY DEF SettlementState
        <3>2. QED
            BY <3>1 DEF Recorded, ItemView, Row, Envelopes, TypeOK
    <2>2. EventView(i)' = e
        <3>1. (i \in registry)' = FALSE
            BY <1>3
        <3>2. EventView(i)' = ItemView(i, Row(i), i \in registry, FALSE)'
            BY DEF EventView
        <3>3. SettlementState(Row(i), i \in registry, FALSE)' = SettlementState(Row(i), FALSE, FALSE)'
            BY <3>1 DEF SettlementState
        <3>4. QED
            BY <3>2, <3>3 DEF ItemView, Recorded
    <2>3. queue' = Fanout(e)
        BY <1>3, <2>2 DEF PublishItem
    <2>4. \A j \in Items \ {i} : Recorded(j)' = Recorded(j)
        BY <1>3 DEF Recorded, ItemView, SettlementState, Settled, Ruled
    <2>5. \A j \in Items : \/ e.id = j /\ e = Recorded(j)'
                           \/ e.id # j /\ Recorded(j)' = Recorded(j)
        BY <2>1, <2>4
    <2> HIDE DEF e
    <2>6. QED
        BY <1>3, <2>1, <2>3, <2>5, PublishEnds
<1>4. ASSUME NEW c \in Calls, NEW i \in Items, RecordRuling(c, i)
      PROVE  QueuesEndOnTheRows'
    <2>1. \A j \in Items \ {i} : Row(j)' = Row(j)
        BY <1>4 DEF RecordRuling, Row, TypeOK
    <2>2. QED
        BY <1>3, <1>4, <2>1 DEF RecordRuling
<1>5. ASSUME NEW c \in Calls, NEW i \in Items, RecordPress(c, i)
      PROVE  QueuesEndOnTheRows'
    <2>1. \A j \in Items \ {i} : Row(j)' = Row(j)
        BY <1>5 DEF RecordPress, RecordPressAs, Row, TypeOK
    <2>2. QED
        BY <1>3, <1>5, <2>1 DEF RecordPress, RecordPressAs
<1>6. ASSUME NEW s \in Streams, Take(s)
      PROVE  QueuesEndOnTheRows'
    <2>1. /\ open' = open /\ UNCHANGED <<actions, last_ruling, pressed_choice, signal_state>>
          /\ queue[s] \in Seq(Envelopes) /\ queue[s] # <<>> /\ queue'[s] = Tail(queue[s])
          /\ \A t \in Streams \ {s} : queue'[t] = queue[t]
        BY <1>6 DEF Take, row, TypeOK
    <2>2. \A i \in Items : Recorded(i)' = Recorded(i)
        BY <2>1 DEF Recorded, ItemView, Row, SettlementState, Settled, Ruled
    <2>3. ASSUME NEW t \in open, NEW i \in Items PROVE EndsOn(queue'[t], i, Recorded(i))
        <3>1. EndsOn(queue[t], i, Recorded(i)) /\ t \in Streams
            BY DEF QueuesEndOnTheRows, TypeOK
        <3>2. QED
            BY <2>1, <3>1, TailEnds
    <2>4. QED
        BY <2>1, <2>2, <2>3 DEF QueuesEndOnTheRows
<1>7. ASSUME NEW s \in Streams, Subscribe(s)
      PROVE  QueuesEndOnTheRows'
    <2>1. /\ open' = open \cup {s} /\ UNCHANGED <<actions, last_ruling, pressed_choice, signal_state>>
          /\ queue'[s] = <<>> /\ \A t \in Streams \ {s} : queue'[t] = queue[t]
        BY <1>7 DEF Subscribe, row, TypeOK
    <2>2. \A i \in Items : Recorded(i)' = Recorded(i)
        BY <2>1 DEF Recorded, ItemView, Row, SettlementState, Settled, Ruled
    <2>3. ASSUME NEW t \in open', NEW i \in Items PROVE EndsOn(queue'[t], i, Recorded(i))
        <3>1. CASE t = s
            BY <2>1, <3>1 DEF EndsOn
        <3>2. CASE t # s
            BY <2>1, <3>2 DEF QueuesEndOnTheRows, TypeOK
        <3>3. QED
            BY <3>1, <3>2
    <2>4. QED
        BY <2>2, <2>3 DEF QueuesEndOnTheRows
<1>8. ASSUME NEW s \in Streams, Unsubscribe(s)
      PROVE  QueuesEndOnTheRows'
    BY <1>8, EventsFrame DEF Unsubscribe, row, TypeOK
<1>9. CASE Crash
    BY <1>9 DEF Crash, QueuesEndOnTheRows
<1>10. CASE UNCHANGED <<actions, last_ruling, pressed_choice, signal_state, open, queue>>
    BY <1>10, EventsFrame
<1>11. QED
    BY <1>1, <1>2, <1>4, <1>5, <1>6, <1>7, <1>8, <1>9, <1>10
    DEF Next, CallEnds, Finish, vars, row, Arrive, Refuse, Submit, CallAnswered, ReplyLost, CallLost,
        Abandon, FactorySettles, OrphanArrives, OrphanLost

LEMMA EventsAlways == Spec => []QueuesEndOnTheRows
<1>1. Init => QueuesEndOnTheRows
    BY DEF Init, QueuesEndOnTheRows
<1>2. QED
    BY <1>1, EventsStep, TypeCorrect, PTL DEF Spec

\* A stream that drains its queue ends on the table's word of every item no call is out
\* for, through any number of answers, Notices, restarts and streams.
THEOREM DrainedIsCurrent == Spec => []LastEventIsCurrent
<1>1. ASSUME QueuesEndOnTheRows PROVE LastEventIsCurrent
    <2>1. ASSUME NEW s \in open, NEW i \in Items \ registry, NEW k \in DOMAIN queue[s],
                 queue[s][k].id = i, \A m \in DOMAIN queue[s] : m > k => queue[s][m].id # i
          PROVE  queue[s][k] = EventView(i)
        <3>1. queue[s][k] = Recorded(i)
            BY <1>1, <2>1 DEF QueuesEndOnTheRows, EndsOn, Newest
        <3>2. (i \in registry) = FALSE
            OBVIOUS
        <3>3. EventView(i) = Recorded(i)
            BY <3>2 DEF EventView, ItemView, SettlementState, Recorded
        <3>4. QED
            BY <3>1, <3>3
    <2>2. QED
        BY <2>1 DEF LastEventIsCurrent
<1>2. QED
    BY <1>1, EventsAlways, PTL
=================================================================================
