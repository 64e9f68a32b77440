------------------------------- MODULE RailProofs -------------------------------
(* What module Rail promises of every corpus and every floor, proved. *)
EXTENDS Rail, SequenceTheorems, TLAPS

\* The document is the GET's to bring: until it lands the Desk holds none.
NoDocumentYet == shown # NULL => first = "landed"

LEMMA BoundsGiven == MaxMoves \in Nat /\ MaxDrops \in Nat /\ MaxFailures \in Nat
BY RailAssumption

\* What an assembly holds, for both readers.
Asms == [Readers -> [left : SUBSET Specs, rail : Rails]]

LEMMA NothingHeld == Nothing \in Rails /\ Idle \in [left : SUBSET Specs, rail : Rails]
<1>1. Nothing \in Rails
  BY DEF Nothing, Rails
<1> QED BY <1>1 DEF Idle

\* An entry put into a rail leaves a rail, and an assembly moved on is one.
LEMMA RailWith ==
  ASSUME NEW rail \in Rails, NEW s \in Specs, NEW e \in Entries \cup {NULL}
  PROVE  [rail EXCEPT ![s] = e] \in Rails
BY DEF Rails

LEMMA AsmWith ==
  ASSUME asm \in Asms, NEW r \in Readers, NEW left \in SUBSET Specs, NEW rail \in Rails,
         asm' = [asm EXCEPT ![r].left = left, ![r].rail = rail]
  PROVE  asm' \in Asms
<1>1. asm[r] \in [left : SUBSET Specs, rail : Rails]
  BY DEF Asms
<1>2. [asm[r] EXCEPT !.left = left, !.rail = rail] \in [left : SUBSET Specs, rail : Rails]
  BY <1>1
<1>3. asm' = [asm EXCEPT ![r] = [asm[r] EXCEPT !.left = left, !.rail = rail]]
  BY <1>1 DEF Asms
<1> QED BY <1>2, <1>3 DEF Asms

LEMMA AsmLeft ==
  ASSUME asm \in Asms, NEW r \in Readers, NEW left \in SUBSET Specs,
         asm' = [asm EXCEPT ![r].left = left]
  PROVE  asm' \in Asms
<1>1. asm[r] \in [left : SUBSET Specs, rail : Rails]
  BY DEF Asms
<1>2. [asm[r] EXCEPT !.left = left] \in [left : SUBSET Specs, rail : Rails]
  BY <1>1
<1> QED BY <1>2 DEF Asms

\* A wire emptied, sent on and delivered from carries events.
LEMMA WireTyped ==
  ASSUME wire \in Seq(Events)
  PROVE  /\ <<>> \in Seq(Events)
         /\ wire # <<>> => Tail(wire) \in Seq(Events) /\ Head(wire) \in Events
         /\ \A s \in Specs, e \in Entries :
              Append(wire, [spec |-> s, entry |-> e]) \in Seq(Events)
<1>1. \A s \in Specs, e \in Entries : [spec |-> s, entry |-> e] \in Events
  BY DEF Events
<1>2. ASSUME NEW x \in Events PROVE Append(wire, x) \in Seq(Events)
  BY AppendProperties
<1>3. wire # <<>> => Tail(wire) \in Seq(Events) /\ Head(wire) \in Events
  BY HeadTailProperties
<1>4. <<>> \in Seq(Events)
  BY EmptySeq
<1> QED BY <1>1, <1>2, <1>3, <1>4

LEMMA RailTyped == Spec => []TypeOK
<1> USE DEF Asms
<1>1. Init => TypeOK
  <2>1. SUFFICES ASSUME Init PROVE TypeOK
    OBVIOUS
  <2>2. asm \in Asms
    BY <2>1, NothingHeld DEF Init
  <2>3. wire \in Seq(Events)
    BY <2>1, EmptySeq DEF Init
  <2>4. moves \in 0..MaxMoves /\ drops \in 0..MaxDrops /\ failures \in 0..MaxFailures
    BY <2>1, BoundsGiven DEF Init
  <2> QED BY <2>1, <2>2, <2>3, <2>4, NothingHeld DEF Init, TypeOK
<1>2. ASSUME TypeOK, [Next]_vars PROVE TypeOK'
  <2> USE <1>2 DEF TypeOK
  <2>1. CASE UNCHANGED vars
    BY <2>1 DEF vars, bounds
  <2>2. CASE \E s \in Specs : Move(s)
    BY <2>2, BoundsGiven DEF Move
  <2>3. ASSUME NEW r \in Readers, Begin(r) PROVE TypeOK'
    <3>1. CASE UNCHANGED asm
      BY <2>3, <3>1, BoundsGiven DEF Begin, Fail
    <3>2. ASSUME NEW left \in SUBSET Specs, asm' = [asm EXCEPT ![r].left = left]
          PROVE asm' \in Asms
      BY <3>2, AsmLeft
    <3>3. asm' \in Asms
      <4>1. CASE asm' = [asm EXCEPT ![r].left = {s \in Specs : truth[s] # NULL}]
        BY <4>1, <3>2
      <4> QED BY <4>1, <3>1, <2>3 DEF Begin
    <3> QED BY <2>3, <3>3, BoundsGiven DEF Begin, Fail
  <2>4. ASSUME NEW r \in Readers, ReadSpec(r) PROVE TypeOK'
    <3>1. PICK s \in asm[r].left, e \in Entries :
            asm' = [asm EXCEPT ![r].left = @ \ {s}, ![r].rail[s] = e]
      BY <2>4 DEF ReadSpec
    <3>2. asm[r].left \in SUBSET Specs /\ asm[r].rail \in Rails
      OBVIOUS
    <3>3. [asm[r].rail EXCEPT ![s] = e] \in Rails
      BY <3>2, RailWith
    <3>4. asm' = [asm EXCEPT ![r].left = asm[r].left \ {s},
                             ![r].rail = [asm[r].rail EXCEPT ![s] = e]]
      BY <3>1
    <3>5. asm' \in Asms
      BY <3>2, <3>3, <3>4, AsmWith
    <3> QED BY <2>4, <3>5, BoundsGiven DEF ReadSpec, Fail
  <2>5. CASE Connect
    BY <2>5, NothingHeld DEF Connect, bounds
  <2>6. CASE Emit
    <3>1. PICK s \in Specs : LET e == asm["poll"].rail[s] IN
            /\ e # NULL
            /\ asm' = [asm EXCEPT !["poll"].rail[s] = NULL]
            /\ previous' = [previous EXCEPT ![s] = e]
            /\ wire' = IF previous[s] # e
                       THEN Append(wire, [spec |-> s, entry |-> e]) ELSE wire
      BY <2>6 DEF Emit
    <3>2. "poll" \in Readers /\ asm["poll"].left \in SUBSET Specs /\ asm["poll"].rail \in Rails
      BY DEF Readers
    <3>3. asm["poll"].rail[s] \in Entries
      BY <3>1, <3>2 DEF Rails
    <3>4. previous' \in Rails
      BY <3>1, <3>3, RailWith
    <3>5. wire' \in Seq(Events)
      BY <3>1, <3>3, WireTyped
    <3>6. [asm["poll"].rail EXCEPT ![s] = NULL] \in Rails
      BY <3>2, RailWith
    <3>7. asm' = [asm EXCEPT !["poll"].left = asm["poll"].left,
                             !["poll"].rail = [asm["poll"].rail EXCEPT ![s] = NULL]]
      BY <3>1, <3>2
    <3>8. asm' \in Asms
      BY <3>2, <3>6, <3>7, AsmWith
    <3> QED BY <2>6, <3>4, <3>5, <3>8 DEF Emit, bounds
  <2>7. CASE Drop
    <3>1. asm' \in Asms
      BY <2>7, NothingHeld DEF Drop
    <3>2. wire' \in Seq(Events)
      BY <2>7, WireTyped DEF Drop, Close
    <3>3. drops' \in 0..MaxDrops /\ moves' \in 0..MaxMoves /\ failures' \in 0..MaxFailures
      BY <2>7, BoundsGiven DEF Drop, Close
    <3>4. open' \in BOOLEAN /\ missed' \in BOOLEAN /\ previous' \in Rails
      BY <2>7 DEF Drop, Close
    <3> QED BY <2>7, <3>1, <3>2, <3>3, <3>4 DEF Drop, Close
  <2>8. CASE Land
    BY <2>8, NothingHeld DEF Land, Readers, bounds
  <2>9. CASE GetFails
    <3>1. asm' \in Asms
      BY <2>9, NothingHeld DEF GetFails
    <3> QED BY <2>9, <3>1, BoundsGiven DEF GetFails, Fail
  <2>10. CASE Deliver
    <3>1. Tail(wire) \in Seq(Events)
      BY <2>10, WireTyped DEF Deliver
    <3>2. Head(wire) \in Events
      BY <2>10, WireTyped DEF Deliver
    <3>3. Head(wire).spec \in Specs /\ Head(wire).entry \in Entries
      BY <3>2 DEF Events
    <3>4. shown' \in {NULL} \cup Rails
      <4>1. CASE shown = NULL
        BY <2>10, <4>1 DEF Deliver
      <4>2. CASE shown # NULL
        BY <2>10, <4>2, <3>3, RailWith DEF Deliver
      <4> QED BY <4>1, <4>2
    <3> QED BY <2>10, <3>1, <3>4 DEF Deliver, bounds
  <2>11. CASE Reload
    <3>1. asm' \in Asms
      BY <2>11, NothingHeld DEF Reload
    <3>2. wire' \in Seq(Events)
      BY <2>11, WireTyped DEF Reload, Close
    <3>3. drops' \in 0..MaxDrops /\ moves' \in 0..MaxMoves /\ failures' \in 0..MaxFailures
      BY <2>11, BoundsGiven DEF Reload, Close
    <3>4. open' \in BOOLEAN /\ missed' \in BOOLEAN /\ previous' \in Rails
      BY <2>11 DEF Reload, Close
    <3> QED BY <2>11, <3>1, <3>2, <3>3, <3>4 DEF Reload, Close
  <2> QED BY <2>1, <2>2, <2>3, <2>4, <2>5, <2>6, <2>7, <2>8, <2>9, <2>10, <2>11 DEF Next
<1> QED BY <1>1, <1>2, PTL DEF Spec

---------------------------------------------------------------------------------
(* The baseline *)

\* One more event behind the others leaves what is remembered of another spec.
LEMMA AppendKeeps ==
  ASSUME TypeOK, NEW s \in Specs, NEW x \in Events, x.spec # s,
         wire' = Append(wire, x), previous'[s] = previous[s], UNCHANGED shown,
         Remembered(s)
  PROVE  Remembered(s)'
<1>1. /\ Len(wire') = Len(wire) + 1 /\ Len(wire) \in Nat
      /\ wire'[Len(wire) + 1] = x
      /\ \A i \in 1..Len(wire) : wire'[i] = wire[i]
  BY DEF TypeOK
<1>2. CASE Unsent(s) /\ shown # NULL /\ shown[s] = previous[s]
  BY <1>1, <1>2 DEF Remembered, Unsent
<1>3. ASSUME NEW i \in 1..Len(wire), IsLast(i),
             wire[i] = [spec |-> s, entry |-> previous[s]]
      PROVE  Remembered(s)'
  <2>1. i \in 1..Len(wire') /\ wire'[i] = [spec |-> s, entry |-> previous'[s]]
    BY <1>1, <1>3
  <2>2. ASSUME NEW j \in (i + 1)..Len(wire') PROVE wire'[j].spec # wire'[i].spec
    <3>1. CASE j = Len(wire) + 1
      BY <1>1, <1>3, <2>1, <3>1
    <3>2. CASE j # Len(wire) + 1
      <4>1. j \in (i + 1)..Len(wire) /\ j \in 1..Len(wire)
        BY <1>1, <2>2, <3>2
      <4>2. wire[j].spec # wire[i].spec
        BY <1>3, <4>1 DEF IsLast
      <4> QED BY <1>1, <4>1, <4>2
    <3> QED BY <3>1, <3>2
  <2> QED BY <2>1, <2>2 DEF Remembered, IsLast
<1> QED BY <1>2, <1>3 DEF Remembered

\* The event just sent is the last of its spec.
LEMMA AppendRemembers ==
  ASSUME TypeOK, NEW s \in Specs, NEW e \in Entries,
         wire' = Append(wire, [spec |-> s, entry |-> e]), previous'[s] = e
  PROVE  Remembered(s)'
<1>1. Len(wire') = Len(wire) + 1 /\ Len(wire) \in Nat
  BY DEF TypeOK
<1>2. wire'[Len(wire')] = [spec |-> s, entry |-> previous'[s]]
  BY <1>1 DEF TypeOK
<1>3. (Len(wire') + 1)..Len(wire') = {}
  BY <1>1
<1> QED BY <1>1, <1>2, <1>3 DEF Remembered, IsLast

\* A delivered event leaves the wire for what is shown, and takes nothing else along.
LEMMA DeliverKeeps ==
  ASSUME TypeOK, NEW s \in Specs, wire # <<>>, wire' = Tail(wire), shown # NULL,
         shown' = [shown EXCEPT ![Head(wire).spec] = Head(wire).entry], shown' # NULL,
         UNCHANGED previous, Remembered(s)
  PROVE  Remembered(s)'
<1>1. /\ Len(wire) \in Nat /\ Len(wire) >= 1 /\ Head(wire) = wire[1]
      /\ Len(wire') = Len(wire) - 1
      /\ \A i \in 1..Len(wire') : wire'[i] = wire[i + 1]
  BY DEF TypeOK
<1>2. shown \in Rails /\ wire[1].spec \in Specs
  BY <1>1, WireTyped DEF TypeOK, Events
<1>3. CASE Unsent(s) /\ shown[s] = previous[s]
  <2>1. wire[1].spec # s /\ Unsent(s)'
    BY <1>1, <1>3 DEF Unsent
  <2>2. shown'[s] = shown[s]
    BY <1>1, <1>2, <2>1 DEF Rails
  <2> QED BY <1>3, <2>1, <2>2 DEF Remembered
<1>4. ASSUME NEW i \in 1..Len(wire), IsLast(i),
             wire[i] = [spec |-> s, entry |-> previous[s]]
      PROVE  Remembered(s)'
  <2>1. CASE i = 1
    <3>1. Unsent(s)'
      <4>1. ASSUME NEW j \in 1..Len(wire') PROVE wire'[j].spec # s
        <5>1. j + 1 \in (i + 1)..Len(wire)
          BY <1>1, <2>1
        <5> QED BY <1>1, <1>4, <5>1 DEF IsLast
      <4> QED BY <4>1 DEF Unsent
    <3>2. shown'[s] = previous'[s]
      BY <1>1, <1>2, <1>4, <2>1 DEF Rails
    <3> QED BY <3>1, <3>2 DEF Remembered
  <2>2. CASE i # 1
    <3>1. i - 1 \in 1..Len(wire') /\ wire'[i - 1] = [spec |-> s, entry |-> previous'[s]]
      BY <1>1, <1>4, <2>2
    <3>2. ASSUME NEW j \in ((i - 1) + 1)..Len(wire') PROVE wire'[j].spec # wire'[i - 1].spec
      <4>1. j + 1 \in (i + 1)..Len(wire) /\ wire'[j] = wire[j + 1]
        BY <1>1, <2>2
      <4> QED BY <1>4, <3>1, <4>1 DEF IsLast
    <3> QED BY <3>1, <3>2 DEF Remembered, IsLast
  <2> QED BY <2>1, <2>2
<1> QED BY <1>3, <1>4 DEF Remembered

---------------------------------------------------------------------------------
(* The theorems *)

\* Every rail held, sent or shown has the shape its readers take it to have, for any
\* corpus and any bounds.
THEOREM RailsWellFormed == Spec => []TypeOK
BY RailTyped

\* The Desk's document is the GET's alone to bring: no event stands in for it.
LEMMA DocumentFromGet == Spec => []NoDocumentYet
<1>1. Init => NoDocumentYet
  BY DEF Init, NoDocumentYet
<1>2. NoDocumentYet /\ [Next]_vars => NoDocumentYet'
  BY DEF NoDocumentYet, Next, vars, bounds, Move, Begin, ReadSpec, Connect, Emit, Drop,
         Close, Land, GetFails, Deliver, Reload
<1> QED BY <1>1, <1>2, PTL DEF Spec

\* What the stream will not send again is on its way or is shown, for any number of
\* specs, moves, lost connections and failed reads: of every Desk whose document came
\* before its stream's first event.
THEOREM NothingForgotten == Spec => []BaselineHeld
<1>1. Init => BaselineHeld
  BY DEF Init, BaselineHeld
<1>2. ASSUME TypeOK, TypeOK', NoDocumentYet, BaselineHeld, [Next]_vars
      PROVE  BaselineHeld'
  <2>1. SUFFICES ASSUME open', ~missed', NEW s \in Specs, previous'[s] # NULL
                 PROVE  Remembered(s)'
    BY DEF BaselineHeld
  <2>2. CASE open /\ ~missed /\ UNCHANGED <<previous, wire, shown>>
    BY <1>2, <2>1, <2>2 DEF BaselineHeld, Remembered, IsLast, Unsent
  <2>3. CASE Connect
    BY <2>1, <2>3 DEF Connect, Nothing
  <2>4. CASE Emit
    <3>1. PICK t \in Specs :
            /\ asm["poll"].rail[t] # NULL
            /\ previous' = [previous EXCEPT ![t] = asm["poll"].rail[t]]
            /\ wire' = IF previous[t] # asm["poll"].rail[t]
                       THEN Append(wire, [spec |-> t, entry |-> asm["poll"].rail[t]])
                       ELSE wire
      BY <2>4 DEF Emit
    <3>2. asm["poll"].rail[t] \in Entries
      BY <1>2, <3>1 DEF TypeOK, Rails, Readers
    <3>3. open /\ ~missed /\ UNCHANGED shown /\ previous \in Rails
      BY <1>2, <2>1, <2>4 DEF Emit, TypeOK
    <3>4. CASE previous[t] = asm["poll"].rail[t]
      <4>1. UNCHANGED <<previous, wire>>
        BY <3>1, <3>3, <3>4 DEF Rails
      <4> QED BY <2>2, <3>3, <4>1
    <3>5. CASE previous[t] # asm["poll"].rail[t] /\ t = s
      BY <1>2, <3>1, <3>2, <3>3, <3>5, AppendRemembers DEF Rails
    <3>6. CASE previous[t] # asm["poll"].rail[t] /\ t # s
      <4>1. previous'[s] = previous[s] /\ Remembered(s)
        BY <1>2, <2>1, <3>1, <3>3, <3>6 DEF BaselineHeld, Rails
      <4>2. [spec |-> t, entry |-> asm["poll"].rail[t]] \in Events
        BY <3>2 DEF Events
      <4> QED BY <1>2, <3>1, <3>3, <3>6, <4>1, <4>2, AppendKeeps
    <3> QED BY <3>4, <3>5, <3>6
  <2>5. CASE Land
    <3>1. /\ open /\ ~missed /\ shown = NULL
          /\ UNCHANGED <<previous, wire>>
      BY <1>2, <2>1, <2>5 DEF Land, NoDocumentYet
    <3>2. Remembered(s)
      BY <1>2, <2>1, <3>1 DEF BaselineHeld
    <3> QED BY <3>1, <3>2 DEF Remembered, IsLast
  <2>6. CASE Deliver
    <3>1. /\ open /\ ~missed /\ shown # NULL /\ wire # <<>> /\ wire' = Tail(wire)
          /\ shown' = [shown EXCEPT ![Head(wire).spec] = Head(wire).entry]
          /\ UNCHANGED previous
      BY <2>1, <2>6 DEF Deliver
    <3>2. shown' \in Rails /\ Remembered(s)
      <4>1. shown \in Rails /\ Head(wire) \in Events
        BY <1>2, <3>1, WireTyped DEF TypeOK
      <4>2. shown' \in Rails
        BY <3>1, <4>1, RailWith DEF Events
      <4> QED BY <1>2, <2>1, <3>1, <4>2 DEF BaselineHeld
    <3>3. shown' # NULL
      BY <3>2, RailAssumption DEF Rails
    <3> QED BY <1>2, <3>1, <3>2, <3>3, DeliverKeeps
  <2>7. CASE Drop \/ Reload
    BY <2>1, <2>7 DEF Drop, Reload, Close
  <2>8. ASSUME \/ \E t \in Specs : Move(t)
               \/ \E r \in Readers : Begin(r) \/ ReadSpec(r)
               \/ GetFails
               \/ UNCHANGED vars
        PROVE  open /\ ~missed /\ UNCHANGED <<previous, wire, shown>>
    <3>1. UNCHANGED <<open, missed, previous, wire, shown>>
      <4>1. CASE \E t \in Specs : Move(t)
        BY <4>1 DEF Move
      <4>2. CASE \E r \in Readers : Begin(r)
        BY <4>2 DEF Begin
      <4>3. CASE \E r \in Readers : ReadSpec(r)
        BY <4>3 DEF ReadSpec
      <4>4. CASE GetFails
        BY <4>4 DEF GetFails
      <4>5. CASE UNCHANGED vars
        BY <4>5 DEF vars
      <4> QED BY <2>8, <4>1, <4>2, <4>3, <4>4, <4>5
    <3> QED BY <2>1, <3>1
  <2> QED BY <1>2, <2>2, <2>3, <2>4, <2>5, <2>6, <2>7, <2>8 DEF Next
<1> QED BY <1>1, <1>2, RailTyped, DocumentFromGet, PTL DEF Spec
=================================================================================
