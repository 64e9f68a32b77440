-------------------------- MODULE FloorDocumentProofs --------------------------
(* What module FloorDocument promises of every set of documents, epics, graphs and *)
(* answers, proved.                                                                *)
EXTENDS FloorDocument, TLAPS

-----------------------------------------------------------------------------
(* What an assembly keeps *)

Statuses == [is : {"answer"}, nodes : Answers] \cup {Unanswered("transport"), Unanswered("refusal")}

Read == {ReadWorkgraph(s, a) : s \in Files, a \in Files}

Entries == {EpicEntry(g, s) : g \in Read, s \in Statuses}

Notes ==
    [section : {"floor", "attention", "health", "spend_to_date", "epics"},
     mode : {"transport", "refusal", "unparseable", "mismatch"}, epic : {NULL} \cup Epics]

Ats == {"idle", "attention", "connecting", "stores", "epics", "reconnecting", "graph",
        "served", "raised"}

Docs ==
    [at : Ats, conn : {NULL} \cup Requests, todo : SUBSET Epics, status : Statuses,
     lost : {NULL, "connection", "store"}, epics : [Epics -> {NULL} \cup Entries],
     degraded : SUBSET Notes]

Tolds == [status : Statuses, seam : {NULL} \cup Files, archive : {NULL} \cup Files]

Typed ==
    /\ seam \in [Epics -> Files] /\ archive \in [Epics -> Files]
    /\ live \in [Epics -> {NULL} \cup Answers]
    /\ opened \subseteq Requests /\ client \in {NULL} \cup opened
    /\ req \in [Requests -> Docs]
    /\ told \in [Requests -> [Epics -> {NULL} \cup Tolds]]
    /\ moves \in 0..MaxMoves /\ failures \in 0..MaxFailures

\* A connection is held between its opening and the one read it was opened for.
Held(r) ==
    /\ req[r].conn \in {NULL} \cup opened
    /\ req[r].conn # NULL =>
         req[r].at = "attention" \/ (req[r].at = "epics" /\ req[r].todo # {})
    /\ req[r].at = "reconnecting" => req[r].todo # {}

\* Of an epic still to be joined nothing is shown and no failure named, and what is told
\* of it is the answer just read, if it is the one at hand.
Ahead(r) ==
    /\ req[r].at = "idle" =>
        /\ req[r].todo = {} /\ req[r].degraded = {}
        /\ \A e \in Epics : told[r][e] = NULL /\ req[r].epics[e] = NULL
    /\ \A e \in req[r].todo :
        /\ req[r].epics[e] = NULL
        /\ \A x \in req[r].degraded : x.epic # e
        /\ told[r][e] = NULL \/
             (req[r].at = "graph" /\ told[r][e] = [status |-> req[r].status, seam |-> NULL, archive |-> NULL])
    /\ \A e, f \in req[r].todo : told[r][e] # NULL /\ told[r][f] # NULL => e = f

\* An epic that is shown is the join of what was told of it, and its failures are all named.
Shown(r) ==
    \A e \in Epics : req[r].epics[e] # NULL =>
        LET t == told[r][e]
            g == ReadWorkgraph(t.seam, t.archive)
        IN /\ t.status \in Statuses /\ t.seam \in Files /\ t.archive \in Files
           /\ req[r].epics[e] = EpicEntry(g, t.status)
           /\ {x \in req[r].degraded : x.epic = e} = EpicFailures(e, g, t.status)

\* A client is kept from the first connection on, until everything is over.
Kept ==
    client = NULL => opened = {} \/ \A r \in Requests : req[r].at \in {"served", "raised"}

Local(r) == Held(r) /\ Ahead(r) /\ Shown(r)

DocInv == Typed /\ Kept /\ \A r \in Requests : Local(r)

LEMMA BoundsGiven == MaxMoves \in Nat /\ MaxFailures \in Nat
BY FloorDocumentAssumption

LEMMA FailCounts ==
  ASSUME failures \in 0..MaxFailures, Fail \/ Succeed
  PROVE  failures' \in 0..MaxFailures
<1>1. CASE Fail
  <2>1. failures < MaxFailures /\ failures' = failures + 1
    BY <1>1 DEF Fail
  <2> QED BY <2>1, BoundsGiven
<1>2. CASE Succeed
  BY <1>2 DEF Succeed
<1> QED BY <1>1, <1>2

\* The others' documents stand while one is assembled.
LEMMA OthersStand ==
  ASSUME NEW x \in Requests, Local(x), req'[x] = req[x], told'[x] = told[x],
         opened \subseteq opened' \/ req[x].conn = NULL
  PROVE  Local(x)'
<1>1. Held(x)'
  BY DEF Local, Held
<1>2. Ahead(x)'
  BY DEF Local, Ahead
<1>3. Shown(x)'
  BY DEF Local, Shown
<1> QED BY <1>1, <1>2, <1>3 DEF Local

\* A step that neither reads an epic nor joins one keeps what is told and shown.
LEMMA ReadsNoEpic ==
  ASSUME NEW r \in Requests, Local(r), Typed,
         req[r].at \notin {"idle", "graph"}, req'[r].at # "idle",
         req'[r].todo = req[r].todo, req'[r].epics = req[r].epics,
         told'[r] = told[r],
         req'[r].degraded \in SUBSET Notes,
         \E N \in SUBSET Notes : /\ req'[r].degraded = req[r].degraded \cup N
                                 /\ \A x \in N : x.epic = NULL
  PROVE  Ahead(r)' /\ Shown(r)'
<1>1. PICK N \in SUBSET Notes : /\ req'[r].degraded = req[r].degraded \cup N
                                /\ \A x \in N : x.epic = NULL
  OBVIOUS
<1>2. NULL \notin Epics /\ req[r].todo \subseteq Epics
  BY FloorDocumentAssumption DEF Typed, Docs
<1>3. \A e \in Epics : {x \in req'[r].degraded : x.epic = e} = {x \in req[r].degraded : x.epic = e}
  BY <1>1, <1>2
<1>4. Ahead(r)'
  BY <1>1, <1>2 DEF Local, Ahead
<1>5. Shown(r)'
  BY <1>3 DEF Local, Shown
<1> QED BY <1>4, <1>5

LEMMA Updated ==
  ASSUME NEW r \in Requests, NEW d \in Docs, req \in [Requests -> Docs], req' = [req EXCEPT ![r] = d]
  PROVE  /\ req' \in [Requests -> Docs] /\ req'[r] = d
         /\ \A x \in Requests \ {r} : req'[x] = req[x]
OBVIOUS

LEMMA InitHolds == Init => DocInv
<1>1. SUFFICES ASSUME Init PROVE DocInv
  OBVIOUS
<1>2. \A r \in Requests : req[r] = [at |-> "idle", conn |-> NULL, todo |-> {},
                                    status |-> Unanswered("transport"), lost |-> NULL,
                                    epics |-> Nowhere, degraded |-> {}]
  BY <1>1 DEF Init
<1>3. Nowhere \in [Epics -> {NULL} \cup Entries] /\ Nowhere \in [Epics -> {NULL} \cup Tolds]
  BY DEF Nowhere
<1>4. \A r \in Requests : req[r] \in Docs
  BY <1>2, <1>3 DEF Docs, Ats, Statuses
<1>5. Typed
  <2>1. req \in [Requests -> Docs]
    BY <1>1, <1>4 DEF Init
  <2>2. told \in [Requests -> [Epics -> {NULL} \cup Tolds]]
    BY <1>1, <1>3 DEF Init
  <2>3. moves \in 0..MaxMoves /\ failures \in 0..MaxFailures
    BY <1>1, BoundsGiven DEF Init
  <2>4. opened \subseteq Requests /\ client \in {NULL} \cup opened
    BY <1>1 DEF Init
  <2>5. seam \in [Epics -> Files] /\ archive \in [Epics -> Files] /\ live \in [Epics -> {NULL} \cup Answers]
    BY <1>1 DEF Init
  <2> QED BY <2>1, <2>2, <2>3, <2>4, <2>5 DEF Typed
<1>6. ASSUME NEW r \in Requests PROVE Local(r)
  <2>1. /\ req[r].at = "idle" /\ req[r].conn = NULL /\ req[r].todo = {} /\ req[r].degraded = {}
        /\ \A e \in Epics : req[r].epics[e] = NULL /\ told[r][e] = NULL
    BY <1>1, <1>2 DEF Init, Nowhere
  <2> QED BY <2>1 DEF Local, Held, Ahead, Shown
<1>7. Kept
  BY <1>1 DEF Init, Kept
<1> QED BY <1>5, <1>6, <1>7 DEF DocInv

LEMMA ReadFloorKeeps == ASSUME DocInv, NEW r \in Requests, ReadFloor(r) PROVE DocInv'
<1>1. PICK todo \in SUBSET Epics, degraded \in SUBSET Notes :
        /\ req' = [req EXCEPT ![r] = [req[r] EXCEPT !.at = "attention", !.todo = todo,
                                                    !.degraded = degraded]]
        /\ \A x \in degraded : x.epic = NULL
  <2>1. req[r] \in Docs /\ req[r].todo = {} /\ req[r].degraded = {}
    BY DEF DocInv, Typed, Local, Ahead, ReadFloor
  <2>2. CASE req' = [req EXCEPT ![r].at = "attention", ![r].todo = {e \in Epics : live[e] # NULL}]
    <3>1. req' = [req EXCEPT ![r] = [req[r] EXCEPT !.at = "attention",
                    !.todo = {e \in Epics : live[e] # NULL}, !.degraded = {}]]
      BY <2>1, <2>2 DEF DocInv, Typed, Docs
    <3>2. {e \in Epics : live[e] # NULL} \in SUBSET Epics /\ {} \in SUBSET Notes
      OBVIOUS
    <3> QED BY <3>1, <3>2
  <2>3. ASSUME NEW m \in {"transport", "refusal"},
               req' = [req EXCEPT ![r].at = "attention",
                                  ![r].degraded = @ \cup {Degraded("floor", m, NULL)}]
        PROVE  \E todo \in SUBSET Epics, degraded \in SUBSET Notes :
                 /\ req' = [req EXCEPT ![r] = [req[r] EXCEPT !.at = "attention", !.todo = todo,
                                                             !.degraded = degraded]]
                 /\ \A x \in degraded : x.epic = NULL
    <3>1. req' = [req EXCEPT ![r] = [req[r] EXCEPT !.at = "attention", !.todo = {},
                                       !.degraded = {Degraded("floor", m, NULL)}]]
      BY <2>1, <2>3 DEF DocInv, Typed, Docs
    <3>2. {Degraded("floor", m, NULL)} \in SUBSET Notes /\ Degraded("floor", m, NULL).epic = NULL
      BY DEF Degraded, Notes
    <3>3. {} \in SUBSET Epics /\ \A x \in {Degraded("floor", m, NULL)} : x.epic = NULL
      BY <3>2
    <3> QED BY <3>1, <3>2, <3>3
  <2> QED BY <2>2, <2>3 DEF ReadFloor
<1> DEFINE d == [req[r] EXCEPT !.at = "attention", !.todo = todo, !.degraded = degraded]
<1>2. req[r] \in Docs /\ req \in [Requests -> Docs] /\ req[r].at = "idle" /\ req[r].conn = NULL
  BY DEF DocInv, Typed, Local, Held, ReadFloor
<1>3. d \in Docs
  BY <1>2 DEF Docs, Ats
<1>4. /\ d.at = "attention" /\ d.conn = NULL /\ d.todo = todo /\ d.degraded = degraded
      /\ d.epics = req[r].epics
  BY <1>2 DEF Docs
<1>5. /\ req' \in [Requests -> Docs] /\ req'[r] = d
      /\ \A x \in Requests \ {r} : req'[x] = req[x]
  BY <1>1, <1>2, <1>3, Updated
<1> HIDE DEF d
<1>6. UNCHANGED <<seam, archive, live, client, opened, told, moves>> /\ (Fail \/ Succeed)
  BY DEF ReadFloor, world
<1>7. Typed'
  BY <1>5, <1>6, FailCounts DEF DocInv, Typed
<1>8. Local(r)'
  <2>1. \A e \in Epics : told[r][e] = NULL /\ req[r].epics[e] = NULL
    BY <1>2 DEF DocInv, Local, Ahead
  <2>2. NULL \notin Epics
    BY FloorDocumentAssumption
  <2>3. \A e \in Epics : told'[r][e] = NULL /\ req'[r].epics[e] = NULL
    BY <1>4, <1>5, <1>6, <2>1
  <2>4. Held(r)'
    BY <1>4, <1>5 DEF Held
  <2>5. Shown(r)'
    BY <2>3 DEF Shown
  <2>6. req'[r].at = "attention" /\ req'[r].todo \subseteq Epics /\ \A x \in req'[r].degraded : x.epic = NULL
    BY <1>1, <1>4, <1>5
  <2>7. Ahead(r)'
    BY <2>2, <2>3, <2>6 DEF Ahead
  <2> QED BY <2>4, <2>5, <2>7 DEF Local
<1>9. \A x \in Requests \ {r} : Local(x)'
  BY <1>5, <1>6, OthersStand DEF DocInv
<1>10. Kept'
  BY <1>2, <1>6 DEF DocInv, Kept
<1> QED BY <1>7, <1>8, <1>9, <1>10 DEF DocInv

\* Every step of an assembly but the epics' own.
LEMMA StepKeeps ==
  ASSUME DocInv, NEW r \in Requests, NEW d \in Docs, NEW N \in SUBSET Notes,
         req' = [req EXCEPT ![r] = d],
         req[r].at \notin {"idle", "graph", "served", "raised"}, d.at # "idle",
         d.todo = req[r].todo, d.epics = req[r].epics,
         d.degraded = req[r].degraded \cup N, \A x \in N : x.epic = NULL,
         UNCHANGED <<seam, archive, live, told, moves>>, Fail \/ Succeed,
         opened \subseteq opened', opened' \subseteq Requests, client' \in {NULL} \cup opened',
         client' # NULL \/ (client' = client /\ opened' = opened),
         d.conn \in {NULL} \cup opened',
         d.conn # NULL => d.at = "attention" \/ (d.at = "epics" /\ d.todo # {}),
         d.at = "reconnecting" => d.todo # {}
  PROVE  DocInv'
<1>1. req \in [Requests -> Docs] /\ Typed /\ Local(r)
  BY DEF DocInv, Typed
<1>2. /\ req' \in [Requests -> Docs] /\ req'[r] = d
      /\ \A x \in Requests \ {r} : req'[x] = req[x]
  BY <1>1, Updated
<1>3. failures' \in 0..MaxFailures
  BY FailCounts DEF DocInv, Typed
<1>4. Typed'
  BY <1>1, <1>2, <1>3 DEF Typed
<1>5. Held(r)'
  BY <1>2 DEF Held
<1>6. Ahead(r)' /\ Shown(r)'
  <2>1. d.degraded \in SUBSET Notes
    BY DEF Docs
  <2>2. told'[r] = told[r]
    OBVIOUS
  <2> QED BY <1>1, <1>2, <2>1, <2>2, ReadsNoEpic
<1>7. \A x \in Requests \ {r} : Local(x)'
  BY <1>2, OthersStand DEF DocInv
<1>8. Kept'
  BY DEF DocInv, Kept
<1> QED BY <1>4, <1>5, <1>6, <1>7, <1>8 DEF DocInv, Local

\* A connection held is one that is open.
LEMMA OpenClientKeeps == ASSUME DocInv, NEW r \in Requests, OpenClient(r) PROVE DocInv'
<1>1. /\ req[r] \in Docs /\ req \in [Requests -> Docs] /\ client \in {NULL} \cup opened
      /\ req[r].conn = NULL /\ opened \subseteq Requests
      /\ req[r].at = "attention" \/ (req[r].at = "epics" /\ req[r].todo # {})
  BY DEF DocInv, Typed, OpenClient, NeedsClient
<1>2. /\ UNCHANGED <<seam, archive, live, told, moves, client, opened>>
      /\ Fail \/ Succeed
  BY DEF OpenClient, world, Succeed
<1>3. CASE client # NULL
  <2> DEFINE d == [req[r] EXCEPT !.conn = client]
  <2>1. req' = [req EXCEPT ![r] = d]
    BY <1>1, <1>3 DEF OpenClient
  <2>2. d \in Docs
    BY <1>1, <1>3 DEF Docs
  <2>3. /\ d.at = req[r].at /\ d.todo = req[r].todo /\ d.epics = req[r].epics
        /\ d.degraded = req[r].degraded /\ d.conn = client
    BY <1>1 DEF Docs
  <2> HIDE DEF d
  <2>4. d.degraded = req[r].degraded \cup {} /\ {} \in SUBSET Notes /\ \A x \in {} : x.epic = NULL
    BY <2>3
  <2> QED BY <1>1, <1>2, <1>3, <2>1, <2>2, <2>3, <2>4, StepKeeps
<1>4. CASE client = NULL
  <2>1. PICK at \in {"connecting", "reconnecting"} :
          /\ req' = [req EXCEPT ![r] = [req[r] EXCEPT !.at = at]]
          /\ at = "reconnecting" => req[r].at = "epics"
    BY <1>1, <1>4 DEF OpenClient
  <2> DEFINE d == [req[r] EXCEPT !.at = at]
  <2>2. d \in Docs
    BY <1>1 DEF Docs, Ats
  <2>3. /\ d.at = at /\ d.todo = req[r].todo /\ d.epics = req[r].epics
        /\ d.degraded = req[r].degraded /\ d.conn = NULL
    BY <1>1 DEF Docs
  <2>4. req' = [req EXCEPT ![r] = d]
    BY <2>1
  <2> HIDE DEF d
  <2>5. d.degraded = req[r].degraded \cup {} /\ {} \in SUBSET Notes /\ \A x \in {} : x.epic = NULL
    BY <2>3
  <2>6. at = "reconnecting" => d.todo # {}
    BY <1>1, <2>1, <2>3
  <2> QED BY <1>1, <1>2, <1>4, <2>2, <2>3, <2>4, <2>5, <2>6, StepKeeps
<1> QED BY <1>3, <1>4

LEMMA ConnectedKeeps == ASSUME DocInv, NEW r \in Requests, Connected(r) PROVE DocInv'
<1>1. /\ req[r] \in Docs /\ req \in [Requests -> Docs] /\ opened \subseteq Requests
      /\ req[r].at \in {"connecting", "reconnecting"}
      /\ NULL \notin Requests
  BY FloorDocumentAssumption DEF DocInv, Typed, Connected
<1>2. /\ UNCHANGED <<seam, archive, live, told, moves>> /\ Succeed
      /\ client' = r /\ opened' = opened \cup {r}
  BY DEF Connected, world, Succeed
<1>3. PICK at \in {"attention", "epics"} :
        /\ req' = [req EXCEPT ![r] = [req[r] EXCEPT !.at = at, !.conn = r]]
        /\ at = "epics" => req[r].at = "reconnecting"
  BY <1>1 DEF Connected
<1> DEFINE d == [req[r] EXCEPT !.at = at, !.conn = r]
<1>4. d \in Docs
  BY <1>1 DEF Docs, Ats
<1>5. /\ d.at = at /\ d.todo = req[r].todo /\ d.epics = req[r].epics
      /\ d.degraded = req[r].degraded /\ d.conn = r
  BY <1>1 DEF Docs
<1>6. req' = [req EXCEPT ![r] = d]
  BY <1>3
<1> HIDE DEF d
<1>7. d.degraded = req[r].degraded \cup {} /\ {} \in SUBSET Notes /\ \A x \in {} : x.epic = NULL
  BY <1>5
<1>8. at = "epics" => d.todo # {}
  BY <1>3, <1>5 DEF DocInv, Local, Held
<1> QED BY <1>1, <1>2, <1>4, <1>5, <1>6, <1>7, <1>8, StepKeeps

LEMMA RefusedKeeps == ASSUME DocInv, NEW r \in Requests, ConnectRefused(r) PROVE DocInv'
<1>1. /\ req[r] \in Docs /\ req \in [Requests -> Docs] /\ opened \subseteq Requests
      /\ req[r].at \in {"connecting", "reconnecting"} /\ req[r].conn = NULL
      /\ client \in {NULL} \cup opened
  BY DEF DocInv, Typed, ConnectRefused, Local, Held
<1>2. UNCHANGED <<seam, archive, live, told, moves, client, opened>> /\ Fail
  BY DEF ConnectRefused, world
<1> DEFINE d == [req[r] EXCEPT !.at = "raised", !.lost = "connection"]
<1>3. req' = [req EXCEPT ![r] = d]
  BY <1>1 DEF ConnectRefused
<1>4. d \in Docs
  BY <1>1 DEF Docs, Ats
<1>5. /\ d.at = "raised" /\ d.todo = req[r].todo /\ d.epics = req[r].epics
      /\ d.degraded = req[r].degraded /\ d.conn = NULL
  BY <1>1 DEF Docs
<1> HIDE DEF d
<1>6. d.degraded = req[r].degraded \cup {} /\ {} \in SUBSET Notes /\ \A x \in {} : x.epic = NULL
  BY <1>5
<1> QED BY <1>1, <1>2, <1>3, <1>4, <1>5, <1>6, StepKeeps

LEMMA AttentionKeeps == ASSUME DocInv, NEW r \in Requests, ReadAttention(r) PROVE DocInv'
<1>1. /\ req[r] \in Docs /\ req \in [Requests -> Docs] /\ opened \subseteq Requests
      /\ req[r].at = "attention" /\ client \in {NULL} \cup opened
  BY DEF DocInv, Typed, ReadAttention
<1>2. UNCHANGED <<seam, archive, live, told, moves, client, opened>> /\ (Fail \/ Succeed)
  BY DEF ReadAttention, world
<1>3. PICK N \in SUBSET Notes :
        /\ req' = [req EXCEPT ![r] = [req[r] EXCEPT !.at = "stores", !.conn = NULL,
                                                    !.degraded = req[r].degraded \cup N]]
        /\ \A x \in N : x.epic = NULL
  <2>1. PICK N \in {{}} \cup {{Degraded("attention", m, NULL)} : m \in {"transport", "refusal"}} :
          req' = [req EXCEPT ![r].at = "stores", ![r].conn = NULL, ![r].degraded = @ \cup N]
    BY DEF ReadAttention
  <2>2. req' = [req EXCEPT ![r] = [req[r] EXCEPT !.at = "stores", !.conn = NULL,
                                                 !.degraded = req[r].degraded \cup N]]
    BY <1>1, <2>1
  <2>3. N \in SUBSET Notes /\ \A x \in N : x.epic = NULL
    BY <2>1 DEF Degraded, Notes
  <2> QED BY <2>2, <2>3
<1> DEFINE d == [req[r] EXCEPT !.at = "stores", !.conn = NULL, !.degraded = req[r].degraded \cup N]
<1>4. d \in Docs
  BY <1>1 DEF Docs, Ats
<1>5. /\ d.at = "stores" /\ d.todo = req[r].todo /\ d.epics = req[r].epics
      /\ d.degraded = req[r].degraded \cup N /\ d.conn = NULL
  BY <1>1 DEF Docs
<1>6. req' = [req EXCEPT ![r] = d] /\ \A x \in N : x.epic = NULL
  BY <1>3
<1> HIDE DEF d
<1> QED BY <1>1, <1>2, <1>4, <1>5, <1>6, StepKeeps

LEMMA StoresKeep == ASSUME DocInv, NEW r \in Requests, ReadStores(r) PROVE DocInv'
<1>1. /\ req[r] \in Docs /\ req \in [Requests -> Docs] /\ opened \subseteq Requests
      /\ req[r].at = "stores" /\ req[r].conn = NULL /\ client \in {NULL} \cup opened
  BY DEF DocInv, Typed, ReadStores, Local, Held
<1>2. UNCHANGED <<seam, archive, live, told, moves, client, opened>> /\ (Fail \/ Succeed)
  BY DEF ReadStores, world
<1>3. PICK at \in {"epics", "raised"}, lost \in {NULL, "connection", "store"}, N \in SUBSET Notes :
        /\ req' = [req EXCEPT ![r] = [req[r] EXCEPT !.at = at, !.lost = lost,
                                                    !.degraded = req[r].degraded \cup N]]
        /\ \A x \in N : x.epic = NULL
  <2>1. CASE req' = [req EXCEPT ![r].at = "epics"]
    <3>1. req' = [req EXCEPT ![r] = [req[r] EXCEPT !.at = "epics", !.lost = req[r].lost,
                                                   !.degraded = req[r].degraded \cup {}]]
      BY <1>1, <2>1 DEF Docs
    <3>2. {} \in SUBSET Notes /\ req[r].lost \in {NULL, "connection", "store"} /\ \A x \in {} : x.epic = NULL
      BY <1>1 DEF Docs
    <3> QED BY <3>1, <3>2
  <2>2. ASSUME NEW section \in {"health", "spend_to_date"},
               req' = [req EXCEPT ![r].at = "epics",
                                  ![r].degraded = @ \cup {Degraded(section, "transport", NULL)}]
        PROVE  \E at \in {"epics", "raised"}, lost \in {NULL, "connection", "store"}, N \in SUBSET Notes :
                 /\ req' = [req EXCEPT ![r] = [req[r] EXCEPT !.at = at, !.lost = lost,
                                                             !.degraded = req[r].degraded \cup N]]
                 /\ \A x \in N : x.epic = NULL
    <3> DEFINE N == {Degraded(section, "transport", NULL)}
    <3>1. N \in SUBSET Notes /\ \A x \in N : x.epic = NULL
      BY DEF Degraded, Notes
    <3> HIDE DEF N
    <3>2. req' = [req EXCEPT ![r] = [req[r] EXCEPT !.at = "epics", !.lost = req[r].lost,
                                                   !.degraded = req[r].degraded \cup N]]
      BY <1>1, <2>2 DEF Docs, N
    <3>3. req[r].lost \in {NULL, "connection", "store"}
      BY <1>1 DEF Docs
    <3> QED BY <3>1, <3>2, <3>3
  <2>3. CASE req' = [req EXCEPT ![r].at = "raised", ![r].lost = "store"]
    <3>1. req' = [req EXCEPT ![r] = [req[r] EXCEPT !.at = "raised", !.lost = "store",
                                                   !.degraded = req[r].degraded \cup {}]]
      BY <1>1, <2>3 DEF Docs
    <3>2. {} \in SUBSET Notes /\ \A x \in {} : x.epic = NULL
      OBVIOUS
    <3> QED BY <3>1, <3>2
  <2> QED BY <2>1, <2>2, <2>3 DEF ReadStores
<1> DEFINE d == [req[r] EXCEPT !.at = at, !.lost = lost, !.degraded = req[r].degraded \cup N]
<1>4. d \in Docs
  BY <1>1 DEF Docs, Ats
<1>5. /\ d.at = at /\ d.todo = req[r].todo /\ d.epics = req[r].epics
      /\ d.degraded = req[r].degraded \cup N /\ d.conn = NULL
  BY <1>1 DEF Docs
<1>6. req' = [req EXCEPT ![r] = d] /\ \A x \in N : x.epic = NULL
  BY <1>3
<1> HIDE DEF d
<1> QED BY <1>1, <1>2, <1>4, <1>5, <1>6, StepKeeps

LEMMA ServeKeeps == ASSUME DocInv, NEW r \in Requests, Serve(r) PROVE DocInv'
<1>1. /\ req[r] \in Docs /\ req \in [Requests -> Docs] /\ opened \subseteq Requests
      /\ req[r].at = "epics" /\ req[r].conn = NULL /\ client \in {NULL} \cup opened
  BY DEF DocInv, Typed, Serve, Local, Held
<1>2. UNCHANGED <<seam, archive, live, told, moves, client, opened>> /\ (Fail \/ Succeed)
  BY DEF Serve, world, Succeed
<1> DEFINE d == [req[r] EXCEPT !.at = "served"]
<1>3. req' = [req EXCEPT ![r] = d]
  BY <1>1 DEF Serve
<1>4. d \in Docs
  BY <1>1 DEF Docs, Ats
<1>5. /\ d.at = "served" /\ d.todo = req[r].todo /\ d.epics = req[r].epics
      /\ d.degraded = req[r].degraded /\ d.conn = NULL
  BY <1>1 DEF Docs
<1> HIDE DEF d
<1>6. d.degraded = req[r].degraded \cup {} /\ {} \in SUBSET Notes /\ \A x \in {} : x.epic = NULL
  BY <1>5
<1> QED BY <1>1, <1>2, <1>3, <1>4, <1>5, <1>6, StepKeeps

LEMMA MoveKeeps == ASSUME DocInv, Move PROVE DocInv'
<1>1. UNCHANGED <<client, opened, req, told, failures>> /\ moves < MaxMoves /\ moves' = moves + 1
  BY DEF Move
<1>2. seam' \in [Epics -> Files] /\ archive' \in [Epics -> Files] /\ live' \in [Epics -> {NULL} \cup Answers]
  <2>1. PICK e \in Epics :
          \/ \E f \in Files \ {seam[e]} : seam' = [seam EXCEPT ![e] = f] /\ UNCHANGED <<archive, live>>
          \/ \E f \in Files \ {archive[e]} : archive' = [archive EXCEPT ![e] = f] /\ UNCHANGED <<seam, live>>
          \/ \E a \in ({NULL} \cup Answers) \ {live[e]} : live' = [live EXCEPT ![e] = a] /\ UNCHANGED <<seam, archive>>
    BY DEF Move
  <2>2. /\ seam \in [Epics -> Files] /\ archive \in [Epics -> Files]
        /\ live \in [Epics -> {NULL} \cup Answers]
    BY DEF DocInv, Typed
  <2> QED BY <2>1, <2>2
<1>3. moves' \in 0..MaxMoves
  BY <1>1, BoundsGiven DEF DocInv, Typed
<1>4. Typed'
  BY <1>1, <1>2, <1>3 DEF DocInv, Typed
<1>5. \A x \in Requests : Local(x)'
  BY <1>1, OthersStand DEF DocInv
<1>6. Kept'
  BY <1>1 DEF DocInv, Kept
<1> QED BY <1>4, <1>5, <1>6 DEF DocInv

\* Nothing is in hand of a client that is closed.
LEMMA ShutdownKeeps == ASSUME DocInv, Shutdown PROVE DocInv'
<1>1. /\ UNCHANGED <<seam, archive, live, req, told, moves, failures>>
      /\ client' = NULL /\ opened' \subseteq opened
      /\ \A r \in Requests : req[r].at \in {"served", "raised"}
  BY DEF Shutdown, world
<1>2. Typed'
  BY <1>1 DEF DocInv, Typed
<1>3. \A x \in Requests : req[x].conn = NULL
  BY <1>1 DEF DocInv, Local, Held
<1>4. \A x \in Requests : Local(x)'
  BY <1>1, <1>3, OthersStand DEF DocInv
<1>5. Kept'
  BY <1>1 DEF Kept
<1> QED BY <1>2, <1>4, <1>5 DEF DocInv

LEMMA EpicStatusKeeps == ASSUME DocInv, NEW r \in Requests, EpicStatus(r) PROVE DocInv'
<1>1. /\ req[r] \in Docs /\ req \in [Requests -> Docs] /\ opened \subseteq Requests
      /\ req[r].at = "epics" /\ client \in {NULL} \cup opened /\ Local(r)
      /\ told \in [Requests -> [Epics -> {NULL} \cup Tolds]] /\ req[r].todo \subseteq Epics
  BY DEF DocInv, Typed, EpicStatus, Docs
<1>2. PICK e \in req[r].todo, status \in Statuses :
        /\ req' = [req EXCEPT ![r].at = "graph", ![r].conn = NULL, ![r].status = status]
        /\ told' = [told EXCEPT ![r][e] = [status |-> status, seam |-> NULL, archive |-> NULL]]
        /\ Fail \/ Succeed
  BY DEF EpicStatus, Statuses
<1>3. UNCHANGED <<seam, archive, live, client, opened, moves>>
  BY DEF EpicStatus, world
<1> DEFINE d == [req[r] EXCEPT !.at = "graph", !.conn = NULL, !.status = status]
           t == [status |-> status, seam |-> NULL, archive |-> NULL]
<1>4. d \in Docs
  BY <1>1 DEF Docs, Ats
<1>5. /\ d.at = "graph" /\ d.conn = NULL /\ d.todo = req[r].todo /\ d.epics = req[r].epics
      /\ d.degraded = req[r].degraded /\ d.status = status
  BY <1>1 DEF Docs
<1>6. req' = [req EXCEPT ![r] = d]
  BY <1>1, <1>2
<1>7. t \in Tolds /\ t = [status |-> status, seam |-> NULL, archive |-> NULL]
  BY DEF Tolds
<1>8. told' = [told EXCEPT ![r][e] = t] /\ (Fail \/ Succeed)
  BY <1>2
<1> HIDE DEF d, t
<1>9. /\ req' \in [Requests -> Docs] /\ req'[r] = d
      /\ \A x \in Requests \ {r} : req'[x] = req[x]
  BY <1>1, <1>4, <1>6, Updated
<1>10. /\ told' \in [Requests -> [Epics -> {NULL} \cup Tolds]] /\ told'[r][e] = t
       /\ \A f \in Epics \ {e} : told'[r][f] = told[r][f]
       /\ \A x \in Requests \ {r} : told'[x] = told[x]
  BY <1>1, <1>7, <1>8
<1>11. failures' \in 0..MaxFailures
  BY <1>8, FailCounts DEF DocInv, Typed
<1>12. Typed'
  BY <1>3, <1>9, <1>10, <1>11 DEF DocInv, Typed
<1>13. /\ req[r].epics[e] = NULL
       /\ \A f \in req[r].todo : req[r].epics[f] = NULL /\ told[r][f] = NULL
                                 /\ \A x \in req[r].degraded : x.epic # f
  BY <1>1 DEF Local, Ahead
<1>14. Held(r)'
  BY <1>5, <1>9 DEF Held
<1>15. Ahead(r)'
  BY <1>1, <1>5, <1>7, <1>9, <1>10, <1>13 DEF Ahead
<1>16. Shown(r)'
  BY <1>1, <1>5, <1>9, <1>10, <1>13 DEF Shown, Local
<1>17. \A x \in Requests \ {r} : Local(x)'
  BY <1>3, <1>9, <1>10, OthersStand DEF DocInv
<1>18. Kept'
  BY <1>1, <1>3 DEF DocInv, Kept
<1> QED BY <1>12, <1>14, <1>15, <1>16, <1>17, <1>18 DEF DocInv, Local

LEMMA FailuresAreNotes ==
  ASSUME NEW e \in Epics, NEW g \in Read, NEW status \in Statuses
  PROVE  EpicFailures(e, g, status) \in SUBSET Notes /\ \A x \in EpicFailures(e, g, status) : x.epic = e
<1>1. g.is \in {"graph", "transport", "unparseable"}
  BY DEF Read, ReadWorkgraph
<1>2. status.is \in {"answer", "transport", "refusal"}
  BY DEF Statuses, Unanswered
<1> QED BY <1>1, <1>2 DEF EpicFailures, Degraded, Notes

LEMMA JoinEpicKeeps == ASSUME DocInv, NEW r \in Requests, JoinEpic(r) PROVE DocInv'
<1>1. /\ req[r] \in Docs /\ req \in [Requests -> Docs] /\ opened \subseteq Requests
      /\ req[r].at = "graph" /\ req[r].conn = NULL /\ client \in {NULL} \cup opened /\ Local(r)
      /\ told \in [Requests -> [Epics -> {NULL} \cup Tolds]] /\ req[r].todo \subseteq Epics
      /\ req[r].status \in Statuses /\ req[r].epics \in [Epics -> {NULL} \cup Entries]
      /\ req[r].degraded \in SUBSET Notes
  BY DEF DocInv, Typed, JoinEpic, Docs, Local, Held
<1>2. PICK e \in req[r].todo :
        /\ told[r][e] # NULL /\ req[r].epics[e] = NULL
        /\ req' = [req EXCEPT ![r].at = "epics", ![r].todo = @ \ {e},
                     ![r].epics[e] = EpicEntry(ReadWorkgraph(seam[e], archive[e]), req[r].status),
                     ![r].degraded = @ \cup EpicFailures(e, ReadWorkgraph(seam[e], archive[e]), req[r].status)]
        /\ told' = [told EXCEPT ![r][e] = [status |-> req[r].status, seam |-> seam[e],
                                            archive |-> archive[e]]]
  BY DEF JoinEpic
<1>3. UNCHANGED <<seam, archive, live, client, opened, moves, failures>>
  BY DEF JoinEpic, world
<1> DEFINE g == ReadWorkgraph(seam[e], archive[e])
           E == EpicEntry(g, req[r].status)
           F == EpicFailures(e, g, req[r].status)
           d == [req[r] EXCEPT !.at = "epics", !.todo = req[r].todo \ {e},
                               !.epics = [req[r].epics EXCEPT ![e] = E],
                               !.degraded = req[r].degraded \cup F]
           t == [status |-> req[r].status, seam |-> seam[e], archive |-> archive[e]]
<1>4. seam[e] \in Files /\ archive[e] \in Files /\ g \in Read /\ g = ReadWorkgraph(seam[e], archive[e])
  BY <1>1 DEF DocInv, Typed, Read
<1>5. req' = [req EXCEPT ![r] = d]
  BY <1>1, <1>2
<1>6. t \in Tolds /\ t = [status |-> req[r].status, seam |-> seam[e], archive |-> archive[e]]
  BY <1>1, <1>4 DEF Tolds
<1>7. told' = [told EXCEPT ![r][e] = t]
  BY <1>2
<1> HIDE DEF g
<1>8. /\ E \in Entries /\ F \in SUBSET Notes /\ \A x \in F : x.epic = e
      /\ E = EpicEntry(g, req[r].status) /\ F = EpicFailures(e, g, req[r].status)
  BY <1>1, <1>4, FailuresAreNotes DEF Entries
<1> HIDE DEF E, F
<1>9. d \in Docs
  <2>1. [req[r].epics EXCEPT ![e] = E] \in [Epics -> {NULL} \cup Entries]
    BY <1>1, <1>8
  <2>2. req[r].degraded \cup F \in SUBSET Notes /\ req[r].todo \ {e} \in SUBSET Epics
    BY <1>1, <1>8
  <2> DEFINE es == [req[r].epics EXCEPT ![e] = E]
             ds == req[r].degraded \cup F
             ts == req[r].todo \ {e}
  <2>3. d = [req[r] EXCEPT !.at = "epics", !.todo = ts, !.epics = es, !.degraded = ds]
    OBVIOUS
  <2> HIDE DEF es, ds, ts, d
  <2>4. es \in [Epics -> {NULL} \cup Entries] /\ ds \in SUBSET Notes /\ ts \in SUBSET Epics
    BY <2>1, <2>2 DEF es, ds, ts
  <2> QED BY <1>1, <2>3, <2>4 DEF Docs, Ats
<1>10. /\ d.at = "epics" /\ d.conn = NULL /\ d.todo = req[r].todo \ {e}
       /\ d.epics = [req[r].epics EXCEPT ![e] = E]
       /\ d.degraded = req[r].degraded \cup F
  BY <1>1 DEF Docs
<1> HIDE DEF d, t
<1>11. d.epics[e] = E /\ \A f \in Epics \ {e} : d.epics[f] = req[r].epics[f]
  BY <1>1, <1>10
<1>12. /\ req' \in [Requests -> Docs] /\ req'[r] = d
       /\ \A x \in Requests \ {r} : req'[x] = req[x]
  BY <1>1, <1>5, <1>9, Updated
<1>13. /\ told' \in [Requests -> [Epics -> {NULL} \cup Tolds]] /\ told'[r][e] = t
       /\ \A f \in Epics \ {e} : told'[r][f] = told[r][f]
       /\ \A x \in Requests \ {r} : told'[x] = told[x]
  BY <1>1, <1>6, <1>7
<1>14. Typed'
  BY <1>3, <1>12, <1>13 DEF DocInv, Typed
<1>15. Held(r)'
  BY <1>10, <1>12 DEF Held
<1>16. Ahead(r)'
  <2>1. ASSUME NEW f \in d.todo
        PROVE  /\ d.epics[f] = NULL /\ told'[r][f] = NULL
               /\ \A x \in d.degraded : x.epic # f
    <3>1. f \in req[r].todo /\ f # e /\ f \in Epics
      BY <1>1, <1>10
    <3>2. req[r].epics[f] = NULL /\ told[r][f] = NULL /\ \A x \in req[r].degraded : x.epic # f
      BY <1>1, <1>2, <3>1 DEF Local, Ahead
    <3> QED BY <1>8, <1>10, <1>11, <1>13, <3>1, <3>2
  <2> QED BY <1>10, <1>12, <2>1 DEF Ahead
<1>17. Shown(r)'
  <2>1. ASSUME NEW f \in Epics, d.epics[f] # NULL
        PROVE  LET u == told'[r][f]
                   h == ReadWorkgraph(u.seam, u.archive)
               IN /\ u.status \in Statuses /\ u.seam \in Files /\ u.archive \in Files
                  /\ d.epics[f] = EpicEntry(h, u.status)
                  /\ {x \in d.degraded : x.epic = f} = EpicFailures(f, h, u.status)
    <3>1. CASE f = e
      <4>1. t.status = req[r].status /\ t.seam = seam[e] /\ t.archive = archive[e]
        BY <1>6
      <4>2. \A x \in req[r].degraded : x.epic # e
        BY <1>1 DEF Local, Ahead
      <4>3. {x \in d.degraded : x.epic = e} = F
        BY <1>8, <1>10, <4>2
      <4> QED BY <1>1, <1>4, <1>8, <1>11, <1>13, <3>1, <4>1, <4>3
    <3>2. CASE f # e
      <4>1. told'[r][f] = told[r][f] /\ d.epics[f] = req[r].epics[f]
        BY <1>11, <1>13, <3>2
      <4>2. {x \in d.degraded : x.epic = f} = {x \in req[r].degraded : x.epic = f}
        BY <1>8, <1>10, <3>2
      <4> QED BY <1>1, <2>1, <4>1, <4>2 DEF Local, Shown
    <3> QED BY <3>1, <3>2
  <2> QED BY <1>12, <2>1 DEF Shown
<1>18. \A x \in Requests \ {r} : Local(x)'
  BY <1>3, <1>12, <1>13, OthersStand DEF DocInv
<1>19. Kept'
  BY <1>1, <1>3 DEF DocInv, Kept
<1> QED BY <1>14, <1>15, <1>16, <1>17, <1>18, <1>19 DEF DocInv, Local

THEOREM Inductive == Spec => []DocInv
<1>1. DocInv /\ [Next]_vars => DocInv'
  <2>1. SUFFICES ASSUME DocInv, [Next]_vars PROVE DocInv'
    OBVIOUS
  <2>2. ASSUME NEW r \in Requests,
               \/ ReadFloor(r) \/ OpenClient(r) \/ Connected(r) \/ ConnectRefused(r)
               \/ ReadAttention(r) \/ ReadStores(r) \/ EpicStatus(r) \/ JoinEpic(r) \/ Serve(r)
        PROVE  DocInv'
    BY <2>1, <2>2, ReadFloorKeeps, OpenClientKeeps, ConnectedKeeps, RefusedKeeps, AttentionKeeps,
       StoresKeep, EpicStatusKeeps, JoinEpicKeeps, ServeKeeps
  <2>3. CASE Move
    BY <2>1, <2>3, MoveKeeps
  <2>4. CASE Shutdown
    BY <2>1, <2>4, ShutdownKeeps
  <2>5. CASE UNCHANGED vars
    BY <2>1, <2>5 DEF vars, world, DocInv, Typed, Kept, Local, Held, Ahead, Shown
  <2> QED BY <2>1, <2>2, <2>3, <2>4, <2>5 DEF Next
<1> QED BY <1>1, InitHolds, PTL DEF Spec

-----------------------------------------------------------------------------
(* What a join is made of *)

Nodes == [id : {NULL} \cup Names, key : {NULL} \cup Names, deps : SUBSET Names, merged : SUBSET Names]

\* The nodes a row may draw.
Drawable(g, s) == IF GraphMismatch(g, s) THEN {} ELSE g.nodes

LEMMA FilesTyped ==
  \A f \in Files : /\ f.is \in {"absent", "broken", "graph"}
                   /\ f.is # "graph" => f.nodes = {}
                   /\ f.nodes = {} \/ f.nodes \in Graphs
BY DEF Files, Absent, Broken

LEMMA ReadTyped ==
  ASSUME NEW s \in Files, NEW a \in Files
  PROVE  LET g == ReadWorkgraph(s, a)
             found == s.is = "graph" \/ a.is = "graph"
         IN /\ g.is \in {"graph", "transport", "unparseable"}
            /\ g.nodes = IF s.is = "graph" THEN s.nodes ELSE a.nodes
            /\ g.nodes = {} \/ g.nodes \in Graphs
            /\ g.is = "graph" <=> found
            /\ g.is = "unparseable" <=> ~found /\ a.is = "broken"
            /\ g.source = NULL <=> ~found
            /\ g.is # "graph" => g.nodes = {}
<1>1. NULL \notin {"seam", "archive"}
  BY FloorDocumentAssumption
<1>2. CASE s.is = "graph"
  BY <1>1, <1>2, FilesTyped DEF ReadWorkgraph
<1>3. CASE s.is # "graph" /\ a.is = "graph"
  BY <1>1, <1>3, FilesTyped DEF ReadWorkgraph
<1>4. CASE s.is # "graph" /\ a.is = "broken"
  BY <1>1, <1>4, FilesTyped DEF ReadWorkgraph
<1>5. CASE s.is # "graph" /\ a.is = "absent"
  BY <1>1, <1>5, FilesTyped DEF ReadWorkgraph
<1> QED BY <1>2, <1>3, <1>4, <1>5, FilesTyped

LEMMA StatusTyped ==
  \A s \in Statuses : s.is \in {"answer", "transport", "refusal"} /\ DOMAIN s.nodes \subseteq Names
<1>1. \A s \in [is : {"answer"}, nodes : Answers] : s.is = "answer" /\ DOMAIN s.nodes \subseteq Names
  BY FloorDocumentAssumption
<1>2. \A m \in {"transport", "refusal"} : Unanswered(m).is = m /\ DOMAIN Unanswered(m).nodes = {}
  BY DEF Unanswered
<1> QED BY <1>1, <1>2 DEF Statuses

\* A card of the graph, and one of a node only the floor names.
LEMMA DeclaredCard ==
  ASSUME NEW n \in Nodes, NEW s
  PROVE  NodeCard(n.id, {n}, s) = [id |-> n.id, declared |-> TRUE, state |-> StateOf(n.id, s),
                                   deps |-> n.deps, merged |-> n.merged]
<1>1. UNION {m.deps : m \in {n}} = n.deps /\ UNION {m.merged : m \in {n}} = n.merged
  OBVIOUS
<1>2. ({n} # {}) = TRUE
  OBVIOUS
<1> QED BY <1>1, <1>2 DEF NodeCard

LEMMA StrayCard ==
  ASSUME NEW i, NEW s
  PROVE  NodeCard(i, {}, s) = [id |-> i, declared |-> FALSE, state |-> StateOf(i, s),
                               deps |-> {}, merged |-> {}]
<1>1. UNION {m.deps : m \in {}} = {} /\ UNION {m.merged : m \in {}} = {}
  OBVIOUS
<1>2. ({} # {}) = FALSE
  OBVIOUS
<1> QED BY <1>1, <1>2 DEF NodeCard

LEMMA CardsOf ==
  ASSUME NEW g, NEW s, NEW c
  PROVE  c \in Cards(g, s) <=>
           \/ \E n \in Drawable(g, s) : n.id # NULL /\ c = NodeCard(n.id, {n}, s)
           \/ \E i \in DOMAIN s.nodes \ Ids(Drawable(g, s)) : c = NodeCard(i, {}, s)
BY DEF Cards, Drawable

\* What every join that is shown was made of.
LEMMA ShownIsJoined ==
  ASSUME DocInv, NEW r \in Requests, NEW e \in Epics, Joined(r, e)
  PROVE  LET t == told[r][e]
             g == ReadWorkgraph(t.seam, t.archive)
         IN /\ t.status \in Statuses /\ t.seam \in Files /\ t.archive \in Files
            /\ req[r].epics[e].cards = Cards(g, t.status)
            /\ req[r].epics[e].stage = Stage(g, t.status)
            /\ req[r].epics[e].source = g.source
            /\ \A m : Says(r, e, m) <=>
                 \/ m = t.status.is /\ m # "answer" /\ m # "graph"
                 \/ m = g.is /\ m # "answer" /\ m # "graph"
                 \/ m = "mismatch" /\ GraphMismatch(g, t.status)
<1> DEFINE t == told[r][e]
           g == ReadWorkgraph(t.seam, t.archive)
<1>1. /\ t.status \in Statuses /\ t.seam \in Files /\ t.archive \in Files
      /\ req[r].epics[e] = EpicEntry(g, t.status)
      /\ {x \in req[r].degraded : x.epic = e} = EpicFailures(e, g, t.status)
  BY DEF DocInv, Local, Shown, Joined
<1> HIDE DEF t, g
<1>2. ASSUME NEW m
      PROVE  Says(r, e, m) <=> \/ m = t.status.is /\ m # "answer" /\ m # "graph"
                               \/ m = g.is /\ m # "answer" /\ m # "graph"
                               \/ m = "mismatch" /\ GraphMismatch(g, t.status)
  <2>1. Says(r, e, m) <=> Degraded("epics", m, e) \in EpicFailures(e, g, t.status)
    BY <1>1 DEF Says, Degraded
  <2>2. \A k : Degraded("epics", m, e) = Degraded("epics", k, e) <=> m = k
    BY DEF Degraded
  <2> QED BY <2>1, <2>2 DEF EpicFailures
<1>3. /\ req[r].epics[e].cards = Cards(g, t.status)
      /\ req[r].epics[e].stage = Stage(g, t.status)
      /\ req[r].epics[e].source = g.source
  BY <1>1 DEF EpicEntry
<1> QED BY <1>1, <1>2, <1>3 DEF t, g

\* The nodes and the graph of a join, typed.
LEMMA NodesTyped ==
  ASSUME NEW a \in Files, NEW b \in Files, NEW s \in Statuses
  PROVE  LET g == ReadWorkgraph(a, b)
         IN /\ g.nodes \subseteq Nodes
            /\ \A m, n \in g.nodes : m.id = n.id /\ m.id # NULL => m = n
            /\ Drawable(g, s) \subseteq g.nodes
BY ReadTyped, FloorDocumentAssumption, IdsAssumption DEF Nodes, Drawable

LEMMA EveryNodeDrawn ==
  ASSUME NEW a \in Files, NEW b \in Files, NEW s \in Statuses, NEW i \in DOMAIN s.nodes
  PROVE  LET cards == Cards(ReadWorkgraph(a, b), s)
         IN /\ [id |-> i, state |-> StateOf(i, s)] \in {[id |-> c.id, state |-> c.state] : c \in cards}
            /\ \A c, d \in cards : c.id = i /\ d.id = i => c = d
<1> DEFINE g == ReadWorkgraph(a, b)
           J == Drawable(g, s)
<1>1. /\ J \subseteq Nodes /\ \A m, n \in J : m.id = n.id /\ m.id # NULL => m = n
      /\ J = Drawable(g, s)
  BY NodesTyped
<1> HIDE DEF g, J
<1>2. i # NULL
  BY StatusTyped, FloorDocumentAssumption
<1>3. \E c \in Cards(g, s) : c.id = i /\ c.state = StateOf(i, s)
  <2>1. CASE i \in Ids(J)
    <3>1. PICK n \in J : n.id = i
      BY <2>1 DEF Ids
    <3>2. NodeCard(n.id, {n}, s) \in Cards(g, s)
      BY <1>1, <1>2, <3>1, CardsOf
    <3>3. NodeCard(n.id, {n}, s) = [id |-> n.id, declared |-> TRUE, state |-> StateOf(n.id, s),
                                    deps |-> n.deps, merged |-> n.merged]
      BY <1>1, DeclaredCard
    <3>4. NodeCard(n.id, {n}, s).id = i /\ NodeCard(n.id, {n}, s).state = StateOf(i, s)
      BY <3>1, <3>3
    <3> QED BY <3>2, <3>4
  <2>2. CASE i \notin Ids(J)
    <3>1. NodeCard(i, {}, s) \in Cards(g, s)
      BY <1>1, <2>2, CardsOf
    <3>2. NodeCard(i, {}, s).id = i /\ NodeCard(i, {}, s).state = StateOf(i, s)
      BY StrayCard
    <3> QED BY <3>1, <3>2
  <2> QED BY <2>1, <2>2
<1>4. ASSUME NEW c \in Cards(g, s), c.id = i
      PROVE  \/ \E n \in J : n.id = i /\ c = NodeCard(n.id, {n}, s)
             \/ i \notin Ids(J) /\ c = NodeCard(i, {}, s)
  <2>1. ASSUME NEW n \in J, c = NodeCard(n.id, {n}, s) PROVE n.id = i
    <3>1. n \in Nodes
      BY <1>1
    <3>2. NodeCard(n.id, {n}, s) = [id |-> n.id, declared |-> TRUE, state |-> StateOf(n.id, s),
                                    deps |-> n.deps, merged |-> n.merged]
      BY <3>1, DeclaredCard
    <3> QED BY <1>4, <2>1, <3>2
  <2>2. ASSUME NEW k \in DOMAIN s.nodes \ Ids(J), c = NodeCard(k, {}, s) PROVE k = i
    BY <1>4, <2>2, StrayCard
  <2>3. \/ \E n \in J : c = NodeCard(n.id, {n}, s)
        \/ \E k \in DOMAIN s.nodes \ Ids(J) : c = NodeCard(k, {}, s)
    BY <1>1 DEF Cards, Drawable
  <2> QED BY <2>1, <2>2, <2>3
<1>5. ASSUME NEW c \in Cards(g, s), NEW d \in Cards(g, s), c.id = i, d.id = i
      PROVE  c = d
  <2>1. CASE i \in Ids(J)
    <3>1. /\ \E n \in J : n.id = i /\ c = NodeCard(n.id, {n}, s)
          /\ \E n \in J : n.id = i /\ d = NodeCard(n.id, {n}, s)
      BY <1>4, <1>5, <2>1
    <3> QED BY <1>1, <1>2, <3>1
  <2>2. CASE i \notin Ids(J)
    <3>1. c = NodeCard(i, {}, s) /\ d = NodeCard(i, {}, s)
      BY <1>4, <1>5, <2>2 DEF Ids
    <3> QED BY <3>1
  <2> QED BY <2>1, <2>2
<1> QED BY <1>3, <1>5 DEF g

\* The cards that are declared are those of the graph's nodes, and carry what they declare.
LEMMA DeclaredAreDrawn ==
  ASSUME NEW g, NEW s, Drawable(g, s) \subseteq Nodes
  PROVE  /\ \A c \in Cards(g, s) : c.declared =>
              \E n \in Drawable(g, s) : /\ n.id # NULL
                                        /\ c.id = n.id /\ c.state = StateOf(n.id, s)
                                        /\ c.deps = n.deps /\ c.merged = n.merged
         /\ \A n \in Drawable(g, s) : n.id # NULL =>
              \E c \in Cards(g, s) : /\ c.declared /\ c.id = n.id /\ c.state = StateOf(n.id, s)
                                     /\ c.deps = n.deps /\ c.merged = n.merged
         /\ \A c \in Cards(g, s) : ~c.declared =>
              /\ c.deps = {} /\ c.merged = {}
              /\ c.id \in DOMAIN s.nodes \ Ids(Drawable(g, s))
         /\ \A i \in DOMAIN s.nodes \ Ids(Drawable(g, s)) :
              \E c \in Cards(g, s) : ~c.declared /\ c.id = i
<1>1. ASSUME NEW c \in Cards(g, s), c.declared
      PROVE  \E n \in Drawable(g, s) : /\ n.id # NULL
                                       /\ c.id = n.id /\ c.state = StateOf(n.id, s)
                                       /\ c.deps = n.deps /\ c.merged = n.merged
  <2>1. ~ \E i \in DOMAIN s.nodes \ Ids(Drawable(g, s)) : c = NodeCard(i, {}, s)
    BY <1>1, StrayCard
  <2>2. PICK n \in Drawable(g, s) : n.id # NULL /\ c = NodeCard(n.id, {n}, s)
    BY <2>1 DEF Cards, Drawable
  <2>3. NodeCard(n.id, {n}, s) = [id |-> n.id, declared |-> TRUE, state |-> StateOf(n.id, s),
                                  deps |-> n.deps, merged |-> n.merged]
    BY DeclaredCard
  <2>4. c.id = n.id /\ c.state = StateOf(n.id, s) /\ c.deps = n.deps /\ c.merged = n.merged
    BY <2>2, <2>3
  <2> QED BY <2>2, <2>4
<1>2. ASSUME NEW n \in Drawable(g, s), n.id # NULL
      PROVE  \E c \in Cards(g, s) : /\ c.declared /\ c.id = n.id /\ c.state = StateOf(n.id, s)
                                    /\ c.deps = n.deps /\ c.merged = n.merged
  <2>1. NodeCard(n.id, {n}, s) \in Cards(g, s)
    BY <1>2, CardsOf
  <2>2. NodeCard(n.id, {n}, s) = [id |-> n.id, declared |-> TRUE, state |-> StateOf(n.id, s),
                                  deps |-> n.deps, merged |-> n.merged]
    BY DeclaredCard
  <2> QED BY <2>1, <2>2
<1>3. ASSUME NEW c \in Cards(g, s), ~c.declared
      PROVE  /\ c.deps = {} /\ c.merged = {}
             /\ c.id \in DOMAIN s.nodes \ Ids(Drawable(g, s))
  <2>1. ASSUME NEW n \in Drawable(g, s) PROVE c # NodeCard(n.id, {n}, s)
    <3>1. NodeCard(n.id, {n}, s) = [id |-> n.id, declared |-> TRUE, state |-> StateOf(n.id, s),
                                    deps |-> n.deps, merged |-> n.merged]
      BY DeclaredCard
    <3> QED BY <1>3, <3>1
  <2>2. PICK i \in DOMAIN s.nodes \ Ids(Drawable(g, s)) : c = NodeCard(i, {}, s)
    BY <2>1 DEF Cards, Drawable
  <2> QED BY <2>2, StrayCard
<1>4. ASSUME NEW i \in DOMAIN s.nodes \ Ids(Drawable(g, s))
      PROVE  \E c \in Cards(g, s) : ~c.declared /\ c.id = i
  <2>1. NodeCard(i, {}, s) \in Cards(g, s)
    BY CardsOf
  <2> QED BY <2>1, StrayCard
<1> QED BY <1>1, <1>2, <1>3, <1>4

\* What is said of the cards of a row, whose seam, archive and answer were a, b and s.
OwnIn(cards, a, b, s) ==
    LET graph == IF a.is = "graph" THEN a.nodes ELSE b.nodes
        stories == UNION {StoryNames(n) : n \in graph}
        shared == \E i \in DOMAIN s.nodes : Fold[i] \in stories
        drawn == \E c \in cards : c.declared
    IN /\ drawn /\ DOMAIN s.nodes # {} => shared
       /\ shared /\ Ids(graph) # {NULL} => drawn
       /\ ~drawn => \A c \in cards : c.deps \cup c.merged = {}

LEMMA OwnEdges ==
  ASSUME NEW a \in Files, NEW b \in Files, NEW s \in Statuses
  PROVE  OwnIn(Cards(ReadWorkgraph(a, b), s), a, b, s)
<1> DEFINE g == ReadWorkgraph(a, b)
           cards == Cards(g, s)
           graph == IF a.is = "graph" THEN a.nodes ELSE b.nodes
           stories == UNION {StoryNames(n) : n \in graph}
           shared == \E i \in DOMAIN s.nodes : Fold[i] \in stories
           drawn == \E c \in cards : c.declared
           J == Drawable(g, s)
<1>1. /\ g.nodes = graph /\ J \subseteq Nodes /\ J \subseteq graph
      /\ g.is # "graph" => graph = {}
      /\ J = IF GraphMismatch(g, s) THEN {} ELSE graph
  BY ReadTyped, NodesTyped DEF Drawable
<1>2. GraphMismatch(g, s) <=> g.is = "graph" /\ stories # {} /\ DOMAIN s.nodes # {} /\ ~shared
  BY <1>1 DEF GraphMismatch
<1>3. \A n \in graph : n.id # NULL => Fold[n.id] \in stories
  BY DEF StoryNames
<1> HIDE DEF g, graph, stories
<1>4. drawn <=> \E n \in J : n.id # NULL
  <2>1. ASSUME NEW c \in Cards(g, s), c.declared PROVE \E n \in J : n.id # NULL
    BY <1>1, <2>1, DeclaredAreDrawn
  <2>2. ASSUME NEW n \in J, n.id # NULL PROVE \E c \in Cards(g, s) : c.declared
    BY <1>1, <2>2, DeclaredAreDrawn
  <2> QED BY <2>1, <2>2
<1> HIDE DEF J
<1>5. drawn /\ DOMAIN s.nodes # {} => shared
  <2> SUFFICES ASSUME drawn, DOMAIN s.nodes # {} PROVE shared
    OBVIOUS
  <2>1. PICK n \in J : n.id # NULL
    BY <1>4
  <2>2. n \in graph /\ stories # {} /\ g.is = "graph" /\ ~GraphMismatch(g, s)
    BY <1>1, <1>3, <2>1
  <2> QED BY <1>2, <2>2
<1>6. shared /\ Ids(graph) # {NULL} => drawn
  <2> SUFFICES ASSUME shared, Ids(graph) # {NULL} PROVE drawn
    OBVIOUS
  <2>1. graph # {} /\ J = graph
    BY <1>1, <1>2 DEF stories
  <2>2. \E n \in graph : n.id # NULL
    BY <2>1 DEF Ids
  <2> QED BY <1>4, <2>1, <2>2
<1>7. ~drawn => \A c \in cards : c.deps \cup c.merged = {}
  BY <1>1, DeclaredAreDrawn DEF J
<1> QED BY <1>5, <1>6, <1>7 DEF OwnIn, g, graph, stories

LEMMA RowIsStage ==
  ASSUME NEW a \in Files, NEW b \in Files, NEW s \in Statuses,
         ~GraphMismatch(ReadWorkgraph(a, b), s)
  PROVE  LET g == ReadWorkgraph(a, b)
             cards == Cards(g, s)
             stage == Stage(g, s)
             declared == {c \in cards : c.declared}
         IN /\ stage.nodes = {[id |-> c.id, state |-> c.state] : c \in declared}
            /\ stage.edges = Edges(declared, "pass") \cup Edges(declared, "merge")
            /\ g.source # NULL => stage.strays = Ids(cards \ declared)
<1> DEFINE g == ReadWorkgraph(a, b)
           cards == Cards(g, s)
           stage == Stage(g, s)
           declared == {c \in cards : c.declared}
           drawn == {n \in g.nodes : n.id # NULL}
<1>1. g.nodes \subseteq Nodes /\ Drawable(g, s) = g.nodes /\ (g.source # NULL => g.is = "graph")
  BY ReadTyped, NodesTyped DEF Drawable
<1>2. /\ stage.nodes = {[id |-> n.id, state |-> StateOf(n.id, s)] : n \in drawn}
      /\ stage.edges = Edges(drawn, "pass") \cup Edges(drawn, "merge")
      /\ g.is = "graph" => stage.strays = DOMAIN s.nodes \ Ids(g.nodes)
  BY DEF Stage
<1> HIDE DEF g
<1>3. /\ \A c \in declared : \E n \in drawn : c.id = n.id /\ c.state = StateOf(n.id, s)
                                              /\ c.deps = n.deps /\ c.merged = n.merged
      /\ \A n \in drawn : \E c \in declared : c.id = n.id /\ c.state = StateOf(n.id, s)
                                              /\ c.deps = n.deps /\ c.merged = n.merged
      /\ \A c \in cards \ declared : c.id \in DOMAIN s.nodes \ Ids(g.nodes)
      /\ \A i \in DOMAIN s.nodes \ Ids(g.nodes) : \E c \in cards \ declared : c.id = i
  <2>1. ASSUME NEW c \in declared
        PROVE  \E n \in drawn : c.id = n.id /\ c.state = StateOf(n.id, s)
                                /\ c.deps = n.deps /\ c.merged = n.merged
    <3>1. c \in Cards(g, s) /\ c.declared
      OBVIOUS
    <3>2. PICK n \in Drawable(g, s) : /\ n.id # NULL /\ c.id = n.id /\ c.state = StateOf(n.id, s)
                                      /\ c.deps = n.deps /\ c.merged = n.merged
      BY <1>1, <3>1, DeclaredAreDrawn
    <3>3. n \in drawn
      BY <1>1, <3>2
    <3> QED BY <3>2, <3>3
  <2>2. ASSUME NEW n \in drawn
        PROVE  \E c \in declared : c.id = n.id /\ c.state = StateOf(n.id, s)
                                   /\ c.deps = n.deps /\ c.merged = n.merged
    BY <1>1, DeclaredAreDrawn
  <2>3. ASSUME NEW c \in cards \ declared PROVE c.id \in DOMAIN s.nodes \ Ids(g.nodes)
    BY <1>1, DeclaredAreDrawn
  <2>4. ASSUME NEW i \in DOMAIN s.nodes \ Ids(g.nodes) PROVE \E c \in cards \ declared : c.id = i
    BY <1>1, DeclaredAreDrawn
  <2> QED BY <2>1, <2>2, <2>3, <2>4
<1> HIDE DEF cards, declared, drawn, stage
<1>4. stage.nodes = {[id |-> c.id, state |-> c.state] : c \in declared}
  BY <1>2, <1>3
<1>5. ASSUME NEW kind \in {"pass", "merge"} PROVE Edges(drawn, kind) = Edges(declared, kind)
  BY <1>3 DEF Edges
<1>6. stage.edges = Edges(declared, "pass") \cup Edges(declared, "merge")
  BY <1>2, <1>5
<1>7. g.source # NULL => stage.strays = Ids(cards \ declared)
  BY <1>1, <1>2, <1>3 DEF Ids
<1> QED BY <1>4, <1>6, <1>7 DEF g, cards, declared, stage

-----------------------------------------------------------------------------
(* What follows *)

\* The state keeps its shape, and the client kept is one that is open.
THEOREM DocumentsWellFormed == Spec => []TypeOK
<1>1. DocInv => TypeOK
  BY DEF DocInv, Typed, TypeOK, Docs, Ats, Local, Held
<1> QED BY <1>1, Inductive, PTL

\* Every node an answer names is on its epic's row once, in the state the answer gave.
THEOREM NoNodeIsLost == Spec => []EveryNodeOnce
<1>1. DocInv => EveryNodeOnce
  BY ShownIsJoined, EveryNodeDrawn DEF EveryNodeOnce
<1> QED BY <1>1, Inductive, PTL

\* A row draws a graph exactly when it is about a story the answer names.
THEOREM NoForeignEdges == Spec => []OnlyItsOwnEdges
<1>1. ASSUME DocInv, NEW r \in Requests, NEW e \in Epics, Joined(r, e)
      PROVE  OwnIn(req[r].epics[e].cards, told[r][e].seam, told[r][e].archive, told[r][e].status)
  <2>1. /\ told[r][e].status \in Statuses /\ told[r][e].seam \in Files /\ told[r][e].archive \in Files
        /\ req[r].epics[e].cards
             = Cards(ReadWorkgraph(told[r][e].seam, told[r][e].archive), told[r][e].status)
    BY <1>1, ShownIsJoined
  <2> QED BY <2>1, OwnEdges
<1>2. DocInv => OnlyItsOwnEdges
  BY <1>1 DEF OnlyItsOwnEdges, OwnIn
<1> QED BY <1>2, Inductive, PTL

\* The row and the stage of an epic, joined apart, agree.
THEOREM TwoJoinsAgree == Spec => []RowAndStageAgree
<1>1. DocInv => RowAndStageAgree
  BY ShownIsJoined, RowIsStage DEF RowAndStageAgree
<1> QED BY <1>1, Inductive, PTL

\* A graph that was not read is told, by what became of it.
THEOREM NoSilentGraph == Spec => []GraphFailureIsTold
<1>1. DocInv => GraphFailureIsTold
  BY ShownIsJoined, ReadTyped, StatusTyped, FilesTyped DEF GraphFailureIsTold
<1> QED BY <1>1, Inductive, PTL

\* No read of the factory is itself a setting out to connect.
LEMMA Moved ==
  ASSUME DocInv, NEW r \in Requests,
         ReadFloor(r) \/ ReadAttention(r) \/ ReadStores(r) \/ EpicStatus(r) \/ JoinEpic(r) \/ Serve(r),
         \A x \in Requests : req[x].at \notin {"connecting", "reconnecting"}
  PROVE  \A x \in Requests : req'[x].at \notin {"connecting", "reconnecting"}
<1>1. req \in [Requests -> Docs] /\ req[r] \in Docs
  BY DEF DocInv, Typed
<1>2. \E at \in {"attention", "stores", "epics", "raised", "graph", "served"} : req'[r].at = at
  <2>1. CASE ReadFloor(r)
    BY <1>1, <2>1 DEF ReadFloor, Docs
  <2>2. CASE ReadAttention(r)
    <3>1. \E failed : req' = [req EXCEPT ![r].at = "stores", ![r].conn = NULL,
                                         ![r].degraded = @ \cup failed]
      BY <2>2 DEF ReadAttention
    <3> QED BY <1>1, <3>1 DEF Docs
  <2>3. CASE ReadStores(r)
    BY <1>1, <2>3 DEF ReadStores, Docs
  <2>4. CASE EpicStatus(r)
    <3>1. \E status : req' = [req EXCEPT ![r].at = "graph", ![r].conn = NULL, ![r].status = status]
      BY <2>4 DEF EpicStatus
    <3> QED BY <1>1, <3>1 DEF Docs
  <2>5. CASE JoinEpic(r)
    <3>1. \E todo, epics, degraded :
            req' = [req EXCEPT ![r].at = "epics", ![r].todo = todo, ![r].epics = epics,
                               ![r].degraded = degraded]
      <4>1. PICK e \in req[r].todo :
              req' = [req EXCEPT ![r].at = "epics", ![r].todo = @ \ {e},
                        ![r].epics[e] = EpicEntry(ReadWorkgraph(seam[e], archive[e]), req[r].status),
                        ![r].degraded = @ \cup EpicFailures(e, ReadWorkgraph(seam[e], archive[e]), req[r].status)]
        BY <2>5 DEF JoinEpic
      <4> DEFINE g == ReadWorkgraph(seam[e], archive[e])
                 E == EpicEntry(g, req[r].status)
                 F == EpicFailures(e, g, req[r].status)
      <4>2. req' = [req EXCEPT ![r].at = "epics", ![r].todo = req[r].todo \ {e},
                               ![r].epics = [req[r].epics EXCEPT ![e] = E],
                               ![r].degraded = req[r].degraded \cup F]
        BY <1>1, <4>1
      <4> HIDE DEF E, F
      <4> QED BY <4>2
    <3> QED BY <1>1, <3>1 DEF Docs
  <2>6. CASE Serve(r)
    BY <1>1, <2>6 DEF Serve, Docs
  <2> QED BY <2>1, <2>2, <2>3, <2>4, <2>5, <2>6
<1>3. \A x \in Requests \ {r} : req'[x] = req[x]
  BY <1>1 DEF ReadFloor, ReadAttention, ReadStores, EpicStatus, JoinEpic, Serve
<1> QED BY <1>2, <1>3

\* Once a client is open nobody sets out to open another.
THEOREM OneClient == Spec => ClientIsShared
<1>1. ASSUME DocInv, [Next]_vars, opened # {}, Connecting = {} PROVE Connecting' = {}
  <2>1. \A r \in Requests : req[r].at \notin {"connecting", "reconnecting"}
    BY <1>1 DEF Connecting
  <2>2. SUFFICES \A r \in Requests : req'[r].at \notin {"connecting", "reconnecting"}
    BY DEF Connecting
  <2>3. CASE client # NULL
    <3>1. \A r \in Requests : ~ Connected(r) /\ ~ ConnectRefused(r)
      BY <2>1 DEF Connected, ConnectRefused
    <3>2. ASSUME NEW r \in Requests, OpenClient(r)
          PROVE  \A x \in Requests : req'[x].at \notin {"connecting", "reconnecting"}
      <4>1. req' = [req EXCEPT ![r].conn = client] /\ req \in [Requests -> Docs]
        BY <1>1, <2>3, <3>2 DEF OpenClient, DocInv, Typed
      <4>2. \A x \in Requests : req'[x].at = req[x].at
        BY <4>1 DEF Docs
      <4> QED BY <2>1, <4>2
    <3>3. ASSUME NEW r \in Requests,
                 ReadFloor(r) \/ ReadAttention(r) \/ ReadStores(r) \/ EpicStatus(r) \/ JoinEpic(r) \/ Serve(r)
          PROVE  \A x \in Requests : req'[x].at \notin {"connecting", "reconnecting"}
      BY <1>1, <2>1, <3>3, Moved
    <3>4. CASE Move \/ Shutdown \/ UNCHANGED vars
      BY <2>1, <3>4 DEF Move, Shutdown, vars
    <3> QED BY <1>1, <3>1, <3>2, <3>3, <3>4 DEF Next
  <2>4. CASE client = NULL
    <3>1. \A r \in Requests : req[r].at \in {"served", "raised"}
      BY <1>1, <2>4 DEF DocInv, Kept
    <3>2. \A r \in Requests : ~ ReadFloor(r) /\ ~ OpenClient(r) /\ ~ Connected(r) /\ ~ ConnectRefused(r)
      BY <3>1 DEF ReadFloor, OpenClient, NeedsClient, Connected, ConnectRefused
    <3>3. \A r \in Requests : ~ ReadAttention(r) /\ ~ ReadStores(r) /\ ~ Serve(r)
      BY <3>1 DEF ReadAttention, ReadStores, Serve
    <3>4. \A r \in Requests : ~ EpicStatus(r) /\ ~ JoinEpic(r)
      <4>1. \A r \in Requests : EpicStatus(r) => req[r].at = "epics"
        BY DEF EpicStatus
      <4>2. \A r \in Requests : JoinEpic(r) => req[r].at = "graph"
        BY DEF JoinEpic
      <4> QED BY <3>1, <4>1, <4>2
    <3>5. req' = req
      BY <1>1, <3>2, <3>3, <3>4 DEF Next, Move, Shutdown, vars
    <3> QED BY <2>1, <3>5
  <2> QED BY <2>3, <2>4
<1> QED BY <1>1, Inductive, PTL DEF Spec, ClientIsShared
================================================================================
