---------------------------- MODULE AuditGateProofs ----------------------------
(* What module AuditGate promises of every policy, lockfile and answer, proved. *)
EXTENDS AuditGate, TLAPS

\* How far a run is, what it holds by then and what it has not touched yet.
Phases ==
    /\ pc \in {"clean", "export", "pip-audit"} => audits = [w \in Worlds |-> NULL]
    /\ pc \in {"export", "pip-audit"} => disk = [w \in Worlds |-> NULL]
    /\ pc = "npm audit" => audits["python"] # NULL /\ audits["node"] = NULL
    /\ pc \in {"write", "judge"} => audits["python"] # NULL /\ audits["node"] # NULL
    /\ verdict # NULL => pc = "ended"
    /\ pc # "unstarted" => runs \in 1..MaxRuns

\* An audit that ended says what its service, as this run asked it, knew.
PythonTrue ==
    audits["python"] # NULL /\ ~audits["python"].incomplete =>
        /\ asked["python"] # NULL
        /\ audits["python"].findings = IF asked["python"].python # {} THEN {UNKNOWN} ELSE {}

NodeTrue ==
    audits["node"] # NULL /\ ~audits["node"].incomplete =>
        /\ asked["node"] # NULL
        /\ audits["node"].report = NpmReport(asked["node"].node)
        /\ audits["node"].findings = Findings(NpmReport(asked["node"].node))

\* What is judged was written, and by this run.
Written ==
    pc = "judge" \/ verdict # NULL =>
        \A w \in Worlds : audits[w] # NULL /\ disk[w] = Wrote(audits[w].report)

Said ==
    verdict # NULL =>
        verdict = IF \E w \in Worlds : audits[w].incomplete THEN 2
                  ELSE IF \E w \in Worlds : FatalIn(audits[w].findings) THEN 1
                  ELSE 0

IInv == TypeOK /\ Phases /\ PythonTrue /\ NodeTrue /\ Written /\ Said /\ NoStaleReport

-----------------------------------------------------------------------------
(* Severities: npm's rollups and the gate's findings reach the same height *)

LEMMA RankRange == ASSUME NEW s PROVE Rank(s) \in 1..6
<1>1. Len(SEVERITIES) = 6
  BY DEF SEVERITIES
<1>2. CASE \E i \in 1..6 : SEVERITIES[i] = s
  BY <1>1, <1>2 DEF Rank
<1>3. CASE ~\E i \in 1..6 : SEVERITIES[i] = s
  BY <1>1, <1>3 DEF Rank
<1> QED BY <1>2, <1>3

\* Six ranks: a set of words has one that no other outranks.
LEMMA HighestIsHighest ==
  ASSUME NEW S, S # {}
  PROVE  Highest(S) \in S /\ \A t \in S : Rank(t) <= Rank(Highest(S))
<1>1. \A t \in S : Rank(t) \in 1..6
  BY RankRange
<1> DEFINE At(k) == \E s \in S : Rank(s) = k
<1>2. \E s \in S : \A t \in S : Rank(t) <= Rank(s)
  <2>1. CASE At(6)
    BY <2>1, <1>1
  <2>2. CASE ~At(6) /\ At(5)
    BY <2>2, <1>1
  <2>3. CASE ~At(6) /\ ~At(5) /\ At(4)
    BY <2>3, <1>1
  <2>4. CASE ~At(6) /\ ~At(5) /\ ~At(4) /\ At(3)
    BY <2>4, <1>1
  <2>5. CASE ~At(6) /\ ~At(5) /\ ~At(4) /\ ~At(3) /\ At(2)
    BY <2>5, <1>1
  <2>6. CASE ~At(6) /\ ~At(5) /\ ~At(4) /\ ~At(3) /\ ~At(2)
    BY <2>6, <1>1
  <2> QED BY <2>1, <2>2, <2>3, <2>4, <2>5, <2>6
<1> QED BY <1>2 DEF Highest

LEMMA NpmReportShape ==
  ASSUME NEW advisories \in [NodePackages -> SUBSET Words]
  PROVE  /\ NpmReport(advisories) \in Reports
         /\ Findings(NpmReport(advisories)) \subseteq Severities
<1> DEFINE S == {x \in NodePackages : Reaching(advisories, x) # {}}
<1> DEFINE R == NpmReport(advisories)
<1>1. ASSUME NEW p \in NodePackages PROVE Reaching(advisories, p) \subseteq Words
  BY ThroughAssumption DEF Reaching
<1>2. ASSUME NEW p \in S PROVE Highest(Reaching(advisories, p)) \in Severities
  BY <1>1, HighestIsHighest DEF Severities
<1>3. R \in [S -> [severity : Severities, via : SUBSET Words]]
  BY <1>2 DEF NpmReport
<1>4. R \in Reports
  BY <1>3 DEF Reports
<1>5. ASSUME NEW p \in DOMAIN R PROVE R[p].via \subseteq Severities /\ R[p].severity \in Severities
  <2>1. R[p] \in [severity : Severities, via : SUBSET Words]
    BY <1>3
  <2> QED BY <2>1 DEF Severities
<1>6. Findings(R) \subseteq Severities
  BY <1>5 DEF Findings
<1> QED BY <1>4, <1>6

\* A height is reached by some advisory, by some finding, or by some rollup: the same.
LEMMA SameHeight ==
  ASSUME NEW advisories \in [NodePackages -> SUBSET Words], NEW k \in Int
  PROVE  LET R == NpmReport(advisories) IN
         /\ (\E f \in Findings(R) : Rank(f) >= k) <=> \E p \in DOMAIN R : Rank(R[p].severity) >= k
         /\ (\E f \in Findings(R) : Rank(f) >= k)
              <=> \E p \in NodePackages : \E s \in advisories[p] : Rank(s) >= k
<1> DEFINE R == NpmReport(advisories)
<1> DEFINE Known_ == \E p \in NodePackages : \E s \in advisories[p] : Rank(s) >= k
<1> DEFINE Found == \E f \in Findings(R) : Rank(f) >= k
<1> DEFINE Rolled == \E p \in DOMAIN R : Rank(R[p].severity) >= k
<1>1. ASSUME NEW p \in DOMAIN R
      PROVE  /\ p \in NodePackages /\ Reaching(advisories, p) # {}
             /\ R[p].severity = Highest(Reaching(advisories, p)) /\ R[p].via = advisories[p]
  BY DEF NpmReport
<1>2. ASSUME NEW p \in NodePackages, NEW s \in advisories[p]
      PROVE  p \in DOMAIN R /\ s \in Reaching(advisories, p)
  <2>1. s \in Reaching(advisories, p)
    BY ThroughAssumption DEF Reaching
  <2> QED BY <2>1 DEF NpmReport
<1>3. ASSUME NEW p \in DOMAIN R
      PROVE  \E x \in NodePackages : R[p].severity \in advisories[x]
  <2>1. R[p].severity \in Reaching(advisories, p)
    BY <1>1, HighestIsHighest
  <2>2. PICK x \in Through[p] : R[p].severity \in advisories[x]
    BY <2>1 DEF Reaching
  <2>3. x \in NodePackages
    BY <2>2, <1>1, ThroughAssumption
  <2> QED BY <2>2, <2>3
<1>4. Known_ => Found
  <2>1. SUFFICES ASSUME NEW p \in NodePackages, NEW s \in advisories[p], Rank(s) >= k PROVE Found
    OBVIOUS
  <2>2. p \in DOMAIN R /\ R[p].via # {} /\ s \in R[p].via
    BY <1>1, <1>2
  <2>3. s \in Findings(R)
    BY <2>2 DEF Findings
  <2> QED BY <2>1, <2>3
<1>5. Found => Known_
  <2>1. SUFFICES ASSUME NEW f \in Findings(R), Rank(f) >= k PROVE Known_
    OBVIOUS
  <2>2. PICK p \in DOMAIN R : f \in IF R[p].via # {} THEN R[p].via ELSE {R[p].severity}
    BY DEF Findings
  <2>3. \E x \in NodePackages : f \in advisories[x]
    BY <2>2, <1>1, <1>3
  <2> QED BY <2>1, <2>3
<1>6. Known_ => Rolled
  <2>1. SUFFICES ASSUME NEW p \in NodePackages, NEW s \in advisories[p], Rank(s) >= k PROVE Rolled
    OBVIOUS
  <2>2. p \in DOMAIN R /\ s \in Reaching(advisories, p)
    BY <1>2
  <2>3. Rank(s) <= Rank(R[p].severity)
    BY <2>2, <1>1, HighestIsHighest
  <2>4. Rank(s) \in Int /\ Rank(R[p].severity) \in Int
    BY RankRange
  <2> QED BY <2>1, <2>2, <2>3, <2>4
<1>7. Rolled => Known_
  BY <1>3
<1> QED BY <1>4, <1>5, <1>6, <1>7

-----------------------------------------------------------------------------
(* What the gate reads in an answer *)

LEMMA UnreadTyped == Unread \in Audits /\ Unread.incomplete /\ Unread.report = NULL /\ Unread # NULL
<1>1. Unread \in Audits
  BY DEF Unread, Audit, Audits, Texts
<1> QED BY <1>1, NothingAssumption DEF Unread, Audit

\* pip-audit's files are texts, and a whole one without a skip is the service's word.
LEMMA PipReportTyped ==
  ASSUME TypeOK, NEW report \in PipReports, runs \in 1..MaxRuns
  PROVE  /\ report \in Texts
         /\ report \notin {NULL, Torn} => report \in Answers
         /\ report # NULL => Wrote(report) \in Files /\ Wrote(report) # NULL
                              /\ Wrote(report).body = report /\ Wrote(report).run = runs
<1>1. report \notin {NULL, Torn} => report \in Answers
  BY DEF PipReports, Answers
<1>2. report \in Texts
  BY <1>1 DEF Texts
<1>3. report # NULL => Wrote(report) \in Files
  BY <1>2 DEF Wrote, Files
<1> QED BY <1>1, <1>2, <1>3, NothingAssumption DEF Wrote

LEMMA PipReportTrue ==
  ASSUME TypeOK, NEW report \in PipReports, report \notin {NULL, Torn},
         ~\E p \in PyPackages : report[p] = "skipped"
  PROVE  Vulnerable(report) <=> known.python # {}
<1>1. PICK skipped \in SUBSET PyPackages :
        report = [p \in PyPackages |-> IF p \in skipped THEN "skipped"
                                       ELSE IF p \in known.python THEN "vulnerable" ELSE "clean"]
  BY DEF PipReports
<1>2. skipped = {}
  BY <1>1
<1>3. known.python \subseteq PyPackages
  BY DEF TypeOK, Known
<1>4. \A p \in PyPackages : report[p] = "vulnerable" <=> p \in known.python
  BY <1>1, <1>2
<1> QED BY <1>3, <1>4 DEF Vulnerable

\* The audit PipAudit leaves: typed, incomplete when it could not read all of it.
LEMMA PythonAuditTrue ==
  ASSUME TypeOK, NEW report \in PipReports, runs \in 1..MaxRuns, NEW code \in 0..2
  PROVE  LET a == PythonAudit(code, report) IN
         /\ a \in Audits /\ a # NULL
         /\ a.report \in {NULL, Torn} => a.incomplete
         /\ ~a.incomplete => a.findings = IF known.python # {} THEN {UNKNOWN} ELSE {}
<1> DEFINE a == PythonAudit(code, report)
<1>1. CASE report \in {NULL, Torn}
  BY <1>1, UnreadTyped DEF PythonAudit
<1>2. CASE report \notin {NULL, Torn}
  <2> DEFINE gaps == (\E p \in PyPackages : report[p] = "skipped") \/ code \notin {0, 1}
  <2> DEFINE found == IF Vulnerable(report) THEN {UNKNOWN} ELSE {}
  <2>1. a = [incomplete |-> gaps, findings |-> found, report |-> report]
    BY <1>2 DEF PythonAudit, Audit
  <2>2. found \subseteq Severities
    <3>1. SEVERITIES[6] = UNKNOWN /\ 6 \in 1..Len(SEVERITIES)
      BY DEF SEVERITIES, UNKNOWN
    <3> QED BY <3>1 DEF Severities
  <2>3. gaps \in BOOLEAN
    OBVIOUS
  <2>4. a \in Audits
    BY <2>1, <2>2, <2>3, PipReportTyped DEF Audits
  <2>5. ~gaps => found = IF known.python # {} THEN {UNKNOWN} ELSE {}
    BY <1>2, PipReportTrue
  <2> HIDE DEF gaps, found
  <2>6. a.incomplete = gaps /\ a.findings = found /\ a.report = report
    BY <2>1
  <2>7. a # NULL
    BY <2>4, NothingAssumption
  <2> QED BY <1>2, <2>4, <2>5, <2>6, <2>7
<1> QED BY <1>1, <1>2

\* The audit NpmAudit leaves when npm answered.
LEMMA NodeAuditTyped ==
  ASSUME TypeOK
  PROVE  LET a == Audit(FALSE, Findings(NpmReport(known.node)), NpmReport(known.node)) IN
         a \in Audits /\ a # NULL /\ a.report \notin {NULL, Torn}
<1>1. known.node \in [NodePackages -> SUBSET Words]
  BY DEF TypeOK, Known
<1>2. NpmReport(known.node) \in Reports /\ Findings(NpmReport(known.node)) \subseteq Severities
  BY <1>1, NpmReportShape
<1> DEFINE R == NpmReport(known.node)
<1> DEFINE F == Findings(NpmReport(known.node))
<1> HIDE DEF R, F
<1>3. R \in Texts /\ R \notin {NULL, Torn} /\ F \subseteq Severities
  BY <1>2, NothingAssumption DEF Texts, R, F
<1>4. Audit(FALSE, F, R) \in Audits /\ Audit(FALSE, F, R).report = R
  BY <1>3 DEF Audit, Audits
<1>5. Audit(FALSE, F, R) # NULL
  BY <1>4, NothingAssumption
<1> QED BY <1>3, <1>4, <1>5 DEF R, F

-----------------------------------------------------------------------------
(* The inductive invariant *)

LEMMA InitHolds == Init => IInv
<1>1. SUFFICES ASSUME Init PROVE IInv
  OBVIOUS
<1>2. known \in Known
  BY <1>1 DEF Init, Known
<1>3. TypeOK
  BY <1>1, <1>2, BoundAssumption DEF Init, TypeOK
<1>4. Phases /\ PythonTrue /\ NodeTrue /\ Written /\ Said /\ NoStaleReport
  BY <1>1 DEF Init, Phases, PythonTrue, NodeTrue, Written, Said, NoStaleReport, Worlds
<1> QED BY <1>3, <1>4 DEF IInv

\* What PipAudit does, with the file it reads back named.
LEMMA PipAuditDoes ==
  ASSUME IInv, PipAudit
  PROVE  \E report \in PipReports, code \in 0..2 :
           /\ disk' = [disk EXCEPT !["python"] = IF report = NULL THEN NULL ELSE Wrote(report)]
           /\ audits' = [audits EXCEPT !["python"] = PythonAudit(code, report)]
<1>1. disk = [w \in Worlds |-> NULL] /\ runs \in 1..MaxRuns
  BY DEF IInv, Phases, PipAudit
<1>2. PICK report \in PipReports, code \in 0..2 :
        /\ disk' = [disk EXCEPT !["python"] = IF report = NULL THEN @ ELSE Wrote(report)]
        /\ audits' = [audits EXCEPT !["python"] =
             PythonAudit(code, IF disk'["python"] = NULL THEN NULL ELSE disk'["python"].body)]
  BY DEF PipAudit
<1>3. "python" \in Worlds
  BY DEF Worlds
<1>4. disk["python"] = NULL
  BY <1>1, <1>3
<1>5. disk' = [disk EXCEPT !["python"] = IF report = NULL THEN NULL ELSE Wrote(report)]
  BY <1>2, <1>4
<1>6. (IF disk'["python"] = NULL THEN NULL ELSE disk'["python"].body) = report
  <2>1. disk'["python"] = IF report = NULL THEN NULL ELSE Wrote(report)
    BY <1>1, <1>3, <1>5
  <2>2. report # NULL => Wrote(report) # NULL /\ Wrote(report).body = report
    BY <1>1, PipReportTyped DEF IInv
  <2> QED BY <2>1, <2>2
<1> QED BY <1>2, <1>5, <1>6

\* What NpmAudit does: the audit it leaves, typed.
LEMMA NpmAuditDoes ==
  ASSUME IInv, NpmAudit
  PROVE  \E a \in Audits :
           /\ audits' = [audits EXCEPT !["node"] = a] /\ a # NULL
           /\ a.report \in {NULL, Torn} => a.incomplete
           /\ ~a.incomplete => /\ a.report = NpmReport(known.node)
                              /\ a.findings = Findings(NpmReport(known.node))
<1> DEFINE full == Audit(FALSE, Findings(NpmReport(known.node)), NpmReport(known.node))
<1>1. PICK a \in {Unread, full} : audits' = [audits EXCEPT !["node"] = a]
  BY DEF NpmAudit
<1>2. full \in Audits /\ full # NULL /\ full.report \notin {NULL, Torn}
  BY NodeAuditTyped DEF IInv
<1>3. full.report = NpmReport(known.node) /\ full.findings = Findings(NpmReport(known.node))
  BY DEF Audit
<1>4. CASE a = Unread
  BY <1>1, <1>4, UnreadTyped
<1>5. CASE a = full
  BY <1>1, <1>2, <1>3, <1>5
<1> QED BY <1>4, <1>5

\* A bound is kept by the step that counts under it.
LEMMA Counted ==
  ASSUME NEW n, NEW max \in Nat, n \in 0..max, n < max
  PROVE  n + 1 \in 0..max /\ n + 1 \in 1..max
OBVIOUS

LEMMA KnownMoves == ASSUME known \in Known, Move PROVE known' \in Known
<1>1. CASE \E S \in SUBSET PyPackages : known' = [known EXCEPT !.python = S]
  BY <1>1 DEF Known
<1>2. ASSUME NEW p \in NodePackages, NEW S \in SUBSET Words,
             known' = [known EXCEPT !.node[p] = S]
      PROVE  known' \in Known
  <2>1. known.node \in [NodePackages -> SUBSET Words]
    BY DEF Known
  <2>2. [known.node EXCEPT ![p] = S] \in [NodePackages -> SUBSET Words]
    BY <2>1
  <2>3. known' = [known EXCEPT !.node = [known.node EXCEPT ![p] = S]]
    BY <1>2
  <2> QED BY <2>2, <2>3 DEF Known
<1> QED BY <1>1, <1>2 DEF Move

\* A stop leaves the files as they are, or some of those it set out to remove are gone.
LEMMA StopLeaves ==
  ASSUME TypeOK, Stop
  PROVE  /\ disk' \in [Worlds -> {NULL} \cup Files]
         /\ pc # "clean" => disk' = disk
<1>1. PICK gone \in SUBSET Worlds :
        /\ gone # {} => pc = "clean"
        /\ disk' = [w \in Worlds |-> IF w \in gone THEN NULL ELSE disk[w]]
  BY DEF Stop
<1>2. disk \in [Worlds -> {NULL} \cup Files]
  BY DEF TypeOK
<1> QED BY <1>1, <1>2

LEMMA TypeStep == ASSUME IInv, [Next]_vars PROVE TypeOK'
<1> USE DEF IInv, TypeOK
<1>0. MaxRuns \in Nat /\ MaxMoves \in Nat
  BY BoundAssumption
<1>1. CASE ReadPolicy
  <2>1. runs' \in 0..MaxRuns
    <3>1. runs \in 0..MaxRuns /\ runs < MaxRuns /\ runs' = runs + 1
      BY <1>1 DEF ReadPolicy
    <3> HIDE DEF IInv, TypeOK
    <3> QED BY <3>1, <1>0, Counted
  <2> QED BY <1>1, <2>1 DEF ReadPolicy
<1>2. CASE Clean
  BY <1>2 DEF Clean
<1>3. CASE Export
  <2>1. audits' \in [Worlds -> {NULL} \cup Audits]
    BY <1>3, UnreadTyped DEF Export
  <2>2. \A w \in Worlds :
          audits'[w] # NULL /\ audits'[w].report \in {NULL, Torn} => audits'[w].incomplete
    BY <1>3, UnreadTyped DEF Export
  <2> QED BY <1>3, <2>1, <2>2 DEF Export
<1>4. CASE PipAudit
  <2>1. PICK report \in PipReports, code \in 0..2 :
          /\ disk' = [disk EXCEPT !["python"] = IF report = NULL THEN NULL ELSE Wrote(report)]
          /\ audits' = [audits EXCEPT !["python"] = PythonAudit(code, report)]
    BY <1>4, PipAuditDoes
  <2>2. runs \in 1..MaxRuns
    BY <1>4 DEF Phases, PipAudit
  <2>3. PythonAudit(code, report) \in Audits
        /\ (PythonAudit(code, report).report \in {NULL, Torn} => PythonAudit(code, report).incomplete)
    BY <2>2, PythonAuditTrue
  <2>4. report # NULL => Wrote(report) \in Files
    BY <2>2, PipReportTyped
  <2>5. disk' \in [Worlds -> {NULL} \cup Files]
    BY <2>1, <2>4
  <2>6. audits' \in [Worlds -> {NULL} \cup Audits]
    BY <2>1, <2>3
  <2>7. \A w \in Worlds :
          audits'[w] # NULL /\ audits'[w].report \in {NULL, Torn} => audits'[w].incomplete
    BY <2>1, <2>3
  <2>8. asked' \in [Worlds -> {NULL} \cup Known]
    BY <1>4 DEF PipAudit
  <2> QED BY <1>4, <2>5, <2>6, <2>7, <2>8 DEF PipAudit
<1>5. CASE PipAuditExpires
  <2>1. PICK report \in PipReports :
          disk' = [disk EXCEPT !["python"] = IF report = NULL THEN @ ELSE Wrote(report)]
    BY <1>5 DEF PipAuditExpires
  <2>2. runs \in 1..MaxRuns
    BY <1>5 DEF Phases, PipAuditExpires
  <2>3. report # NULL => Wrote(report) \in Files
    BY <2>2, PipReportTyped
  <2>4. disk' \in [Worlds -> {NULL} \cup Files]
    BY <2>1, <2>3
  <2> QED BY <1>5, <2>4 DEF PipAuditExpires
<1>6. CASE NpmAudit
  <2>1. PICK a \in Audits :
          audits' = [audits EXCEPT !["node"] = a] /\ (a.report \in {NULL, Torn} => a.incomplete)
    BY <1>6, NpmAuditDoes
  <2>2. audits' \in [Worlds -> {NULL} \cup Audits]
    BY <2>1
  <2>3. \A w \in Worlds :
          audits'[w] # NULL /\ audits'[w].report \in {NULL, Torn} => audits'[w].incomplete
    BY <2>1
  <2>4. asked' \in [Worlds -> {NULL} \cup Known]
    BY <1>6 DEF NpmAudit
  <2> QED BY <1>6, <2>2, <2>3, <2>4 DEF NpmAudit
<1>7. CASE WriteReports
  <2>1. runs \in 1..MaxRuns /\ \A w \in Worlds : audits[w] # NULL
    BY <1>7 DEF Phases, WriteReports, Worlds
  <2>2. ASSUME NEW w \in Worlds PROVE Wrote(audits[w].report) \in {NULL} \cup Files
    <3>1. audits[w] \in Audits
      BY <2>1
    <3>2. audits[w].report \in Texts
      BY <3>1 DEF Audits
    <3> QED BY <2>1, <3>2 DEF Wrote, Files
  <2>3. disk' \in [Worlds -> {NULL} \cup Files]
    BY <1>7, <2>2 DEF WriteReports
  <2> QED BY <1>7, <2>3 DEF WriteReports
<1>8. CASE Judge
  BY <1>8 DEF Judge
<1>9. CASE Stop
  BY <1>9, StopLeaves DEF Stop
<1>10. CASE Move
  <2>1. moves' \in 0..MaxMoves
    <3>1. moves \in 0..MaxMoves /\ moves < MaxMoves /\ moves' = moves + 1
      BY <1>10 DEF Move
    <3> HIDE DEF IInv, TypeOK
    <3> QED BY <3>1, <1>0, Counted
  <2>2. known' \in Known
    BY <1>10, KnownMoves
  <2> QED BY <1>10, <2>1, <2>2 DEF Move
<1>11. CASE UNCHANGED vars
  BY <1>11 DEF vars
<1> QED
  BY <1>1, <1>2, <1>3, <1>4, <1>5, <1>6, <1>7, <1>8, <1>9, <1>10, <1>11 DEF Next

LEMMA PhasesStep == ASSUME IInv, [Next]_vars PROVE Phases'
<1> USE DEF Phases
<1>0. Phases /\ "python" \in Worlds /\ "node" \in Worlds /\ NULL \notin 0..2
  BY NothingAssumption DEF IInv, Worlds
<1>1. CASE ReadPolicy
  <2>1. runs' \in 1..MaxRuns
    <3>1. runs \in 0..MaxRuns /\ runs < MaxRuns /\ runs' = runs + 1
      BY <1>1 DEF ReadPolicy, IInv, TypeOK
    <3> HIDE DEF Phases
    <3> QED BY <3>1, BoundAssumption, Counted
  <2> QED BY <1>1, <2>1 DEF ReadPolicy
<1>2. CASE Clean
  BY <1>0, <1>2 DEF Clean
<1>3. CASE Export
  <2>1. CASE pc' = "pip-audit" /\ UNCHANGED audits
    BY <1>0, <1>3, <2>1 DEF Export
  <2>2. CASE pc' = "npm audit" /\ audits' = [audits EXCEPT !["python"] = Unread]
    <3>1. audits = [w \in Worlds |-> NULL]
      BY <1>0, <1>3 DEF Export
    <3>2. audits'["python"] # NULL /\ audits'["node"] = NULL
      BY <1>0, <2>2, <3>1, UnreadTyped
    <3> QED BY <1>0, <1>3, <2>2, <3>2 DEF Export
  <2> QED BY <1>3, <2>1, <2>2 DEF Export
<1>4. CASE PipAudit
  <2>1. PICK report \in PipReports, code \in 0..2 :
          audits' = [audits EXCEPT !["python"] = PythonAudit(code, report)]
    BY <1>4, PipAuditDoes
  <2>2. PythonAudit(code, report) # NULL
    BY <1>0, <1>4, PythonAuditTrue DEF PipAudit, IInv
  <2>3. audits = [w \in Worlds |-> NULL]
    BY <1>0, <1>4 DEF PipAudit
  <2>4. audits'["python"] # NULL /\ audits'["node"] = NULL
    BY <1>0, <2>1, <2>2, <2>3
  <2> QED BY <1>0, <1>4, <2>4 DEF PipAudit
<1>5. CASE PipAuditExpires
  BY <1>0, <1>5 DEF PipAuditExpires
<1>6. CASE NpmAudit
  <2>1. PICK a \in Audits : audits' = [audits EXCEPT !["node"] = a] /\ a # NULL
    BY <1>6, NpmAuditDoes
  <2>2. audits["python"] # NULL /\ DOMAIN audits = Worlds
    BY <1>0, <1>6 DEF NpmAudit, IInv, TypeOK
  <2>3. audits'["python"] # NULL /\ audits'["node"] # NULL
    BY <1>0, <2>1, <2>2
  <2> QED BY <1>0, <1>6, <2>3 DEF NpmAudit
<1>7. CASE WriteReports
  BY <1>0, <1>7 DEF WriteReports
<1>8. CASE Judge
  BY <1>0, <1>8 DEF Judge
<1>9. CASE Stop
  BY <1>0, <1>9 DEF Stop
<1>10. CASE Move
  BY <1>0, <1>10 DEF Move
<1>11. CASE UNCHANGED vars
  BY <1>0, <1>11 DEF vars
<1> QED BY <1>1, <1>2, <1>3, <1>4, <1>5, <1>6, <1>7, <1>8, <1>9, <1>10, <1>11 DEF Next

LEMMA PythonStep == ASSUME IInv, [Next]_vars PROVE PythonTrue'
<1>0. PythonTrue /\ Phases /\ DOMAIN audits = Worlds /\ DOMAIN asked = Worlds
      /\ "python" \in Worlds /\ "node" \in Worlds /\ known # NULL
  BY NothingAssumption DEF IInv, TypeOK, Worlds
<1> USE DEF PythonTrue
<1>1. CASE ReadPolicy
  BY <1>0, <1>1 DEF ReadPolicy
<1>2. CASE Clean
  BY <1>0, <1>2 DEF Clean
<1>3. CASE Export
  BY <1>0, <1>3, UnreadTyped DEF Export
<1>4. CASE PipAudit
  <2>1. PICK report \in PipReports, code \in 0..2 :
          audits' = [audits EXCEPT !["python"] = PythonAudit(code, report)]
    BY <1>4, PipAuditDoes
  <2>2. audits'["python"] = PythonAudit(code, report)
    BY <1>0, <2>1
  <2>3. asked'["python"] = known
    BY <1>0, <1>4 DEF PipAudit
  <2>4. ~PythonAudit(code, report).incomplete =>
          PythonAudit(code, report).findings = IF known.python # {} THEN {UNKNOWN} ELSE {}
    BY <1>0, <1>4, PythonAuditTrue DEF PipAudit, IInv, Phases
  <2> QED BY <1>0, <2>2, <2>3, <2>4
<1>5. CASE PipAuditExpires
  BY <1>0, <1>5 DEF PipAuditExpires
<1>6. CASE NpmAudit
  <2>1. audits'["python"] = audits["python"]
    BY <1>0, <1>6, NpmAuditDoes
  <2>2. asked'["python"] = asked["python"]
    BY <1>0, <1>6 DEF NpmAudit
  <2> QED BY <1>0, <2>1, <2>2
<1>7. CASE WriteReports
  BY <1>0, <1>7 DEF WriteReports
<1>8. CASE Judge
  BY <1>0, <1>8 DEF Judge
<1>9. CASE Stop
  BY <1>0, <1>9 DEF Stop
<1>10. CASE Move
  BY <1>0, <1>10 DEF Move
<1>11. CASE UNCHANGED vars
  BY <1>0, <1>11 DEF vars
<1> QED BY <1>1, <1>2, <1>3, <1>4, <1>5, <1>6, <1>7, <1>8, <1>9, <1>10, <1>11 DEF Next

LEMMA NodeStep == ASSUME IInv, [Next]_vars PROVE NodeTrue'
<1>0. NodeTrue /\ Phases /\ DOMAIN audits = Worlds /\ DOMAIN asked = Worlds
      /\ "python" \in Worlds /\ "node" \in Worlds /\ known # NULL
  BY NothingAssumption DEF IInv, TypeOK, Worlds
<1> USE DEF NodeTrue
<1>1. CASE ReadPolicy
  BY <1>0, <1>1 DEF ReadPolicy
<1>2. CASE Clean
  BY <1>0, <1>2 DEF Clean
<1>3. CASE Export
  <2>1. audits'["node"] = NULL
    BY <1>0, <1>3 DEF Export, Phases
  <2> QED BY <2>1
<1>4. CASE PipAudit
  <2>1. audits["node"] = NULL
    BY <1>0, <1>4 DEF PipAudit, Phases
  <2>2. audits'["node"] = NULL
    BY <1>0, <1>4, <2>1 DEF PipAudit
  <2> QED BY <2>2
<1>5. CASE PipAuditExpires
  BY <1>0, <1>5 DEF PipAuditExpires
<1>6. CASE NpmAudit
  <2>1. PICK a \in Audits :
          /\ audits' = [audits EXCEPT !["node"] = a]
          /\ ~a.incomplete => /\ a.report = NpmReport(known.node)
                             /\ a.findings = Findings(NpmReport(known.node))
    BY <1>6, NpmAuditDoes
  <2>2. audits'["node"] = a
    BY <1>0, <2>1
  <2>3. asked'["node"] = known
    BY <1>0, <1>6 DEF NpmAudit
  <2> QED BY <1>0, <2>1, <2>2, <2>3
<1>7. CASE WriteReports
  BY <1>0, <1>7 DEF WriteReports
<1>8. CASE Judge
  BY <1>0, <1>8 DEF Judge
<1>9. CASE Stop
  BY <1>0, <1>9 DEF Stop
<1>10. CASE Move
  BY <1>0, <1>10 DEF Move
<1>11. CASE UNCHANGED vars
  BY <1>0, <1>11 DEF vars
<1> QED BY <1>1, <1>2, <1>3, <1>4, <1>5, <1>6, <1>7, <1>8, <1>9, <1>10, <1>11 DEF Next

LEMMA WrittenStep == ASSUME IInv, [Next]_vars PROVE Written'
<1>0. Written /\ Phases
  BY DEF IInv
<1> USE DEF Written, Phases
<1>1. CASE ReadPolicy
  BY <1>0, <1>1 DEF ReadPolicy
<1>2. CASE Clean
  BY <1>0, <1>2 DEF Clean
<1>3. CASE Export
  BY <1>0, <1>3 DEF Export
<1>4. CASE PipAudit
  BY <1>0, <1>4 DEF PipAudit
<1>5. CASE PipAuditExpires
  BY <1>0, <1>5 DEF PipAuditExpires
<1>6. CASE NpmAudit
  BY <1>0, <1>6 DEF NpmAudit
<1>7. CASE WriteReports
  <2>1. \A w \in Worlds : audits[w] # NULL
    BY <1>0, <1>7 DEF WriteReports, Worlds
  <2>2. \A w \in Worlds : audits'[w] # NULL /\ disk'[w] = Wrote(audits[w].report)
    BY <1>7, <2>1 DEF WriteReports
  <2>3. UNCHANGED <<audits, runs>>
    BY <1>7 DEF WriteReports
  <2> QED BY <2>2, <2>3 DEF Wrote
<1>8. CASE Judge
  <2>1. UNCHANGED <<audits, runs, disk>> /\ pc = "judge"
    BY <1>8 DEF Judge
  <2> QED BY <1>0, <2>1 DEF Wrote
<1>9. CASE Stop
  <2>1. /\ UNCHANGED <<audits, runs, verdict>> /\ pc' # "judge"
        /\ verdict # NULL => disk' = disk
    BY <1>0, <1>9, StopLeaves DEF Stop, IInv, Phases
  <2> QED BY <1>0, <2>1 DEF Wrote
<1>10. CASE Move
  <2>1. UNCHANGED <<audits, runs, disk, verdict, pc>>
    BY <1>10 DEF Move
  <2> QED BY <1>0, <2>1 DEF Wrote
<1>11. CASE UNCHANGED vars
  <2>1. UNCHANGED <<audits, runs, disk, verdict, pc>>
    BY <1>11 DEF vars
  <2> QED BY <1>0, <2>1 DEF Wrote
<1> QED BY <1>1, <1>2, <1>3, <1>4, <1>5, <1>6, <1>7, <1>8, <1>9, <1>10, <1>11 DEF Next

LEMMA SaidStep == ASSUME IInv, [Next]_vars PROVE Said'
<1>0. Said /\ Phases
  BY DEF IInv
<1>1. CASE verdict' = NULL
  BY <1>1 DEF Said
<1>2. CASE Judge
  BY <1>2 DEF Judge, Said, FatalIn, Fatal
<1>3. CASE verdict' # NULL /\ ~Judge
  <2>1. UNCHANGED <<audits, verdict, policy>>
    BY <1>0, <1>3 DEF Phases, Next, vars, ReadPolicy, Clean, Export, PipAudit,
         PipAuditExpires, NpmAudit, WriteReports, Stop, Move
  <2> QED BY <1>0, <2>1 DEF Said, FatalIn, Fatal
<1> QED BY <1>1, <1>2, <1>3

LEMMA StaleStep == ASSUME IInv, [Next]_vars PROVE NoStaleReport'
<1>0. NoStaleReport /\ Phases /\ DOMAIN disk = Worlds
  BY DEF IInv, TypeOK
<1> USE DEF NoStaleReport
<1>1. CASE ReadPolicy
  BY <1>1 DEF ReadPolicy
<1>2. CASE Clean
  BY <1>2 DEF Clean
<1>3. CASE Export
  BY <1>0, <1>3 DEF Export
<1>4. CASE PipAudit
  <2>1. PICK report \in PipReports, code \in 0..2 :
          disk' = [disk EXCEPT !["python"] = IF report = NULL THEN NULL ELSE Wrote(report)]
    BY <1>4, PipAuditDoes
  <2>2. report # NULL => Wrote(report).run = runs
    BY DEF Wrote
  <2> QED BY <1>0, <1>4, <2>1, <2>2 DEF PipAudit
<1>5. CASE PipAuditExpires
  <2>1. PICK report \in PipReports :
          disk' = [disk EXCEPT !["python"] = IF report = NULL THEN @ ELSE Wrote(report)]
    BY <1>5 DEF PipAuditExpires
  <2>2. report # NULL => Wrote(report).run = runs
    BY DEF Wrote
  <2> QED BY <1>0, <1>5, <2>1, <2>2 DEF PipAuditExpires
<1>6. CASE NpmAudit
  BY <1>0, <1>6 DEF NpmAudit
<1>7. CASE WriteReports
  <2>1. \A w \in Worlds : Wrote(audits[w].report) # NULL => Wrote(audits[w].report).run = runs
    BY DEF Wrote
  <2> QED BY <1>7, <2>1 DEF WriteReports
<1>8. CASE Judge
  BY <1>0, <1>8 DEF Judge
<1>9. CASE Stop
  BY <1>0, <1>9, StopLeaves DEF Stop, IInv
<1>10. CASE Move
  BY <1>0, <1>10 DEF Move
<1>11. CASE UNCHANGED vars
  BY <1>0, <1>11 DEF vars
<1> QED BY <1>1, <1>2, <1>3, <1>4, <1>5, <1>6, <1>7, <1>8, <1>9, <1>10, <1>11 DEF Next

LEMMA Inductive == Spec => []IInv
<1>1. ASSUME IInv, [Next]_vars PROVE IInv'
  BY <1>1, TypeStep, PhasesStep, PythonStep, NodeStep, WrittenStep, SaidStep, StaleStep DEF IInv
<1> QED BY <1>1, InitHolds, PTL DEF Spec

-----------------------------------------------------------------------------
(* What follows from it *)

LEMMA UnknownIsFatal == FatalIn({UNKNOWN})
<1>1. Len(SEVERITIES) = 6 /\ SEVERITIES[6] = UNKNOWN /\ \A i \in 1..5 : SEVERITIES[i] # UNKNOWN
  BY DEF SEVERITIES, UNKNOWN
<1>2. Rank(UNKNOWN) = 6
  BY <1>1 DEF Rank
<1>3. Rank(policy.fail_on) \in 1..6
  BY RankRange
<1> QED BY <1>2, <1>3 DEF FatalIn, Fatal

\* SameHeight, at the height of this run's policy.
LEMMA NodeFatal ==
  ASSUME NEW advisories \in [NodePackages -> SUBSET Words]
  PROVE  LET R == NpmReport(advisories) IN
         /\ FatalIn(Findings(R)) <=> \E p \in DOMAIN R : Fatal(R[p].severity)
         /\ FatalIn(Findings(R)) <=> \E p \in NodePackages : FatalIn(advisories[p])
<1> DEFINE k == Rank(policy.fail_on)
<1>1. k \in Int
  BY RankRange
<1> HIDE DEF k
<1>2. LET R == NpmReport(advisories) IN
         /\ (\E f \in Findings(R) : Rank(f) >= k) <=> \E p \in DOMAIN R : Rank(R[p].severity) >= k
         /\ (\E f \in Findings(R) : Rank(f) >= k)
              <=> \E p \in NodePackages : \E s \in advisories[p] : Rank(s) >= k
  BY <1>1, SameHeight
<1> QED BY <1>2 DEF FatalIn, Fatal, k

LEMMA AskedTyped ==
  ASSUME IInv, asked["node"] # NULL
  PROVE  asked["node"].node \in [NodePackages -> SUBSET Words]
BY DEF IInv, TypeOK, Known, Worlds

LEMMA VerdictHolds == IInv => VerdictIsTrue
<1>1. SUFFICES ASSUME IInv, verdict \in {0, 1}
               PROVE  /\ \A w \in Worlds : asked[w] # NULL /\ disk[w] # NULL /\ disk[w].run = runs
                      /\ verdict = 1 <=> Exposed
  BY DEF VerdictIsTrue
<1>2. verdict # NULL
  BY <1>1, NothingAssumption
<1>3. /\ \A w \in Worlds : ~audits[w].incomplete
      /\ verdict = 1 <=> \E w \in Worlds : FatalIn(audits[w].findings)
  BY <1>1, <1>2 DEF IInv, Said
<1>4. \A w \in Worlds : audits[w] # NULL /\ disk[w] = Wrote(audits[w].report)
  BY <1>1, <1>2 DEF IInv, Written
<1>5. asked["python"] # NULL /\ asked["node"] # NULL
  BY <1>1, <1>3, <1>4 DEF IInv, PythonTrue, NodeTrue, Worlds
<1>6. ASSUME NEW w \in Worlds PROVE asked[w] # NULL /\ disk[w] # NULL /\ disk[w].run = runs
  <2>1. audits[w].report \notin {NULL, Torn}
    BY <1>1, <1>3, <1>4 DEF IInv, TypeOK
  <2>2. disk[w] = [run |-> runs, body |-> audits[w].report]
    BY <1>4, <2>1 DEF Wrote
  <2>3. asked[w] # NULL
    BY <1>5 DEF Worlds
  <2>4. runs \in 1..MaxRuns
    BY <1>1, <1>2 DEF IInv, Phases
  <2>5. audits[w].report \in Texts \ {NULL}
    BY <1>1, <1>4, <2>1 DEF IInv, TypeOK, Audits
  <2>6. disk[w] \in Files
    BY <2>2, <2>4, <2>5 DEF Files
  <2> QED BY <2>2, <2>3, <2>6, NothingAssumption
<1>7. FatalIn(audits["python"].findings) <=> asked["python"].python # {}
  <2>1. audits["python"].findings = IF asked["python"].python # {} THEN {UNKNOWN} ELSE {}
    BY <1>1, <1>3, <1>4 DEF IInv, PythonTrue, Worlds
  <2>2. ~FatalIn({})
    BY DEF FatalIn
  <2> QED BY <2>1, <2>2, UnknownIsFatal
<1>8. FatalIn(audits["node"].findings) <=> \E p \in NodePackages : FatalIn(asked["node"].node[p])
  <2>1. audits["node"].findings = Findings(NpmReport(asked["node"].node))
    BY <1>1, <1>3, <1>4 DEF IInv, NodeTrue, Worlds
  <2>2. asked["node"].node \in [NodePackages -> SUBSET Words]
    BY <1>1, <1>5, AskedTyped
  <2> QED BY <2>1, <2>2, NodeFatal
<1>9. verdict = 1 <=> Exposed
  BY <1>3, <1>7, <1>8 DEF Exposed, Worlds
<1> QED BY <1>6, <1>9

LEMMA ThresholdHolds == IInv => ThresholdIsNpms
<1>1. SUFFICES ASSUME IInv, audits["node"] # NULL, ~audits["node"].incomplete
               PROVE  LET report == audits["node"].report IN
                      FatalIn(audits["node"].findings)
                      <=> \E p \in DOMAIN report : Fatal(report[p].severity)
  BY DEF ThresholdIsNpms
<1>2. /\ asked["node"] # NULL
      /\ audits["node"].report = NpmReport(asked["node"].node)
      /\ audits["node"].findings = Findings(NpmReport(asked["node"].node))
  BY <1>1 DEF IInv, NodeTrue
<1>3. asked["node"].node \in [NodePackages -> SUBSET Words]
  BY <1>1, <1>2, AskedTyped
<1> QED BY <1>2, <1>3, NodeFatal

\* TypeOK for every policy, lockfile, severity and answer: an audit with no report to
\* write is never a complete one.
THEOREM GateWellFormed == Spec => []TypeOK
<1>1. IInv => TypeOK
  BY DEF IInv
<1> QED BY <1>1, Inductive, PTL

\* FR-010 for every way the two lookups can go: the gate passes only over two lookups
\* made in this run, both in full, with both reports on disk and nothing known at or
\* above the threshold; and it says there is something only when there is.
THEOREM NoUnearnedPass == Spec => []VerdictIsTrue
BY VerdictHolds, Inductive, PTL

\* Once a run has emptied audit/, no report of an earlier run is read or left there.
THEOREM NothingStale == Spec => []NoStaleReport
<1>1. IInv => NoStaleReport
  BY DEF IInv
<1> QED BY <1>1, Inductive, PTL

\* The docstring's claim on findings_from_npm_audit, for every dependency graph: reading
\* an entry's own advisories in place of its rollup moves the threshold nowhere.
THEOREM SameThreshold == Spec => []ThresholdIsNpms
BY ThresholdHolds, Inductive, PTL
================================================================================
