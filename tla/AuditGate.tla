------------------------------- MODULE AuditGate -------------------------------
(***************************************************************************)
(* The audit gate (scripts/audit_gate.py): one run after another in one      *)
(* worktree.  A run reads its policy, empties audit/, asks pip-audit and npm  *)
(* audit, writes each tool's report where the policy declares it, and judges. *)
(* Either tool may fail to reach its service, answer in part, or be killed;   *)
(* the run itself may stop anywhere.  What the services know of the two       *)
(* lockfiles changes between any two steps.                                   *)
(***************************************************************************)
EXTENDS Integers, FiniteSets, Sequences

CONSTANTS Policies,       \* what [tool.audit-gate] may hold
          PyPackages,     \* what uv.lock pins
          NodePackages,   \* what web/package-lock.json pins
          Through,        \* Through[p]: what p depends on, itself included
          Words,          \* the severities npm's advisories use
          NULL,           \* no report, no verdict, no lookup
          Torn,           \* a report that is not JSON
          MaxRuns,        \* bound: runs of the gate
          MaxMoves        \* bound: changes of what is known

SEVERITIES == <<"info", "low", "moderate", "high", "critical", "unknown">>

UNKNOWN == "unknown"

Worlds == {"python", "node"}

(***************************************************************************)
(* The declared paths are under audit/, as pyproject.toml has them, or leave *)
(* the worktree, which read_policy refuses.                                  *)
(***************************************************************************)
ASSUME PolicyAssumption == \A p \in Policies : p.place \in {"audit/", "outside"}

\* Depending is transitive, and a package depends on itself.
ASSUME ThroughAssumption ==
    /\ Through \in [NodePackages -> SUBSET NodePackages]
    /\ \A p \in NodePackages : p \in Through[p]
    /\ \A p \in NodePackages : \A x \in Through[p] : Through[x] \subseteq Through[p]

ASSUME BoundAssumption == MaxRuns \in Nat /\ MaxMoves \in Nat

Known == [python : SUBSET PyPackages, node : [NodePackages -> SUBSET Words]]

Severities == {SEVERITIES[i] : i \in 1..Len(SEVERITIES)} \cup Words

Answers == [PyPackages -> {"clean", "vulnerable", "skipped"}]

Reports == UNION {[S -> [severity : Severities, via : SUBSET Words]] : S \in SUBSET NodePackages}

Texts == {NULL, Torn} \cup Answers \cup Reports

Audits == [incomplete : BOOLEAN, findings : SUBSET Severities, report : Texts]

Files == [run : 1..MaxRuns, body : Texts \ {NULL}]

\* NULL and Torn are no answer, no audit and no file.
ASSUME NothingAssumption ==
    /\ Torn # NULL
    /\ {NULL, Torn} \cap (Answers \cup Reports) = {}
    /\ NULL \notin Known /\ NULL \notin Audits /\ NULL \notin Files /\ NULL \notin 0..2

VARIABLES
    pc,         \* the step the run is at
    policy,     \* main: policy
    known,      \* what the services know: python's vulnerable packages, node's advisories
    asked,      \* asked[w]: known as it was when this run looked w up
    audits,     \* main: audits[w], NULL before its tool was read
    disk,       \* disk[w]: the report at w's path, and the run that wrote it
    verdict,    \* what judge said, NULL when it did not
    runs, moves

vars == <<pc, policy, known, asked, audits, disk, verdict, runs, moves>>

-----------------------------------------------------------------------------
(* Severities *)

\* An unrecognised word ranks with the unrecorded ones, at the top.
Rank(severity) ==
    IF \E i \in 1..Len(SEVERITIES) : SEVERITIES[i] = severity
      THEN CHOOSE i \in 1..Len(SEVERITIES) : SEVERITIES[i] = severity
      ELSE Len(SEVERITIES)

Fatal(severity) == Rank(severity) >= Rank(policy.fail_on)

FatalIn(severities) == \E s \in severities : Fatal(s)

-----------------------------------------------------------------------------
(* What npm answers: per affected package its own advisories and a rollup *)

Highest(S) == CHOOSE s \in S : \A t \in S : Rank(t) <= Rank(s)

Reaching(advisories, p) == UNION {advisories[x] : x \in Through[p]}

NpmReport(advisories) ==
    [p \in {x \in NodePackages : Reaching(advisories, x) # {}} |->
        [severity |-> Highest(Reaching(advisories, p)), via |-> advisories[p]]]

-----------------------------------------------------------------------------
(* What the gate reads in an answer: the severities found, and whether it ended *)

\* findings_from_npm_audit, one finding per package rather than per advisory.
FindingsFirst(report) ==
    {IF report[p].via # {} THEN CHOOSE v \in report[p].via : TRUE ELSE report[p].severity :
        p \in DOMAIN report}

\* An entry's own advisories, or its rollup when it has none.
Findings(report) ==
    UNION {IF report[p].via # {} THEN report[p].via ELSE {report[p].severity} :
        p \in DOMAIN report}

Audit(incomplete, findings, report) ==
    [incomplete |-> incomplete, findings |-> findings, report |-> report]

\* A lookup that did not happen, taken for one that found nothing.
UnreadEmpty == Audit(FALSE, {}, NULL)

Unread == Audit(TRUE, {}, NULL)

Vulnerable(report) == \E p \in PyPackages : report[p] = "vulnerable"

\* python_audit, trusting "No known vulnerabilities found" over a skip.
PythonAuditTrusting(code, report) ==
    IF report \in {NULL, Torn}
      THEN Unread
      ELSE Audit(code \notin {0, 1}, IF Vulnerable(report) THEN {UNKNOWN} ELSE {}, report)

\* A report with a skipped package is incomplete, and is kept to be written.
PythonAudit(code, report) ==
    IF report \in {NULL, Torn}
      THEN Unread
      ELSE Audit((\E p \in PyPackages : report[p] = "skipped") \/ code \notin {0, 1},
                 IF Vulnerable(report) THEN {UNKNOWN} ELSE {},
                 report)

-----------------------------------------------------------------------------
(* A run *)

Init ==
    /\ pc = "unstarted" /\ policy = NULL
    /\ known = [python |-> {}, node |-> [p \in NodePackages |-> {}]]
    /\ asked = [w \in Worlds |-> NULL]
    /\ audits = [w \in Worlds |-> NULL]
    /\ disk = [w \in Worlds |-> NULL]
    /\ verdict = NULL
    /\ runs = 0 /\ moves = 0

\* A threshold no word has, or a path out of the worktree, ends the run unstarted.
ReadPolicy ==
    /\ pc \in {"unstarted", "ended"} /\ runs < MaxRuns
    /\ \E p \in Policies :
        /\ policy' = p
        /\ pc' = IF p.place = "outside" \/ ~\E i \in 1..Len(SEVERITIES) : SEVERITIES[i] = p.fail_on
                   THEN "unstarted"
                   ELSE "clean"
    /\ runs' = runs + 1
    /\ asked' = [w \in Worlds |-> NULL] /\ audits' = [w \in Worlds |-> NULL] /\ verdict' = NULL
    /\ UNCHANGED <<known, disk, moves>>

\* collect, over the audit/ an earlier run left.
CleanKept ==
    /\ pc = "clean" /\ pc' = "export"
    /\ UNCHANGED <<policy, known, asked, audits, disk, verdict, runs, moves>>

Clean ==
    /\ pc = "clean" /\ pc' = "export"
    /\ disk' = [w \in Worlds |-> NULL]
    /\ UNCHANGED <<policy, known, asked, audits, verdict, runs, moves>>

\* uv.lock is exported for pip-audit, or is not and there is nothing to ask about.
Export ==
    /\ pc = "export"
    /\ \/ pc' = "pip-audit" /\ UNCHANGED audits
       \/ pc' = "npm audit" /\ audits' = [audits EXCEPT !["python"] = Unread]
    /\ UNCHANGED <<policy, known, asked, disk, verdict, runs, moves>>

\* What pip-audit's file may hold when it ends: nothing, half, or every package's answer.
PipReports ==
    {NULL, Torn} \cup
    {[p \in PyPackages |-> IF p \in skipped THEN "skipped"
                           ELSE IF p \in known.python THEN "vulnerable" ELSE "clean"] :
        skipped \in SUBSET PyPackages}

Wrote(report) == IF report = NULL THEN NULL ELSE [run |-> runs, body |-> report]

\* pip-audit writes its own file and exits; the gate reads the file back.
PipAudit ==
    /\ pc = "pip-audit"
    /\ \E report \in PipReports, code \in 0..2 :
        /\ disk' = [disk EXCEPT !["python"] = IF report = NULL THEN @ ELSE Wrote(report)]
        /\ audits' = [audits EXCEPT !["python"] =
                        PythonAudit(code, IF disk'["python"] = NULL THEN NULL ELSE disk'["python"].body)]
    /\ asked' = [asked EXCEPT !["python"] = known]
    /\ pc' = "npm audit"
    /\ UNCHANGED <<policy, known, verdict, runs, moves>>

\* Killed at its timeout, with or without a file; TimeoutExpired ends the gate.
PipAuditExpires ==
    /\ pc = "pip-audit" /\ pc' = "ended"
    /\ \E report \in PipReports :
        disk' = [disk EXCEPT !["python"] = IF report = NULL THEN @ ELSE Wrote(report)]
    /\ UNCHANGED <<policy, known, asked, audits, verdict, runs, moves>>

\* npm answers on its stdout: a report, or what is no report.
NpmAudit ==
    /\ pc = "npm audit" /\ pc' = "write"
    /\ asked' = [asked EXCEPT !["node"] = known]
    /\ audits' \in {[audits EXCEPT !["node"] = a] :
                      a \in {Unread, Audit(FALSE, Findings(NpmReport(known.node)), NpmReport(known.node))}}
    /\ UNCHANGED <<policy, known, disk, verdict, runs, moves>>

WriteReports ==
    /\ pc = "write" /\ pc' = "judge"
    /\ disk' = [w \in Worlds |-> Wrote(audits[w].report)]
    /\ UNCHANGED <<policy, known, asked, audits, verdict, runs, moves>>

\* EXIT_LOOKUP_INCOMPLETE, EXIT_ABOVE_THRESHOLD, EXIT_OK.
Judge ==
    /\ pc = "judge" /\ pc' = "ended"
    /\ verdict' = IF \E w \in Worlds : audits[w].incomplete THEN 2
                  ELSE IF \E w \in Worlds : FatalIn(audits[w].findings) THEN 1
                  ELSE 0
    /\ UNCHANGED <<policy, known, asked, audits, disk, runs, moves>>

\* The run is stopped: a signal, uv or npm not there, uv or npm past its timeout, or a
\* removal of audit/ that fails with some of the files gone.
Stop ==
    /\ pc \in {"clean", "export", "npm audit", "write", "judge"}
    /\ pc' = IF pc = "clean" THEN "unstarted" ELSE "ended"
    /\ \E gone \in SUBSET Worlds :
        /\ gone # {} => pc = "clean"
        /\ disk' = [w \in Worlds |-> IF w \in gone THEN NULL ELSE disk[w]]
    /\ UNCHANGED <<policy, known, asked, audits, verdict, runs, moves>>

\* Advisories are published and withdrawn; a lockfile is bumped.
Move ==
    /\ moves < MaxMoves /\ moves' = moves + 1
    /\ \/ \E S \in SUBSET PyPackages : known' = [known EXCEPT !.python = S]
       \/ \E p \in NodePackages, S \in SUBSET Words : known' = [known EXCEPT !.node[p] = S]
    /\ UNCHANGED <<pc, policy, asked, audits, disk, verdict, runs>>

Next ==
    \/ ReadPolicy \/ Clean \/ Export \/ PipAudit \/ PipAuditExpires
    \/ NpmAudit \/ WriteReports \/ Judge \/ Stop \/ Move

Spec == Init /\ [][Next]_vars

-----------------------------------------------------------------------------
(* Correctness *)

\* The shape of the state; an audit with no report to write is incomplete.
TypeOK ==
    /\ pc \in {"unstarted", "clean", "export", "pip-audit", "npm audit", "write", "judge", "ended"}
    /\ policy \in {NULL} \cup Policies
    /\ known \in Known
    /\ asked \in [Worlds -> {NULL} \cup Known]
    /\ audits \in [Worlds -> {NULL} \cup Audits]
    /\ \A w \in Worlds :
        audits[w] # NULL /\ audits[w].report \in {NULL, Torn} => audits[w].incomplete
    /\ disk \in [Worlds -> {NULL} \cup Files]
    /\ verdict \in {NULL} \cup 0..2
    /\ runs \in 0..MaxRuns /\ moves \in 0..MaxMoves

\* What the services, as this run asked them, know at or above its threshold.
Exposed ==
    \/ asked["python"].python # {}
    \/ \E p \in NodePackages : FatalIn(asked["node"].node[p])

\* FR-010: a pass says that both lookups were made in this run and in full, that
\* neither service knew of anything at the threshold, unrated included, and that
\* both reports of this run are there; a fail says that one did know.
VerdictIsTrue ==
    verdict \in {0, 1} =>
        /\ \A w \in Worlds : asked[w] # NULL /\ disk[w] # NULL /\ disk[w].run = runs
        /\ verdict = 1 <=> Exposed

\* A report on disk once a run has emptied audit/ is that run's, however it ends.
NoStaleReport ==
    pc \notin {"unstarted", "clean"} =>
        \A w \in Worlds : disk[w] # NULL => disk[w].run = runs

\* The gate's threshold over npm's advisories is npm's own over its rollups.
ThresholdIsNpms ==
    audits["node"] # NULL /\ ~audits["node"].incomplete =>
        LET report == audits["node"].report
        IN  FatalIn(audits["node"].findings)
            <=> \E p \in DOMAIN report : Fatal(report[p].severity)
=============================================================================
