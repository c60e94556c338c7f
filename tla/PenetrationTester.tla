------------------------- MODULE PenetrationTester -------------------------
(***************************************************************************)
(* The OWASP penetration tester, owasp-security-scan.py.                   *)
(*                                                                         *)
(* run_comprehensive_security_scan submits the eight test functions to a   *)
(* ThreadPoolExecutor of max_threads workers and waits on each future in   *)
(* turn with a 300 s timeout; leaving the `with` block waits for every     *)
(* test; then the report is generated and __main__ chooses the exit code.  *)
(*                                                                         *)
(* A test never reads what another test writes except the shared          *)
(* test_results dictionary, so what a test does is abstracted to the       *)
(* sequence of its shared-state operations: "inc" for                      *)
(* test_results['total_tests'] += 1, done without the lock as a read and   *)
(* a write, a severity for a call of log_vulnerability, done under the     *)
(* lock as one step, and "hang" for a request sent without a timeout that  *)
(* never returns.  The responses of the target decide which sequence a     *)
(* test performs; they are chosen in Init from the sequences the test's    *)
(* control flow allows, its loops cut to the bounds below.                 *)
(***************************************************************************)
EXTENDS Naturals, Sequences, FiniteSets, SequencesExt

CONSTANTS
    Tests,           \* the test functions this model submits
    MaxThreads,      \* max_workers of the executor
    Endpoints,       \* length of each endpoint / case / attempt list
    Payloads,        \* length of each payload list
    Bases,           \* base endpoints of the enumeration test
    Ids,             \* ids tried per base endpoint (range(1, 11))
    RateRequests,    \* rapid login requests (range(20))
    RateThreshold,   \* requests let through that count as no rate limit (15)
    ResetRequests,   \* password reset requests (range(5))
    TokenThreshold,  \* tokens needed for the predictability check (3)
    Hangs            \* whether a request without a timeout may never return

TestFunctions ==
    <<"sql_injection", "xss_vulnerabilities", "authentication_bypass",
      "authorization_flaws", "session_management", "input_validation",
      "api_security", "cryptographic_weaknesses">>

ASSUME /\ Tests \subseteq ToSet(TestFunctions)
       /\ MaxThreads \in Nat \ {0}
       /\ {Endpoints, Payloads, Bases, Ids, RateRequests, ResetRequests} \subseteq Nat \ {0}
       /\ RateThreshold \in 1..RateRequests /\ TokenThreshold \in Nat
       /\ Hangs \in BOOLEAN

Severities == <<"CRITICAL", "HIGH", "MEDIUM", "LOW">>
Sev == ToSet(Severities)
Ops == {"inc", "hang"} \cup Sev

\* the submission order of the futures
Submitted == SelectSeq(TestFunctions, LAMBDA n : n \in Tests)
N == Len(Submitted)

-----------------------------------------------------------------------------
(* Sets of operation sequences, for the test functions' control flow.     *)
Cat(S, T) == {s \o t : s \in S, t \in T}
Opt(s) == {<<>>, <<s>>}
Incs(k) == [i \in 1..k |-> "inc"]
RECURSIVE Rep(_, _)
Rep(S, n) == IF n = 0 THEN {<<>>} ELSE Cat(S, Rep(S, n - 1))

\* per endpoint one count, per payload a GET and a POST that may show an error
SqlInjection == Rep(Cat({<<"inc">>}, Rep(Cat(Opt("CRITICAL"), Opt("CRITICAL")), Payloads)), Endpoints)

\* per endpoint one count, per payload a POST and a GET that may reflect it
XssVulnerabilities == Rep(Cat({<<"inc">>}, Rep(Cat(Opt("HIGH"), Opt("HIGH")), Payloads)), Endpoints)

\* the unsigned JWT probe (not counted), then one count per credential pair
JwtManipulation == Opt("CRITICAL")
AuthenticationBypass == Cat(JwtManipulation, Rep(Cat({<<"inc">>}, Opt("CRITICAL")), Endpoints))

\* per case: unauthenticated access, then ids until the first IDOR hit
AuthorizationFlaws == Rep(Cat(Cat({<<"inc">>}, Opt("HIGH")), Opt("MEDIUM")), Endpoints)

\* one count; the two requests carry no timeout
SessionManagement ==
    Cat({<<"inc">>}, Opt("MEDIUM")) \cup IF Hangs THEN {<<"inc", "hang">>} ELSE {}

\* one count per endpoint and input; file exposure, then SSRF indicators
InputValidation == Rep(Cat(Cat({<<"inc">>}, Opt("HIGH")), Opt("MEDIUM")), Endpoints * Payloads)

\* n requests counted, f of them not answered 429; a RequestException
\* ends the loop after the request that raised it was counted
RateOutcomes ==
    {<<RateRequests, f>> : f \in 0..RateRequests} \cup
    {<<k, f>> \in (1..RateRequests) \X (0..RateRequests) : f < k}
RateLimiting ==
    {Incs(o[1]) \o (IF o[2] >= RateThreshold THEN <<"MEDIUM">> ELSE <<>>) : o \in RateOutcomes}
MassAssignment == Cat({<<"inc">>}, Opt("HIGH"))
\* per base, ids are counted until the first disclosure, which breaks the loop
ApiEnumeration == Rep({Incs(k) \o <<"LOW">> : k \in 1..Ids} \cup {Incs(Ids)}, Bases)
ApiSecurity == Cat(Cat(RateLimiting, MassAssignment), ApiEnumeration)

\* weak protocol, then weak cipher
SslConfiguration == Cat(Opt("HIGH"), Opt("MEDIUM"))
\* reset requests are all counted; tokens are judged only when enough came back
WeakCryptography ==
    {Incs(ResetRequests)} \cup
    IF ResetRequests >= TokenThreshold THEN {Incs(ResetRequests) \o <<"HIGH">>} ELSE {}
CryptographicWeaknesses == Cat(SslConfiguration, WeakCryptography)

Program(t) ==
    CASE t = "sql_injection"            -> SqlInjection
      [] t = "xss_vulnerabilities"      -> XssVulnerabilities
      [] t = "authentication_bypass"    -> AuthenticationBypass
      [] t = "authorization_flaws"      -> AuthorizationFlaws
      [] t = "session_management"       -> SessionManagement
      [] t = "input_validation"         -> InputValidation
      [] t = "api_security"             -> ApiSecurity
      [] t = "cryptographic_weaknesses" -> CryptographicWeaknesses

-----------------------------------------------------------------------------
(* _generate_security_report: the weighted risk score and its grade.     *)
RiskScore(c) == c["CRITICAL"] * 10 + c["HIGH"] * 7 + c["MEDIUM"] * 4 + c["LOW"]

Grade(score) ==
    CASE score = 0   -> "A+"
      [] score <= 10 -> "A"
      [] score <= 25 -> "B"
      [] score <= 50 -> "C"
      [] OTHER       -> "F"

GradePasses(g) == g \in {"A+", "A"}

NoRead == <<>>         \* tmp of a worker between two increments
NoExit == <<>>         \* before __main__ calls exit(code), then <<code>>
PyNone == <<>>         \* None; a Python value v is written <<v>>
Truthy(v) == v # PyNone /\ Head(v)

-----------------------------------------------------------------------------
VARIABLES
    prog,             \* prog[t]: the shared-state operations test t performs
    pc,               \* "queued", "running" or "done", per test
    step,             \* step[t]: index of t's next operation
    tmp,              \* tmp[t]: <<total_tests as read by t>>, or NoRead
    totalTests,       \* test_results['total_tests']
    vulnerabilities,  \* self.vulnerabilities, as <<test, severity>> entries
    found,            \* test_results['vulnerabilities_found']
    issues,           \* test_results['critical_issues'] ... ['low_issues']
    mainPc,           \* the main thread: "wait", "exit" or "done"
    waitIdx,          \* the future the main thread waits on
    timedOut,         \* tests whose future.result(timeout=300) timed out
    report,           \* the figures _generate_security_report prints
    returned,         \* what run_comprehensive_security_scan returns
    exitCode,         \* the exit status __main__ chooses
    incsDone          \* increments performed so far (history)

vars == <<prog, pc, step, tmp, totalTests, vulnerabilities, found, issues,
          mainPc, waitIdx, timedOut, report, returned, exitCode, incsDone>>

Op(t) == prog[t][step[t]]
Running == {t \in Tests : pc[t] = "running"}

Init ==
    /\ prog \in [Tests -> UNION {Program(t) : t \in Tests}]
    /\ \A t \in Tests : prog[t] \in Program(t)
    /\ pc = [t \in Tests |-> "queued"]
    /\ step = [t \in Tests |-> 1]
    /\ tmp = [t \in Tests |-> NoRead]
    /\ totalTests = 0
    /\ vulnerabilities = <<>>
    /\ found = 0
    /\ issues = [s \in Sev |-> 0]
    /\ mainPc = "wait"
    /\ waitIdx = 1
    /\ timedOut = {}
    /\ report = <<>>
    /\ returned = PyNone
    /\ exitCode = NoExit
    /\ incsDone = 0

StartTestNoPoolBound(t) ==
    /\ pc[t] = "queued"
    /\ \A i \in 1..N : Submitted[i] = t => \A j \in 1..i - 1 : pc[Submitted[j]] # "queued"
    /\ pc' = [pc EXCEPT ![t] = "running"]
    /\ UNCHANGED <<prog, step, tmp, totalTests, vulnerabilities, found, issues,
                   mainPc, waitIdx, timedOut, report, returned, exitCode, incsDone>>

(* A pool worker takes the oldest queued future while fewer than          *)
(* max_workers tests run.                                                 *)
StartTest(t) ==
    /\ pc[t] = "queued"
    /\ \A i \in 1..N : Submitted[i] = t => \A j \in 1..i - 1 : pc[Submitted[j]] # "queued"
    /\ Cardinality(Running) < MaxThreads
    /\ pc' = [pc EXCEPT ![t] = "running"]
    /\ UNCHANGED <<prog, step, tmp, totalTests, vulnerabilities, found, issues,
                   mainPc, waitIdx, timedOut, report, returned, exitCode, incsDone>>

(* test_results['total_tests'] += 1 without the lock: the read ...        *)
ReadTotal(t) ==
    /\ pc[t] = "running" /\ step[t] <= Len(prog[t])
    /\ Op(t) = "inc" /\ tmp[t] = NoRead
    /\ tmp' = [tmp EXCEPT ![t] = <<totalTests>>]
    /\ UNCHANGED <<prog, pc, step, totalTests, vulnerabilities, found, issues,
                   mainPc, waitIdx, timedOut, report, returned, exitCode, incsDone>>

(* ... and the write of the value read plus one.                          *)
WriteTotal(t) ==
    /\ pc[t] = "running" /\ tmp[t] # NoRead
    /\ totalTests' = Head(tmp[t]) + 1
    /\ tmp' = [tmp EXCEPT ![t] = NoRead]
    /\ step' = [step EXCEPT ![t] = @ + 1]
    /\ incsDone' = incsDone + 1
    /\ UNCHANGED <<prog, pc, vulnerabilities, found, issues,
                   mainPc, waitIdx, timedOut, report, returned, exitCode>>

(* log_vulnerability: the whole body runs under self.lock.                *)
LogVulnerability(t) ==
    /\ pc[t] = "running" /\ step[t] <= Len(prog[t])
    /\ Op(t) \in Sev
    /\ vulnerabilities' = Append(vulnerabilities, <<t, Op(t)>>)
    /\ found' = found + 1
    /\ issues' = [issues EXCEPT ![Op(t)] = @ + 1]
    /\ step' = [step EXCEPT ![t] = @ + 1]
    /\ UNCHANGED <<prog, pc, tmp, totalTests, mainPc, waitIdx, timedOut,
                   report, returned, exitCode, incsDone>>

(* The test function returns; its worker is free again.  A "hang"         *)
(* operation never completes, so a test reaching one never returns.      *)
FinishTest(t) ==
    /\ pc[t] = "running" /\ step[t] > Len(prog[t])
    /\ pc' = [pc EXCEPT ![t] = "done"]
    /\ UNCHANGED <<prog, step, tmp, totalTests, vulnerabilities, found, issues,
                   mainPc, waitIdx, timedOut, report, returned, exitCode, incsDone>>

(* future.result(timeout=300) returns for a finished test ...             *)
CollectResult ==
    /\ mainPc = "wait" /\ waitIdx <= N
    /\ pc[Submitted[waitIdx]] = "done"
    /\ waitIdx' = waitIdx + 1
    /\ UNCHANGED <<prog, pc, step, tmp, totalTests, vulnerabilities, found, issues,
                   mainPc, timedOut, report, returned, exitCode, incsDone>>

(* ... or raises TimeoutError for one still queued or running; the error  *)
(* is printed and the loop moves to the next future.                      *)
TimeOut ==
    /\ mainPc = "wait" /\ waitIdx <= N
    /\ pc[Submitted[waitIdx]] # "done"
    /\ timedOut' = timedOut \cup {Submitted[waitIdx]}
    /\ waitIdx' = waitIdx + 1
    /\ UNCHANGED <<prog, pc, step, tmp, totalTests, vulnerabilities, found, issues,
                   mainPc, report, returned, exitCode, incsDone>>

ReportOf == [total  |-> totalTests, found |-> found, issues |-> issues,
             score  |-> RiskScore(issues), grade |-> Grade(RiskScore(issues))]

GenerateSecurityReportNoWait ==
    /\ mainPc = "wait" /\ waitIdx > N
    /\ report' = ReportOf
    /\ returned' = PyNone
    /\ mainPc' = "exit"
    /\ UNCHANGED <<prog, pc, step, tmp, totalTests, vulnerabilities, found, issues,
                   waitIdx, timedOut, exitCode, incsDone>>

(* Leaving the `with` block shuts the executor down and waits for every   *)
(* test; then _generate_security_report prints and saves the figures.     *)
(* Its boolean result is dropped: run_comprehensive_security_scan has no  *)
(* return statement and returns None.                                      *)
GenerateSecurityReport ==
    /\ mainPc = "wait" /\ waitIdx > N
    /\ \A t \in Tests : pc[t] = "done"
    /\ report' = ReportOf
    /\ returned' = PyNone
    /\ mainPc' = "exit"
    /\ UNCHANGED <<prog, pc, step, tmp, totalTests, vulnerabilities, found, issues,
                   waitIdx, timedOut, exitCode, incsDone>>

(* __main__: exit(0) when the scan returned a true value, else exit(1).   *)
ExitScan ==
    /\ mainPc = "exit"
    /\ exitCode' = <<IF Truthy(returned) THEN 0 ELSE 1>>
    /\ mainPc' = "done"
    /\ UNCHANGED <<prog, pc, step, tmp, totalTests, vulnerabilities, found, issues,
                   waitIdx, timedOut, report, returned, incsDone>>

Worker(t) ==
    StartTest(t) \/ ReadTotal(t) \/ WriteTotal(t) \/ LogVulnerability(t) \/ FinishTest(t)

Main == CollectResult \/ TimeOut \/ GenerateSecurityReport \/ ExitScan

Next == (\E t \in Tests : Worker(t)) \/ Main

(* Every worker thread and the main thread get scheduled: a step that    *)
(* stays enabled is eventually taken.  Requests sent with a timeout        *)
(* return, so only a "hang" operation stops a test for good.              *)
Fairness == (\A t \in Tests : WF_vars(Worker(t))) /\ WF_vars(Main)

Spec == Init /\ [][Next]_vars /\ Fairness

-----------------------------------------------------------------------------
(* The issue counts a sequence of logged vulnerabilities adds up to.      *)
CountsOf(vs) == [s \in Sev |-> Cardinality({i \in DOMAIN vs : vs[i][2] = s})]

(* Every test is in one state, and no more tests run at once than the     *)
(* executor has workers.                                                   *)
TypeOK ==
    /\ pc \in [Tests -> {"queued", "running", "done"}]
    /\ step \in [Tests -> Nat] /\ tmp \in [Tests -> Seq(Nat)] /\ \A t \in Tests : Len(tmp[t]) <= 1
    /\ totalTests \in Nat /\ found \in Nat /\ issues \in [Sev -> Nat]
    /\ vulnerabilities \in Seq(Tests \X Sev)
    /\ mainPc \in {"wait", "exit", "done"} /\ waitIdx \in 1..N + 1
    /\ timedOut \subseteq Tests
    /\ Cardinality(Running) <= MaxThreads

(* The report printed and saved by _generate_security_report accounts for *)
(* every vulnerability any test logged, including tests whose future      *)
(* timed out in the main thread: its counts, risk score and grade are      *)
(* those of the complete vulnerability list, and nothing is logged after  *)
(* it was made.                                                            *)
ReportMatchesLog ==
    mainPc # "wait" =>
        /\ report.found = Len(vulnerabilities)
        /\ report.issues = CountsOf(vulnerabilities)
        /\ report.grade = Grade(RiskScore(CountsOf(vulnerabilities)))

(* The summary's "Total Tests Executed" is the number of counted test     *)
(* cases the eight tests ran: no increment of total_tests is lost.        *)
TotalTestsExact ==
    mainPc # "wait" => report.total = incsDone

(* The scan finishes: whatever the target answers and however long a test *)
(* runs past its 300 s result timeout, the program reaches its exit.      *)
Termination == <>(mainPc = "done")
====
