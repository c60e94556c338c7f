--------------------------- MODULE ZapPaymentScan ---------------------------
(***************************************************************************)
(* security-testing/owasp-zap/payment-service-security-scan.py: main()     *)
(* authenticates, spiders the service with ZAP, runs the payment creation, *)
(* payment status, rate limiting, CSRF and input validation tests one      *)
(* after the other, runs ZAP's active scan and writes the report.  Every   *)
(* request of a test is in a try whose except logs and drops that          *)
(* request's result.  The results no property reads are not kept; what is  *)
(* kept is what the amount and rate limiting tests record, and what the    *)
(* service did to produce it.                                              *)
(***************************************************************************)
EXTENDS Integers, Sequences, FiniteSets

CONSTANTS
    SqlPayloads,      \* len(sql_injection_payloads)
    XssPayloads,      \* len(xss_payloads)
    PayAmounts,       \* manipulation_payloads, as kinds
    PaymentIds,       \* len(test_payment_ids)
    RateRequests,     \* range(100) of test_rate_limiting
    RateLimits,       \* the requests of the rate test from which 429 is answered
    OversizedFields,  \* len(oversized_tests)
    NullBytePayloads, \* len(null_byte_tests)
    ZapSteps          \* polls until a ZAP scan reports 100%

ASSUME /\ {SqlPayloads, XssPayloads, PaymentIds, OversizedFields,
           NullBytePayloads, RateRequests, ZapSteps} \subseteq Nat \ {0}
       /\ PayAmounts \in Seq({"nonpositive", "positive", "string"})
       /\ RateLimits \subseteq 1..(RateRequests + 1)

\* a request's result: 200, another status, or an exception (timeout=10)
Outcomes == {"ok", "other", "raise"}
\* no 429 within the rate test
NoLimit == RateRequests + 1

VARIABLES
    mainPc,         \* the statement main() is at
    idx,            \* the request of the current test loop
    token,          \* self.session_token is set
    amountAnswer,   \* what the service answered to each amount (history)
    amountRecorded, \* the amounts an AMOUNT_MANIPULATION result has
    rateLimit,      \* the service's rate limiter
    rateRaised,     \* a request of the rate test raised (history)
    rateResult,     \* <<vulnerable>> of the RATE_LIMITING result
    zap, zapSeen    \* ZAP's progress on the current scan, and the last poll

rateVars == <<rateLimit, rateRaised, rateResult>>
amountVars == <<amountAnswer, amountRecorded>>
vars == <<mainPc, idx, token, amountVars, rateVars, zap, zapSeen>>

Init ==
    /\ mainPc = "auth" /\ idx = 1 /\ token = FALSE
    /\ amountAnswer = [i \in DOMAIN PayAmounts |-> "unsent"]
    /\ amountRecorded = {}
    /\ rateLimit \in RateLimits
    /\ rateRaised = FALSE
    /\ rateResult = <<>>
    /\ zap = 0 /\ zapSeen = 0

\* Moves main() to the next loop, or to the next request of this one.
LoopStep(n, next) ==
    IF idx < n THEN idx' = idx + 1 /\ mainPc' = mainPc
               ELSE idx' = 1 /\ mainPc' = next

\* A test loop whose results no property reads: one request per step.
Probe(pc, n, next) ==
    /\ mainPc = pc /\ LoopStep(n, next)
    /\ UNCHANGED <<token, amountVars, rateVars, zap, zapSeen>>

-----------------------------------------------------------------------------
\* setup_authentication: a 200 sets the token; main() goes on regardless.
SetupAuthentication ==
    /\ mainPc = "auth"
    /\ \E o \in Outcomes : token' = (o = "ok")
    /\ mainPc' = "spider_start"
    /\ UNCHANGED <<idx, amountVars, rateVars, zap, zapSeen>>

(* spider_application: spider.scan, then `while int(status) < 100` with   *)
(* no bound, then core.urls().  Nothing catches a ZAP error: before any   *)
(* test has run, main() dies.                                              *)
ScanRunning(status) == status < ZapSteps

StartSpider ==
    /\ mainPc = "spider_start"
    /\ zap' = 0 /\ zapSeen' = 0 /\ mainPc' = "spider"
    /\ UNCHANGED <<idx, token, amountVars, rateVars>>

PollSpider ==
    /\ mainPc = "spider"
    /\ zapSeen' = zap
    /\ mainPc' = IF ScanRunning(zap) THEN "spider" ELSE "urls"
    /\ UNCHANGED <<idx, token, amountVars, rateVars, zap>>

SpiderUrls ==
    /\ mainPc = "urls" /\ mainPc' = "sql"
    /\ UNCHANGED <<idx, token, amountVars, rateVars, zap, zapSeen>>

(* test_payment_creation_vulnerabilities: the SQL injection and XSS loops *)
(* and the unauthenticated payment record a result per answered request.  *)
SqlInjectionAmount == Probe("sql", SqlPayloads, "xss")
XssDescription == Probe("xss", XssPayloads, "bypass")
AuthenticationBypass == Probe("bypass", 1, "amounts")

(* 'vulnerable': response.status_code == 200 and amount <= 0.  The status *)
(* is compared first, so the string "NaN" raises TypeError only when the  *)
(* payment was accepted, and the except clause drops the result.          *)
AmountCompares(kind, o) == o = "ok" => kind # "string"

AmountManipulation ==
    /\ mainPc = "amounts"
    /\ \E o \in Outcomes :
          /\ amountAnswer' = [amountAnswer EXCEPT ![idx] = o]
          /\ amountRecorded' =
                IF o # "raise" /\ AmountCompares(PayAmounts[idx], o)
                THEN amountRecorded \cup {idx} ELSE amountRecorded
    /\ LoopStep(Len(PayAmounts), "idor")
    /\ UNCHANGED <<token, rateVars, zap, zapSeen>>

(* test_payment_status_vulnerabilities: per payment id a GET with the     *)
(* token, then one without, in one try.                                    *)
PaymentStatus == Probe("idor", PaymentIds, "rate")

-----------------------------------------------------------------------------
(* test_rate_limiting: up to 100 payments.  A 429 is appended and ends  *)
(* the loop; an exception ends it too.  'vulnerable' is 429 not in        *)
(* responses, so it is decided by how the loop ended.                     *)
RateLoopBoundShort == RateRequests - 1
RateLoopBoundLong == RateRequests + 1

RateLoopBound == RateRequests

RecordRate(triggered) ==
    /\ rateResult' = <<~triggered>>
    /\ idx' = 1 /\ mainPc' = "csrf"

RateLimiting ==
    /\ mainPc = "rate"
    /\ \E o \in IF idx >= rateLimit THEN {"limited", "raise"} ELSE Outcomes :
          \/ o = "raise" /\ RecordRate(FALSE) /\ rateRaised' = TRUE
          \/ o = "limited" /\ RecordRate(TRUE) /\ UNCHANGED rateRaised
          \/ /\ o \in {"ok", "other"}
             /\ IF idx < RateLoopBound
                THEN idx' = idx + 1 /\ mainPc' = "rate" /\ UNCHANGED rateResult
                ELSE RecordRate(FALSE)
             /\ UNCHANGED rateRaised
    /\ UNCHANGED <<token, amountVars, rateLimit, zap, zapSeen>>

\* test_csrf_protection: one payment from a foreign Origin.
CsrfProtection == Probe("csrf", 1, "oversized")

\* test_input_validation: the oversized fields, then the null bytes.
InputSizeValidation == Probe("oversized", OversizedFields, "nullbyte")
NullByteInjection == Probe("nullbyte", NullBytePayloads, "scan")

-----------------------------------------------------------------------------
(* run_active_scan: replacer.add_rule when there is a token, ascan.scan,  *)
(* the same unbounded poll, then core.alerts().                            *)
StartActiveScan ==
    /\ mainPc = "scan"
    /\ zap' = 0 /\ zapSeen' = 0 /\ mainPc' = "ascan"
    /\ UNCHANGED <<idx, token, amountVars, rateVars>>

PollActiveScan ==
    /\ mainPc = "ascan"
    /\ zapSeen' = zap
    /\ mainPc' = IF ScanRunning(zap) THEN "ascan" ELSE "alerts"
    /\ UNCHANGED <<idx, token, amountVars, rateVars, zap>>

GetAlerts ==
    /\ mainPc = "alerts" /\ mainPc' = "report"
    /\ UNCHANGED <<idx, token, amountVars, rateVars, zap, zapSeen>>

\* generate_report: the summary and the JSON file; then main() returns.
GenerateReport ==
    /\ mainPc = "report" /\ mainPc' = "done"
    /\ UNCHANGED <<idx, token, amountVars, rateVars, zap, zapSeen>>

ZapCalls == {"spider_start", "spider", "urls", "scan", "ascan", "alerts"}

ZapUnavailable ==
    /\ mainPc \in ZapCalls /\ mainPc' = "crashed"
    /\ UNCHANGED <<idx, token, amountVars, rateVars, zap, zapSeen>>

ZapProgress ==
    /\ mainPc \in {"spider", "ascan"} /\ zap < ZapSteps
    /\ zap' = zap + 1
    /\ UNCHANGED <<mainPc, idx, token, amountVars, rateVars, zapSeen>>

Main ==
    \/ SetupAuthentication \/ StartSpider \/ PollSpider \/ SpiderUrls
    \/ SqlInjectionAmount \/ XssDescription \/ AuthenticationBypass
    \/ AmountManipulation \/ PaymentStatus \/ RateLimiting \/ CsrfProtection
    \/ InputSizeValidation \/ NullByteInjection
    \/ StartActiveScan \/ PollActiveScan \/ GetAlerts \/ GenerateReport

Next == Main \/ ZapUnavailable \/ ZapProgress

Spec == Init /\ [][Next]_vars

-----------------------------------------------------------------------------
\* the length of the loop main() is in
LoopSize(pc) ==
    CASE pc = "sql"       -> SqlPayloads
      [] pc = "xss"       -> XssPayloads
      [] pc = "amounts"   -> Len(PayAmounts)
      [] pc = "idor"      -> PaymentIds
      [] pc = "rate"      -> RateRequests
      [] pc = "oversized" -> OversizedFields
      [] pc = "nullbyte"  -> NullBytePayloads
      [] OTHER            -> 1

PayPcs == {"auth", "sql", "xss", "bypass", "amounts", "idor", "rate", "csrf",
           "oversized", "nullbyte", "report", "done", "crashed"} \cup ZapCalls

PayTypeOK ==
    /\ mainPc \in PayPcs /\ token \in BOOLEAN
    /\ idx \in 1..LoopSize(mainPc)
    /\ amountAnswer \in [DOMAIN PayAmounts -> Outcomes \cup {"unsent"}]
    /\ amountRecorded \subseteq {i \in DOMAIN PayAmounts : amountAnswer[i] # "unsent"}
    /\ rateLimit \in RateLimits /\ rateRaised \in BOOLEAN
    /\ rateResult \in {<<>>, <<TRUE>>, <<FALSE>>}
    /\ zapSeen <= zap /\ zap <= ZapSteps

\* test_rate_limiting reports "Rate limiting not implemented or
\* ineffective" only if the service answered no 429 to the first 100
\* requests, or if one of them raised: the loop's `break` on an exception
\* is read as "no 429", so a limiter that drops or stalls connections is
\* reported as missing.
RateLimitFlagSound ==
    rateResult = <<TRUE>> => rateLimit = NoLimit \/ rateRaised
=============================================================================
