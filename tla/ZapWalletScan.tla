---------------------------- MODULE ZapWalletScan ----------------------------
(***************************************************************************)
(* The OWASP ZAP scanner of the wallet service,                           *)
(* wallet-service-security-scan.py.                                        *)
(*                                                                         *)
(* main() runs setup_authentication, setup_test_wallet, the five wallet    *)
(* tests, run_active_scan and generate_report in order.  Every test is a   *)
(* loop of HTTP requests whose answer is chosen with \E.  No property     *)
(* reads the counts generate_report makes of self.results['tests'], so    *)
(* only the verdicts the properties are about are kept: the payloads the  *)
(* transfer loop records, the race results and the atomicity verdict.     *)
(* test_race_conditions sends its withdrawals and its   *)
(* same-key transfers from thread pools; the wallet server handling them   *)
(* is modelled too, as one of the implementations in RaceModes and         *)
(* IdempotencyModes, and a request the client gave up on (timeout=10) may  *)
(* still be handled by the server at any later step.  Amounts are in       *)
(* units of 50.00: a withdrawal is 2 units, a transfer 1.                  *)
(***************************************************************************)
EXTENDS Integers, Sequences, FiniteSets, SequencesExt

CONSTANTS
    Withdrawals,      \* the num_concurrent_requests concurrent withdrawals
    Transfers,        \* the concurrent transfers sharing one idempotency key
    InitialBalance,   \* balance of the test wallet when the race test starts
    BalancePayloads,  \* len(manipulation_payloads)
    TransferAmounts,  \* amount_manipulation_tests: "negative", "number", "string"
    IdorIds,          \* len(test_wallet_ids)
    AuthEndpoints,    \* len(endpoints_to_test)
    InvalidTokens,    \* len(invalid_tokens)
    ServerImpls,      \* wallet servers: <<withdrawal mode, idempotency mode>>
    ZapSteps          \* status polls before a ZAP scan reports 100%

ASSUME /\ {InitialBalance, BalancePayloads, IdorIds, AuthEndpoints,
           InvalidTokens, ZapSteps} \subseteq Nat
       /\ InitialBalance >= 2 * Cardinality(Withdrawals) + Cardinality(Transfers)
       /\ ServerImpls \subseteq {"atomic", "racy"} \X {"dedup", "replay", "racy"}

PyNone == <<>>
Reqs == Withdrawals \cup Transfers
WithdrawalUnits == 2     \* withdrawal_amount = Decimal('100.00')
TransferUnits == 1       \* transfer_amount = Decimal('50.00')

\* What a request can get back: status 200, another status, a 500 whose
\* body names an SQL error, or an exception (refused, timed out).
Outcomes == {"ok", "denied", "sqlerror", "raise"}
\* What a GET of the balance can give: 200 with the balance, another
\* status with a JSON body (.get('balance', 0) is 0), or an exception.
ReadOutcomes == {"ok", "error", "raise"}

Result(test, payload, vulnerable) ==
    [test |-> test, payload |-> payload, vulnerable |-> vulnerable]

VARIABLES
    mainPc,       \* the statement main() is at
    idx,          \* index of the current request of a test loop
    token,        \* self.session_token is set
    walletId,     \* self.test_wallet_id is set
    transferPayloads, \* the amounts a TRANSFER_AMOUNT_MANIPULATION result has
    raceTests,    \* self.results['race_condition_tests']
    raceLocal,    \* race_test_results of test_race_conditions
    initial,      \* initial_balance, <<n>> once read
    balance,      \* the wallet's balance on the server
    raceMode, idempotencyMode,
    keyUsed,      \* the server has stored shared_idempotency_key
    srv,          \* the server's handling of each request
    snap,         \* what a racy handler read, until it writes
    cl,           \* each request's result in its client thread
    wdAtRead,     \* ghost: the withdrawals when the final balance was read
    idemAtJoin,   \* ghost: the same-key transfers when all had returned
    applied,      \* ghost: the server applied a request between the
                  \* two reads of test_transaction_integrity
    intBefore,    \* balance_before, <<n>> once read
    intGhost,     \* the invalid transfer's status, and ghost facts of the test
    zap, zapSeen, \* the progress of the current ZAP scan, and the last poll
    done          \* generate_report has written the report

seqVars == <<idx, token, walletId, transferPayloads>>
raceVars == <<raceTests, raceLocal, initial, raceMode, idempotencyMode, keyUsed,
              srv, snap, cl, wdAtRead, idemAtJoin>>
serverVars == <<balance, keyUsed, srv, snap, applied>>
intVars == <<intBefore, intGhost>>
zapVars == <<zap, zapSeen>>
vars == <<mainPc, seqVars, raceVars, serverVars, intVars, zapVars, done>>

Init ==
    /\ mainPc = "auth" /\ idx = 1
    /\ token = FALSE /\ walletId = FALSE
    /\ transferPayloads = {}
    /\ raceTests = <<>> /\ raceLocal = <<>>
    /\ initial = PyNone /\ balance = InitialBalance
    /\ \E m \in ServerImpls : raceMode = m[1] /\ idempotencyMode = m[2]
    /\ keyUsed = FALSE
    /\ srv = [r \in Reqs |-> "idle"] /\ snap = [r \in Reqs |-> 0]
    /\ cl = [r \in Reqs |-> "idle"]
    /\ wdAtRead = PyNone /\ idemAtJoin = PyNone /\ applied = FALSE
    /\ intBefore = PyNone /\ intGhost = PyNone
    /\ zap = 0 /\ zapSeen = 0 /\ done = FALSE

RecordIf(cond, r) == IF cond THEN <<r>> ELSE <<>>

-----------------------------------------------------------------------------
(* setup_authentication and setup_test_wallet: a 200 (201) sets the token *)
(* (the wallet id); main() goes on whatever they return.                   *)
SetupAuthentication ==
    /\ mainPc = "auth"
    /\ \E o \in {"ok", "denied", "raise"} : token' = (o = "ok")
    /\ mainPc' = "wallet"
    /\ UNCHANGED <<idx, walletId, transferPayloads, raceVars, serverVars, intVars, zapVars, done>>

SetupTestWallet ==
    /\ mainPc = "wallet"
    /\ \E o \in {"ok", "denied", "raise"} : walletId' = (o = "ok")
    /\ mainPc' = "balance"
    /\ UNCHANGED <<idx, token, transferPayloads, raceVars, serverVars, intVars, zapVars, done>>

\* Moves main() to the next loop, or to the next request of this one.
LoopStep(n, next) ==
    IF idx < n THEN idx' = idx + 1 /\ mainPc' = mainPc
               ELSE idx' = 1 /\ mainPc' = next

(* test_balance_manipulation, first loop: a PUT of each balance payload, *)
(* vulnerable when accepted; an exception records nothing.                *)
DirectBalanceManipulation ==
    /\ mainPc = "balance"
    /\ LoopStep(BalancePayloads, "amounts")
    /\ UNCHANGED <<token, walletId, transferPayloads, raceVars, serverVars, intVars, zapVars, done>>

\* `amount < 0` holds for a negative number and raises TypeError for a str
Compares(kind) == kind # "string"

(* Second loop: a transfer of each amount.  A 200 to a negative amount or *)
(* a 500 naming an SQL error is vulnerable.  The comparison `amount < 0`  *)
(* comes first, so for the string amount it raises and the except clause  *)
(* drops the result, as it does when the request raises.                  *)
TransferAmountManipulation ==
    /\ mainPc = "amounts"
    /\ LET kind == TransferAmounts[idx] IN
       \E o \in Outcomes :
          LET recorded == RecordIf(o # "raise" /\ Compares(kind),
                            Result("TRANSFER_AMOUNT_MANIPULATION", kind,
                                   \/ kind = "negative" /\ o = "ok"
                                   \/ o = "sqlerror"))
          IN transferPayloads' = transferPayloads \cup {r.payload : r \in ToSet(recorded)}
    /\ LoopStep(Len(TransferAmounts), "idor")
    /\ UNCHANGED <<token, walletId, raceVars, serverVars, intVars, zapVars, done>>

(* test_idor_vulnerabilities: per wallet id a GET of its balance, then of *)
(* its transactions, in one try: an exception in the second keeps the     *)
(* first result, an exception in the first skips both.                     *)
IdorVulnerabilities ==
    /\ mainPc = "idor"
    /\ LoopStep(IdorIds, "race_initial")
    /\ UNCHANGED <<token, walletId, transferPayloads, raceVars, serverVars, intVars, zapVars, done>>
-----------------------------------------------------------------------------
(* test_race_conditions.  The initial balance is read first; unless it is *)
(* a 200 the test returns [] and neither race test runs.  Without a token  *)
(* ("Bearer None") or a wallet (/wallets/None/balance) it is not.  Then a  *)
(* pool of num_concurrent_requests threads sends one withdrawal each.      *)
RaceInitialBalance ==
    /\ mainPc = "race_initial"
    /\ \E o \in IF token /\ walletId THEN ReadOutcomes ELSE {"error", "raise"} :
          IF o = "ok"
          THEN /\ initial' = <<balance>>
               /\ srv' = [r \in Reqs |-> IF r \in Withdrawals THEN "queued" ELSE srv[r]]
               /\ cl' = [r \in Reqs |-> IF r \in Withdrawals THEN "waiting" ELSE cl[r]]
               /\ mainPc' = "race_withdraw"
          ELSE /\ mainPc' = "integrity"
               /\ UNCHANGED <<initial, srv, cl>>
    /\ UNCHANGED <<seqVars, raceTests, raceLocal, raceMode, idempotencyMode,
                   snap, wdAtRead, idemAtJoin, balance, keyUsed, applied, intVars, zapVars, done>>

(* The wallet server.  An atomic server applies a withdrawal in one step; *)
(* a racy one reads the balance and writes it back later, so two          *)
(* withdrawals can read the same balance and one of them is lost.  Any     *)
(* request may fail with a 500 instead.  The server keeps going after the  *)
(* client gave up.                                                         *)
\* ghost: the request is applied while test_transaction_integrity is
\* between its two balance reads
Applied == applied' = (applied \/ mainPc \in {"int_transfer", "int_after"})

ServerWithdraw(w) ==
    /\ raceMode = "atomic" /\ srv[w] = "queued"
    /\ srv' = [srv EXCEPT ![w] = "committed"]
    /\ balance' = balance - WithdrawalUnits /\ Applied
    /\ UNCHANGED <<keyUsed, snap>>

ServerReadBalance(w) ==
    /\ raceMode = "racy" /\ srv[w] = "queued"
    /\ srv' = [srv EXCEPT ![w] = "read"] /\ snap' = [snap EXCEPT ![w] = balance]
    /\ UNCHANGED <<balance, keyUsed, applied>>

ServerWriteBalance(w) ==
    /\ srv[w] = "read"
    /\ srv' = [srv EXCEPT ![w] = "committed"]
    /\ balance' = snap[w] - WithdrawalUnits /\ Applied
    /\ snap' = [snap EXCEPT ![w] = 0]
    /\ UNCHANGED keyUsed

(* A transfer with the shared key: a deduplicating or replaying server    *)
(* checks and stores the key in one step; a racy one checks it, and       *)
(* stores it with the debit later.  A replaying server answers a reused   *)
(* key with the stored 200, a deduplicating one with a 409.               *)
ServerTransfer(t) ==
    /\ idempotencyMode \in {"dedup", "replay"} /\ srv[t] = "queued"
    /\ IF keyUsed
       THEN srv' = [srv EXCEPT ![t] = "duplicate"] /\ UNCHANGED <<balance, applied>>
       ELSE /\ srv' = [srv EXCEPT ![t] = "committed"]
            /\ balance' = balance - TransferUnits /\ Applied
    /\ keyUsed' = TRUE
    /\ UNCHANGED snap

ServerCheckKey(t) ==
    /\ idempotencyMode = "racy" /\ srv[t] = "queued"
    /\ srv' = [srv EXCEPT ![t] = "checked"]
    /\ snap' = [snap EXCEPT ![t] = IF keyUsed THEN 1 ELSE 0]
    /\ UNCHANGED <<balance, keyUsed, applied>>

ServerApplyTransfer(t) ==
    /\ srv[t] = "checked"
    /\ IF snap[t] = 1
       THEN srv' = [srv EXCEPT ![t] = "duplicate"] /\ UNCHANGED <<balance, applied>>
       ELSE /\ srv' = [srv EXCEPT ![t] = "committed"]
            /\ balance' = balance - TransferUnits /\ Applied
    /\ keyUsed' = TRUE
    /\ snap' = [snap EXCEPT ![t] = 0]

ServerFail(r) ==
    /\ srv[r] = "queued"
    /\ srv' = [srv EXCEPT ![r] = "failed"]
    /\ UNCHANGED <<balance, keyUsed, snap, applied>>

\* the scanner may still read the wallet's balance
Observed == mainPc \in {"race_withdraw", "race_final", "race_idem",
                        "integrity", "int_transfer", "int_after"}

Server(r) ==
    /\ \/ r \in Withdrawals /\ (ServerWithdraw(r) \/ ServerReadBalance(r) \/ ServerWriteBalance(r))
       \/ r \in Transfers /\ (ServerTransfer(r) \/ ServerCheckKey(r) \/ ServerApplyTransfer(r))
       \/ ServerFail(r)
    /\ UNCHANGED <<mainPc, seqVars, raceTests, raceLocal, initial, raceMode,
                   idempotencyMode, cl, wdAtRead, idemAtJoin, intVars, zapVars, done>>

Answered == {"committed", "duplicate", "failed"}

(* concurrent_withdrawal and concurrent_transfer_same_key: the response   *)
(* of the server, or the exception of requests (timeout=10), which can    *)
(* come at any time, also after the server handled the request.            *)
ClientResponse(r) ==
    /\ cl[r] = "waiting" /\ srv[r] \in Answered
    /\ cl' = [cl EXCEPT ![r] =
                IF \/ srv[r] = "committed"
                   \/ srv[r] = "duplicate" /\ idempotencyMode = "replay"
                THEN "ok" ELSE "denied"]
    /\ UNCHANGED <<mainPc, seqVars, raceTests, raceLocal, initial, raceMode,
                   idempotencyMode, serverVars, wdAtRead, idemAtJoin, intVars, zapVars, done>>

ClientTimeout(r) ==
    /\ cl[r] = "waiting"
    /\ cl' = [cl EXCEPT ![r] = "raised"]
    /\ UNCHANGED <<mainPc, seqVars, raceTests, raceLocal, initial, raceMode,
                   idempotencyMode, serverVars, wdAtRead, idemAtJoin, intVars, zapVars, done>>

SuccessfulOfAnswered(S) == {r \in S : cl[r] \in {"ok", "denied"}}

\* the results with r.get('status_code') == 200
SuccessfulOf(S) == {r \in S : cl[r] = "ok"}

WithdrawalVulnerableOverdrawn(final, expected) == expected - final > 0

(* abs(final_balance - expected_balance) > Decimal('0.01'): in units of   *)
(* 50.00 any difference exceeds the tolerance.                            *)
WithdrawalVulnerable(final, expected) == final # expected

(* as_completed returns once every withdrawal thread has a result. *)
JoinWithdrawals ==
    /\ mainPc = "race_withdraw"
    /\ \A w \in Withdrawals : cl[w] # "waiting"
    /\ mainPc' = "race_final"
    /\ UNCHANGED <<seqVars, raceVars, serverVars, intVars, zapVars, done>>

\* ghost: the money the committed withdrawals took is not the money that left
LostUpdate ==
    Head(initial) - balance
        # WithdrawalUnits * Cardinality({w \in Withdrawals : srv[w] = "committed"})
\* ghost: a withdrawal whose client raised was applied before the final read
RaisedCommitted == \E w \in Withdrawals : srv[w] = "committed" /\ cl[w] = "raised"

(* After sleep(2) the final balance is read, without checking its status, *)
(* and compared with initial_balance - 100.00 * successful_withdrawals;    *)
(* an exception records nothing.  Then the same-key transfers are sent.   *)
FinalBalance ==
    /\ mainPc = "race_final"
    /\ \E o \in ReadOutcomes :
          LET final == IF o = "ok" THEN balance ELSE 0
              expected == Head(initial) - WithdrawalUnits * Cardinality(SuccessfulOf(Withdrawals))
          IN /\ raceLocal' = RecordIf(o # "raise",
                               Result("CONCURRENT_WITHDRAWAL_RACE_CONDITION", "-",
                                      WithdrawalVulnerable(final, expected)))
             /\ wdAtRead' = <<[lost |-> LostUpdate, hidden |-> RaisedCommitted,
                               readOk |-> o = "ok"]>>
    /\ srv' = [r \in Reqs |-> IF r \in Transfers THEN "queued" ELSE srv[r]]
    /\ cl' = [r \in Reqs |-> IF r \in Transfers THEN "waiting" ELSE cl[r]]
    /\ mainPc' = "race_idem"
    /\ UNCHANGED <<seqVars, raceTests, initial, raceMode, idempotencyMode, snap, idemAtJoin,
                   balance, keyUsed, applied, intVars, zapVars, done>>

\* the transfers the server debited
Executed == {t \in Transfers : srv[t] = "committed"}

IdempotencyVulnerableAny(n) == n >= 1
IdempotencyVulnerableOffByOne(n) == n > 2

\* 'vulnerable': successful_transfers > 1
IdempotencyVulnerable(n) == n > 1

(* The idempotency result is appended; race_condition_tests is set, and  *)
(* results['tests'] extended with both results.  The function returns:    *)
(* its locals, the threads' results among them, are gone.                 *)
JoinTransfers ==
    /\ mainPc = "race_idem"
    /\ \A t \in Transfers : cl[t] # "waiting"
    /\ raceTests' = Append(raceLocal,
                      Result("IDEMPOTENCY_RACE_CONDITION", "-",
                             IdempotencyVulnerable(Cardinality(SuccessfulOf(Transfers)))))
    /\ idemAtJoin' = <<[double |-> Cardinality(Executed) > 1,
                        allOk |-> Executed \subseteq SuccessfulOf(Transfers)]>>
    /\ initial' = PyNone /\ raceLocal' = <<>> /\ cl' = [r \in Reqs |-> "idle"]
    /\ mainPc' = "integrity"
    /\ UNCHANGED <<seqVars, raceMode, idempotencyMode, wdAtRead, serverVars, intVars, zapVars, done>>

-----------------------------------------------------------------------------
(* test_transaction_integrity: balance before, a transfer to a wallet     *)
(* that does not exist, balance after, in one try.  Neither read checks   *)
(* its status.  The server may reject the transfer, answer 500 after the  *)
(* debit, or accept it.                                                    *)
ReadValue(o) == IF o = "ok" THEN balance ELSE 0

IntegrityBalanceBefore ==
    /\ mainPc = "integrity"
    /\ \E o \in ReadOutcomes :
          IF o = "raise"
          THEN mainPc' = "insufficient" /\ UNCHANGED intVars
          ELSE /\ intBefore' = <<ReadValue(o)>>
               /\ intGhost' = <<[readsOk |-> o = "ok",
                                 debitedOnError |-> FALSE, accepted |-> FALSE,
                                 flagged |-> FALSE]>>
               /\ mainPc' = "int_transfer"
    /\ UNCHANGED <<seqVars, raceVars, serverVars, zapVars, done>>

IntegrityInvalidTransfer ==
    /\ mainPc = "int_transfer"
    /\ \E o \in {"denied", "partial", "ok", "raise"} :
          /\ balance' = IF o \in {"partial", "ok"} THEN balance - WithdrawalUnits ELSE balance
          /\ intGhost' = <<[Head(intGhost) EXCEPT !.debitedOnError = o = "partial",
                                                  !.accepted = o = "ok"]>>
          /\ mainPc' = IF o = "raise" THEN "insufficient" ELSE "int_after"
    /\ UNCHANGED <<seqVars, raceVars, keyUsed, srv, snap, applied, intBefore, zapVars, done>>

IntegrityBalanceAfterNoStatus ==
    /\ mainPc = "int_after"
    /\ \E o \in ReadOutcomes :
          LET g == Head(intGhost)
              vulnerable == Head(intBefore) # ReadValue(o)
          IN intGhost' = <<[g EXCEPT !.readsOk = g.readsOk /\ o = "ok",
                                        !.flagged = o # "raise" /\ vulnerable]>>
    /\ mainPc' = "insufficient"
    /\ UNCHANGED <<idx, token, walletId, transferPayloads, raceVars, serverVars, intBefore, zapVars, done>>

IntegrityBalanceAfter ==
    /\ mainPc = "int_after"
    /\ \E o \in ReadOutcomes :
          LET g == Head(intGhost)
              vulnerable == ~g.accepted /\ Head(intBefore) # ReadValue(o)
          IN intGhost' = <<[g EXCEPT !.readsOk = g.readsOk /\ o = "ok",
                                        !.flagged = o # "raise" /\ vulnerable]>>
    /\ mainPc' = "insufficient"
    /\ UNCHANGED <<idx, token, walletId, transferPayloads, raceVars, serverVars, intBefore, zapVars, done>>

(* A transfer of 999999999.99 is vulnerable when accepted; then          *)
(* test_transaction_integrity returns and balance_before is gone.         *)
InsufficientBalance ==
    /\ mainPc = "insufficient"
    /\ mainPc' = "authz" /\ intBefore' = PyNone
    /\ UNCHANGED <<idx, token, walletId, transferPayloads, raceVars, serverVars, intGhost, zapVars, done>>

(* test_authorization_bypass: each endpoint without credentials, then the *)
(* balance with each invalid token; a 200 is vulnerable.                   *)
AuthorizationBypass ==
    /\ mainPc = "authz"
    /\ LoopStep(AuthEndpoints + InvalidTokens, "scan")
    /\ UNCHANGED <<token, walletId, transferPayloads, raceVars, serverVars, intVars, zapVars, done>>
-----------------------------------------------------------------------------
(* run_active_scan: the spider, then the active scan, each polled with    *)
(* `while int(status) < 100` and no bound; ZAP makes progress on its own. *)
(* Every ZAP call may raise (ZAP not listening), and nothing catches it:  *)
(* main() dies before generate_report.                                     *)
ZapCalls == {"scan", "spider", "ascan_start", "ascan", "alerts"}

\* int(status) < 100
ScanRunning(status) == status < ZapSteps

StartSpider ==
    /\ mainPc = "scan"
    /\ zap' = 0 /\ zapSeen' = 0 /\ mainPc' = "spider"
    /\ UNCHANGED <<seqVars, raceVars, serverVars, intVars, done>>

PollScan ==
    /\ mainPc \in {"spider", "ascan"}
    /\ zapSeen' = zap
    /\ mainPc' = IF ScanRunning(zap) THEN mainPc
                 ELSE IF mainPc = "spider" THEN "ascan_start" ELSE "alerts"
    /\ UNCHANGED <<seqVars, raceVars, serverVars, intVars, zap, done>>

StartActiveScan ==
    /\ mainPc = "ascan_start"
    /\ zap' = 0 /\ zapSeen' = 0 /\ mainPc' = "ascan"
    /\ UNCHANGED <<seqVars, raceVars, serverVars, intVars, done>>

\* core.alerts() goes to results['vulnerabilities'], which no property reads
GetAlerts ==
    /\ mainPc = "alerts" /\ mainPc' = "report"
    /\ UNCHANGED <<seqVars, raceVars, serverVars, intVars, zapVars, done>>

ZapUnavailable ==
    /\ mainPc \in ZapCalls /\ mainPc' = "crashed"
    /\ UNCHANGED <<seqVars, raceVars, serverVars, intVars, zapVars, done>>

ZapProgress ==
    /\ mainPc \in {"spider", "ascan"} /\ zap < ZapSteps
    /\ zap' = zap + 1
    /\ UNCHANGED <<mainPc, seqVars, raceVars, serverVars, intVars, zapSeen, done>>

(* generate_report: the summary counts results['tests'] and              *)
(* race_condition_tests, the JSON file is written and the summary printed. *)
GenerateReport ==
    /\ mainPc = "report"
    /\ done' = TRUE
    /\ mainPc' = "done"
    /\ UNCHANGED <<seqVars, raceVars, serverVars, intVars, zapVars>>

Main ==
    \/ SetupAuthentication \/ SetupTestWallet
    \/ DirectBalanceManipulation \/ TransferAmountManipulation \/ IdorVulnerabilities
    \/ RaceInitialBalance \/ JoinWithdrawals \/ FinalBalance \/ JoinTransfers
    \/ IntegrityBalanceBefore \/ IntegrityInvalidTransfer \/ IntegrityBalanceAfter
    \/ InsufficientBalance \/ AuthorizationBypass
    \/ StartSpider \/ PollScan \/ StartActiveScan \/ GetAlerts \/ GenerateReport

Next ==
    \/ Main \/ ZapUnavailable \/ ZapProgress
    \/ \E r \in Reqs : Server(r) \/ ClientResponse(r) \/ ClientTimeout(r)

Spec == Init /\ [][Next]_vars

-----------------------------------------------------------------------------
Pcs == {"auth", "wallet", "balance", "amounts", "idor", "race_initial",
        "race_withdraw", "race_final", "race_idem", "integrity", "int_transfer",
        "int_after", "insufficient", "authz", "report", "done", "crashed"} \cup ZapCalls

(* The state has its types, and a client only holds a status for a        *)
(* request the server has answered.                                        *)
ZapTypeOK ==
    /\ mainPc \in Pcs /\ token \in BOOLEAN /\ walletId \in BOOLEAN
    /\ srv \in [Reqs -> {"idle", "queued", "read", "checked"} \cup Answered]
    /\ cl \in [Reqs -> {"idle", "waiting", "ok", "denied", "raised"}]
    /\ \A r \in Reqs : cl[r] \in {"ok", "denied"} => srv[r] \in Answered
    /\ zapSeen <= zap /\ zap <= ZapSteps

RaceResults(name) == {raceTests[i] : i \in {j \in DOMAIN raceTests : raceTests[j].test = name}}
WdRead == Head(wdAtRead)

(* CONCURRENT_WITHDRAWAL_RACE_CONDITION is flagged only when the server   *)
(* lost an update, when a withdrawal the client counted as failed (its    *)
(* request timed out) was applied before the final read, or when that     *)
(* read was not a 200 and its missing balance counted as 0.               *)
WithdrawalFlagSound ==
    \A res \in RaceResults("CONCURRENT_WITHDRAWAL_RACE_CONDITION") :
        res.vulnerable => WdRead.lost \/ WdRead.hidden \/ ~WdRead.readOk

(* A lost update of the server is flagged, unless a timed-out withdrawal   *)
(* applied before the final read hides it: the withdrawal test detects    *)
(* every race it can see.                                                  *)
WithdrawalLostUpdateFlagged ==
    \A res \in RaceResults("CONCURRENT_WITHDRAWAL_RACE_CONDITION") :
        WdRead.lost /\ ~WdRead.hidden /\ WdRead.readOk => res.vulnerable

IdemJoin == Head(idemAtJoin)

(* IDEMPOTENCY_RACE_CONDITION is flagged only when the shared key was     *)
(* debited more than once, or when the server replays its stored 200 to   *)
(* the duplicates, which is correct idempotent behaviour.                  *)
IdempotencyFlagSound ==
    \A res \in RaceResults("IDEMPOTENCY_RACE_CONDITION") :
        res.vulnerable => IdemJoin.double \/ idempotencyMode = "replay"

(* A double debit under the shared key is flagged when every debited      *)
(* request got its 200 back.                                               *)
IdempotencyDoubleSpendFlagged ==
    \A res \in RaceResults("IDEMPOTENCY_RACE_CONDITION") :
        IdemJoin.double /\ IdemJoin.allOk => res.vulnerable

(* TRANSACTION_ATOMICITY is flagged only when the rejected transfer        *)
(* changed the balance, when a withdrawal or transfer the race test gave   *)
(* up on was applied between the two reads, or when a read was not a 200. *)
IntegrityFlagSound ==
    intGhost # PyNone /\ Head(intGhost).flagged =>
        LET g == Head(intGhost) IN g.debitedOnError \/ applied \/ ~g.readsOk
====
