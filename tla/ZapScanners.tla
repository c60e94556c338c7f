----------------------------- MODULE ZapScanners -----------------------------
(***************************************************************************)
(* The scripts of security-testing/owasp-zap/ that run: the wallet and   *)
(* the payment scanners.  (fraud-detection-security-scan.py does not     *)
(* compile: the unterminated string of line 456 is a SyntaxError, so     *)
(* python stops before any of it executes.)  Each scanner is its own     *)
(* program, run on its own against its own service and the ZAP daemon;   *)
(* nothing in the repository runs both together.  A behaviour here is a  *)
(* run of one of them, chosen in the initial state, while the other stays *)
(* at its initial state.                                                   *)
(***************************************************************************)
EXTENDS ZapWalletScan

CONSTANTS
    SqlPayloads, XssPayloads, PayAmounts, PaymentIds, RateRequests, RateLimits,
    OversizedFields, NullBytePayloads

Programs == {"wallet", "payment"}

VARIABLES
    program,
    payPc, payIdx, payToken, payAmountAnswer, payAmountRecorded,
    rateLimit, rateRaised, rateResult, payZap, payZapSeen

payVars == <<payPc, payIdx, payToken, payAmountAnswer, payAmountRecorded,
             rateLimit, rateRaised, rateResult, payZap, payZapSeen>>
allVars == <<program, vars, payVars>>

Pay == INSTANCE ZapPaymentScan
         WITH mainPc <- payPc, idx <- payIdx, token <- payToken,
              amountAnswer <- payAmountAnswer, amountRecorded <- payAmountRecorded,
              zap <- payZap, zapSeen <- payZapSeen

ScannersInit == program \in Programs /\ Init /\ Pay!Init

\* a step of the wallet scanner, its server or its client threads
WalletStep(A) == program = "wallet" /\ A /\ UNCHANGED <<program, payVars>>
PaymentStep(A) == program = "payment" /\ A /\ UNCHANGED <<program, vars>>

ScannersNext ==
    \/ WalletStep(Next)
    \/ PaymentStep(Pay!Next)

(* No fairness: the properties are invariants.  Nothing bounds the ZAP   *)
(* polls (`while int(status) < 100`), so neither scanner is promised to *)
(* end.                                                                    *)
ScannersSpec == ScannersInit /\ [][ScannersNext]_allVars

-----------------------------------------------------------------------------
\* The type invariants of the two scanners: the wallet's, including that a
\* client thread only has a status once the server answered it, and the
\* payment scanner's, including that each test loop stays within its
\* payload list (the rate test within its 100 requests).
ScannersTypeOK == ZapTypeOK /\ Pay!PayTypeOK

\* The property of the payment scanner, stated in its module.
RateLimitFlagSound == Pay!RateLimitFlagSound
=============================================================================
