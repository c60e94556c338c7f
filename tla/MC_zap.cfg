\* The two ZAP scanners that run: the wallet's race tests against atomic and
\* racy servers, the payment scanner's rate and amount tests.
CONSTANTS
    Withdrawals = {w1, w2}
    Transfers = {t1, t2}
    InitialBalance = 6
    BalancePayloads = 1
    TransferAmounts <- MCTransferAmounts
    IdorIds = 1
    AuthEndpoints = 1
    InvalidTokens = 1
    ServerImpls <- MCServerImpls
    ZapSteps = 1
    SqlPayloads = 1
    XssPayloads = 1
    PayAmounts <- MCPayAmounts
    PaymentIds = 1
    RateRequests = 3
    RateLimits = {1, 2, 3, 4}
    OversizedFields = 1
    NullBytePayloads = 1
SPECIFICATION ScannersSpec
VIEW WalletView
INVARIANTS
    ScannersTypeOK
    WithdrawalFlagSound
    WithdrawalLostUpdateFlagged
    IdempotencyFlagSound
    IdempotencyDoubleSpendFlagged
    IntegrityFlagSound
    RateLimitFlagSound
\* each program exits after its report or when a ZAP call raises
CHECK_DEADLOCK FALSE
