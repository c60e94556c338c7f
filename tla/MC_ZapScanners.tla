--------------------------- MODULE MC_ZapScanners ---------------------------
(* The wallet scanner with two concurrent withdrawals and two same-key     *)
(* transfers against three server implementations; the payment scanner    *)
(* with a rate limiter at every position of a three-request rate test.     *)
(* Each sequential test loop whose results no property reads is cut to one *)
(* request.                                                                 *)
EXTENDS ZapScanners

MCTransferAmounts == <<"negative", "string">>

\* a correct server, one that loses updates and double-spends a key, and
\* one that replays the stored answer to a reused key
MCServerImpls == {<<"atomic", "dedup">>, <<"racy", "racy">>, <<"atomic", "replay">>}

\* -100.00 and the string "NaN"
MCPayAmounts == <<"nonpositive", "string">>

(* Once test_transaction_integrity has read the balance for the last     *)
(* time the wallet scanner never contacts the wallet again, and no        *)
(* property or step reads the server's state: states that differ only    *)
(* there have the same futures, and are counted as one.  The variables of *)
(* the scanner that does not run keep their initial values, which differ  *)
(* only in the service it would have met: they are left out.               *)
WalletView ==
    <<program,
      IF program = "wallet"
      THEN <<mainPc, idx, token, walletId, transferPayloads, raceTests, raceLocal,
             initial, raceMode, idempotencyMode, cl, wdAtRead, idemAtJoin, applied,
             intBefore, intGhost, zap, zapSeen, done,
             IF Observed THEN <<balance, keyUsed, srv, snap>> ELSE <<>>>>
      ELSE <<>>,
      IF program = "payment" THEN payVars ELSE <<>>>>
====
