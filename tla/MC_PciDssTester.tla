--------------------------- MODULE MC_PciDssTester ---------------------------
(* The PCI DSS tester with the default configuration of _load_config: two  *)
(* target hosts, two network segments, two cardholder data environments,  *)
(* the test Visa and MasterCard numbers, threshold 95.  The port, credential,*)
(* pattern and file lists are cut to the sizes given in the .cfg files.    *)
EXTENDS PciDssTester

MCHosts == <<"api.example.com", "api-staging.example.com">>
MCAllowedPorts == <<443, 22>>
MCBlockedPorts == <<23>>

\* 16-digit numbers as the card regex finds them, separators removed
TestVisa == <<4,1,1,1, 1,1,1,1, 1,1,1,1, 1,1,1,1>>
TestMasterCard == <<5,5,5,5, 5,5,5,5, 5,5,5,5, 4,4,4,4>>
RealVisa == <<4,0,1,2, 8,8,8,8, 8,8,8,8, 1,8,8,1>>
BadChecksum == <<4,0,1,2, 8,8,8,8, 8,8,8,8, 1,8,8,2>>

\* expired, under a day left, 30 full days left, 31 full days left
MCCertHours == {-1, 12, 720, 744}

\* UTC-12, UTC and UTC+3: the 12 hours left read as a day, the 31 days as 30
MCUtcOffsets == {-12, 0, 3}

MCTestCardNumbers == {TestVisa, TestMasterCard}
\* no match, only a test card, a wrong checksum before a real number
MCPanLists == {<<>>, <<TestVisa>>, <<BadChecksum, RealVisa>>}

\* every digit sequence of length at most 4, and the numbers above
MCLuhnInputs ==
    UNION {[1..n -> 0..9] : n \in 0..4} \cup MCTestCardNumbers \cup {RealVisa, BadChecksum}
====
