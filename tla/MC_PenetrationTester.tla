----------------------- MODULE MC_PenetrationTester -----------------------
(***************************************************************************)
(* The test functions each run of PenetrationTester submits.              *)
(***************************************************************************)
EXTENDS PenetrationTester

\* a test that may hang, one with the most branches, and one counted last
ThreeTests == {"session_management", "api_security", "cryptographic_weaknesses"}

\* two tests that both count and both log
TwoTests == {"authentication_bypass", "authorization_flaws"}

AllTests == ToSet(TestFunctions)
=============================================================================
