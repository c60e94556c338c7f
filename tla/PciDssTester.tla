---------------------------- MODULE PciDssTester ----------------------------
(***************************************************************************)
(* The PCI DSS compliance tester, pci-dss-compliance-tester.py.           *)
(*                                                                         *)
(* run_pci_dss_compliance_validation runs the tests of requirements 1-4   *)
(* one after the other in the main thread (the lock of log_result is      *)
(* never contended), then generate_pci_compliance_report counts the       *)
(* results, decides is_compliant and writes the JSON report, and          *)
(* __main__ maps the outcome to the exit code.                            *)
(*                                                                         *)
(* Every test only appends results, and the report reads nothing of a     *)
(* result but its status, so self.results is abstracted to the number of  *)
(* results of each status.  What the environment answers (a socket        *)
(* connect, an HTTP reply, a subprocess, the content of a file, the       *)
(* expiry of a certificate) is chosen with \E in the step that asks.      *)
(***************************************************************************)
EXTENDS Integers, Sequences, FiniteSets, SequencesExt

CONSTANTS
    Hosts,            \* config['target_hosts'], in order
    AllowedPorts,     \* allowed_ports of _test_firewall_rules, in order
    BlockedPorts,     \* blocked_ports of _test_firewall_rules, in order
    Creds,            \* default_credentials of _test_vendor_default_passwords
    ConfigFiles,      \* config_files_to_check
    InsecurePatterns, \* insecure_patterns
    NetworkSegments,  \* len(config['network_segments'])
    DataEnvs,         \* config['cardholder_data_environments']
    FilesPerDir,      \* files per scanned directory
    ScanCap,          \* files[:100] of _scan_directory_for_card_data
    SensitiveCap,     \* files[:50] of _scan_for_sensitive_patterns
    LogDirs,          \* log_directories
    PanLists,         \* what card_number_pattern.findall can return
    TestCardNumbers,  \* config['test_card_numbers'] (digit sequences)
    CertHours,        \* hours until notAfter; <= 0 when expired
    UtcOffsets,       \* hours the host's local clock is ahead of UTC
    Threshold,        \* config['compliance_threshold']
    Platforms,        \* sys.platform: "win", "linux" or another
    LuhnInputs        \* digit sequences the Luhn loop is checked on

ASSUME /\ Len(Hosts) >= 1 /\ Len(BlockedPorts) >= 1
       /\ {NetworkSegments, FilesPerDir, ScanCap, SensitiveCap} \subseteq Nat
       /\ Threshold \in Nat /\ Platforms \subseteq {"win", "linux", "other"}

PyNone == <<>>
HostSet == ToSet(Hosts)
Statuses == {"PASS", "FAIL", "WARNING"}

\* the test functions of each requirement, in the order they call them
Req1Steps == <<"firewall_rules", "router_configuration", "dmz_configuration",
               "personal_firewall">>
Req2Steps == <<"vendor_default_passwords", "system_configuration",
               "administrative_access">>
Req3Steps == <<"cardholder_data_retention", "sensitive_authentication_data",
               "pan_masking">>
CardholderDataEncryptionSteps == <<"database_encryption", "filesystem_encryption">>
Req4Steps == <<"transmission_encryption", "unencrypted_pan_transmission">>
Steps == Req1Steps \o Req2Steps \o Req3Steps \o CardholderDataEncryptionSteps
           \o Req4Steps \o <<"report">>

StepIndex(s) == CHOOSE i \in DOMAIN Steps : Steps[i] = s

VARIABLES
    platform,     \* sys.platform
    step,         \* index in Steps of the test running next
    tally,        \* number of results of each status in self.results
    logTruth,     \* log files holding a real PAN (history)
    logFound,     \* log files reported as holding a PAN (history)
    exitCode      \* <<code>> once the process exited

vars == <<platform, step, tally, logTruth, logFound, exitCode>>

-----------------------------------------------------------------------------
(* _is_valid_card_number: test cards are skipped, then the Luhn loop       *)
(* doubles digits[i] for i in range(len - 2, -1, -2), subtracts 9 from a   *)
(* doubled digit above 9 and checks the sum modulo 10.                     *)
LuhnIndicesOffByOne(n) == {i \in 0..(n - 1) : (n - 1 - i) % 2 = 0}
LuhnIndices(n) == {i \in 0..(n - 2) : (n - 2 - i) % 2 = 0}
LuhnDigit(d) == IF 2 * d > 9 THEN 2 * d - 9 ELSE 2 * d
LuhnLoopSum(ds) ==
    MapThenSumSet(LAMBDA k : IF k - 1 \in LuhnIndices(Len(ds))
                             THEN LuhnDigit(ds[k]) ELSE ds[k],
                  DOMAIN ds)
IsValidCardNumber(c) ==
    c \notin TestCardNumbers /\ LuhnLoopSum(c) % 10 = 0

\* what a file of a scanned directory turns out to be
FileStates == {[kind |-> "binary", pans |-> <<>>],
               [kind |-> "unreadable", pans |-> <<>>]}
              \cup {[kind |-> "text", pans |-> p] : p \in PanLists}
HoldsValidCard(st) ==
    st.kind = "text" /\ \E i \in DOMAIN st.pans : IsValidCardNumber(st.pans[i])

DataFiles == DataEnvs \X (1..FilesPerDir)
LogFiles == LogDirs \X (1..FilesPerDir)

-----------------------------------------------------------------------------
At(s) == exitCode = PyNone /\ Steps[step] = s
Log(pass, fail, warn) ==
    tally' = [tally EXCEPT !["PASS"] = @ + pass, !["FAIL"] = @ + fail,
                           !["WARNING"] = @ + warn]
LogCounts(c) == Log(c[1], c[2], c[3])
Advance == step' = step + 1
Untouched == UNCHANGED <<platform, logTruth, logFound, exitCode>>

Init ==
    /\ platform \in Platforms
    /\ step = 1
    /\ tally = [s \in Statuses |-> 0]
    /\ logTruth = {}
    /\ logFound = {}
    /\ exitCode = PyNone

-----------------------------------------------------------------------------
(* Requirement 1.  _test_firewall_rules connects to every allowed, then   *)
(* every blocked port of each host in turn.  A connect ends "open",        *)
(* "closed" (socket.timeout or ConnectionRefusedError, caught per port)    *)
(* or "error" (any other OSError, such as a failed name lookup, which the  *)
(* outer except catches, so no later port or host is probed).              *)
Ports == AllowedPorts \o BlockedPorts
NP == Len(Ports)
Probes == 1..(Len(Hosts) * NP)
HostOf(k) == (k - 1) \div NP + 1
PortIdx(k) == ((k - 1) % NP) + 1
IsBlockedProbe(k) == PortIdx(k) > Len(AllowedPorts)
PortOf(k) == Ports[PortIdx(k)]
ProbeOutcomes == {"open", "closed", "error"}

FirstError(out) ==
    IF \E k \in Probes : out[k] = "error"
    THEN Min({k \in Probes : out[k] = "error"}) ELSE Len(Hosts) * NP + 1
AbortFailsSilent(out) == 0
AbortFails(out) == IF FirstError(out) \in Probes THEN 1 ELSE 0
FirewallCounts(out) ==
    LET reached == {k \in Probes : k < FirstError(out)}
        fails == {k \in reached :
                    \/ ~IsBlockedProbe(k) /\ PortOf(k) \in {80, 443} /\ out[k] = "closed"
                    \/ IsBlockedProbe(k) /\ out[k] = "open"}
        \* blocked_count == len(blocked_ports), checked after the host's ports
        blocking == {i \in 1..Len(Hosts) :
                       \A k \in Probes : HostOf(k) = i =>
                          k \in reached /\ (IsBlockedProbe(k) => out[k] = "closed")}
    IN <<Cardinality(blocking), Cardinality(fails) + AbortFails(out), 0>>

TestFirewallRules ==
    /\ At("firewall_rules")
    /\ \E out \in [Probes -> ProbeOutcomes] : LogCounts(FirewallCounts(out))
    /\ Advance /\ Untouched

\* a WARNING asking for a manual router review, always
TestRouterConfiguration ==
    /\ At("router_configuration")
    /\ Log(0, 0, 1) /\ Advance /\ Untouched

\* a WARNING for every network segment, always
TestDmzConfiguration ==
    /\ At("dmz_configuration")
    /\ Log(0, 0, NetworkSegments) /\ Advance /\ Untouched

\* netsh or ufw reports the firewall "on" or "off", or the command fails;
\* an enabled Windows firewall logs nothing, another platform nothing
PersonalFirewallCounts(p, out) ==
    CASE p = "other"   -> <<0, 0, 0>>
      [] out = "error" -> <<0, 0, 1>>
      [] out = "off"   -> <<0, 1, 0>>
      [] p = "linux"   -> <<1, 0, 0>>
      [] OTHER         -> <<0, 0, 0>>

TestPersonalFirewallConfiguration ==
    /\ At("personal_firewall")
    /\ \E out \in {"on", "off", "error"} :
          LogCounts(PersonalFirewallCounts(platform, out))
    /\ Advance /\ Untouched

-----------------------------------------------------------------------------
(* Requirement 2.  _test_ssh_credentials always returns False; a web      *)
(* login with a default credential succeeds or not; each success is a     *)
(* FAIL.  A configuration file holds some of the insecure patterns (none   *)
(* when it is missing or unreadable), each a FAIL.  GET http://host/admin  *)
(* ends with status 200 (after following redirects), another status, or  *)
(* a RequestException; a 200 is a FAIL.                                    *)
SshAccepts(x) == FALSE

TestVendorDefaultPasswords ==
    /\ At("vendor_default_passwords")
    /\ \E web \in [HostSet \X Creds -> BOOLEAN] :
          Log(0, Cardinality({x \in HostSet \X Creds : SshAccepts(x)})
                 + Cardinality({x \in HostSet \X Creds : web[x]}), 0)
    /\ Advance /\ Untouched

TestSystemConfigurationSecurity ==
    /\ At("system_configuration")
    /\ \E found \in [ConfigFiles -> SUBSET InsecurePatterns] :
          Log(0, Cardinality({fp \in ConfigFiles \X InsecurePatterns :
                                 fp[2] \in found[fp[1]]}), 0)
    /\ Advance /\ Untouched

TestAdministrativeAccessEncryption ==
    /\ At("administrative_access")
    /\ \E reply \in [HostSet -> {"200", "other", "error"}] :
          Log(0, Cardinality({h \in HostSet : reply[h] = "200"}), 0)
    /\ Advance /\ Untouched

-----------------------------------------------------------------------------
(* The Luhn check as it is usually stated, for the properties: from the    *)
(* rightmost digit, every second digit is doubled and the digits of every  *)
(* term are added; the number is valid when the total ends in 0.          *)
RECURSIVE LuhnTotal(_, _)
LuhnTotal(ds, dbl) ==
    IF ds = <<>> THEN 0
    ELSE LET d == IF dbl THEN 2 * Last(ds) ELSE Last(ds)
         IN (d \div 10) + (d % 10) + LuhnTotal(Front(ds), ~dbl)
LuhnValid(ds) == LuhnTotal(ds, FALSE) % 10 = 0
RealPan(c) == c \notin TestCardNumbers /\ LuhnValid(c)

(* Requirement 3.  A cardholder data directory exists or not; of its      *)
(* files the first ScanCap are looked at, and a readable text file with a  *)
(* match that _is_valid_card_number accepts is one FAIL (the break leaves  *)
(* the loop over that file's matches).  The sensitive-data scan looks at   *)
(* the first SensitiveCap files; a file matching a pattern is one FAIL.    *)
(* os.walk swallows directory errors, and the per-file except skips an     *)
(* unreadable file, so neither scan logs its "unable to scan" result.      *)
CardFileReported(present, content, f) ==
    f[1] \in present /\ f[2] <= ScanCap /\ HoldsValidCard(content[f])

TestCardholderDataRetention ==
    /\ At("cardholder_data_retention")
    /\ \E present \in SUBSET DataEnvs, content \in [DataFiles -> FileStates] :
          Log(0, Cardinality({f \in DataFiles : CardFileReported(present, content, f)}), 0)
    /\ Advance
    /\ UNCHANGED <<platform, logTruth, logFound, exitCode>>

TestSensitiveAuthenticationData ==
    /\ At("sensitive_authentication_data")
    /\ \E present \in SUBSET DataEnvs,
          seen \in [DataFiles -> {"skipped", "clean", "sensitive"}] :
          Log(0, Cardinality({f \in DataFiles :
                                 /\ f[1] \in present /\ f[2] <= SensitiveCap
                                 /\ seen[f] = "sensitive"}), 0)
    /\ Advance
    /\ UNCHANGED <<platform, logTruth, logFound, exitCode>>

\* a WARNING asking for a manual review of PAN masking, always
TestPanMasking ==
    /\ At("pan_masking")
    /\ Log(0, 0, 1) /\ Advance /\ Untouched

\* a WARNING asking for a manual review of database encryption, always
TestDatabaseEncryption ==
    /\ At("database_encryption")
    /\ Log(0, 0, 1) /\ Advance /\ Untouched

\* on Linux, lsblk -f shows crypto_LUKS or not, or the command fails
FilesystemEncryptionCounts(p, out) ==
    CASE p # "linux"   -> <<0, 0, 0>>
      [] out = "luks"  -> <<1, 0, 0>>
      [] out = "plain" -> <<0, 1, 0>>
      [] OTHER         -> <<0, 0, 1>>

TestFilesystemEncryption ==
    /\ At("filesystem_encryption")
    /\ \E out \in {"luks", "plain", "error"} :
          LogCounts(FilesystemEncryptionCounts(platform, out))
    /\ Advance /\ Untouched

-----------------------------------------------------------------------------
(* Requirement 4.  _test_ssl_tls_configuration: the verified handshake    *)
(* fails for an expired certificate (or an unreachable host), logging      *)
(* "Unable to test" as a FAIL; otherwise days_until_expiry is the floor, *)
(* in days, of notAfter (read as a naive GMT time) minus the naive local   *)
(* datetime.now(): the time left less the host's UTC offset.  <= 0 is an  *)
(* "expired" FAIL, <= 30 a WARNING, and more a PASS.  The weak-protocol probe uses an SSLContext with no CA     *)
(* certificates loaded, so its verified handshake never completes and      *)
(* supports_weak_protocols stays False; supports_weak_ciphers is never set.*)
DaysUntilExpiry(hours, off) == (hours - off) \div 24
CertVerdictOf(hours, off) ==
    CASE hours <= 0                       -> "FAIL_ERROR"
      [] DaysUntilExpiry(hours, off) <= 0  -> "FAIL_EXPIRED"
      [] DaysUntilExpiry(hours, off) <= 30 -> "WARNING"
      [] OTHER                            -> "PASS"
WeakProbeCompletes(h) == FALSE

TestTransmissionEncryption ==
    /\ At("transmission_encryption")
    /\ \E hours \in [HostSet -> CertHours], off \in UtcOffsets :
          LET v == [h \in HostSet |-> CertVerdictOf(hours[h], off)]
              n(x) == Cardinality({h \in HostSet : v[h] = x})
          IN Log(n("PASS"),
                 n("FAIL_ERROR") + n("FAIL_EXPIRED")
                   + Cardinality({h \in HostSet :
                                    v[h] # "FAIL_ERROR" /\ WeakProbeCompletes(h)}),
                 n("WARNING"))
    /\ Advance
    /\ UNCHANGED <<platform, logTruth, logFound, exitCode>>

(* _scan_logs_for_unencrypted_pans walks each existing log directory; the *)
(* first .log/.txt file with a valid PAN is a FAIL, and its break leaves   *)
(* the loop over the directory's files, so the files after it are not      *)
(* read.                                                                   *)
LogPanFound(present, content, f) == f[1] \in present /\ HoldsValidCard(content[f])
ScanLogsForUnencryptedPans(present, content) ==
    {f \in LogFiles :
        /\ LogPanFound(present, content, f)
        /\ \A g \in LogFiles :
              g[1] = f[1] /\ g[2] < f[2] => ~LogPanFound(present, content, g)}

TestUnencryptedPanTransmission ==
    /\ At("unencrypted_pan_transmission")
    /\ \E present \in SUBSET LogDirs, content \in [LogFiles -> FileStates] :
          LET found == ScanLogsForUnencryptedPans(present, content)
          IN /\ Log(0, Cardinality(found), 0)
             /\ logFound' = found
             /\ logTruth' = {f \in LogFiles :
                               /\ f[1] \in present /\ content[f].kind = "text"
                               /\ \E i \in DOMAIN content[f].pans :
                                     RealPan(content[f].pans[i])}
    /\ Advance
    /\ UNCHANGED <<platform, exitCode>>

-----------------------------------------------------------------------------
(* generate_pci_compliance_report: compliance_percentage is passed /      *)
(* max(total - not_applicable, 1) * 100 (0 without results; no test logs  *)
(* NOT_APPLICABLE), compared with the threshold exactly as integers are,   *)
(* since passed / total * 100 >= 95.0 agrees with 100 * passed >= 95 *     *)
(* total for every total below 200.  Writing the JSON report can raise,    *)
(* and __main__ turns that into exit code 3.                               *)
Total(t) == t["PASS"] + t["FAIL"] + t["WARNING"]
IsCompliantOr(t) ==
    \/ IF Total(t) > 0 THEN 100 * t["PASS"] >= Threshold * Total(t) ELSE 0 >= Threshold
    \/ t["FAIL"] = 0
IsCompliant(t) ==
    /\ IF Total(t) > 0 THEN 100 * t["PASS"] >= Threshold * Total(t) ELSE 0 >= Threshold
    /\ t["FAIL"] = 0

MainExitFailCount(compliant, saved) == IF saved THEN <<tally["FAIL"]>> ELSE <<3>>
\* __main__: 0 when compliant, 1 when not, 3 when the run raised
MainExit(compliant, saved) ==
    CASE ~saved    -> <<3>>
      [] compliant -> <<0>>
      [] OTHER     -> <<1>>

GeneratePciComplianceReport ==
    /\ At("report")
    /\ \E saved \in BOOLEAN : exitCode' = MainExit(IsCompliant(tally), saved)
    /\ UNCHANGED <<platform, step, tally, logTruth, logFound>>

\* a KeyboardInterrupt at any point ends the run with exit code 2
Interrupt ==
    /\ exitCode = PyNone
    /\ exitCode' = <<2>>
    /\ UNCHANGED <<platform, step, tally, logTruth, logFound>>

Next ==
    \/ TestFirewallRules \/ TestRouterConfiguration \/ TestDmzConfiguration
    \/ TestPersonalFirewallConfiguration
    \/ TestVendorDefaultPasswords \/ TestSystemConfigurationSecurity
    \/ TestAdministrativeAccessEncryption
    \/ TestCardholderDataRetention \/ TestSensitiveAuthenticationData
    \/ TestPanMasking \/ TestDatabaseEncryption \/ TestFilesystemEncryption
    \/ TestTransmissionEncryption \/ TestUnencryptedPanTransmission
    \/ GeneratePciComplianceReport
    \/ Interrupt

Spec == Init /\ [][Next]_vars

-----------------------------------------------------------------------------
PciTypeOK ==
    /\ platform \in Platforms
    /\ step \in 1..Len(Steps)
    /\ tally \in [Statuses -> Nat]
    /\ logFound \subseteq LogFiles /\ logTruth \subseteq LogFiles
    /\ exitCode \in {PyNone, <<0>>, <<1>>, <<2>>, <<3>>}

\* When the cardholder data scan starts validating card numbers, the loop
\* of _is_valid_card_number over range(len - 2, -1, -2) accepts exactly the
\* digit sequences the usual right-to-left Luhn rule accepts.
LuhnMatchesReference ==
    step = StepIndex("cardholder_data_retention") =>
        \A ds \in LuhnInputs : (LuhnLoopSum(ds) % 10 = 0) = LuhnValid(ds)

\* _test_firewall_rules: a pass over the hosts that does not log the
\* port-blocking PASS for every host logs at least one FAIL, also when a
\* connect error ends the pass before the later hosts are probed.
FirewallGapsReported ==
    [][TestFirewallRules =>
         \/ tally'["PASS"] - tally["PASS"] = Len(Hosts)
         \/ tally'["FAIL"] > tally["FAIL"]]_vars

\* With the default configuration (two hosts, two network segments) the
\* manual-review WARNINGs that are always logged outnumber every PASS the
\* tests can log, so __main__ never exits 0.
DefaultConfigNeverCompliant == exitCode # <<0>>

\* _scan_logs_for_unencrypted_pans ("Don't continue scanning this file"):
\* every log file with a real PAN in an existing log directory is reported.
LogPansReported ==
    step > StepIndex("unencrypted_pan_transmission") => logFound = logTruth
====
