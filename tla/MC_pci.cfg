\* Requirements 1-4, the report and the exit code under the default configuration.
CONSTANTS
    Hosts <- MCHosts
    AllowedPorts <- MCAllowedPorts
    BlockedPorts <- MCBlockedPorts
    Creds = {"admin/admin"}
    ConfigFiles = {"/etc/ssh/sshd_config"}
    InsecurePatterns = {"PermitRootLogin yes", "debug: true"}
    NetworkSegments = 2
    DataEnvs = {"/opt/waqiti/data", "/var/lib/waqiti"}
    FilesPerDir = 2
    ScanCap = 1
    SensitiveCap = 1
    LogDirs = {"/var/log"}
    PanLists <- MCPanLists
    TestCardNumbers <- MCTestCardNumbers
    CertHours <- MCCertHours
    UtcOffsets <- MCUtcOffsets
    Threshold = 95
    Platforms = {"win", "linux", "other"}
    LuhnInputs <- MCLuhnInputs
SPECIFICATION Spec
INVARIANTS
    PciTypeOK
    LuhnMatchesReference
    DefaultConfigNeverCompliant
PROPERTIES
    FirewallGapsReported
\* the process exits after the report or an interrupt
CHECK_DEADLOCK FALSE
