\* Import resolution, circular imports and the report over every corpus of
\* two files built from ImportCorpus, with one read allowed to fail; the
\* Kafka audit over every tree of two files built from MCKafkaCorpus.
CONSTANTS
    f1 = f1  f2 = f2  f3 = f3  p = p  q = q  x = x  A = A  B = B
    m1 = m1  m2 = m2  wallet = wallet  svc1 = svc1  svc2 = svc2
    NoPkg = NoPkg  NoClass = NoClass  NotFeign = NotFeign  NoFallback = NoFallback
    Methods = {m1, m2}
    Vars = {wallet}
    Catalogue <- MCCatalogue
    Services = {svc1, svc2}
    CriticalCap = 1
    ErrorCap = 1
    WarningCap = 1
    Files = {f1, f2}
    FileOrder <- MCOrder2
    ServiceOf <- MCServiceOf2
    Pkgs = {p, x}
    InternalPkgs = {p}
    Names = {A, B}
    FileChoices <- ImportCorpus
    CommonMethods <- MCCommonMethods
    ServiceSample <- MCOrder2
    SampleCap = 1
    TestFiles = {f2}
    MaxReadFailures = 1
    Topics <- MCTopics
    TopicKeywords <- MCTopicKeywords
    KafkaCorpus <- MCKafkaCorpus
    StaleOrphanSets <- MCStaleOrphanSets
SPECIFICATION AnalysersSpec
INVARIANTS
    AnalysersTypeOK
    ImportResolution
    CyclesAreMutualImports
    ReportCountsExact
    DeepMissingImportsExplained
CHECK_DEADLOCK FALSE
