\* The deep validator's bean verdict over every corpus of two files built
\* from BeanCorpus, without read errors.
CONSTANTS
    f1 = f1  f2 = f2  f3 = f3  p = p  q = q  x = x  A = A  B = B
    m1 = m1  m2 = m2  wallet = wallet  svc1 = svc1  svc2 = svc2
    NoPkg = NoPkg  NoClass = NoClass  NotFeign = NotFeign  NoFallback = NoFallback
    Methods = {m1, m2}
    Vars = {wallet}
    Catalogue <- MCCatalogue
    Services = {svc1, svc2}
    CriticalCap = 1
    ErrorCap = 1
    WarningCap = 1
    Files = {f1, f2}
    FileOrder <- MCOrder2
    ServiceOf <- MCServiceOf2
    Pkgs = {p, x}
    InternalPkgs = {p}
    Names = {A, B}
    FileChoices <- BeanCorpus
    CommonMethods <- MCCommonMethods
    ServiceSample <- MCOrder2
    SampleCap = 1
    TestFiles = {}
    MaxReadFailures = 0
SPECIFICATION SuiteSpec
INVARIANTS
    DeepBeanFindingSound
CHECK_DEADLOCK FALSE
