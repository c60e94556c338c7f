------------------------- MODULE ReferenceValidator -------------------------
(***************************************************************************)
(* The reference validator of src/services/validate_references.py, class  *)
(* ReferenceValidator, run by run_validation (lines 451-482).              *)
(*                                                                         *)
(* A corpus is a function from files to abstract contents: what the       *)
(* regular expressions of the validator extract from each file's text.    *)
(* The run is a sequence of phases; every phase but the Feign audit walks  *)
(* the files in the order rglob("*.java") yields them (the same order in  *)
(* every phase: the tree is not changed during a run), and every per-file  *)
(* loop body may take its `except` branch when open()/read() raises.       *)
(***************************************************************************)
EXTENDS Naturals, FiniteSets, Sequences, SequencesExt

CONSTANTS
    Files,           \* the *.java files under services/
    FileOrder,       \* the order rglob("*.java") yields them
    Pkgs,            \* package names
    InternalPkgs,    \* the packages whose dotted name contains 'com.waqiti'
    Names,           \* simple type names
    Methods,         \* method names
    Vars,            \* the variable names of the call-site catalogue
    Catalogue,       \* service_patterns: variable name -> expected class
    FileChoices,     \* the contents a file may have in the checked corpora
    Services,        \* the directories services/<svc>/
    ServiceOf,       \* the service a file path lies under
    NoPkg,           \* no `package x;` statement matched
    NoClass,         \* no `(class|interface|enum) Name` matched
    NotFeign,        \* no @FeignClient(... name="..." ...) matched
    NoFallback,      \* a Feign client without `fallback = X.class`
    MaxReadFailures, \* bound on the reads that raise in one run
    CriticalCap, ErrorCap, WarningCap   \* the [:50], [:100], [:100] slices

Fqn == Pkgs \X Names
Internal(q) == q[1] \in InternalPkgs

Roles == {"Component", "Service", "Repository"}

(* How the primary declaration is written: "public" is `public class X`;  *)
(* "publicOther" is `public abstract class X` or `public final class X`;  *)
(* "none" has no public modifier.                                          *)
Mods == {"public", "publicOther", "none"}

(* What the validator's patterns extract from one file.  `injects` holds  *)
(* the type of each @Autowired/@Inject field as written: a qualified name  *)
(* (an element of Fqn) or a simple name (an element of Names).  `more`    *)
(* holds the names of the later `(class|interface|enum|@interface) X`     *)
(* matches, in a comment or a string, that this validator's re.search     *)
(* never sees (the deep validator's finditer does).                       *)
FileContent ==
    [pkg: Pkgs \cup {NoPkg}, cls: Names \cup {NoClass}, mods: Mods, more: SUBSET Names,
     roles: SUBSET Roles, feign: {NotFeign, NoFallback} \cup Names,
     methods: SUBSET Methods, imports: SUBSET Fqn,
     calls: SUBSET (Vars \X Methods), injects: SUBSET (Fqn \cup Names)]

ASSUME FileChoices \subseteq FileContent
\* javac rejects two single-type imports of one simple name
ASSUME \A c \in FileChoices : \A i, j \in c.imports : i[2] = j[2] => i = j
ASSUME FileOrder \in Seq(Files) /\ IsInjective(FileOrder) /\ ToSet(FileOrder) = Files
ASSUME Catalogue \in [Vars -> Fqn] /\ ServiceOf \in [Files -> Services]
ASSUME MaxReadFailures \in Nat

FilePhases == {"scan", "imports", "calls", "beans", "deps"}
NextPhase == [scan |-> "imports", imports |-> "calls", calls |-> "beans",
              beans |-> "feign", feign |-> "deps", deps |-> "cycles",
              cycles |-> "report", report |-> "done"]

Kinds == {"MissingImport", "NonPublicImport", "UnresolvedMethodCall",
          "MissingBeanClass", "MissingBeanAnnotation",
          "MissingFeignFallback", "FeignFallbackNotComponent"}

VARIABLES
    corpus,            \* the text of every file, as the patterns see it
    phase,             \* the phase run_validation is in
    pos,               \* the index in FileOrder of the file being handled
    registry,          \* class_registry's keys, in insertion order
    publicClasses,     \* public_classes
    componentClasses,  \* component_classes
    serviceClasses,    \* service_classes
    repositoryClasses, \* repository_classes
    feignClients,      \* feign_clients: fqn -> [file, fallback]
    classMethods,      \* class_methods
    brokenImports,     \* report.broken_imports
    brokenCalls,       \* report.broken_method_calls
    missingBeans,      \* report.missing_beans
    brokenFeign,       \* report.broken_feign_clients
    feignDone,         \* the Feign clients validate_feign_clients has visited
    deps,              \* the dependency graph of detect_circular_dependencies
    cycles,            \* report.circular_dependencies
    skipped,           \* <<phase, file>> whose read raised (history)
    report             \* the dict generate_report returns

table == <<registry, publicClasses, componentClasses, serviceClasses,
           repositoryClasses, feignClients, classMethods>>
found == <<brokenImports, brokenCalls, missingBeans, brokenFeign>>
vars == <<corpus, phase, pos, table, found, feignDone, deps, cycles,
          skipped, report>>

Registered == ToSet(registry)
Current == FileOrder[pos]
Declares(c) == c.pkg # NoPkg /\ c.cls # NoClass
FqnOf(c) == <<c.pkg, c.cls>>
Finding(kind, f, site) == [kind |-> kind, file |-> f, site |-> site]
EmptyFunction == [q \in {} |-> NoFallback]

-----------------------------------------------------------------------------
(* Phase 0, scan_all_classes: one file of the rglob loop.  Only a `public` *)
(* immediately before the kind keyword fills group 1 of the class pattern. *)
(* A re-declared name keeps its place in class_registry; the role sets,    *)
(* public_classes and class_methods only ever grow.                        *)
RegisterClass(f) ==
    LET c == corpus[f]
        q == FqnOf(c)
        AddIf(S, b) == IF b THEN S \cup {q} ELSE S
    IN  /\ registry' = IF q \in Registered THEN registry ELSE Append(registry, q)
        /\ publicClasses' = AddIf(publicClasses, c.mods = "public")
        /\ componentClasses' = AddIf(componentClasses, "Component" \in c.roles)
        /\ serviceClasses' = AddIf(serviceClasses, "Service" \in c.roles)
        /\ repositoryClasses' = AddIf(repositoryClasses, "Repository" \in c.roles)
        /\ feignClients' = IF c.feign = NotFeign THEN feignClients
                           ELSE (q :> [file |-> f, fallback |-> c.feign]) @@ feignClients
        /\ classMethods' = [classMethods EXCEPT ![q] = @ \cup c.methods]

(* Mutant: the `if package_match and class_match` guard dropped.          *)
ScanFileNoGuard ==
    /\ phase = "scan"
    /\ pos <= Len(FileOrder)
    /\ RegisterClass(Current)
    /\ pos' = pos + 1
    /\ UNCHANGED <<corpus, phase, found, feignDone, deps, cycles, skipped, report>>

ScanFile ==
    /\ phase = "scan"
    /\ pos <= Len(FileOrder)
    /\ IF Declares(corpus[Current]) THEN RegisterClass(Current)
                                    ELSE UNCHANGED table
    /\ pos' = pos + 1
    /\ UNCHANGED <<corpus, phase, found, feignDone, deps, cycles, skipped, report>>

(* Phase 1, validate_imports: the findings of one file's import lines.     *)
(* Mutant: visibility tested before existence.                            *)
ImportFindingsUnordered(f) ==
    LET internal == {i \in corpus[f].imports : Internal(i)}
    IN  {Finding("MissingImport", f, i) : i \in internal \ Registered}
        \cup {Finding("NonPublicImport", f, i) : i \in internal \ publicClasses}

ImportFindings(f) ==
    LET internal == {i \in corpus[f].imports : Internal(i)}
    IN  {Finding("MissingImport", f, i) : i \in internal \ Registered}
        \cup {Finding("NonPublicImport", f, i) :
                  i \in (internal \cap Registered) \ publicClasses}

ValidateImportsFile ==
    /\ phase = "imports"
    /\ pos <= Len(FileOrder)
    /\ brokenImports' = brokenImports \cup ImportFindings(Current)
    /\ pos' = pos + 1
    /\ UNCHANGED <<corpus, phase, table, brokenCalls, missingBeans, brokenFeign,
                   feignDone, deps, cycles, skipped, report>>

(* Phase 2, validate_method_calls: calls `<var>.<method>(` of the catalogue *)
(* are checked only when the catalogue's class is registered.              *)
(* Mutant: the `service_class in self.class_registry` test dropped.        *)
CallFindingsUnguarded(f) ==
    {Finding("UnresolvedMethodCall", f, vm) :
        vm \in {vm \in corpus[f].calls : vm[2] \notin classMethods[Catalogue[vm[1]]]}}

CallFindings(f) ==
    {Finding("UnresolvedMethodCall", f, vm) :
        vm \in {vm \in corpus[f].calls :
                    /\ Catalogue[vm[1]] \in Registered
                    /\ vm[2] \notin classMethods[Catalogue[vm[1]]]}}

ValidateCallsFile ==
    /\ phase = "calls"
    /\ pos <= Len(FileOrder)
    /\ brokenCalls' = brokenCalls \cup CallFindings(Current)
    /\ pos' = pos + 1
    /\ UNCHANGED <<corpus, phase, table, brokenImports, missingBeans, brokenFeign,
                   feignDone, deps, cycles, skipped, report>>

(* Phase 3, validate_spring_beans.  A simple field type is replaced by the *)
(* first import `import a.b.<Type>;` of the file; a qualified one is kept; *)
(* only a resulting name inside com.waqiti is audited.                     *)
BaseType(c, t) ==
    IF t \in Names /\ \E i \in c.imports : i[2] = t
    THEN CHOOSE i \in c.imports : i[2] = t
    ELSE t

(* Mutant: @Repository forgotten among the stereotypes.                    *)
IsBeanNoRepository(q) == q \in componentClasses \cup serviceClasses

IsBean(q) == q \in componentClasses \cup serviceClasses \cup repositoryClasses

BeanFindings(f) ==
    LET c == corpus[f]
        audited == {t \in c.injects : BaseType(c, t) \in Fqn /\ Internal(BaseType(c, t))}
    IN  {Finding("MissingBeanClass", f, t) :
            t \in {t \in audited : BaseType(c, t) \notin Registered}}
        \cup {Finding("MissingBeanAnnotation", f, t) :
            t \in {t \in audited : BaseType(c, t) \in Registered /\ ~IsBean(BaseType(c, t))}}

ValidateBeansFile ==
    /\ phase = "beans"
    /\ pos <= Len(FileOrder)
    /\ missingBeans' = missingBeans \cup BeanFindings(Current)
    /\ pos' = pos + 1
    /\ UNCHANGED <<corpus, phase, table, brokenImports, brokenCalls, brokenFeign,
                   feignDone, deps, cycles, skipped, report>>

(* Phase 4, validate_feign_clients: the fallback's simple name resolves to *)
(* the first key of class_registry ending in '.<Name>'.                    *)
(* Mutant: the last matching key of class_registry taken, not the first.  *)
FallbackFindingsLastMatch(e) ==
    LET k == SelectLastInSeq(registry, LAMBDA r : r[2] = e.fallback)
    IN  IF e.fallback = NoFallback THEN {}
        ELSE IF k = 0 THEN {Finding("MissingFeignFallback", e.file, e.fallback)}
        ELSE IF registry[k] \notin componentClasses
             THEN {Finding("FeignFallbackNotComponent", e.file, e.fallback)}
             ELSE {}

FallbackFindings(e) ==
    LET k == SelectInSeq(registry, LAMBDA r : r[2] = e.fallback)
    IN  IF e.fallback = NoFallback THEN {}
        ELSE IF k = 0 THEN {Finding("MissingFeignFallback", e.file, e.fallback)}
        ELSE IF registry[k] \notin componentClasses
             THEN {Finding("FeignFallbackNotComponent", e.file, e.fallback)}
             ELSE {}

ValidateFeignClient ==
    /\ phase = "feign"
    /\ \E q \in DOMAIN feignClients \ feignDone :
          /\ brokenFeign' = brokenFeign \cup FallbackFindings(feignClients[q])
          /\ feignDone' = feignDone \cup {q}
    /\ UNCHANGED <<corpus, phase, pos, table, brokenImports, brokenCalls,
                   missingBeans, deps, cycles, skipped, report>>

EndFeign ==
    /\ phase = "feign"
    /\ feignDone = DOMAIN feignClients
    /\ phase' = "deps"
    /\ pos' = 1
    /\ UNCHANGED <<corpus, table, found, feignDone, deps, cycles, skipped, report>>

(* detect_circular_dependencies, first loop: the edges of one file.        *)
(* Mutant: `imported in self.class_registry` dropped from the edge test.   *)
DepsOfUnchecked(c) == {i \in c.imports : Internal(i)}

DepsOf(c) == {i \in c.imports : Internal(i) /\ i \in Registered}

BuildDepsFile ==
    /\ phase = "deps"
    /\ pos <= Len(FileOrder)
    /\ deps' = IF Declares(corpus[Current])
               THEN [deps EXCEPT ![FqnOf(corpus[Current])] = @ \cup DepsOf(corpus[Current])]
               ELSE deps
    /\ pos' = pos + 1
    /\ UNCHANGED <<corpus, phase, table, found, feignDone, cycles, skipped, report>>

(* detect_circular_dependencies, second loop: every (cls_a, cls_b) with an *)
(* edge each way is appended.                                              *)
MutualPairs(g) == {p \in Fqn \X Fqn : p[2] \in g[p[1]] /\ p[1] \in g[p[2]]}

DetectCycles ==
    /\ phase = "cycles"
    /\ cycles' = MutualPairs(deps)
    /\ phase' = "report"
    /\ UNCHANGED <<corpus, pos, table, found, feignDone, deps, skipped, report>>

(* The `except` branch of a per-file loop body: open() or read() raised;   *)
(* the file contributes nothing to this phase.                             *)
ReadFails ==
    /\ phase \in FilePhases
    /\ pos <= Len(FileOrder)
    /\ Cardinality(skipped) < MaxReadFailures
    /\ skipped' = skipped \cup {<<phase, Current>>}
    /\ pos' = pos + 1
    /\ UNCHANGED <<corpus, phase, table, found, feignDone, deps, cycles, report>>

(* The next call of run_validation once a file loop is exhausted.          *)
EndFileLoop ==
    /\ phase \in FilePhases
    /\ pos > Len(FileOrder)
    /\ phase' = NextPhase[phase]
    /\ pos' = 1
    /\ UNCHANGED <<corpus, table, found, feignDone, deps, cycles, skipped, report>>
-----------------------------------------------------------------------------
(* generate_report.  Severity and the words of the impact text that decide *)
(* "critical" ("startup" or "compilation") per kind of finding.            *)
Severity(k) == IF k = "NonPublicImport" THEN "WARNING" ELSE "ERROR"

ImpactWords ==
    [MissingImport |-> {"compilation"},            \* "Compilation will fail"
     NonPublicImport |-> {"compilation"},          \* "May cause compilation issues"
     UnresolvedMethodCall |-> {"compilation"},     \* "Runtime error or compilation failure"
     MissingBeanClass |-> {"startup"},             \* "Application startup will fail"
     MissingBeanAnnotation |-> {"startup"},        \* "Bean not found exception at startup"
     MissingFeignFallback |-> {},                  \* "Circuit breaker will not work"
     FeignFallbackNotComponent |-> {}]             \* "Fallback will not be registered"

IsCritical(x) ==
    Severity(x.kind) = "ERROR" /\ ImpactWords[x.kind] \cap {"startup", "compilation"} # {}

AllIssues == brokenImports \cup brokenCalls \cup missingBeans \cup brokenFeign

Capped(n, cap) == IF n < cap THEN n ELSE cap

(* Mutant: the summary counts the truncated detail lists.                  *)
ReportOfTruncatedTotal ==
    LET crit == {x \in AllIssues : IsCritical(x)}
        errs == {x \in AllIssues : Severity(x.kind) = "ERROR"} \ crit
        warns == {x \in AllIssues : Severity(x.kind) # "ERROR"}
        listed == [critical |-> Capped(Cardinality(crit), CriticalCap),
                   errors |-> Capped(Cardinality(errs), ErrorCap),
                   warnings |-> Capped(Cardinality(warns), WarningCap)]
    IN  [total |-> listed.critical + listed.errors + listed.warnings,
         critical |-> listed.critical,
         errors |-> listed.errors,
         warnings |-> listed.warnings,
         circular |-> Cardinality(cycles),
         servicesAffected |-> Cardinality({ServiceOf[x.file] : x \in AllIssues}),
         classesScanned |-> Len(registry),
         byCategory |-> [brokenImports |-> Cardinality(brokenImports),
                         brokenMethodCalls |-> Cardinality(brokenCalls),
                         missingBeans |-> Cardinality(missingBeans),
                         brokenFeignClients |-> Cardinality(brokenFeign)],
         listed |-> listed]

ReportOf ==
    LET crit == {x \in AllIssues : IsCritical(x)}
        errs == {x \in AllIssues : Severity(x.kind) = "ERROR"} \ crit
        warns == {x \in AllIssues : Severity(x.kind) # "ERROR"}
    IN  [total |-> Cardinality(AllIssues),
         critical |-> Cardinality(crit),
         errors |-> Cardinality(errs),
         warnings |-> Cardinality(warns),
         circular |-> Cardinality(cycles),
         servicesAffected |-> Cardinality({ServiceOf[x.file] : x \in AllIssues}),
         classesScanned |-> Len(registry),
         byCategory |-> [brokenImports |-> Cardinality(brokenImports),
                         brokenMethodCalls |-> Cardinality(brokenCalls),
                         missingBeans |-> Cardinality(missingBeans),
                         brokenFeignClients |-> Cardinality(brokenFeign)],
         listed |-> [critical |-> Capped(Cardinality(crit), CriticalCap),
                     errors |-> Capped(Cardinality(errs), ErrorCap),
                     warnings |-> Capped(Cardinality(warns), WarningCap)]]

GenerateReport ==
    /\ phase = "report"
    /\ report' = ReportOf
    /\ phase' = "done"
    /\ UNCHANGED <<corpus, pos, table, found, feignDone, deps, cycles, skipped>>

-----------------------------------------------------------------------------
Init ==
    /\ corpus \in [Files -> FileChoices]
    /\ phase = "scan"
    /\ pos = 1
    /\ registry = <<>>
    /\ publicClasses = {} /\ componentClasses = {}
    /\ serviceClasses = {} /\ repositoryClasses = {}
    /\ feignClients = EmptyFunction
    /\ classMethods = [q \in Fqn |-> {}]
    /\ brokenImports = {} /\ brokenCalls = {} /\ missingBeans = {} /\ brokenFeign = {}
    /\ feignDone = {}
    /\ deps = [q \in Fqn |-> {}]
    /\ cycles = {}
    /\ skipped = {}
    /\ report = <<>>

Next ==
    \/ ScanFile
    \/ ValidateImportsFile
    \/ ValidateCallsFile
    \/ ValidateBeansFile
    \/ ValidateFeignClient
    \/ EndFeign
    \/ BuildDepsFile
    \/ DetectCycles
    \/ GenerateReport
    \/ ReadFails
    \/ EndFileLoop

(* One thread runs the phases one after another; the program stops in     *)
(* phase "done".                                                           *)
Spec == Init /\ [][Next]_vars

-----------------------------------------------------------------------------
(* What the corpus says, independently of the order the validator works   *)
(* in: the files each phase did read, the classes the read files declare, *)
(* and the class record the symbol table keeps for a name.                 *)
Phases == <<"scan", "imports", "calls", "beans", "feign", "deps", "cycles",
            "report", "done">>
PhaseNo(ph) == CHOOSE k \in 1..Len(Phases) : Phases[k] = ph
Past(ph) == PhaseNo(phase) > PhaseNo(ph)

Index(f) == CHOOSE k \in 1..Len(FileOrder) : FileOrder[k] = f
ReadIn(ph) == {f \in Files : <<ph, f>> \notin skipped}
Declarers(q) == {f \in ReadIn("scan") : Declares(corpus[f]) /\ FqnOf(corpus[f]) = q}
Known == {q \in Fqn : Declarers(q) # {}}
Earliest(S) == CHOOSE f \in S : \A g \in S : Index(f) <= Index(g)
Latest(S) == CHOOSE f \in S : \A g \in S : Index(g) <= Index(f)

(* The record the code keeps for a name declared by several files merges  *)
(* them: a flag is set when any declaring file sets it.                    *)
KnownPublic == {q \in Known : \E f \in Declarers(q) : corpus[f].mods = "public"}
KnownRole(q, r) == \E f \in Declarers(q) : r \in corpus[f].roles
KnownMethods(q) == UNION {corpus[f].methods : f \in Declarers(q)}

KindsAt(S, f, s) == {x.kind : x \in {x \in S : x.file = f /\ x.site = s}}

TypeOK ==
    /\ corpus \in [Files -> FileChoices]
    /\ phase \in ToSet(Phases)
    /\ pos \in 1..Len(FileOrder) + 1
    /\ registry \in Seq(Fqn)
    /\ publicClasses \cup componentClasses \cup serviceClasses \cup repositoryClasses
           \subseteq Registered
    /\ DOMAIN feignClients \subseteq Registered
    /\ classMethods \in [Fqn -> SUBSET Methods]
    /\ \A x \in AllIssues : x.kind \in Kinds /\ x.file \in Files
    /\ deps \in [Fqn -> SUBSET Fqn]
    /\ cycles \subseteq Fqn \X Fqn
    /\ skipped \subseteq FilePhases \X Files

(* Spec P2.  Once the imports are validated, every internal import line  *)
(* of a file that could be read has exactly one finding when its class   *)
(* is declared nowhere (MissingImport) or declared but never `public`    *)
(* (NonPublicImport), and none otherwise; the lines are checked against   *)
(* the symbol table of ALL files, whatever the order of the scan.        *)
ImportResolution ==
    Past("imports") =>
        /\ \A f \in ReadIn("imports") : \A i \in corpus[f].imports :
               KindsAt(brokenImports, f, i) =
                   IF ~Internal(i) THEN {}
                   ELSE IF i \notin Known THEN {"MissingImport"}
                   ELSE IF i \notin KnownPublic THEN {"NonPublicImport"}
                   ELSE {}
        /\ \A x \in brokenImports : x.file \in ReadIn("imports")

(* validate_method_calls: a catalogue call `<var>.<m>(` is reported iff  *)
(* the catalogue's class is declared and no declaration of it has a      *)
(* method m; an undeclared target class is skipped silently.             *)
CallSiteResolution ==
    Past("calls") =>
        /\ \A f \in ReadIn("calls") : \A vm \in corpus[f].calls :
               KindsAt(brokenCalls, f, vm) =
                   IF Catalogue[vm[1]] \in Known
                      /\ vm[2] \notin KnownMethods(Catalogue[vm[1]])
                   THEN {"UnresolvedMethodCall"} ELSE {}
        /\ \A x \in brokenCalls : x.file \in ReadIn("calls")

(* Spec P3.  An injected field whose type names an internal class (written *)
(* qualified, or simple and imported) is reported MissingBeanClass when   *)
(* no file declares it and MissingBeanAnnotation exactly when it is       *)
(* declared with none of @Component, @Service, @Repository.                *)
NamedBy(c, t) == IF t \in Fqn THEN {t} ELSE {i \in c.imports : i[2] = t}

AnnotationGating ==
    Past("beans") =>
        /\ \A f \in ReadIn("beans") : \A t \in corpus[f].injects :
               KindsAt(missingBeans, f, t) =
                   UNION {IF ~Internal(q) THEN {}
                          ELSE IF q \notin Known THEN {"MissingBeanClass"}
                          ELSE IF \A r \in Roles : ~KnownRole(q, r)
                               THEN {"MissingBeanAnnotation"}
                          ELSE {} : q \in NamedBy(corpus[f], t)}
        /\ \A x \in missingBeans : x.file \in ReadIn("beans")

(* validate_feign_clients: each Feign client is audited once, with the    *)
(* fallback of the LAST file that declares it a client; the fallback's    *)
(* simple name resolves to the class of that name declared FIRST in scan  *)
(* order, and is reported missing when no class has that name, or not a   *)
(* component when that class has no @Component.                           *)
FeignDeclarers(q) == {f \in Declarers(q) : corpus[f].feign # NotFeign}
FeignFiles == {Latest(FeignDeclarers(q)) : q \in {q \in Known : FeignDeclarers(q) # {}}}

ExpectedFallbackKinds(x) ==
    LET named == {r \in Known : r[2] = x}
        first == CHOOSE r \in named :
                    \A r2 \in named : Index(Earliest(Declarers(r))) <= Index(Earliest(Declarers(r2)))
    IN  IF x = NoFallback THEN {}
        ELSE IF named = {} THEN {"MissingFeignFallback"}
        ELSE IF ~KnownRole(first, "Component") THEN {"FeignFallbackNotComponent"}
        ELSE {}

FeignFallbackResolution ==
    Past("feign") =>
        /\ \A f \in FeignFiles :
               KindsAt(brokenFeign, f, corpus[f].feign) = ExpectedFallbackKinds(corpus[f].feign)
        /\ \A x \in brokenFeign : x.file \in FeignFiles

(* Spec P4, first half.  The pairs reported as circular are exactly the   *)
(* unordered pairs of declared classes whose files import each other.    *)
ImportEdges ==
    {<<FqnOf(corpus[f]), i>> :
        <<f, i>> \in {<<f, i>> \in ReadIn("deps") \X Fqn :
                         Declares(corpus[f]) /\ i \in corpus[f].imports
                         /\ Internal(i) /\ i \in Known}}

CyclesAreMutualImports ==
    Past("cycles") =>
        {{p[1], p[2]} : p \in cycles} =
            {{e[1], e[2]} : e \in {e \in ImportEdges : <<e[2], e[1]>> \in ImportEdges}}

(* Spec P5.  The summary counts every finding, even when the detail lists *)
(* are cut to their caps; critical, errors and warnings split the total,  *)
(* and classes_scanned counts each declared class once.                   *)
ReportCountsExact ==
    phase = "done" =>
        /\ report.total = report.byCategory.brokenImports + report.byCategory.brokenMethodCalls
                          + report.byCategory.missingBeans + report.byCategory.brokenFeignClients
        /\ report.byCategory.brokenImports = Cardinality(brokenImports)
        /\ report.critical + report.errors + report.warnings = report.total
        /\ report.listed.critical = Capped(report.critical, CriticalCap)
        /\ report.listed.errors = Capped(report.errors, ErrorCap)
        /\ report.listed.warnings = Capped(report.warnings, WarningCap)
        /\ report.classesScanned = Cardinality(Known)

=============================================================================
