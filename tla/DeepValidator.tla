---------------------------- MODULE DeepValidator ----------------------------
(***************************************************************************)
(* The deep validator of src/services/deep_validation.py, class           *)
(* DeepValidator, run by run() (lines 264-287), composed with the          *)
(* reference validator over the same source tree: both tools read the     *)
(* corpus of ReferenceValidator, and the deep validator runs once the      *)
(* reference validator is done.  The two scripts share nothing but the    *)
(* files they read, which neither writes, so running one after the other  *)
(* gives the verdicts of every interleaving.                               *)
(*                                                                         *)
(* In a file's content, `pkg` is the `package x;` match, `cls` the first  *)
(* class-shaped match and `more` the later ones the finditer of line 48    *)
(* also registers; nested classes the inner pattern of line 57 registers  *)
(* are not part of the corpus.  class_files and                           *)
(* class_definitions receive the same name and file at lines 54 and 63,  *)
(* so one function holds both; is_public and type are stored but never    *)
(* read again.                                                             *)
(***************************************************************************)
EXTENDS ReferenceValidator

CONSTANTS
    CommonMethods,   \* patterns_to_check: variable pattern -> its known methods
    ServiceSample,   \* sample_files[:100]: *Service.java files, 5 per service dir
    SampleCap,       \* the [:200] slice of imports_map in the bean check
    TestFiles        \* the files whose path contains '/test/' or '/tests/'

ASSUME CommonMethods \in [Vars -> SUBSET Methods]
ASSUME ServiceSample \in Seq(Files) /\ IsInjective(ServiceSample)
ASSUME SampleCap \in Nat \ {0}
ASSUME TestFiles \subseteq Files
\* a file with no class-shaped match has no later one
ASSUME \A c \in FileChoices : c.cls = NoClass => c.more = {}

VARIABLES
    dvPhase,       \* the step run() is in
    dvPos,         \* the index of the item the current loop handles
    classFiles,    \* class_files / class_definitions: fqn -> file recorded last
    defOrder,      \* the keys of class_definitions in insertion order
    importFiles,   \* the keys of imports_map in insertion order
    imports,       \* imports_map: file -> its com.waqiti imports
    dvMissing,     \* find_truly_missing_imports: <<file, import>>
    dvSuspicious,  \* analyze_common_service_patterns: <<file, <<var, method>>>>
    beans,         \* the registered beans of check_spring_bean_registrations
    dvBeanIssues,  \* MISSING_BEAN_ANNOTATION: <<file, fqn>>
    dvSkipped,     \* <<step, item>> whose open() raised (history)
    dvReport       \* the summary of generate_report

dvVars == <<dvPhase, dvPos, classFiles, defOrder, importFiles, imports,
            dvMissing, dvSuspicious, beans, dvBeanIssues, dvSkipped, dvReport>>

DeepLoops == {"registry", "patterns", "beanset", "autowired"}
DeepNextStep == [registry |-> "missing", missing |-> "patterns", patterns |-> "beanset",
                 beanset |-> "autowired", autowired |-> "report", report |-> "done"]

MinOf(a, b) == IF a < b THEN a ELSE b

(* Mutant: the bean check walks every file of imports_map, not [:200].    *)
LoopLenUncapped(st) ==
    CASE st = "registry"  -> Len(FileOrder)
      [] st = "patterns"  -> Len(ServiceSample)
      [] st = "beanset"   -> Len(defOrder)
      [] st = "autowired" -> Len(importFiles)

(* The number of items each loop of run() walks.                           *)
LoopLen(st) ==
    CASE st = "registry"  -> Len(FileOrder)
      [] st = "patterns"  -> Len(ServiceSample)
      [] st = "beanset"   -> Len(defOrder)
      [] st = "autowired" -> MinOf(Len(importFiles), SampleCap)

Item(st) ==
    CASE st = "registry"  -> FileOrder[dvPos]
      [] st = "patterns"  -> ServiceSample[dvPos]
      [] st = "beanset"   -> defOrder[dvPos]
      [] st = "autowired" -> importFiles[dvPos]

Stereotyped(f) == corpus[f].roles # {}

DeepInit ==
    /\ dvPhase = "registry" /\ dvPos = 1
    /\ classFiles = [q \in {} |-> CHOOSE f \in Files : TRUE]
    /\ defOrder = <<>> /\ importFiles = <<>>
    /\ imports = [f \in Files |-> {}]
    /\ dvMissing = {} /\ dvSuspicious = {} /\ beans = {} /\ dvBeanIssues = {}
    /\ dvSkipped = {} /\ dvReport = <<>>

-----------------------------------------------------------------------------
(* build_class_registry, one file under a test directory: skipped before  *)
(* it is opened.                                                           *)
SkipTestFile ==
    /\ dvPhase = "registry" /\ dvPos <= LoopLen("registry")
    /\ Item("registry") \in TestFiles
    /\ dvPos' = dvPos + 1
    /\ UNCHANGED <<dvPhase, classFiles, defOrder, importFiles, imports, dvMissing,
                   dvSuspicious, beans, dvBeanIssues, dvSkipped, dvReport>>

(* build_class_registry, any other file: a file without a package is      *)
(* skipped; every class-shaped match, the first and the later ones,        *)
(* overwrites the entry of its name; the file's com.waqiti imports that   *)
(* are not wildcards are added to imports_map.                             *)
(* Mutant: the 'com.waqiti' test on imports dropped.                      *)
ImportsOfUnfiltered(c) == c.imports

ImportsOf(c) == {i \in c.imports : Internal(i)}

ClassMatches(c) == ({c.cls} \ {NoClass}) \cup c.more

\* the names the matches add to class_definitions, in match order
NewDefinitions(c) ==
    SelectSeq(<<<<c.pkg, c.cls>>>> \o SetToSeq({<<c.pkg, n>> : n \in c.more \ {c.cls}}),
              LAMBDA q : q[2] # NoClass /\ q \notin DOMAIN classFiles)

BuildClassRegistryFile ==
    LET f == Item("registry")
        c == corpus[f]
        imp == ImportsOf(c)
    IN  /\ dvPhase = "registry" /\ dvPos <= LoopLen("registry")
        /\ f \notin TestFiles
        /\ IF c.pkg = NoPkg
           THEN UNCHANGED <<classFiles, defOrder, importFiles, imports>>
           ELSE /\ classFiles' = [q \in {<<c.pkg, n>> : n \in ClassMatches(c)} |-> f]
                                    @@ classFiles
                /\ defOrder' = defOrder \o NewDefinitions(c)
                /\ IF imp = {} THEN UNCHANGED <<importFiles, imports>>
                   ELSE /\ importFiles' = Append(importFiles, f)
                        /\ imports' = [imports EXCEPT ![f] = imp]
        /\ dvPos' = dvPos + 1
        /\ UNCHANGED <<dvPhase, dvMissing, dvSuspicious, beans, dvBeanIssues,
                       dvSkipped, dvReport>>

(* Mutant: the missing-import check walks only the sampled files.         *)
FindTrulyMissingImportsSampled ==
    /\ dvPhase = "missing"
    /\ dvMissing' = {<<f, i>> \in ToSet(SubSeq(importFiles, 1, MinOf(Len(importFiles), SampleCap))) \X Fqn :
                        i \in imports[f] /\ i \notin DOMAIN classFiles}
    /\ dvPhase' = DeepNextStep["missing"]
    /\ dvPos' = 1
    /\ UNCHANGED <<classFiles, defOrder, importFiles, imports, dvSuspicious, beans,
                   dvBeanIssues, dvSkipped, dvReport>>

(* find_truly_missing_imports: every recorded import with no class_files  *)
(* entry.                                                                  *)
FindTrulyMissingImports ==
    /\ dvPhase = "missing"
    /\ dvMissing' = {<<f, i>> \in ToSet(importFiles) \X Fqn :
                        i \in imports[f] /\ i \notin DOMAIN classFiles}
    /\ dvPhase' = DeepNextStep["missing"]
    /\ dvPos' = 1
    /\ UNCHANGED <<classFiles, defOrder, importFiles, imports, dvSuspicious, beans,
                   dvBeanIssues, dvSkipped, dvReport>>

(* analyze_common_service_patterns, one sampled file: a call on a service *)
(* variable whose method is not in the pattern's hard-coded list.          *)
AnalyzeServicePatternsFile ==
    LET f == Item("patterns")
    IN  /\ dvPhase = "patterns" /\ dvPos <= LoopLen("patterns")
        /\ dvSuspicious' = dvSuspicious \cup
               {<<f, vm>> : vm \in {vm \in corpus[f].calls : vm[2] \notin CommonMethods[vm[1]]}}
        /\ dvPos' = dvPos + 1
        /\ UNCHANGED <<dvPhase, classFiles, defOrder, importFiles, imports, dvMissing,
                       beans, dvBeanIssues, dvSkipped, dvReport>>

(* check_spring_bean_registrations, first loop, one class: the file that   *)
(* class_definitions recorded for it is read again, and the class is a    *)
(* bean when that file carries a stereotype annotation anywhere.           *)
RegisterBeanClass ==
    LET q == Item("beanset")
    IN  /\ dvPhase = "beanset" /\ dvPos <= LoopLen("beanset")
        /\ beans' = IF Stereotyped(classFiles[q]) THEN beans \cup {q} ELSE beans
        /\ dvPos' = dvPos + 1
        /\ UNCHANGED <<dvPhase, classFiles, defOrder, importFiles, imports, dvMissing,
                       dvSuspicious, dvBeanIssues, dvSkipped, dvReport>>

(* Second loop, one of the first SampleCap files of imports_map: a field  *)
(* type resolves through an import ending in '.<Type>'; a qualified type  *)
(* matches none.  A resolved class that is known but no bean is reported. *)
Resolve(f, t) ==
    {i \in imports[f] : t \in Names /\ i[2] = t}

CheckAutowiredFile ==
    LET f == Item("autowired")
    IN  /\ dvPhase = "autowired" /\ dvPos <= LoopLen("autowired")
        /\ dvBeanIssues' = dvBeanIssues \cup
               {<<f, q>> : q \in {q \in UNION {Resolve(f, t) : t \in corpus[f].injects} :
                                     q \in DOMAIN classFiles /\ q \notin beans}}
        /\ dvPos' = dvPos + 1
        /\ UNCHANGED <<dvPhase, classFiles, defOrder, importFiles, imports, dvMissing,
                       dvSuspicious, beans, dvSkipped, dvReport>>

(* The `except Exception: pass` of a loop body: open() raised, the item   *)
(* contributes nothing.                                                    *)
DeepReadFails ==
    /\ dvPhase \in DeepLoops /\ dvPos <= LoopLen(dvPhase)
    /\ ~(dvPhase = "registry" /\ Item("registry") \in TestFiles)
    /\ Cardinality(dvSkipped) < MaxReadFailures
    /\ dvSkipped' = dvSkipped \cup {<<dvPhase, Item(dvPhase)>>}
    /\ dvPos' = dvPos + 1
    /\ UNCHANGED <<dvPhase, classFiles, defOrder, importFiles, imports, dvMissing,
                   dvSuspicious, beans, dvBeanIssues, dvReport>>

DeepEndLoop ==
    /\ dvPhase \in DeepLoops /\ dvPos > LoopLen(dvPhase)
    /\ dvPhase' = DeepNextStep[dvPhase]
    /\ dvPos' = 1
    /\ UNCHANGED <<classFiles, defOrder, importFiles, imports, dvMissing, dvSuspicious,
                   beans, dvBeanIssues, dvSkipped, dvReport>>

(* generate_report: the summary; services come from the file paths.       *)
DeepGenerateReport ==
    /\ dvPhase = "report"
    /\ dvReport' = [missingImports |-> Cardinality(dvMissing),
                    suspiciousMethods |-> Cardinality(dvSuspicious),
                    missingBeans |-> Cardinality(dvBeanIssues),
                    servicesAffected |->
                        Cardinality({ServiceOf[x[1]] : x \in dvMissing \cup dvSuspicious \cup dvBeanIssues}),
                    classesFound |-> Cardinality(DOMAIN classFiles)]
    /\ dvPhase' = "done"
    /\ UNCHANGED <<dvPos, classFiles, defOrder, importFiles, imports, dvMissing,
                   dvSuspicious, beans, dvBeanIssues, dvSkipped>>

DeepNext ==
    \/ SkipTestFile
    \/ BuildClassRegistryFile
    \/ FindTrulyMissingImports
    \/ AnalyzeServicePatternsFile
    \/ RegisterBeanClass
    \/ CheckAutowiredFile
    \/ DeepReadFails
    \/ DeepEndLoop
    \/ DeepGenerateReport

(* The two tools in turn over one tree.                                   *)
SuiteInit == Init /\ DeepInit

SuiteNext ==
    \/ Next /\ UNCHANGED dvVars
    \/ phase = "done" /\ DeepNext /\ UNCHANGED vars

SuiteSpec == SuiteInit /\ [][SuiteNext]_<<vars, dvVars>>
-----------------------------------------------------------------------------
(* The classes declared anywhere in the corpus, and the project imports   *)
(* that name none of them.                                                 *)
CorpusDeclarers(q) == {f \in Files : Declares(corpus[f]) /\ FqnOf(corpus[f]) = q}
TrulyMissing ==
    {<<f, i>> \in Files \X Fqn :
        corpus[f].pkg # NoPkg /\ i \in corpus[f].imports /\ Internal(i)
        /\ CorpusDeclarers(i) = {}}
DeepReadIn(st) == {f \in Files : <<st, f>> \notin dvSkipped}

(* Every step and table of the deep validator is in range, and its bean   *)
(* check reports on at most the [:200] sample of imports_map.              *)
DeepTypeOK ==
    /\ dvPhase \in DeepLoops \cup {"missing", "report", "done"}
    /\ dvPos \in 1..Len(FileOrder) + 1
    /\ classFiles \in [DOMAIN classFiles -> Files] /\ DOMAIN classFiles \subseteq Fqn
    /\ ToSet(defOrder) = DOMAIN classFiles /\ IsInjective(defOrder)
    /\ IsInjective(importFiles) /\ ToSet(importFiles) \subseteq Files
    /\ dvMissing \subseteq Files \X Fqn /\ beans \subseteq DOMAIN classFiles
    /\ Cardinality({x[1] : x \in dvBeanIssues}) <= SampleCap

\* a later match in a scanned file that names the class q
StrayNamed(q) ==
    \E g \in DeepReadIn("registry") \ TestFiles :
        corpus[g].pkg = q[1] /\ q[2] \in corpus[g].more

(* find_truly_missing_imports ("imports that truly don't exist") is wrong  *)
(* only for the reasons build_class_registry gives it: a truly missing    *)
(* import goes unreported only in a test file, in a file whose read       *)
(* failed, or when a later class-shaped match of a scanned file (a        *)
(* comment, a string) names it; and a reported import always names a     *)
(* class that exists, declared only in test files or unread files.        *)
DeepMissingImportsExplained ==
    dvPhase = "done" =>
        /\ \A x \in TrulyMissing \ dvMissing :
              \/ x[1] \in TestFiles
              \/ x[1] \notin DeepReadIn("registry")
              \/ StrayNamed(x[2])
        /\ \A x \in dvMissing \ TrulyMissing :
              /\ CorpusDeclarers(x[2]) # {}
              /\ CorpusDeclarers(x[2]) \subseteq TestFiles \cup (Files \ DeepReadIn("registry"))

(* The module docstring promises "minimal false positives": a             *)
(* MISSING_BEAN_ANNOTATION names a class that no file declaring it        *)
(* annotates with a stereotype.  Lines 54 and 63 keep the file of the last *)
(* declaration and line 158 reads only that file.                         *)
DeepBeanFindingSound ==
    \A x \in dvBeanIssues : \A f \in CorpusDeclarers(x[2]) : ~Stereotyped(f)
=============================================================================
