----------------------------- MODULE KafkaAudit -----------------------------
(***************************************************************************)
(* The Kafka audit of src/services/: kafka_audit_extractor.py walks the    *)
(* Java files, collects the topics of @KafkaListener annotations and of    *)
(* send / publishEvent calls, and writes kafka_audit_report.json with the  *)
(* topics produced but not consumed ("orphaned events");                   *)
(* orphaned_events_analysis.py, run by hand as a separate process, reads   *)
(* whatever kafka_audit_report.json is in the directory and writes one    *)
(* priority list per category of orphaned topic.                          *)
(*                                                                         *)
(* A file's content is abstracted to its listener annotations and its     *)
(* send calls, each a topic and the shape the regular expressions see;    *)
(* a topic's name to the keyword lists of categorize_orphaned_events its  *)
(* lower-cased name contains.  Lists of topics become sets: analyze_topics *)
(* and the analysis read nothing of them but membership.                   *)
(***************************************************************************)
EXTENDS Naturals, FiniteSets, SequencesExt

CONSTANTS
    JavaFiles,        \* the .java files os.walk finds
    Topics,           \* topic names
    TopicKeywords,    \* topic -> the keyword lists its lower-cased name hits
    KafkaCorpus,      \* the contents a file may have
    StaleOrphanSets,  \* orphaned topics of a report left by an earlier run
    MaxReadFailures   \* open() calls that may raise in one run

(* The shapes of a @KafkaListener annotation: topics = "t" or {"t", ...}  *)
(* before groupId = "g", which the pattern of line 21 matches; the array   *)
(* written { "t" } with a space after the brace, which it matches but     *)
(* splits wrongly; groupId before topics, or no groupId at all, where the  *)
(* optional group cannot match and neither can the `\)` after it.          *)
ListenerForms == {"topicsThenGroupId", "spacedArray", "groupIdFirst", "noGroupId"}

(* A send: a literal topic to kafkaTemplate, kafkaTemplateProducer,       *)
(* template or eventPublisher.send, or to .publishEvent(x, "t"); or a    *)
(* topic held in a constant or sent through another receiver.              *)
SendForms == {"literal", "unrecognised"}

\* the keyword lists of lines 32-39, in the order of the elif chain
CategoryOrder ==
    <<"critical_dlq", "compliance_regulatory", "system_monitoring",
      "notification_alerts", "financial_transactions", "security_fraud",
      "error_handling", "analytics_reporting">>
Categories == ToSet(CategoryOrder) \cup {"other"}

\* the one topic name ' "t" ' the single-topic branch of line 32 records
\* for the array { "t" }: the text between the braces
Garbled(t) == " \"" \o t \o "\" "

PyNone == <<>>

ASSUME /\ TopicKeywords \in [Topics -> SUBSET ToSet(CategoryOrder)]
       /\ KafkaCorpus \subseteq [listeners : SUBSET (Topics \X ListenerForms),
                                 sends : SUBSET (Topics \X SendForms)]
       /\ StaleOrphanSets \subseteq SUBSET Topics
       /\ MaxReadFailures \in Nat

VARIABLES
    src,            \* each file's content
    scanned,        \* the files scan_services_directory has handled
    consumed,       \* the topics of the listeners found
    produced,       \* the topics of the sends found
    readFailed,     \* <<extractor, file>> whose open() raised (history)
    kPhase,         \* the extractor: "scan" or "done"
    auditReport,    \* kafka_audit_report.json on disk: PyNone or <<report>>
    aPhase,         \* the analysis: "idle", "done" or "crashed"
    priorityLists   \* priority_topics_for_implementation.json: PyNone or <<lists>>

kafkaVars == <<src, scanned, consumed, produced, readFailed, kPhase, auditReport,
               aPhase, priorityLists>>

KafkaInit ==
    /\ src \in [JavaFiles -> KafkaCorpus]
    /\ scanned = {} /\ consumed = {} /\ produced = {} /\ readFailed = {}
    /\ kPhase = "scan"
    /\ auditReport \in {PyNone} \cup {<<[orphaned |-> O, missing |-> {}]>> : O \in StaleOrphanSets}
    /\ aPhase = "idle" /\ priorityLists = PyNone

-----------------------------------------------------------------------------
(* extract_kafka_listeners: the topics of the annotations the pattern     *)
(* matches; an array with a space after its brace is taken as one topic   *)
(* named by its whole text.                                                *)
ListenerTopics(c) ==
    {l[1] : l \in {m \in c.listeners : m[2] = "topicsThenGroupId"}}
        \cup {Garbled(l[1]) : l \in {m \in c.listeners : m[2] = "spacedArray"}}

\* extract_kafka_producers: the topics of literal sends and publishEvents
SendTopics(c) == {s[1] : s \in {z \in c.sends : z[2] = "literal"}}

(* One file of the walk: both extractors open it, and each that raises    *)
(* prints "Error reading" and gives the file's entries up.                 *)
ScanFile(f) ==
    /\ kPhase = "scan" /\ f \notin scanned
    /\ \E failed \in SUBSET ({"listeners", "producers"} \X {f}) :
        /\ Cardinality(readFailed) + Cardinality(failed) <= MaxReadFailures
        /\ readFailed' = readFailed \cup failed
        /\ consumed' = consumed \cup
                         (IF <<"listeners", f>> \in failed THEN {} ELSE ListenerTopics(src[f]))
        /\ produced' = produced \cup
                         (IF <<"producers", f>> \in failed THEN {} ELSE SendTopics(src[f]))
    /\ scanned' = scanned \cup {f}
    /\ UNCHANGED <<src, kPhase, auditReport, aPhase, priorityLists>>

(* analyze_topics and the rest of main(): the orphaned events are the     *)
(* topics produced and not consumed, the missing producers the converse,  *)
(* and the report replaces kafka_audit_report.json.                       *)
AnalyzeTopics ==
    /\ kPhase = "scan" /\ scanned = JavaFiles
    /\ auditReport' = <<[orphaned |-> produced \ consumed, missing |-> consumed \ produced]>>
    /\ kPhase' = "done"
    /\ UNCHANGED <<src, scanned, consumed, produced, readFailed, aPhase, priorityLists>>

-----------------------------------------------------------------------------
(* categorize_orphaned_events: the first keyword list of the elif chain   *)
(* the topic's name hits, else "other".                                    *)
Categorize(t) ==
    LET i == SelectInSeq(CategoryOrder, LAMBDA c : c \in TopicKeywords[t])
    IN IF i = 0 THEN "other" ELSE CategoryOrder[i]

\* the nine lists main() writes, one per category
PriorityLists(O) == [c \in Categories |-> {t \in O : Categorize(t) = c}]

\* open('kafka_audit_report.json') raises when no audit has written one
AnalysisWithoutReport ==
    /\ aPhase = "idle" /\ auditReport = PyNone
    /\ aPhase' = "crashed"
    /\ UNCHANGED <<src, scanned, consumed, produced, readFailed, kPhase, auditReport,
                   priorityLists>>

(* main() of the analysis: categorise the orphaned events of the report   *)
(* on disk and write the report and the priority lists.                   *)
RunAnalysis ==
    /\ aPhase = "idle" /\ auditReport # PyNone
    /\ priorityLists' = <<PriorityLists(auditReport[1].orphaned)>>
    /\ aPhase' = "done"
    /\ UNCHANGED <<src, scanned, consumed, produced, readFailed, kPhase, auditReport>>

KafkaNext ==
    \/ \E f \in JavaFiles : ScanFile(f)
    \/ AnalyzeTopics
    \/ AnalysisWithoutReport
    \/ RunAnalysis

KafkaSpec == KafkaInit /\ [][KafkaNext]_kafkaVars
-----------------------------------------------------------------------------
\* the names a listener can be recorded under
ListenerNames == Topics \cup {Garbled(t) : t \in Topics}

\* every variable of both scripts holds what the code can store in it
KafkaTypeOK ==
    /\ src \in [JavaFiles -> KafkaCorpus]
    /\ scanned \subseteq JavaFiles /\ readFailed \subseteq {"listeners", "producers"} \X JavaFiles
    /\ consumed \subseteq ListenerNames /\ produced \subseteq Topics
    /\ kPhase \in {"scan", "done"} /\ aPhase \in {"idle", "done", "crashed"}
    /\ auditReport = PyNone \/ auditReport[1] \in [orphaned : SUBSET Topics,
                                                  missing : SUBSET ListenerNames]
    /\ priorityLists = PyNone \/ priorityLists[1] \in [Categories -> SUBSET Topics]
=============================================================================
