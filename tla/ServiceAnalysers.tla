-------------------------- MODULE ServiceAnalysers --------------------------
(***************************************************************************)
(* The static analysers of src/services/ over one tree of Java files: the *)
(* reference validator followed by the deep validator (DeepValidator's    *)
(* SuiteSpec), and the Kafka audit (KafkaAudit).  The two are separate    *)
(* programs that read the same files and write nothing another reads; a   *)
(* behaviour here is a run of one of them, chosen in the initial state,    *)
(* while the other stays at one of its initial states.                     *)
(***************************************************************************)
EXTENDS DeepValidator

CONSTANTS Topics, TopicKeywords, KafkaCorpus, StaleOrphanSets

VARIABLES
    program,
    src, scanned, consumed, produced, readFailed, kPhase, auditReport,
    aPhase, priorityLists

\* the Kafka audit walks the files the validators read
Kafka == INSTANCE KafkaAudit WITH JavaFiles <- Files

suiteVars == <<vars, dvVars>>
kafkaVars == <<src, scanned, consumed, produced, readFailed, kPhase, auditReport,
               aPhase, priorityLists>>
allVars == <<program, suiteVars, kafkaVars>>

\* the tree the program that does not run would have read
IdleCorpus == CHOOSE c \in [Files -> FileChoices] : TRUE
IdleSrc == CHOOSE s \in [Files -> KafkaCorpus] : TRUE

AnalysersInit ==
    \/ program = "validators" /\ SuiteInit
       /\ src = IdleSrc /\ auditReport = Kafka!PyNone /\ Kafka!KafkaInit
    \/ program = "kafka" /\ corpus = IdleCorpus /\ SuiteInit /\ Kafka!KafkaInit

ValidatorsStep(A) == program = "validators" /\ A /\ UNCHANGED <<program, kafkaVars>>
KafkaStep(A) == program = "kafka" /\ A /\ UNCHANGED <<program, suiteVars>>

AnalysersNext ==
    \/ ValidatorsStep(SuiteNext)
    \/ KafkaStep(Kafka!KafkaNext)

(* No fairness: the properties are invariants.                            *)
AnalysersSpec == AnalysersInit /\ [][AnalysersNext]_allVars

-----------------------------------------------------------------------------
\* The type invariants of the reference validator and of the Kafka audit.
AnalysersTypeOK == TypeOK /\ Kafka!KafkaTypeOK
=============================================================================
