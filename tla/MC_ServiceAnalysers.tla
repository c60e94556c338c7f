------------------------- MODULE MC_ServiceAnalysers -------------------------
(***************************************************************************)
(* The validators over the corpora of MC_DeepValidator, and the Kafka     *)
(* audit over every tree of two files that each hold at most one listener *)
(* and at most one send, of two topics: "payment-dlq", whose name hits the *)
(* DLQ and the financial keywords, and "ledger-entry", which hits none.    *)
(***************************************************************************)
EXTENDS MC_DeepValidator, ServiceAnalysers

MCTopics == {"payment-dlq", "ledger-entry"}

MCTopicKeywords ==
    ("payment-dlq" :> {"critical_dlq", "financial_transactions"}) @@ ("ledger-entry" :> {})

(* groupIdFirst and noGroupId annotations both go unmatched; the corpus    *)
(* holds the second.  The forms are written out, not taken from Kafka:     *)
(* that instance's KafkaCorpus is this definition.                         *)
MCListenerForms == {"topicsThenGroupId", "spacedArray", "noGroupId"}
MCSendForms == {"literal", "unrecognised"}

MCKafkaCorpus ==
    {[listeners |-> L, sends |-> S] :
        L \in {{}} \cup {{l} : l \in MCTopics \X MCListenerForms},
        S \in {{}} \cup {{s} : s \in MCTopics \X MCSendForms}}

\* a report left by a run over an earlier tree, where payment-dlq was orphaned
MCStaleOrphanSets == {{"payment-dlq"}}
=============================================================================
