-------------------------- MODULE MC_DeepValidator --------------------------
(***************************************************************************)
(* The reference validator and the deep validator over the corpora of     *)
(* MC_ReferenceValidator.  Both service-variable patterns stand for the   *)
(* one catalogue variable `wallet`, whose hard-coded method list knows m1. *)
(***************************************************************************)
EXTENDS MC_ReferenceValidator, DeepValidator

MCCommonMethods == [v \in {wallet} |-> {m1}]
=============================================================================
