------------------------ MODULE MC_ReferenceValidator ------------------------
(***************************************************************************)
(* Model values and the corpora each run of ReferenceValidator explores.  *)
(* p is an internal package, under com.waqiti; x a third-party one; q a  *)
(* second internal package, so that two classes can share a simple name.  *)
(***************************************************************************)
EXTENDS ReferenceValidator

CONSTANTS f1, f2, f3, p, q, x, A, B, m1, m2, wallet, svc1, svc2

Decl(n, m) == [cls |-> n, mods |-> m, more |-> {}]
NoDecl == [cls |-> NoClass, mods |-> "none", more |-> {}]
\* `public class A`, with `class B` later in a comment
StrayDecl == [cls |-> A, mods |-> "public", more |-> {B}]

File(pk, d, roles, feign, methods, imports, calls, injects) ==
    [pkg |-> IF d.cls = NoClass THEN NoPkg ELSE pk, cls |-> d.cls, mods |-> d.mods, more |-> d.more,
     roles |-> roles, feign |-> feign, methods |-> methods,
     imports |-> imports, calls |-> calls, injects |-> injects]

\* the import sets with distinct simple names
ImportSets(S) == {I \in SUBSET S : \A i, j \in I : i[2] = j[2] => i = j}

(* Import resolution, cycles and the report: A declared with every way of *)
(* writing the modifier (`public abstract` included), B declared public,  *)
(* A declared public with `class B` in a comment after it, and every legal *)
(* set of import lines.                                                    *)
ImportCorpus ==
    {File(p, d, {}, NotFeign, {}, I, {}, {}) :
        d \in {Decl(A, m) : m \in Mods} \cup {Decl(B, "public"), NoDecl, StrayDecl},
        I \in ImportSets({<<p, A>>, <<p, B>>, <<x, A>>})}

(* Injection sites: every stereotype, and fields typed by a simple name   *)
(* imported from p, a simple name imported from a third party, a simple   *)
(* name without import, and a qualified name.                              *)
BeanCorpus ==
    {File(p, d, roles, NotFeign, {}, I, {}, J) :
        d \in {Decl(n, "public") : n \in {A, B}} \cup {NoDecl},
        roles \in {{}, {"Component"}, {"Service"}, {"Repository"}},
        I \in {{}, {<<p, A>>}, {<<x, B>>}},
        J \in {{}, {A}, {B}, {<<p, B>>}}}

(* Call sites of the catalogue variable `wallet`, whose class is p.A.     *)
CallCorpus ==
    {File(p, d, {}, NotFeign, M, {}, C, {}) :
        d \in {Decl(n, "public") : n \in {A, B}} \cup {NoDecl},
        M \in SUBSET {m1, m2},
        C \in SUBSET {<<wallet, m1>>, <<wallet, m2>>}}

(* Feign clients: two internal packages, so a fallback's simple name can   *)
(* match two classes.                                                      *)
FeignCorpus ==
    {File(pk, d, roles, fg, {}, {}, {}, {}) :
        pk \in {p, q},
        d \in {Decl(n, "public") : n \in {A, B}} \cup {NoDecl},
        roles \in {{}, {"Component"}},
        fg \in {NotFeign, NoFallback, A}}

(* Injection sites, call sites and Feign clients together: each file is *)
(* one of the three kinds, so each audit meets files of the others.    *)
AuditCorpus == BeanCorpus \cup CallCorpus \cup FeignCorpus

MCOrder2 == <<f1, f2>>
MCOrder3 == <<f1, f2, f3>>
MCCatalogue == [v \in {wallet} |-> <<p, A>>]
MCServiceOf2 == (f1 :> svc1) @@ (f2 :> svc2)
MCServiceOf3 == (f1 :> svc1) @@ (f2 :> svc2) @@ (f3 :> svc1)
=============================================================================
