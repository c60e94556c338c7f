---------------------- MODULE MC_SpringBootMigration ----------------------
(***************************************************************************)
(* File contents and orders for the runs of SpringBootMigration.          *)
(***************************************************************************)
EXTENDS SpringBootMigration

CONSTANTS f1, f2, f3

C(j, t, s, h) == [javax |-> j, type |-> t, security |-> s, hib |-> h]

\* nothing to migrate
Plain == C(FALSE, "none", FALSE, FALSE)
\* a JPA entity with a jsonb column and no Hibernate 6 imports
Entity == C(TRUE, "json", FALSE, FALSE)
\* an entity with an @Type form the patterns do not rewrite
OtherType == C(TRUE, "other", FALSE, FALSE)
\* a security configuration using antMatchers
SecurityConfig == C(FALSE, "none", TRUE, FALSE)

MigContents == {Plain, Entity, OtherType, SecurityConfig}

MCFileOrder == <<f1, f2>>
MCFileOrder3 == <<f1, f2, f3>>
=============================================================================
