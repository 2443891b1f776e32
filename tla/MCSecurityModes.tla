--------------------------- MODULE MCSecurityModes ---------------------------
(* The instance of SecurityModes for TLC. *)
EXTENDS SecurityModes, TLC

CONSTANTS r1, m1, m2, a1, i1, i2, t1, t2, f1, v1

OneRegion  == {r1}
TwoModes   == {m1, m2}
OneAlias   == {a1}
TwoIds     == {i1, i2}
TwoThreads == {t1, t2}
NoDescription == {}
OneField   == {f1}
OneValue   == {v1}

\* Commands of different kinds that may disturb each other are sent to different
\* threads, and create_tenant to both.
Commands ==
    [t \in Thread |->
        IF t = t1
        THEN {"configure_security_mode", "delete_security_mode", "create_tenant",
              "set_tenant_field"}
        ELSE {"set_security_mode", "create_tenant", "other_region_command"}]

Alike == Permutations(Mode) \cup Permutations(TenantId)
=============================================================================
