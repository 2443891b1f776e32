---------------------------- MODULE MCTenantNetwork ----------------------------
(* Instances of TenantNetwork for TLC. *)
EXTENDS TenantNetwork, TLC

CONSTANTS p1, p2, w1, w2, n1, n2, n3, t1, t2

OneTenant    == {p1}
TwoTenants   == {p1, p2}
TwoNames     == {w1, w2}
TwoIds       == {n1, n2}
ThreeIds     == {n1, n2, n3}
TwoThreads   == {t1, t2}

Symmetry == Permutations(Thread) \cup Permutations(Name)
                \cup Permutations(NetworkId) \cup Permutations(Tenant)
=============================================================================
