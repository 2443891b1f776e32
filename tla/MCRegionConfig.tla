----------------------------- MODULE MCRegionConfig -----------------------------
(* The instance of RegionConfig for TLC with two regions and one thread. *)
EXTENDS RegionConfig

CONSTANTS a1, a2, id1, id2, s1, f1, v1, p1, n1, i1, i2, i3, t1

TwoAliases == {a1, a2}
TwoIds == {id1, id2}
OneShape == {s1}
OneField == {f1}
OneValue == {v1}
OneMapping == {p1}
OneNative == {n1}
ThreeImages == {i1, i2, i3}
OneThread == {t1}

Commands == [t \in Thread |-> {"create_region", "create_image"}]
=============================================================================
