----------------------------- MODULE MCWizardBatch -----------------------------
(* The instance of WizardBatch, and of the RegionConfig it extends, for TLC. *)
EXTENDS WizardBatch

CONSTANTS a1, id1, id2, s1, s2, f1, v1, p1, n1, i1, i2, t1, t2

OneAlias == {a1}
TwoIds == {id1, id2}
Shapes == {s1, s2}
OneField == {f1}
OneValue == {v1}
OneMapping == {p1}
OneNative == {n1}
TwoImages == {i1, i2}
TwoThreads == {t1, t2}
OneRunner == {t1}

\* One thread executes wizards and registers regions, the other gets every
\* command there is.
Commands == [t \in Thread |->
                IF t \in Runner THEN {"create_region", "create_shape", "create_image"}
                ELSE Command]

\* Two shapes, or the same image twice.
Wizards ==
    {w \in [command: {"create_shape"}, alias: Alias, items: [1..2 -> ShapeId]] :
        w.items[1] # w.items[2]}
    \cup [command: {"create_image"}, alias: Alias, items: [1..2 -> NativeId]]

Alike == Permutations(RegionId) \cup Permutations(ShapeId) \cup Permutations(ImageId)
=============================================================================
