----------------------------- MODULE MCSdkListener -----------------------------
(* An instance of SdkListener for TLC: two sync batches, one of two actions
   and one empty, and one async batch of one action. *)
EXTENDS SdkListener, TLC

CONSTANTS s1, s2, x1

TwoSync  == {s1, s2}
OneAsync == {x1}

Sizes == [m \in Message |-> IF m = s1 THEN 2 ELSE IF m = x1 THEN 1 ELSE 0]
=============================================================================
