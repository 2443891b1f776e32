-------------------------------- MODULE MCXhrIo --------------------------------
(***************************************************************************)
(* The instance of XhrIo that TLC checks: one application function listens *)
(* to every event and a second one, behind it, to COMPLETE and READY; the  *)
(* first listens to COMPLETE once only, and may listen again.              *)
(***************************************************************************)
EXTENDS XhrIo

CONSTANTS app, watch

MCTypes == EventTypes

MCRegistered ==
    [t \in MCTypes |->
        <<[fn |-> app, once |-> t = "complete", removed |-> FALSE]>>
        \o IF t \in {"complete", "ready"}
           THEN <<[fn |-> watch, once |-> FALSE, removed |-> FALSE]>> ELSE <<>>]
=============================================================================
