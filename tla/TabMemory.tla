------------------------------ MODULE TabMemory ------------------------------
(***************************************************************************)
(* What the tabs of the health check page promise the operator: the tab    *)
(* chosen last is the one the page opens with, as often as it is loaded,   *)
(* for as long as the report has it.  A choice is made on a loaded page    *)
(* that shows tabs and lasts when that page is left.  It is given up in    *)
(* two cases only, each with its own action: the page ends without being   *)
(* told so (Discard), or it is loaded in a window that shows no tabs       *)
(* (LoadBare).  A broken tab can be looked at and is not a choice.         *)
(***************************************************************************)

CONSTANTS Titles, NoTab,
          FirstTab,  \* the tab in front when none was ever chosen
          Broken     \* the tabs that cannot be chosen

VARIABLES view,      \* "closed", "away", or a loaded page: "tabs" or "bare"
          offered,   \* the tabs the loaded page has
          front,     \* of those, the one in front
          chosen,    \* the choice of the loaded page
          saved      \* the choice that survives the page

memory == <<view, offered, front, chosen, saved>>

Ends(next) == view' = next /\ offered' = {} /\ front' = {} /\ chosen' = NoTab

Init ==
    /\ view = "closed"
    /\ offered = {} /\ front = {}
    /\ chosen = NoTab /\ saved = NoTab

Visit == view = "closed" /\ Ends("away") /\ UNCHANGED saved

\* The page comes back to the saved choice, or begins with the first tab.  A
\* choice that is not offered now is kept for the time it is offered again.
Load(tabs) ==
    /\ view = "away"
    /\ view' = "tabs"
    /\ offered' = tabs
    /\ front' = IF saved = NoTab THEN {FirstTab} ELSE {saved} \cap tabs
    /\ chosen' = saved
    /\ UNCHANGED saved

LoadBare == view = "away" /\ Ends("bare") /\ UNCHANGED saved

Click(t) ==
    /\ view = "tabs" /\ t \in offered
    /\ front' = {t}
    /\ chosen' = IF t \in Broken THEN chosen ELSE t
    /\ UNCHANGED <<view, offered, saved>>

Leave == view \in {"tabs", "bare"} /\ saved' = chosen /\ Ends("away")

Discard == view # "closed" /\ Ends("closed") /\ UNCHANGED saved

Next ==
    \/ Visit
    \/ \E tabs \in SUBSET Titles : Load(tabs)
    \/ LoadBare
    \/ \E t \in Titles : Click(t)
    \/ Leave
    \/ Discard

Spec == Init /\ [][Next]_memory
=============================================================================
