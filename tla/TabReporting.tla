----------------------------- MODULE TabReporting -----------------------------
(***************************************************************************)
(* tabReporting.js, the script of the health check page.  The server       *)
(* renders one tab per part of its report: fixed ones, then one for each   *)
(* region.  When the document is loaded the script shows the tab that      *)
(* sessionStorage names; a click shows another tab and notes it in         *)
(* currentData; the unload handler writes currentData to sessionStorage.   *)
(* The page reloads itself, so a choice must survive that cycle.           *)
(*                                                                         *)
(* The page has one list of tabs, hence every entry of currentData has the *)
(* class of that list as its "parent": an entry is its href.  A title that *)
(* is escaped in a link (a space, a quote) differs from the id of its      *)
(* content: Unlinked.                                                      *)
(***************************************************************************)
EXTENDS PageDom, Naturals, Sequences

CONSTANTS Titles,     \* every title the report may have
          Fixed,      \* the titles every report has
          FirstTab,   \* the one that comes first: the agent's own
          Unlinked    \* titles whose link does not name their content

Layouts == {"wide", "mobile", "narrow"}

ASSUME TitlesAssumption ==
    /\ FirstTab \in Fixed
    /\ Fixed \subseteq Titles
    /\ Unlinked \subseteq Titles

VARIABLES report,     \* titles of the report the server would render now
          down,       \* those with outdated statistics
          titles,     \* the tabs of the open page
          errors,     \* the contents of the open page with an error row
          layout,     \* what initDom finds: the width and isMobile
          opened,     \* the mobile tabs with the class "open"
          unfolded,   \* the mobile tabs whose copied content is displayed
          data,       \* currentData
          storage     \* sessionStorage.tabActive ("[]" and none are <<>>)

server == <<report, down>>
health == <<titles, errors, layout, opened, unfolded>>
reporting == <<server, health, data, storage>>

\* tabReporting(): the start of the script.
InitReporting ==
    /\ report = Fixed /\ down = {}
    /\ titles = {} /\ errors = {} /\ layout = "wide"
    /\ opened = {} /\ unfolded = {}
    /\ data = <<>> /\ storage = <<>>

\* Regions come and go, and their statistics become outdated, on the server.
ReportChanges(t) ==
    /\ t \notin Fixed
    /\ report' = IF t \in report THEN report \ {t} ELSE report \cup {t}
    /\ down' = down \ {t}
    /\ UNCHANGED <<dom, health, data, storage>>

StateChanges(t) ==
    /\ t \in report \ {FirstTab}
    /\ down' = IF t \in down THEN down \ {t} ELSE down \cup {t}
    /\ UNCHANGED <<dom, report, health, data, storage>>

\* Mutant: the handler is set before the list has been restored.
SavedEarly == IF page = "health" THEN data ELSE storage

\* window.onunload: set only when initDom has run to its end.
Saved == IF page = "health" /\ loaded THEN data ELSE storage

\* A request of the page: the document before it is unloaded, the new one has
\* a currentData of its own.
OpenHealth(l) ==
    /\ storage' = Saved
    /\ titles' = report
    /\ errors' = down
    /\ layout' = l
    /\ opened' = {} /\ unfolded' = {} /\ data' = <<>>
    /\ NewDocument("health", report)
    /\ UNCHANGED server

\* The script's variables go with its document.
NoHealthPage ==
    /\ titles' = {} /\ errors' = {} /\ layout' = "wide"
    /\ opened' = {} /\ unfolded' = {} /\ data' = <<>>
    /\ UNCHANGED server

\* Mutant: a page that has a choice is not reloaded.
RefreshUnchosen == page = "health" /\ loaded /\ data = <<>> /\ OpenHealth(layout)

\* <meta http-equiv="refresh">: the loaded page asks for itself.
Refresh == page = "health" /\ loaded /\ OpenHealth(layout)

-----------------------------------------------------------------------------
(* initDom *)

\* defaultActive
DefaultActive ==
    /\ marked' = marked \cup {FirstTab}
    /\ shown' = ShowOnly(shown, titles, {FirstTab})

\* Mutant: the other contents stay displayed.
RestoreUnhidden ==
    /\ marked' = marked \cup {storage[i] : i \in DOMAIN storage}
    /\ shown' = shown

\* Every stored entry is looked up among the links; the entry found last is
\* shown.  An entry that no link has only switches the default off.
RestoreActive ==
    LET found == {i \in DOMAIN storage : storage[i] \in titles}
        last  == CHOOSE i \in found : \A j \in found : j <= i
    IN  /\ marked' = marked \cup {storage[i] : i \in found}
        /\ shown' = IF found = {} THEN shown
                    ELSE ShowOnly(shown, titles, {storage[last]})

LoadWide ==
    /\ layout = "wide"
    /\ data' = storage
    /\ IF storage = <<>> THEN DefaultActive ELSE RestoreActive
    /\ icons' = ErrorIcons(titles, Unlinked, errors)

\* The contents are hidden and copied, hidden, into their tabs.
LoadMobile ==
    /\ layout = "mobile"
    /\ shown' = shown \ titles
    /\ icons' = ErrorIcons(titles, Unlinked, errors)
    /\ UNCHANGED <<marked, data>>

LoadNarrow ==
    /\ layout = "narrow"
    /\ UNCHANGED <<marked, shown, icons, data>>

LoadHealth ==
    /\ page = "health" /\ ~loaded
    /\ loaded' = TRUE
    /\ LoadWide \/ LoadMobile \/ LoadNarrow
    /\ UNCHANGED <<page, server, health, storage>>

-----------------------------------------------------------------------------
(* The click listeners *)

\* Mutant: unicValue is never cleared.
PushToStorage(entries, t) == Append(entries, t)

\* addToStorage for the one parent of the page: every entry with another href
\* is taken out and a new one put at the end.
AddToStorage(entries, t) ==
    IF entries = <<>> THEN <<t>> ELSE [i \in DOMAIN entries |-> t]

\* showElement(null) throws for an unlinked title, before addToStorage.
ClickTab(t) ==
    /\ page = "health" /\ loaded /\ layout = "wide"
    /\ t \in titles
    /\ marked' = IF t \in marked THEN marked ELSE MarkOnly(marked, titles, t)
    /\ shown' = ShowOnly(shown, titles, {t} \ Unlinked)
    /\ data' = IF t \in Unlinked THEN data ELSE AddToStorage(data, t)
    /\ UNCHANGED <<page, loaded, icons, server, health, storage>>

\* An unlinked tab has no copy: the class changes, then setStyle throws.
ClickMobileTab(t) ==
    /\ page = "health" /\ loaded /\ layout = "mobile"
    /\ t \in titles
    /\ IF t \notin opened
       THEN /\ opened' = opened \cup {t}
            /\ unfolded' = unfolded \cup ({t} \ Unlinked)
       ELSE /\ opened' = opened \ {t}
            /\ unfolded' = unfolded \ {t}
    /\ UNCHANGED <<dom, server, titles, errors, layout, data, storage>>
=============================================================================
