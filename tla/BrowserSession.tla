---------------------------- MODULE BrowserSession ----------------------------
(***************************************************************************)
(* One tab of a browser on the diagnostic pages: the health check page     *)
(* (TabReporting) and the JMX pages (RadarTabs) follow one another in it,  *)
(* sharing the document and the sessionStorage of the tab.  The health     *)
(* page reloads itself while the regions it reports on change; the tab may *)
(* also be discarded (a crash, a phone that reclaims memory), which runs   *)
(* no unload handler and leaves sessionStorage as it was last written.     *)
(***************************************************************************)
EXTENDS TabReporting, RadarTabs

CONSTANT NoTab

ASSUME NoTabAssumption == NoTab \notin Titles

vars == <<dom, reporting, listeners>>

Init ==
    /\ page = "closed" /\ loaded = FALSE
    /\ marked = {} /\ shown = {} /\ icons = {}
    /\ InitReporting
    /\ InitRadar

\* Another page is asked for: the document in the tab is unloaded.
GoToHealth(l) == OpenHealth(l) /\ listeners' = 0

GoToJmx == OpenJmx /\ NoHealthPage /\ storage' = Saved

\* No unload handler runs.
Discard ==
    /\ page # "closed"
    /\ NewDocument("closed", {})
    /\ NoHealthPage
    /\ listeners' = 0
    /\ UNCHANGED storage

HealthScript ==
    /\ \/ LoadHealth
       \/ \E t \in Titles : ClickTab(t) \/ ClickMobileTab(t)
    /\ UNCHANGED listeners

JmxScript ==
    /\ LoadJmx \/ \E l \in JmxLists : \E t \in TabsOf(l) : ClickJmx(l, t)
    /\ UNCHANGED reporting

Server ==
    /\ \E t \in Titles : ReportChanges(t) \/ StateChanges(t)
    /\ UNCHANGED listeners

Reload == Refresh /\ UNCHANGED listeners

Next ==
    \/ Server
    \/ HealthScript
    \/ JmxScript
    \/ Reload
    \/ \E l \in Layouts : GoToHealth(l)
    \/ GoToJmx
    \/ Discard

\* The browser loads what it began to load, and honours the refresh of a page.
Fairness ==
    /\ WF_vars(LoadHealth /\ UNCHANGED listeners)
    /\ WF_vars(Reload)

Spec == Init /\ [][Next]_vars /\ Fairness

-----------------------------------------------------------------------------
(* Properties *)

\* Every variable holds a value of its kind, and currentData and the storage
\* never have more than one entry for the list of the page (addToStorage,
\* tabReporting.js:147-180): two would mark two tabs when the page is loaded.
TypeOK ==
    /\ page \in {"health", "jmx", "closed"}
    /\ loaded \in BOOLEAN
    /\ page # "jmx" => marked \subseteq titles /\ shown \subseteq titles
    /\ icons \subseteq titles
    /\ Fixed \subseteq report /\ report \subseteq Titles
    /\ down \subseteq report
    /\ titles \subseteq Titles
    /\ errors \subseteq titles
    /\ layout \in Layouts
    /\ opened \subseteq titles /\ unfolded \subseteq opened
    /\ data \in Seq(Titles) /\ Len(data) <= 1
    /\ storage \in Seq(Titles) /\ Len(storage) <= 1
    /\ listeners \in Nat

ChoiceIn(entries) == IF entries = <<>> THEN NoTab ELSE entries[1]

\* How the tabs of the loaded health page relate to currentData, the only thing
\* the unload handler will write.  Either the tab it names, or the first one,
\* is the one tab that is marked and the one that is shown; or the region it
\* names is gone, and no tab is marked and every content is displayed; or a tab
\* whose link names no content was clicked last: it is marked, nothing is
\* shown, and currentData still names another.  On a phone the contents in the
\* page are hidden, and a tab has the class "open" exactly when the copy of its
\* content is displayed.
ChoiceIsShown ==
    LET choice == ChoiceIn(data)
    IN  (page = "health" /\ loaded) =>
            /\ layout = "wide" =>
                  \/ \E t \in Unlinked : marked = {t} /\ shown = {}
                  \/ choice = NoTab /\ marked = {FirstTab} /\ shown = {FirstTab}
                  \/ choice \in titles /\ marked = {choice} /\ shown = {choice}
                  \/ choice \in Titles \ titles /\ marked = {} /\ shown = titles
            /\ layout = "mobile" =>
                  marked = {} /\ shown = {} /\ unfolded = opened \ Unlinked

\* What the page is to the operator.
View ==
    IF page = "closed" THEN "closed"
    ELSE IF ~(page = "health" /\ loaded) THEN "away"
    ELSE IF layout = "wide" THEN "tabs" ELSE "bare"

\* What the operator may count on: a loaded page opens with the tab chosen
\* last, through refreshes, visits to the JMX pages, pages left before they
\* were loaded and regions that go and come back.  Only a click on an open page
\* with tabs changes the choice; it goes back to an earlier one when the tab is
\* discarded, and is lost when the page is loaded in a layout without tabs.  An
\* unlinked tab is in front until the page is left and never noted.
Memory ==
    INSTANCE TabMemory WITH
        Broken <- Unlinked,
        view <- View,
        offered <- IF View = "tabs" THEN titles ELSE {},
        front <- IF View = "tabs" THEN marked ELSE {},
        chosen <- IF View = "tabs" THEN ChoiceIn(data) ELSE NoTab,
        saved <- ChoiceIn(storage)

ImplementsMemory == Memory!Spec

\* A region whose state stays outdated gets its error icon on an open health
\* page, without anybody asking for the page again: the page reloads itself
\* and initDom adds the icons (HealthCheck.ftl, tabReporting.js:74-83).
OutageIsSeen ==
    \A t \in Titles \ Unlinked :
        (t \in down /\ page = "health") ~>
            (t \in icons \/ t \notin down \/ page # "health" \/ layout = "narrow")

\* Each list of tabs an operator can see on a loaded JMX page has exactly one
\* marked tab, and of its contents exactly that tab's is displayed (none, when
\* the link names no content), also for lists inside the contents.
OneTabPerList ==
    (page = "jmx" /\ loaded) =>
        \A l \in VisibleLists : \E t \in TabsOf(l) :
            /\ marked \cap TabsOf(l) = {t}
            /\ shown \cap TabsOf(l) \in {{t}, {t} \ JmxUnlinked}

\* The choice in a list is kept while other lists are used: a click changes the
\* marked tab of at most one list that had one (radar.js:63-70).
OtherListsKept ==
    [][(page = "jmx" /\ loaded /\ loaded') =>
          LET changed == {l \in JmxLists :
                  /\ marked \cap TabsOf(l) # {}
                  /\ marked' \cap TabsOf(l) # marked \cap TabsOf(l)}
          IN  Cardinality(changed) <= 1]_vars
=============================================================================
