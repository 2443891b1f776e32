------------------------------ MODULE RadarTabs ------------------------------
(***************************************************************************)
(* radar.js, the script of the JMX pages.  A page has a list of tabs; the  *)
(* content of a tab may hold a list of its own (an under-tab), and so on.  *)
(* A list is named after the tab whose content holds it, the outermost one *)
(* is Root.  The script marks the first tab of the outermost list and of   *)
(* each list in the content it shows; a click marks and shows a tab and,   *)
(* when the list under it has no marked tab yet, the first one there.      *)
(* An unlinked title names neither a class nor an id: showElement(null)    *)
(* throws when everything is hidden already.                               *)
(*                                                                         *)
(* The templates of the repository render one list, api-info-body.ftl, and *)
(* no list under a tab: what is said of those is said of the script.  Nor  *)
(* is the page modelled whose list has no tab, where the script stops with *)
(* an exception and leaves nothing to click.                               *)
(***************************************************************************)
EXTENDS PageDom, Naturals, Sequences, FiniteSets

CONSTANTS Root,
          JmxLists,   \* the lists of the page: Root and titles
          JmxTabs,    \* the tabs of each list, in order
          JmxUnlinked \* titles whose link does not name their content

VARIABLES listeners   \* how often each tab got the click listener

TabsOf(l) == {JmxTabs[l][i] : i \in DOMAIN JmxTabs[l]}
JmxTitles == UNION {TabsOf(l) : l \in JmxLists}
FirstOf(l) == JmxTabs[l][1]

ASSUME JmxAssumption ==
    /\ IsFiniteSet(JmxLists)
    /\ Root \in JmxLists
    /\ JmxLists \ {Root} \subseteq JmxTitles
    /\ \A l \in JmxLists : JmxTabs[l] \in Seq(JmxTitles) \ {<<>>} /\ l \notin TabsOf(l)
    /\ \A l, m \in JmxLists : l # m => TabsOf(l) \cap TabsOf(m) = {}
    /\ JmxUnlinked \subseteq JmxTitles \ JmxLists

\* The lists that are reached from l by going from each list to the one under
\* its first tab, as long as the list is one of "open".
FirstChain(l, open) ==
    {k \in open : \A s \in SUBSET open :
        (/\ l \in s
         /\ \A m \in s : FirstOf(m) \in open => FirstOf(m) \in s) => k \in s}

\* The first tab of each of the lists is selected, and its content displayed
\* when it is found.
SelectFirsts(d, lists, found) ==
    LET firsts == {FirstOf(l) : l \in lists}
        tabs   == UNION {TabsOf(l) : l \in lists}
    IN  [marked |-> (d.marked \ tabs) \cup firsts,
         shown  |-> ShowOnly(d.shown, tabs, firsts \cap found)]

\* Mutant: lists under the tab are not looked at.
SelectFlat(d, l, t) ==
    [marked |-> MarkOnly(d.marked, TabsOf(l), t),
     shown  |-> ShowOnly(d.shown, TabsOf(l), {t})]

\* Mutant: the list under the tab is started afresh every time.
SelectAfresh(d, l, t) ==
    IF t \in JmxLists
    THEN SelectFirsts(SelectFlat(d, l, t), FirstChain(t, JmxLists), JmxTitles)
    ELSE SelectFlat(d, l, t)

\* selectActiveTab: the list under t is left alone when it has a marked tab.
SelectActiveTab(d, l, t) ==
    LET linked == JmxTitles \ JmxUnlinked
        here   == [marked |-> MarkOnly(d.marked, TabsOf(l), t),
                   shown  |-> ShowOnly(d.shown, TabsOf(l), {t} \cap linked)]
        fresh  == {k \in JmxLists : TabsOf(k) \cap here.marked = {}}
    IN  IF t \in fresh
        THEN SelectFirsts(here, FirstChain(t, fresh), linked) ELSE here

InitRadar == listeners = 0

OpenJmx == NewDocument("jmx", JmxTitles) /\ listeners' = 0

\* tabReporting(): first tabs are marked with classes.add and nothing is
\* unmarked; every level adds the listener to all the tabs of the document.
LoadJmx ==
    LET chain == FirstChain(Root, JmxLists)
        first == SelectFirsts([marked |-> marked, shown |-> shown],
                              chain, JmxTitles)
    IN  /\ page = "jmx" /\ ~loaded
        /\ loaded' = TRUE
        /\ marked' = marked \cup first.marked
        /\ shown' = first.shown
        /\ listeners' = Cardinality(chain)
        /\ UNCHANGED <<page, icons>>

\* The lists whose surroundings are displayed, from the outermost one inwards.
VisibleLists ==
    {l \in JmxLists : \A s \in SUBSET JmxLists :
        (/\ Root \in s
         /\ \A m \in s : TabsOf(m) \cap shown \cap JmxLists \subseteq s) => l \in s}

\* Each listener of the tab runs the handler once.
ClickJmx(l, t) ==
    LET after[n \in Nat] ==
            IF n = 0 THEN [marked |-> marked, shown |-> shown]
            ELSE SelectActiveTab(after[n - 1], l, t)
    IN  /\ page = "jmx" /\ loaded /\ l \in VisibleLists /\ t \in TabsOf(l)
        /\ marked' = after[listeners].marked
        /\ shown' = after[listeners].shown
        /\ UNCHANGED <<page, loaded, icons, listeners>>
=============================================================================
