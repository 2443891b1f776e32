------------------------- MODULE BrowserSessionProofs -------------------------
(***************************************************************************)
(* Theorems about BrowserSession, for any set of titles and any JMX page.  *)
(* What a page shows depends on what it was before its script ran: the     *)
(* invariant adds that to TypeOK and ChoiceIsShown (Fresh).  That          *)
(* currentData follows the storage through the life of a page makes the    *)
(* session an implementation of TabMemory.  On a JMX page every list that  *)
(* has been started has one choice, and the list under that choice has     *)
(* been started as well (Good): from it follow OneTabPerList and           *)
(* OtherListsKept.                                                         *)
(***************************************************************************)
EXTENDS BrowserSession, TLAPS, FiniteSetTheorems, SequenceTheorems,
        WellFoundedInduction

USE TitlesAssumption, NoTabAssumption

\* A health page has the fixed tabs; before its script has run, no tab is
\* marked or open, everything is displayed and currentData is empty; a page
\* without tabs leaves it empty.
Fresh ==
    page = "health" =>
        /\ Fixed \subseteq titles
        /\ ~loaded => /\ marked = {} /\ shown = titles
                      /\ data = <<>>
                      /\ opened = {} /\ unfolded = {}
        /\ layout # "wide" => data = <<>>

IInv == TypeOK /\ Fresh /\ ChoiceIsShown

\* What a sequence of at most one entry is.
LEMMA OneEntry ==
    ASSUME NEW d \in Seq(Titles), Len(d) <= 1
    PROVE  d = <<>> \/ (Len(d) = 1 /\ DOMAIN d = {1} /\ d[1] \in Titles)
<1>1. Len(d) \in Nat /\ DOMAIN d = 1..Len(d) /\ d \in [1..Len(d) -> Titles]
  BY LenProperties
<1>2. d = <<>> <=> Len(d) = 0
  BY EmptySeq
<1>3. CASE Len(d) = 1
  BY <1>1, <1>3
<1> QED BY <1>1, <1>2, <1>3

\* addToStorage leaves exactly one entry when there was at most one.
LEMMA StorageHasOne ==
    ASSUME NEW t \in Titles, NEW d \in Seq(Titles), Len(d) <= 1
    PROVE  /\ AddToStorage(d, t) \in Seq(Titles)
           /\ Len(AddToStorage(d, t)) = 1
           /\ AddToStorage(d, t)[1] = t
<1>1. CASE d = <<>>
  BY <1>1 DEF AddToStorage
<1>2. CASE d # <<>>
  <2>1. Len(d) = 1 /\ DOMAIN d = 1..1
    BY <1>2, OneEntry
  <2>2. AddToStorage(d, t) = [i \in 1..1 |-> t]
    BY <1>2, <2>1 DEF AddToStorage
  <2> QED BY <2>2
<1> QED BY <1>1, <1>2

\* An empty currentData is one with at most one entry.
LEMMA NoEntry == <<>> \in Seq(Titles) /\ Len(<<>>) <= 1
  OBVIOUS

LEMMA Initially == Init => IInv
<1> SUFFICES ASSUME Init PROVE IInv OBVIOUS
<1> USE DEF Init, InitReporting, InitRadar
<1>2. data \in Seq(Titles) /\ Len(data) <= 1 /\ storage \in Seq(Titles) /\ Len(storage) <= 1
  BY NoEntry
<1>3. TypeOK BY <1>2, TRUE \in BOOLEAN DEF TypeOK, Layouts
<1>4. Fresh /\ ChoiceIsShown BY DEF Fresh, ChoiceIsShown
<1> QED BY <1>3, <1>4 DEF IInv

-----------------------------------------------------------------------------
(* The steps                                                                *)

\* What the handler of the unload event writes is a choice, too.
LEMMA SavedType == TypeOK => Saved \in Seq(Titles) /\ Len(Saved) <= 1
  BY DEF TypeOK, Saved

LEMMA ServerStep == IInv /\ Server => IInv'
<1> SUFFICES ASSUME IInv, Server PROVE IInv' OBVIOUS
<1> USE DEF Server, ReportChanges, StateChanges
<1>1. TypeOK' BY DEF IInv, TypeOK, dom, health
<1>2. UNCHANGED <<dom, health, data, storage>> BY DEF dom, health
<1>3. Fresh' /\ ChoiceIsShown'
  BY <1>2 DEF IInv, Fresh, ChoiceIsShown, ChoiceIn, dom, health
<1> QED BY <1>1, <1>3 DEF IInv

LEMMA OpenStep == ASSUME IInv, NEW l \in Layouts, OpenHealth(l), listeners' \in Nat PROVE IInv'
<1> USE DEF OpenHealth, NewDocument, server
<1>1. Saved \in Seq(Titles) /\ Len(Saved) <= 1 BY SavedType DEF IInv
<1>2. data' \in Seq(Titles) /\ Len(data') <= 1 BY NoEntry
<1>3. TypeOK' BY <1>1, <1>2, FALSE \in BOOLEAN DEF IInv, TypeOK
<1>4. Fresh' /\ ChoiceIsShown' BY DEF IInv, TypeOK, Fresh, ChoiceIsShown
<1> QED BY <1>3, <1>4 DEF IInv

LEMMA LeaveStep == IInv /\ (GoToJmx \/ Discard) => IInv'
<1> SUFFICES ASSUME IInv, GoToJmx \/ Discard PROVE IInv' OBVIOUS
<1>1. Saved \in Seq(Titles) /\ Len(Saved) <= 1 BY SavedType DEF IInv
<1>2. /\ page' \in {"jmx", "closed"} /\ loaded' = FALSE /\ icons' = {}
      /\ page' # "jmx" => marked' = {} /\ shown' = {}
      /\ storage' \in {Saved, storage} /\ listeners' = 0
      /\ titles' = {} /\ errors' = {} /\ layout' = "wide"
      /\ opened' = {} /\ unfolded' = {} /\ data' = <<>>
      /\ UNCHANGED <<report, down>>
  BY DEF GoToJmx, Discard, OpenJmx, NewDocument, NoHealthPage, server
<1>3. storage' \in Seq(Titles) /\ Len(storage') <= 1 BY <1>1, <1>2 DEF IInv, TypeOK
<1>4. data' \in Seq(Titles) /\ Len(data') <= 1 BY <1>2, NoEntry
<1>5. TypeOK' BY <1>2, <1>3, <1>4 DEF IInv, TypeOK, Layouts
<1>6. Fresh' /\ ChoiceIsShown' BY <1>2 DEF Fresh, ChoiceIsShown
<1> QED BY <1>5, <1>6 DEF IInv

LEMMA JmxStep == IInv /\ JmxScript => IInv'
<1> SUFFICES ASSUME IInv, JmxScript PROVE IInv' OBVIOUS
<1>1. /\ page = "jmx" /\ page' = page /\ loaded' \in BOOLEAN
      /\ UNCHANGED <<icons, reporting>>
  BY DEF JmxScript, LoadJmx, ClickJmx, IInv, TypeOK
<1>2. listeners' \in Nat
  <2>1. CASE LoadJmx
    <3> DEFINE chain == FirstChain(Root, JmxLists)
    <3>1. chain \subseteq JmxLists BY DEF FirstChain
    <3>2. IsFiniteSet(chain) BY <3>1, JmxAssumption, FS_Subset
    <3>3. Cardinality(chain) \in Nat BY <3>2, FS_CardinalityType
    <3> QED BY <2>1, <3>3 DEF LoadJmx
  <2>2. CASE ~LoadJmx
    BY <2>2 DEF JmxScript, ClickJmx, IInv, TypeOK
  <2> QED BY <2>1, <2>2
<1>3. TypeOK'
  BY <1>1, <1>2 DEF IInv, TypeOK, reporting, server, health
<1> QED BY <1>1, <1>3 DEF IInv, Fresh, ChoiceIsShown

LEMMA LoadStep == IInv /\ LoadHealth /\ UNCHANGED listeners => IInv'
<1> SUFFICES ASSUME IInv, LoadHealth, UNCHANGED listeners PROVE IInv' OBVIOUS
<1>1. /\ page = "health" /\ page' = "health" /\ loaded' = TRUE
      /\ marked = {} /\ shown = titles /\ data = <<>>
      /\ opened = {} /\ unfolded = {} /\ FirstTab \in titles
      /\ UNCHANGED <<report, down, titles, errors, layout, opened, unfolded, storage>>
  BY DEF LoadHealth, IInv, Fresh, server, health
<1>2. \A s, u, e : ErrorIcons(s, u, e) \subseteq s
  BY DEF ErrorIcons
<1>3. CASE LoadWide
  <2>1. storage = <<>> \/ (Len(storage) = 1 /\ DOMAIN storage = {1} /\ storage[1] \in Titles)
    BY OneEntry DEF IInv, TypeOK
  <2>2. CASE storage = <<>>
    <3>1. marked' = {FirstTab} /\ shown' = {FirstTab} /\ data' = <<>>
      BY <1>1, <1>3, <2>2 DEF LoadWide, DefaultActive, ShowOnly
    <3>2. TypeOK' BY <1>1, <1>2, <1>3, <3>1 DEF IInv, TypeOK, LoadWide
    <3> QED BY <1>1, <1>3, <3>1, <3>2 DEF IInv, Fresh, ChoiceIsShown, ChoiceIn, LoadWide
  <2>3. CASE storage # <<>> /\ storage[1] \in titles
    <3> DEFINE found == {i \in DOMAIN storage : storage[i] \in titles}
    <3>1. found = {1} BY <2>1, <2>3
    <3>2. (CHOOSE i \in found : \A j \in found : j <= i) = 1
      BY <3>1
    <3>3. {storage[i] : i \in found} = {storage[1]} BY <3>1
    <3> HIDE DEF found
    <3>4. marked' = {storage[1]} /\ shown' = {storage[1]} /\ data' = storage
      BY <1>1, <1>3, <2>3, <3>1, <3>2, <3>3 DEF LoadWide, RestoreActive, ShowOnly, found
    <3>5. TypeOK' BY <1>1, <1>2, <1>3, <2>3, <3>4 DEF IInv, TypeOK, LoadWide
    <3> QED BY <1>1, <1>3, <2>3, <3>4, <3>5 DEF IInv, Fresh, ChoiceIsShown, ChoiceIn, LoadWide
  <2>4. CASE storage # <<>> /\ storage[1] \notin titles
    <3>1. {i \in DOMAIN storage : storage[i] \in titles} = {} BY <2>1, <2>4
    <3>2. marked' = {} /\ shown' = titles /\ data' = storage
      BY <1>1, <1>3, <2>4, <3>1 DEF LoadWide, RestoreActive
    <3>3. TypeOK' BY <1>1, <1>2, <1>3, <3>2 DEF IInv, TypeOK, LoadWide
    <3> QED
      BY <1>1, <1>3, <2>1, <2>4, <3>2, <3>3 DEF IInv, Fresh, ChoiceIsShown, ChoiceIn, LoadWide
  <2> QED BY <2>2, <2>3, <2>4
<1>4. CASE LoadMobile
  <2>1. TypeOK' BY <1>1, <1>2, <1>4 DEF IInv, TypeOK, LoadMobile
  <2> QED BY <1>1, <1>4, <2>1 DEF IInv, Fresh, ChoiceIsShown, LoadMobile
<1>5. CASE LoadNarrow
  <2>1. TypeOK' BY <1>1, <1>5 DEF IInv, TypeOK, LoadNarrow
  <2> QED BY <1>1, <1>5, <2>1 DEF IInv, Fresh, ChoiceIsShown, LoadNarrow
<1> QED BY <1>3, <1>4, <1>5 DEF LoadHealth

LEMMA ClickStep == ASSUME IInv, NEW t \in Titles, ClickTab(t), UNCHANGED listeners PROVE IInv'
<1>1. /\ page = "health" /\ page' = page /\ loaded = TRUE /\ loaded' = loaded
      /\ layout = "wide" /\ t \in titles
      /\ UNCHANGED <<icons, report, down, titles, errors, layout, opened, unfolded, storage>>
  BY DEF ClickTab, server, health, IInv, TypeOK
<1>2. data \in Seq(Titles) /\ Len(data) <= 1 BY DEF IInv, TypeOK
<1>3. shown' = {t} \ Unlinked
  BY <1>1 DEF ClickTab, ShowOnly, IInv, TypeOK
<1>4. marked' = {t}
  BY <1>1 DEF ClickTab, MarkOnly, IInv, TypeOK, ChoiceIsShown
<1>5. CASE t \in Unlinked
  <2>1. data' = data BY <1>5 DEF ClickTab
  <2>2. TypeOK' BY <1>1, <1>3, <1>4, <2>1 DEF IInv, TypeOK
  <2> QED BY <1>1, <1>3, <1>4, <1>5, <2>1, <2>2 DEF IInv, Fresh, ChoiceIsShown
<1>6. CASE t \notin Unlinked
  <2>1. data' \in Seq(Titles) /\ Len(data') = 1 /\ data'[1] = t
    BY <1>2, <1>6, StorageHasOne DEF ClickTab
  <2>2. ChoiceIn(data') = t BY <2>1 DEF ChoiceIn
  <2>3. TypeOK' BY <1>1, <1>3, <1>4, <2>1 DEF IInv, TypeOK
  <2>4. ChoiceIsShown' BY <1>1, <1>3, <1>4, <1>6, <2>2 DEF ChoiceIsShown, ChoiceIn
  <2> QED BY <1>1, <2>3, <2>4 DEF IInv, Fresh
<1> QED BY <1>5, <1>6

LEMMA MobileStep ==
    ASSUME IInv, NEW t \in Titles, ClickMobileTab(t), UNCHANGED listeners PROVE IInv'
<1>1. /\ page = "health" /\ loaded = TRUE /\ layout = "mobile" /\ t \in titles
      /\ UNCHANGED <<dom, report, down, titles, errors, layout, data, storage>>
  BY DEF ClickMobileTab, server, IInv, TypeOK
<1>2. /\ opened' \subseteq titles /\ unfolded' \subseteq opened'
      /\ unfolded' = opened' \ Unlinked
  BY <1>1 DEF ClickMobileTab, IInv, TypeOK, ChoiceIsShown
<1>3. TypeOK' BY <1>1, <1>2 DEF IInv, TypeOK, dom
<1> QED BY <1>1, <1>2, <1>3 DEF IInv, Fresh, ChoiceIsShown, dom

LEMMA Inductive == IInv /\ [Next]_vars => IInv'
<1> SUFFICES ASSUME IInv, [Next]_vars PROVE IInv' OBVIOUS
<1>1. CASE Server BY <1>1, ServerStep
<1>2. CASE HealthScript BY <1>2, LoadStep, ClickStep, MobileStep DEF HealthScript
<1>3. CASE JmxScript BY <1>3, JmxStep
<1>4. CASE Reload
  <2>1. layout \in Layouts /\ listeners' \in Nat BY <1>4 DEF IInv, TypeOK, Reload
  <2> QED BY <1>4, <2>1, OpenStep DEF Reload, Refresh
<1>5. CASE \E l \in Layouts : GoToHealth(l) BY <1>5, OpenStep DEF GoToHealth
<1>6. CASE GoToJmx \/ Discard BY <1>6, LeaveStep
<1>7. CASE UNCHANGED vars
  BY <1>7 DEF vars, dom, reporting, server, health, IInv, TypeOK, Fresh, ChoiceIsShown, ChoiceIn
<1> QED BY <1>1, <1>2, <1>3, <1>4, <1>5, <1>6, <1>7 DEF Next

LEMMA Invariant == Spec => []IInv
  BY Initially, Inductive, PTL DEF Spec

\* Every variable keeps its type, and neither currentData nor the storage ever
\* has a second entry for the list of the page (addToStorage).
THEOREM TypeCorrect == Spec => []TypeOK
<1>1. IInv => TypeOK BY DEF IInv
<1> QED BY <1>1, Invariant, PTL

\* For any report and any titles, the loaded health page is in one of the three
\* states ChoiceIsShown names: the tab of currentData (or the first one) alone
\* is marked and shown; or that tab is gone, nothing is marked and everything
\* shown; or an unlinked tab is marked and the page is blank.
THEOREM TabsShowTheChoice == Spec => []ChoiceIsShown
<1>1. IInv => ChoiceIsShown BY DEF IInv
<1> QED BY <1>1, Invariant, PTL

-----------------------------------------------------------------------------
(* The session implements TabMemory                                         *)

LEMMA MemoryInit == Init => Memory!Init
  BY DEF Init, InitReporting, Memory!Init, View, ChoiceIn

\* Which tab loading brings to the front of a page that has marked none.
LEMMA LoadedWide ==
    ASSUME IInv, LoadHealth, LoadWide
    PROVE  /\ data' = storage
           /\ marked' = IF ChoiceIn(storage) = NoTab THEN {FirstTab}
                        ELSE {ChoiceIn(storage)} \cap titles
<1>1. marked = {} /\ data' = storage
  BY DEF LoadHealth, LoadWide, IInv, Fresh
<1>2. storage = <<>> \/ (Len(storage) = 1 /\ DOMAIN storage = {1} /\ storage[1] \in Titles)
  BY OneEntry DEF IInv, TypeOK
<1>3. CASE storage = <<>>
  BY <1>1, <1>3 DEF LoadWide, DefaultActive, ChoiceIn
<1>4. CASE storage # <<>>
  <2>1. ChoiceIn(storage) = storage[1] /\ storage[1] # NoTab
    BY <1>2, <1>4 DEF ChoiceIn
  <2>2. marked' = {storage[i] : i \in {i \in DOMAIN storage : storage[i] \in titles}}
    BY <1>1, <1>4 DEF LoadWide, RestoreActive
  <2>3. marked' = {storage[1]} \cap titles
    BY <1>2, <1>4, <2>2
  <2> QED BY <1>1, <2>1, <2>3
<1> QED BY <1>3, <1>4

LEMMA MemoryStep == IInv /\ [Next]_vars => [Memory!Next]_Memory!memory
<1> SUFFICES ASSUME IInv, [Next]_vars PROVE [Memory!Next]_Memory!memory OBVIOUS
<1> USE DEF Memory!memory
<1>1. CASE Server \/ JmxScript \/ UNCHANGED vars
  <2>1. /\ UNCHANGED <<page, titles, layout, data, storage>>
        /\ page = "health" => UNCHANGED <<loaded, marked>>
    BY <1>1 DEF Server, ReportChanges, StateChanges, JmxScript, LoadJmx, ClickJmx,
                vars, dom, reporting, health
  <2>2. UNCHANGED <<View, ChoiceIn(storage), ChoiceIn(data), titles>> BY <2>1 DEF View, ChoiceIn
  <2>3. View = "tabs" => UNCHANGED marked BY <2>1 DEF View
  <2> QED BY <2>2, <2>3
<1>2. CASE LoadHealth
  <2>1. /\ View = "away" /\ storage' = storage /\ titles' = titles
        /\ View' = IF layout = "wide" THEN "tabs" ELSE "bare"
    BY <1>2 DEF LoadHealth, View, health
  <2>2. CASE LoadWide
    <3>1. View' = "tabs" /\ data' = storage
          /\ marked' = IF ChoiceIn(storage) = NoTab THEN {FirstTab}
                       ELSE {ChoiceIn(storage)} \cap titles
      BY <1>2, <2>1, <2>2, LoadedWide DEF LoadWide
    <3>2. titles \in SUBSET Titles BY DEF IInv, TypeOK
    <3>3. Memory!Load(titles) BY <2>1, <3>1 DEF Memory!Load, ChoiceIn
    <3> QED BY <3>2, <3>3 DEF Memory!Next
  <2>3. CASE ~LoadWide
    <3>1. layout # "wide" BY <1>2, <2>3 DEF LoadHealth, LoadMobile, LoadNarrow
    <3>2. Memory!LoadBare BY <2>1, <3>1 DEF Memory!LoadBare, Memory!Ends, ChoiceIn
    <3> QED BY <3>2 DEF Memory!Next
  <2> QED BY <2>2, <2>3
<1>3. ASSUME NEW t \in Titles, ClickTab(t) PROVE [Memory!Next]_Memory!memory
  <2>1. /\ View = "tabs" /\ View' = "tabs" /\ t \in titles
        /\ storage' = storage /\ titles' = titles
    BY <1>3 DEF ClickTab, View, health
  <2>2. marked' = {t}
    BY <1>3, <2>1 DEF ClickTab, MarkOnly, IInv, TypeOK, ChoiceIsShown
  <2>3. ChoiceIn(data') = IF t \in Unlinked THEN ChoiceIn(data) ELSE t
    <3>1. CASE t \in Unlinked BY <1>3, <3>1 DEF ClickTab
    <3>2. CASE t \notin Unlinked
      <4>1. data' \in Seq(Titles) /\ Len(data') = 1 /\ data'[1] = t
        BY <1>3, <3>2, StorageHasOne DEF ClickTab, IInv, TypeOK
      <4> QED BY <3>2, <4>1 DEF ChoiceIn
    <3> QED BY <3>1, <3>2
  <2>4. Memory!Click(t) BY <2>1, <2>2, <2>3 DEF Memory!Click, ChoiceIn
  <2> QED BY <2>4 DEF Memory!Next
<1>4. ASSUME NEW t \in Titles, ClickMobileTab(t) PROVE [Memory!Next]_Memory!memory
  <2>1. View # "tabs" /\ View' = View /\ storage' = storage
    BY <1>4 DEF ClickMobileTab, dom, View
  <2> QED BY <2>1 DEF ChoiceIn
<1>5. CASE Reload \/ (\E l \in Layouts : GoToHealth(l)) \/ GoToJmx
  <2>1. storage' = Saved /\ View' = "away"
    BY <1>5 DEF Reload, Refresh, GoToHealth, GoToJmx, OpenHealth, OpenJmx, NewDocument, View
  <2>2. CASE View = "closed"
    <3>1. Memory!Visit
      BY <2>1, <2>2 DEF Memory!Visit, Memory!Ends, View, Saved, ChoiceIn
    <3> QED BY <3>1 DEF Memory!Next
  <2>3. CASE View = "away"
    BY <2>1, <2>3 DEF View, Saved, ChoiceIn
  <2>4. CASE View \in {"tabs", "bare"}
    <3>1. storage' = data BY <2>1, <2>4 DEF View, Saved
    <3>2. View = "bare" => data = <<>> BY DEF View, IInv, Fresh
    <3>3. Memory!Leave
      BY <2>1, <2>4, <3>1, <3>2 DEF Memory!Leave, Memory!Ends, ChoiceIn
    <3> QED BY <3>3 DEF Memory!Next
  <2> QED BY <2>2, <2>3, <2>4 DEF View
<1>6. CASE Discard
  <2>1. storage' = storage /\ View' = "closed" /\ View # "closed"
    BY <1>6 DEF Discard, NewDocument, View
  <2>2. Memory!Discard BY <2>1 DEF Memory!Discard, Memory!Ends, ChoiceIn
  <2> QED BY <2>2 DEF Memory!Next
<1> QED BY <1>1, <1>2, <1>3, <1>4, <1>5, <1>6 DEF Next, HealthScript

\* The tab chosen last is in front whenever the page is loaded again and the
\* report has it, through every reload, every visit to another page and every
\* change of the report; only a click on an open page with tabs changes the
\* choice, which is given up only when the tab of the browser is discarded or
\* the page is loaded in a window that shows no tabs (restored at
\* tabReporting.js:44-69, stored at 16-18).
THEOREM ChoiceIsRemembered == Spec => ImplementsMemory
  BY Invariant, MemoryInit, MemoryStep, PTL DEF Spec, ImplementsMemory, Memory!Spec

-----------------------------------------------------------------------------
(* The lists of a JMX page                                                  *)

\* The lists of a document d whose script has run: a list that is started,
\* which is one with a marked tab, has exactly one choice, the tab that is
\* marked and shown, and the list under that choice is started too.  So the
\* lists that can be seen from Root have been started.
Good(d) ==
    /\ d.marked \subseteq JmxTitles /\ d.shown \subseteq JmxTitles
    /\ d.marked \cap TabsOf(Root) # {}
    /\ \A l \in JmxLists : d.marked \cap TabsOf(l) # {} =>
          \E t \in TabsOf(l) : /\ d.marked \cap TabsOf(l) = {t}
                               /\ d.shown \cap TabsOf(l) \in {{t}, {t} \ JmxUnlinked}
                               /\ t \in JmxLists => d.marked \cap TabsOf(t) # {}

Lists == [marked |-> marked, shown |-> shown]

JmxInv ==
    page = "jmx" =>
        /\ ~loaded => marked = {} /\ shown = JmxTitles
        /\ loaded => listeners # 0 /\ Good(Lists)

USE JmxAssumption

\* Induction over the natural numbers, for a set of numbers.
LEMMA Induction ==
    ASSUME NEW S \in SUBSET Nat, 0 \in S, \A n \in S : n + 1 \in S PROVE S = Nat
<1> DEFINE less == {p \in Nat \X Nat : p[1] < p[2]}
<1>1. SUFFICES ASSUME Nat \ S # {} PROVE FALSE OBVIOUS
<1>2. IsWellFoundedOn(less, Nat)
  <2>1. less = OpToRel(<, Nat) BY DEF OpToRel
  <2>2. IsWellFoundedOn(OpToRel(<, Nat), Nat) BY NatLessThanWellFounded
  <2> QED BY <2>1, <2>2
<1>3. PICK x \in Nat \ S : \A y \in Nat \ S : ~(<<y, x>> \in less)
  <2>1. Nat \ S \subseteq Nat OBVIOUS
  <2> HIDE DEF less
  <2> QED BY <1>1, <1>2, <2>1, WFMin
<1>4. x - 1 \in Nat OBVIOUS
<1>5. <<x - 1, x>> \in less BY <1>4
<1>6. x - 1 \in S BY <1>3, <1>4, <1>5
<1>7. x - 1 + 1 \in S BY <1>6
<1> QED BY <1>7

LEMMA FirstIsTab ==
    /\ \A l \in JmxLists : FirstOf(l) \in TabsOf(l)
    /\ \A l \in JmxLists : TabsOf(l) \subseteq JmxTitles
<1>1. ASSUME NEW l \in JmxLists PROVE FirstOf(l) \in TabsOf(l)
  <2>1. JmxTabs[l] \in Seq(JmxTitles) /\ JmxTabs[l] # <<>> OBVIOUS
  <2>2. 1 \in DOMAIN JmxTabs[l] BY <2>1, EmptySeq, LenProperties
  <2> QED BY <2>2 DEF FirstOf, TabsOf
<1>2. \A l \in JmxLists : TabsOf(l) \subseteq JmxTitles BY DEF JmxTitles
<1> QED BY <1>1, <1>2

LEMMA OneListOfTab ==
    \A l, m \in JmxLists : \A t : t \in TabsOf(l) /\ t \in TabsOf(m) => l = m
  OBVIOUS

\* FirstChain is a set of the lists it is taken from, with the list it begins
\* at, and closed under going to the list under the first tab.
LEMMA ChainIsClosed ==
    ASSUME NEW open, NEW l \in open
    PROVE  /\ FirstChain(l, open) \subseteq open
           /\ l \in FirstChain(l, open)
           /\ \A m \in FirstChain(l, open) :
                 FirstOf(m) \in open => FirstOf(m) \in FirstChain(l, open)
  BY DEF FirstChain

\* Document e is d after the first tabs of lists have been chosen, as far as
\* list k is concerned.
FirstIsChosen(d, lists, found, e, k) ==
    /\ k \in lists => /\ e.marked \cap TabsOf(k) = {FirstOf(k)}
                      /\ e.shown \cap TabsOf(k) = {FirstOf(k)} \cap found
    /\ k \notin lists => /\ e.marked \cap TabsOf(k) = d.marked \cap TabsOf(k)
                         /\ e.shown \cap TabsOf(k) = d.shown \cap TabsOf(k)

\* What SelectFirsts does to the marks of a list, and to what it displays.
LEMMA SelectFirstsList ==
    ASSUME NEW d, NEW lists \in SUBSET JmxLists, NEW found, NEW k \in JmxLists,
           NEW e, e = SelectFirsts(d, lists, found)
    PROVE  FirstIsChosen(d, lists, found, e, k)
<1> DEFINE firsts == {FirstOf(l) : l \in lists}
           tabs   == UNION {TabsOf(l) : l \in lists}
<1>1. e.marked = (d.marked \ tabs) \cup firsts
      /\ e.shown = (d.shown \ tabs) \cup (firsts \cap found)
  BY DEF SelectFirsts, ShowOnly
<1>2. k \in lists => TabsOf(k) \subseteq tabs /\ firsts \cap TabsOf(k) = {FirstOf(k)}
  BY FirstIsTab, OneListOfTab
<1>3. k \notin lists => TabsOf(k) \cap tabs = {} /\ firsts \cap TabsOf(k) = {}
  BY FirstIsTab, OneListOfTab
<1> HIDE DEF firsts, tabs
<1>4. k \in lists => /\ e.marked \cap TabsOf(k) = {FirstOf(k)}
                     /\ e.shown \cap TabsOf(k) = {FirstOf(k)} \cap found
  BY <1>1, <1>2
<1>5. k \notin lists => /\ e.marked \cap TabsOf(k) = d.marked \cap TabsOf(k)
                        /\ e.shown \cap TabsOf(k) = d.shown \cap TabsOf(k)
  BY <1>1, <1>3
<1> QED BY <1>4, <1>5 DEF FirstIsChosen

\* What a click on tab t of list l does: the lists that had no mark and are
\* reached by first tabs from t are started, no other list changes.
Clicked(d, e, l, t, chain) ==
    /\ l \notin chain
    /\ \A k \in chain : k # l /\ d.marked \cap TabsOf(k) = {}
    /\ e.marked \cap TabsOf(l) = {t}
    /\ e.shown \cap TabsOf(l) = {t} \ JmxUnlinked
    /\ \A k \in chain :
          /\ e.marked \cap TabsOf(k) = {FirstOf(k)}
          /\ e.shown \cap TabsOf(k) = {FirstOf(k)} \ JmxUnlinked
          /\ FirstOf(k) \in JmxLists => e.marked \cap TabsOf(FirstOf(k)) # {}
    /\ \A k \in JmxLists \ (chain \cup {l}) :
          /\ e.marked \cap TabsOf(k) = d.marked \cap TabsOf(k)
          /\ e.shown \cap TabsOf(k) = d.shown \cap TabsOf(k)
    /\ t \in JmxLists => e.marked \cap TabsOf(t) # {}
    /\ e.marked \subseteq d.marked \cup JmxTitles
    /\ e.shown \subseteq d.shown \cup JmxTitles

LEMMA ClickOnce ==
    ASSUME NEW d, NEW l \in JmxLists, NEW t \in TabsOf(l),
           NEW e, e = SelectActiveTab(d, l, t)
    PROVE  \E chain \in SUBSET JmxLists :
             Clicked(d, e, l, t, chain)
<1> DEFINE linked == JmxTitles \ JmxUnlinked
           here   == [marked |-> MarkOnly(d.marked, TabsOf(l), t),
                      shown  |-> ShowOnly(d.shown, TabsOf(l), {t} \cap linked)]
           fresh  == {k \in JmxLists : TabsOf(k) \cap here.marked = {}}
<1>1. /\ here.marked = (d.marked \ TabsOf(l)) \cup {t}
      /\ here.shown = (d.shown \ TabsOf(l)) \cup ({t} \cap linked)
  BY DEF MarkOnly, ShowOnly
<1>2. e = IF t \in fresh THEN SelectFirsts(here, FirstChain(t, fresh), linked) ELSE here
  BY DEF SelectActiveTab
<1>3. t \in JmxTitles BY FirstIsTab
<1>4. \A k \in JmxLists : fresh \subseteq JmxLists
                          /\ (k \in fresh <=> here.marked \cap TabsOf(k) = {})
  OBVIOUS
<1> HIDE DEF linked, here, fresh
<1>5. /\ here.marked \cap TabsOf(l) = {t}
      /\ here.shown \cap TabsOf(l) = {t} \ JmxUnlinked
  BY <1>1, <1>3 DEF linked
<1>6. ASSUME NEW k \in JmxLists, k # l
      PROVE  /\ here.marked \cap TabsOf(k) = d.marked \cap TabsOf(k)
             /\ here.shown \cap TabsOf(k) = d.shown \cap TabsOf(k)
  BY <1>1, <1>6
<1>7. l \notin fresh BY <1>4, <1>5
<1>8. /\ here.marked \subseteq d.marked \cup JmxTitles
      /\ here.shown \subseteq d.shown \cup JmxTitles
  BY <1>1, <1>3
<1>9. CASE t \notin fresh
  <2>1. e = here BY <1>2, <1>9
  <2>2. t \in JmxLists => here.marked \cap TabsOf(t) # {} BY <1>4, <1>9
  <2>3. WITNESS {} \in SUBSET JmxLists
  <2> QED BY <1>5, <1>6, <1>8, <2>1, <2>2 DEF Clicked
<1>10. CASE t \in fresh
  <2> DEFINE chain == FirstChain(t, fresh)
  <2>1. /\ chain \subseteq fresh /\ t \in chain
        /\ \A m \in chain : FirstOf(m) \in fresh => FirstOf(m) \in chain
    BY <1>10, ChainIsClosed
  <2>2. e = SelectFirsts(here, chain, linked) BY <1>2, <1>10
  <2> HIDE DEF chain
  <2>3. chain \in SUBSET JmxLists BY <1>4, <2>1
  <2>4. \A k \in JmxLists :
           /\ k \in chain => /\ e.marked \cap TabsOf(k) = {FirstOf(k)}
                             /\ e.shown \cap TabsOf(k) = {FirstOf(k)} \cap linked
           /\ k \notin chain => /\ e.marked \cap TabsOf(k) = here.marked \cap TabsOf(k)
                                /\ e.shown \cap TabsOf(k) = here.shown \cap TabsOf(k)
    <3> SUFFICES ASSUME NEW k \in JmxLists
                 PROVE  /\ k \in chain => /\ e.marked \cap TabsOf(k) = {FirstOf(k)}
                                          /\ e.shown \cap TabsOf(k) = {FirstOf(k)} \cap linked
                        /\ k \notin chain => /\ e.marked \cap TabsOf(k) = here.marked \cap TabsOf(k)
                                             /\ e.shown \cap TabsOf(k) = here.shown \cap TabsOf(k)
      OBVIOUS
    <3>1. FirstIsChosen(here, chain, linked, e, k)
      BY ONLY <2>2, <2>3, SelectFirstsList, k \in JmxLists
    <3> QED BY ONLY <3>1 DEF FirstIsChosen
  <2>5. l \notin chain BY <1>7, <2>1
  <2>6. \A k \in chain : k # l /\ d.marked \cap TabsOf(k) = {}
    BY <1>4, <1>6, <2>1, <2>3, <2>5
  <2>7. \A k \in chain : {FirstOf(k)} \cap linked = {FirstOf(k)} \ JmxUnlinked
    BY <2>3, FirstIsTab DEF linked
  <2>8. ASSUME NEW k \in JmxLists PROVE k \in chain \/ k \notin fresh => e.marked \cap TabsOf(k) # {}
    BY <1>4, <2>4, <2>8
  <2>9. ASSUME NEW k \in chain, FirstOf(k) \in JmxLists
        PROVE  e.marked \cap TabsOf(FirstOf(k)) # {}
    BY <2>1, <2>8, <2>9
  <2>10. /\ e.marked \subseteq here.marked \cup JmxTitles
         /\ e.shown \subseteq here.shown \cup JmxTitles
    <3>1. \A k \in chain : FirstOf(k) \in JmxTitles BY <2>3, FirstIsTab
    <3> QED BY <2>2, <3>1 DEF SelectFirsts, ShowOnly
  <2>11. \A k \in JmxLists \ (chain \cup {l}) :
            /\ e.marked \cap TabsOf(k) = d.marked \cap TabsOf(k)
            /\ e.shown \cap TabsOf(k) = d.shown \cap TabsOf(k)
    BY <1>6, <2>4
  <2>12. /\ e.marked \cap TabsOf(l) = {t}
         /\ e.shown \cap TabsOf(l) = {t} \ JmxUnlinked
    BY <1>5, <2>4, <2>5
  <2>13. /\ e.marked \subseteq d.marked \cup JmxTitles
         /\ e.shown \subseteq d.shown \cup JmxTitles
    BY <1>8, <2>10
  <2>14. t \in JmxLists => e.marked \cap TabsOf(t) # {}
    BY <2>1, <2>8
  <2>15. \A k \in chain :
                       /\ e.marked \cap TabsOf(k) = {FirstOf(k)}
                       /\ e.shown \cap TabsOf(k) = {FirstOf(k)} \ JmxUnlinked
    BY <2>3, <2>4, <2>7
  <2>16. WITNESS chain \in SUBSET JmxLists
  <2> QED BY <2>5, <2>6, <2>9, <2>11, <2>12, <2>13, <2>14, <2>15 DEF Clicked
<1> QED BY <1>9, <1>10

\* A click keeps the invariant of the lists, in a list that is started.
LEMMA ClickKeepsGood ==
    ASSUME NEW d, Good(d), NEW l \in JmxLists, NEW t \in TabsOf(l), d.marked \cap TabsOf(l) # {}
    PROVE  Good(SelectActiveTab(d, l, t))
<1>1. PICK e : e = SelectActiveTab(d, l, t) OBVIOUS
<1>2. PICK chain \in SUBSET JmxLists : Clicked(d, e, l, t, chain)
  BY <1>1, ClickOnce
<1>3. ASSUME NEW k \in JmxLists, d.marked \cap TabsOf(k) # {} PROVE e.marked \cap TabsOf(k) # {}
  <2>1. CASE k = l BY <1>2, <2>1 DEF Clicked
  <2>2. CASE k # l
    <3>1. k \notin chain BY <1>2, <1>3 DEF Clicked
    <3> QED BY <1>2, <1>3, <2>2, <3>1 DEF Clicked
  <2> QED BY <2>1, <2>2
<1>4. e.marked \cap TabsOf(Root) # {} BY <1>3 DEF Good
<1>5. ASSUME NEW k \in JmxLists, e.marked \cap TabsOf(k) # {}
      PROVE  \E u \in TabsOf(k) : /\ e.marked \cap TabsOf(k) = {u}
                                  /\ e.shown \cap TabsOf(k) \in {{u}, {u} \ JmxUnlinked}
                                  /\ u \in JmxLists => e.marked \cap TabsOf(u) # {}
  <2>1. CASE k = l BY <1>2, <2>1 DEF Clicked
  <2>2. CASE k \in chain BY <1>2, <2>2, FirstIsTab DEF Clicked
  <2>3. CASE k \notin chain \cup {l}
    <3>1. /\ e.marked \cap TabsOf(k) = d.marked \cap TabsOf(k)
          /\ e.shown \cap TabsOf(k) = d.shown \cap TabsOf(k)
      BY <1>2, <2>3 DEF Clicked
    <3>2. PICK u \in TabsOf(k) : /\ d.marked \cap TabsOf(k) = {u}
                                 /\ d.shown \cap TabsOf(k) \in {{u}, {u} \ JmxUnlinked}
                                 /\ u \in JmxLists => d.marked \cap TabsOf(u) # {}
      BY <1>5, <3>1 DEF Good
    <3> QED BY <1>3, <3>1, <3>2
  <2> QED BY <2>1, <2>2, <2>3
<1>6. e.marked \subseteq JmxTitles /\ e.shown \subseteq JmxTitles BY <1>2 DEF Good, Clicked
<1>7. Good(e) BY <1>4, <1>5, <1>6 DEF Good
<1> QED BY <1>1, <1>7

\* The listener may be on a tab many times: a second call changes nothing.
LEMMA ClickIsIdempotent ==
    ASSUME NEW d, NEW l \in JmxLists, NEW t \in TabsOf(l)
    PROVE  SelectActiveTab(SelectActiveTab(d, l, t), l, t) = SelectActiveTab(d, l, t)
<1>1. PICK e : e = SelectActiveTab(d, l, t) OBVIOUS
<1>2. /\ e.marked \cap TabsOf(l) = {t}
      /\ e.shown \cap TabsOf(l) = {t} \ JmxUnlinked
      /\ t \in JmxLists => e.marked \cap TabsOf(t) # {}
  <2>1. PICK chain \in SUBSET JmxLists : Clicked(d, e, l, t, chain) BY <1>1, ClickOnce
  <2> QED BY <2>1 DEF Clicked
<1>3. e = [marked |-> e.marked, shown |-> e.shown]
  BY <1>1 DEF SelectActiveTab, SelectFirsts
<1>4. MarkOnly(e.marked, TabsOf(l), t) = e.marked
  BY <1>2 DEF MarkOnly
<1>5. ShowOnly(e.shown, TabsOf(l), {t} \cap (JmxTitles \ JmxUnlinked)) = e.shown
  <2>1. {t} \cap (JmxTitles \ JmxUnlinked) = {t} \ JmxUnlinked BY FirstIsTab
  <2> QED BY <1>2, <2>1 DEF ShowOnly
<1>6. ~(t \in {k \in JmxLists : TabsOf(k) \cap e.marked = {}})
  BY <1>2
<1>7. SelectActiveTab(e, l, t) = e
  BY <1>3, <1>4, <1>5, <1>6 DEF SelectActiveTab
<1> QED BY <1>1, <1>7

\* So the handler has the effect of one call, however often it runs.
LEMMA ClickOnceIsEnough ==
    ASSUME NEW d, NEW l \in JmxLists, NEW t \in TabsOf(l), NEW n \in Nat, n # 0
    PROVE  LET after[i \in Nat] == IF i = 0 THEN d ELSE SelectActiveTab(after[i - 1], l, t)
           IN  after[n] = SelectActiveTab(d, l, t)
<1> DEFINE Step(f) == [i \in Nat |-> IF i = 0 THEN d ELSE SelectActiveTab(f[i - 1], l, t)]
           after == CHOOSE f : f = Step(f)
<1>1. PICK e : e = SelectActiveTab(d, l, t) OBVIOUS
<1>2. SelectActiveTab(e, l, t) = e BY <1>1, ClickIsIdempotent
<1>3. PICK g : g = [i \in Nat |-> IF i = 0 THEN d ELSE e] OBVIOUS
<1>4. g = Step(g)
  <2>1. \A i \in Nat : i # 0 => i - 1 \in Nat OBVIOUS
  <2>2. \A i \in Nat : i # 0 => SelectActiveTab(g[i - 1], l, t) = e
    <3> SUFFICES ASSUME NEW i \in Nat, i # 0 PROVE SelectActiveTab(g[i - 1], l, t) = e OBVIOUS
    <3>1. CASE i - 1 = 0
      <4>1. g[i - 1] = d BY <1>3, <2>1, <3>1
      <4> QED BY <1>1, <4>1
    <3>2. CASE i - 1 # 0
      <4>1. g[i - 1] = e BY <1>3, <2>1, <3>2
      <4> QED BY <1>2, <4>1
    <3> QED BY <3>1, <3>2
  <2> QED BY <1>3, <2>2
<1>5. after = Step(after) BY <1>4
<1> HIDE DEF after
<1>6. /\ after[0] = d
      /\ \A i \in Nat : i # 0 => after[i] = SelectActiveTab(after[i - 1], l, t)
  <2>1. PICK f : f = after OBVIOUS
  <2>2. f = [i \in Nat |-> IF i = 0 THEN d ELSE SelectActiveTab(f[i - 1], l, t)] BY <1>5, <2>1
  <2>3. f[0] = d /\ \A i \in Nat : i # 0 => f[i] = SelectActiveTab(f[i - 1], l, t) BY <2>2
  <2> QED BY <2>1, <2>3
<1> DEFINE S == {i \in Nat : after[i + 1] = e}
<1>7. 0 \in S
  <2>1. 0 + 1 = 1 /\ 1 - 1 = 0 /\ 1 \in Nat /\ 1 # 0 OBVIOUS
  <2>2. after[1] = SelectActiveTab(after[0], l, t) BY <1>6, <2>1
  <2> QED BY <1>1, <1>6, <2>1, <2>2
<1>8. ASSUME NEW i \in S PROVE i + 1 \in S
  <2>1. /\ i \in Nat /\ i + 1 \in Nat /\ i + 1 + 1 \in Nat /\ i + 1 + 1 # 0
        /\ i + 1 + 1 - 1 = i + 1
    OBVIOUS
  <2>2. after[i + 1 + 1] = SelectActiveTab(after[i + 1], l, t) BY <1>6, <2>1
  <2>3. after[i + 1] = e OBVIOUS
  <2> QED BY <1>2, <2>1, <2>2, <2>3
<1>9. S = Nat
  <2> HIDE DEF S
  <2>1. S \in SUBSET Nat BY DEF S
  <2> QED BY <1>7, <1>8, <2>1, Induction
<1>10. after[n] = e
  <2>1. n - 1 \in Nat /\ n - 1 + 1 = n OBVIOUS
  <2>2. n - 1 \in S BY <1>9, <2>1
  <2> QED BY <2>1, <2>2
<1> QED BY <1>1, <1>10 DEF after

LEMMA LoadJmxGood == IInv /\ JmxInv /\ LoadJmx => JmxInv'
<1> SUFFICES ASSUME IInv, JmxInv, LoadJmx PROVE JmxInv' OBVIOUS
<1> DEFINE none == [marked |-> marked, shown |-> shown]
<1>1. PICK chain : chain = FirstChain(Root, JmxLists) OBVIOUS
<1>2. PICK e : e = SelectFirsts(none, chain, JmxTitles) OBVIOUS
<1>3. /\ marked = {} /\ shown = JmxTitles
      /\ page' = "jmx" /\ loaded'
      /\ marked' = marked \cup e.marked /\ shown' = e.shown
      /\ listeners' = Cardinality(chain)
  BY <1>1, <1>2 DEF LoadJmx, JmxInv
<1>4. /\ chain \in SUBSET JmxLists /\ Root \in chain
      /\ \A m \in chain : FirstOf(m) \in JmxLists => FirstOf(m) \in chain
  BY <1>1, ChainIsClosed
<1>5. listeners' # 0
  <2>1. IsFiniteSet(chain) BY <1>4, FS_Subset
  <2> QED BY <1>3, <1>4, <2>1, FS_EmptySet
<1>6. /\ marked' = e.marked
      /\ none.marked = {} /\ none.shown = JmxTitles
  BY <1>3
<1> HIDE DEF none
<1>7. ASSUME NEW k \in JmxLists
      PROVE  /\ k \in chain => /\ e.marked \cap TabsOf(k) = {FirstOf(k)}
                               /\ e.shown \cap TabsOf(k) = {FirstOf(k)} \cap JmxTitles
             /\ k \notin chain => e.marked \cap TabsOf(k) = none.marked \cap TabsOf(k)
  <2>1. e = SelectFirsts(none, chain, JmxTitles) /\ chain \in SUBSET JmxLists
    BY <1>2, <1>4
  <2>2. FirstIsChosen(none, chain, JmxTitles, e, k)
    BY ONLY <2>1, SelectFirstsList, k \in JmxLists
  <2> QED BY ONLY <2>2 DEF FirstIsChosen
<1>8. \A k \in JmxLists :
         /\ k \in chain => /\ e.marked \cap TabsOf(k) = {FirstOf(k)}
                           /\ e.shown \cap TabsOf(k) = {FirstOf(k)}
         /\ k \notin chain => e.marked \cap TabsOf(k) = {}
  BY <1>6, <1>7, FirstIsTab
<1>9. e.marked \subseteq JmxTitles /\ e.shown \subseteq JmxTitles
  <2>1. \A k \in chain : FirstOf(k) \in JmxTitles BY <1>4, FirstIsTab
  <2> QED BY <1>2, <1>6, <2>1 DEF SelectFirsts, ShowOnly
<1>10. \A k \in JmxLists : e.marked \cap TabsOf(k) # {} =>
          \E t \in TabsOf(k) : /\ e.marked \cap TabsOf(k) = {t}
                               /\ e.shown \cap TabsOf(k) \in {{t}, {t} \ JmxUnlinked}
                               /\ t \in JmxLists => e.marked \cap TabsOf(t) # {}
  <2> SUFFICES ASSUME NEW k \in JmxLists, e.marked \cap TabsOf(k) # {}
               PROVE  \E t \in TabsOf(k) :
                         /\ e.marked \cap TabsOf(k) = {t}
                         /\ e.shown \cap TabsOf(k) \in {{t}, {t} \ JmxUnlinked}
                         /\ t \in JmxLists => e.marked \cap TabsOf(t) # {}
    OBVIOUS
  <2>1. k \in chain BY <1>8
  <2>2. FirstOf(k) \in JmxLists => e.marked \cap TabsOf(FirstOf(k)) # {}
    BY <1>4, <1>8, <2>1
  <2> QED BY <1>8, <2>1, <2>2, FirstIsTab
<1>11. Good([marked |-> e.marked, shown |-> e.shown])
  BY <1>4, <1>8, <1>9, <1>10 DEF Good
<1>12. Lists' = [marked |-> e.marked, shown |-> e.shown] BY <1>3, <1>6 DEF Lists
<1>13. Good(Lists)' BY <1>11, <1>12
<1> QED BY <1>3, <1>5, <1>13 DEF JmxInv

LEMMA VisibleIsStarted ==
    ASSUME Good(Lists), NEW l \in VisibleLists
    PROVE  l \in JmxLists /\ marked \cap TabsOf(l) # {}
<1> DEFINE s == {k \in JmxLists : marked \cap TabsOf(k) # {}}
<1>1. Root \in s BY DEF Good, Lists
<1>2. ASSUME NEW m \in s PROVE TabsOf(m) \cap shown \cap JmxLists \subseteq s
  <2>1. PICK t \in TabsOf(m) : /\ shown \cap TabsOf(m) \subseteq {t}
                               /\ t \in JmxLists => marked \cap TabsOf(t) # {}
    BY DEF Good, Lists
  <2> QED BY <2>1
<1> HIDE DEF s
<1>3. l \in s
  <2>1. s \in SUBSET JmxLists BY DEF s
  <2> QED BY <1>1, <1>2, <2>1 DEF VisibleLists
<1> QED BY <1>3 DEF s

\* What a click does, as often as its listener is called.
LEMMA ClickIs ==
    ASSUME IInv, JmxInv, NEW l \in JmxLists, NEW t \in TabsOf(l), ClickJmx(l, t)
    PROVE  /\ page = "jmx" /\ loaded /\ page' = page /\ loaded' = loaded
           /\ listeners' = listeners
           /\ marked \cap TabsOf(l) # {}
           /\ Good(Lists)
           /\ Lists' = SelectActiveTab(Lists, l, t)
<1>1. /\ page = "jmx" /\ loaded /\ l \in VisibleLists
      /\ UNCHANGED <<page, loaded, listeners>>
      /\ listeners \in Nat /\ listeners # 0 /\ Good(Lists)
  BY DEF ClickJmx, IInv, TypeOK, JmxInv
<1>2. marked \cap TabsOf(l) # {} BY <1>1, VisibleIsStarted
<1>3. LET after[i \in Nat] == IF i = 0 THEN [marked |-> marked, shown |-> shown]
                              ELSE SelectActiveTab(after[i - 1], l, t)
      IN  marked' = after[listeners].marked /\ shown' = after[listeners].shown
  BY DEF ClickJmx
<1>4. LET after[i \in Nat] == IF i = 0 THEN [marked |-> marked, shown |-> shown]
                              ELSE SelectActiveTab(after[i - 1], l, t)
      IN  after[listeners] = SelectActiveTab([marked |-> marked, shown |-> shown], l, t)
  BY <1>1, ClickOnceIsEnough
<1>5. PICK e : e = SelectActiveTab([marked |-> marked, shown |-> shown], l, t) OBVIOUS
<1>6. marked' = e.marked /\ shown' = e.shown BY <1>3, <1>4, <1>5
<1>7. e = [marked |-> e.marked, shown |-> e.shown]
  BY <1>5 DEF SelectActiveTab, SelectFirsts
<1>8. Lists' = SelectActiveTab(Lists, l, t) BY <1>5, <1>6, <1>7 DEF Lists
<1> QED BY <1>1, <1>2, <1>8

LEMMA ClickJmxGood ==
    ASSUME IInv, JmxInv, NEW l \in JmxLists, NEW t \in TabsOf(l), ClickJmx(l, t)
    PROVE  JmxInv'
<1>1. /\ page' = "jmx" /\ loaded' /\ listeners' = listeners /\ listeners # 0
      /\ marked \cap TabsOf(l) # {} /\ Good(Lists)
      /\ Lists' = SelectActiveTab(Lists, l, t)
  BY ClickIs DEF JmxInv
<1>2. PICK d : d = Lists OBVIOUS
<1>3. Good(SelectActiveTab(d, l, t))
  BY <1>1, <1>2, ClickKeepsGood DEF Lists
<1>4. Good(Lists)' BY <1>1, <1>2, <1>3
<1> QED BY <1>1, <1>4 DEF JmxInv

LEMMA JmxInductive == IInv /\ JmxInv /\ [Next]_vars => JmxInv'
<1> SUFFICES ASSUME IInv, JmxInv, [Next]_vars PROVE JmxInv' OBVIOUS
<1>1. CASE LoadJmx BY <1>1, LoadJmxGood
<1>2. CASE \E l \in JmxLists : \E t \in TabsOf(l) : ClickJmx(l, t) BY <1>2, ClickJmxGood
<1>3. CASE Server \/ UNCHANGED vars
  <2>1. UNCHANGED <<page, loaded, marked, shown, listeners>>
    BY <1>3 DEF Server, ReportChanges, StateChanges, vars, dom
  <2>2. Lists' = Lists BY <2>1 DEF Lists
  <2>3. Good(Lists) => Good(Lists)' BY <2>2
  <2> QED BY <2>1, <2>3 DEF JmxInv
<1>4. CASE HealthScript
  <2>1. page' # "jmx"
    BY <1>4 DEF HealthScript, LoadHealth, ClickTab, ClickMobileTab, dom
  <2> QED BY <2>1 DEF JmxInv
<1>5. CASE Reload \/ (\E l \in Layouts : GoToHealth(l)) \/ Discard
  <2>1. page' # "jmx"
    BY <1>5 DEF Reload, Refresh, GoToHealth, OpenHealth, Discard, NewDocument
  <2> QED BY <2>1 DEF JmxInv
<1>6. CASE GoToJmx
  BY <1>6 DEF GoToJmx, OpenJmx, NewDocument, JmxInv
<1> QED BY <1>1, <1>2, <1>3, <1>4, <1>5, <1>6 DEF Next, JmxScript

LEMMA JmxInvariant == Spec => [](IInv /\ JmxInv)
<1>1. Init => JmxInv BY DEF Init, JmxInv
<1> QED BY <1>1, JmxInductive, Invariant, PTL DEF Spec

\* Each list of tabs that can be seen on a loaded JMX page, at any depth, has
\* exactly one marked tab and displays that tab's content and no other.
THEOREM EachListHasOneTab == Spec => []OneTabPerList
<1>1. JmxInv => OneTabPerList
  <2> SUFFICES ASSUME JmxInv, page = "jmx", loaded, NEW l \in VisibleLists
               PROVE  \E t \in TabsOf(l) :
                         /\ marked \cap TabsOf(l) = {t}
                         /\ shown \cap TabsOf(l) \in {{t}, {t} \ JmxUnlinked}
    BY DEF OneTabPerList
  <2>1. Good(Lists) BY DEF JmxInv
  <2>2. l \in JmxLists /\ marked \cap TabsOf(l) # {} BY <2>1, VisibleIsStarted
  <2> QED BY <2>1, <2>2 DEF Good, Lists
<1> QED BY <1>1, JmxInvariant, PTL

LEMMA AtMostOne ==
  ASSUME NEW c, NEW x, c \subseteq {x} PROVE Cardinality(c) <= 1
<1>1. CASE c = {}
  <2>1. Cardinality(c) = 0 BY <1>1, FS_EmptySet
  <2> QED BY <2>1
<1>2. CASE c = {x}
  <2>1. Cardinality(c) = 1 BY <1>2, FS_Singleton
  <2> QED BY <2>1
<1> QED BY <1>1, <1>2

\* A click changes the choice of one list only; the lists in contents that are
\* hidden meanwhile keep theirs.
THEOREM ChoicesAreKept == Spec => OtherListsKept
<1>1. ASSUME IInv, JmxInv, [Next]_vars, page = "jmx", loaded, loaded'
      PROVE  LET changed == {l \in JmxLists :
                     /\ marked \cap TabsOf(l) # {}
                     /\ marked' \cap TabsOf(l) # marked \cap TabsOf(l)}
             IN  Cardinality(changed) <= 1
  <2> DEFINE changed == {l \in JmxLists :
                 /\ marked \cap TabsOf(l) # {}
                 /\ marked' \cap TabsOf(l) # marked \cap TabsOf(l)}
  <2>1. SUFFICES Cardinality(changed) <= 1 OBVIOUS
  <2>2. CASE marked' = marked
    <3>1. changed \subseteq {Root} BY <2>2
    <3> HIDE DEF changed
    <3> QED BY <3>1, AtMostOne
  <2>3. ASSUME NEW l \in JmxLists, NEW t \in TabsOf(l), ClickJmx(l, t)
        PROVE  Cardinality(changed) <= 1
    <3>1. PICK d : d = Lists OBVIOUS
    <3>2. PICK e : e = SelectActiveTab(d, l, t) OBVIOUS
    <3>3. Lists' = e BY <2>3, <3>1, <3>2, <1>1, ClickIs
    <3>4. d.marked = marked /\ e.marked = marked' BY <3>1, <3>3 DEF Lists
    <3>5. PICK chain \in SUBSET JmxLists : Clicked(d, e, l, t, chain) BY <3>2, ClickOnce
    <3>6. \A k \in JmxLists : k # l /\ d.marked \cap TabsOf(k) # {}
             => e.marked \cap TabsOf(k) = d.marked \cap TabsOf(k)
      BY <3>5 DEF Clicked
    <3>7. changed \subseteq {l} BY <3>4, <3>6
    <3> HIDE DEF changed
    <3> QED BY <3>7, AtMostOne
  <2>4. CASE Server BY <2>2, <2>4 DEF Server, ReportChanges, StateChanges, dom
  <2>5. CASE UNCHANGED vars BY <2>2, <2>5 DEF vars, dom
  <2>6. ~HealthScript /\ ~LoadJmx /\ ~Reload
    BY <1>1 DEF HealthScript, LoadHealth, ClickTab, ClickMobileTab, LoadJmx, Reload, Refresh
  <2>7. ~(\E l \in Layouts : GoToHealth(l)) /\ ~GoToJmx /\ ~Discard
    BY <1>1 DEF GoToHealth, OpenHealth, GoToJmx, OpenJmx, Discard, NewDocument
  <2> QED BY <1>1, <2>3, <2>4, <2>5, <2>6, <2>7 DEF Next, JmxScript
<1>2. IInv /\ JmxInv /\ [Next]_vars =>
        [(page = "jmx" /\ loaded /\ loaded') =>
            LET changed == {l \in JmxLists :
                    /\ marked \cap TabsOf(l) # {}
                    /\ marked' \cap TabsOf(l) # marked \cap TabsOf(l)}
            IN  Cardinality(changed) <= 1]_vars
  BY <1>1
<1> QED BY <1>2, JmxInvariant, PTL DEF Spec, OtherListsKept
====
