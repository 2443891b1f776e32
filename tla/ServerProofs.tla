------------------------------ MODULE ServerProofs ------------------------------
(***************************************************************************)
(* Theorems about the parts of the server that no other part of the models *)
(* shares state with: the table of handlers and the memory monitor, for any*)
(* values of their constants.                                              *)
(***************************************************************************)
EXTENDS HandlerTable, MemoryMonitor, TLAPS, FiniteSetTheorems,
        SequenceTheorems, WellFoundedInduction

\* Induction over the natural numbers, for a set of numbers.
LEMMA Induction ==
    ASSUME NEW S \in SUBSET Nat, 0 \in S, \A n \in S : n + 1 \in S PROVE S = Nat
<1> DEFINE Less == {p \in Nat \X Nat : p[1] < p[2]}
<1>1. IsWellFoundedOn(Less, Nat)
  <2>1. Less = OpToRel(<, Nat) BY DEF OpToRel
  <2> QED BY <2>1, NatLessThanWellFounded
<1>2. SUFFICES ASSUME Nat \ S # {} PROVE FALSE OBVIOUS
<1>3. PICK x \in Nat \ S : \A y \in Nat \ S : ~(<<y, x>> \in Less)
  <2>1. Nat \ S \subseteq Nat OBVIOUS
  <2> HIDE DEF Less
  <2> QED BY <1>1, <1>2, <2>1, WFMin
<1>4. x - 1 \in Nat OBVIOUS
<1>5. <<x - 1, x>> \in Less BY <1>4
<1>6. x - 1 \in S BY <1>3, <1>4, <1>5
<1>7. x - 1 + 1 \in S BY <1>6
<1> QED BY <1>7

-----------------------------------------------------------------------------
(* HandlerTable: the maps                                                   *)

\* Handler h is what the maps hold for action a.
Holds(h, c, v, a) ==
    table[c] # Null /\ table[c][v] # Null /\ table[c][v][a] = h

TableTyped ==
    /\ declared \in [Handler -> Support \cup {Null}]
    /\ table \in [AnyCloud -> VersionMap \cup {Null}]

\* What is entered is supported, and what is supported has been entered, if
\* only for a later bean.
TableInv ==
    /\ TableTyped
    /\ \A c \in AnyCloud, v \in Version, a \in ActionType, h \in Handler :
          /\ Holds(h, c, v, a) => Supports(h, c, v, a)
          /\ Supports(h, c, v, a) => \E g \in Handler : Holds(g, c, v, a)

LEMMA TableInductive ==
    /\ TableInit => TableInv
    /\ TableInv /\ [TableNext]_tableVars => TableInv'
<1> USE NullIsNoHandler, NullIsNoMap, VersionsAreCounted
<1>1. TableInit => TableInv
  BY DEF TableInit, TableInv, TableTyped, Holds, Supports
<1>2. ASSUME TableInv, NEW h \in Handler, InitHandler(h) PROVE TableInv'
  <2>1. PICK s \in Support :
           /\ declared[h] = Null
           /\ declared' = [declared EXCEPT ![h] = s]
           /\ table' = [table EXCEPT ![s.cloud] = Entered(h, s)]
    BY <1>2 DEF InitHandler
  <2>2. s.cloud \in AnyCloud /\ s.version \in Version
        /\ s.actions \in SUBSET ActionType /\ s # Null
    BY DEF Support
  <2>3. TableTyped BY <1>2 DEF TableInv
  <2>4. PICK versions \in VersionMap :
           versions = IF table[s.cloud] = Null THEN NoVersions ELSE table[s.cloud]
    <3>1. NoVersions \in VersionMap BY DEF NoVersions, VersionMap
    <3>2. table[s.cloud] \in VersionMap \cup {Null} BY <2>2, <2>3 DEF TableTyped
    <3>3. (IF table[s.cloud] = Null THEN NoVersions ELSE table[s.cloud]) \in VersionMap
      BY <3>1, <3>2
    <3> QED BY <3>3
  <2>5. PICK actions \in ActionMap :
           actions = IF versions[s.version] = Null THEN NoActions ELSE versions[s.version]
    <3>1. NoActions \in ActionMap BY DEF NoActions, ActionMap
    <3>2. versions[s.version] \in ActionMap \cup {Null} BY <2>2, <2>4 DEF VersionMap
    <3>3. (IF versions[s.version] = Null THEN NoActions ELSE versions[s.version]) \in ActionMap
      BY <3>1, <3>2
    <3> QED BY <3>3
  <2>6. PICK entry \in ActionMap :
           entry = [a \in ActionType |-> IF a \in s.actions THEN h ELSE actions[a]]
    BY <2>5 DEF ActionMap
  <2>7. table' = [table EXCEPT ![s.cloud] = [versions EXCEPT ![s.version] = entry]]
    BY <2>1, <2>4, <2>5, <2>6 DEF Entered
  <2>8. [versions EXCEPT ![s.version] = entry] \in VersionMap
    BY <2>2 DEF VersionMap
  <2>9. TableTyped'
    BY <2>1, <2>2, <2>3, <2>7, <2>8 DEF TableTyped
  <2>10. ASSUME NEW c \in AnyCloud, NEW v \in Version, NEW a \in ActionType,
                NEW g \in Handler
         PROVE  /\ ~(c = s.cloud /\ v = s.version /\ a \in s.actions)
                      => (Holds(g, c, v, a)' <=> Holds(g, c, v, a))
                /\ c = s.cloud /\ v = s.version /\ a \in s.actions
                      => (Holds(g, c, v, a)' <=> g = h)
    <3>1. CASE c # s.cloud
      BY <2>2, <2>3, <2>7, <3>1 DEF TableTyped, Holds
    <3>2. CASE c = s.cloud
      <4>1. table[c]' = [versions EXCEPT ![s.version] = entry] /\ table[c]' # Null
        BY <2>2, <2>3, <2>7, <2>8, <3>2 DEF TableTyped
      <4>2. CASE v # s.version
        <5>1. table[c][v]' = versions[v] BY <2>2, <4>1, <4>2 DEF VersionMap
        <5>2. table[c] = Null => versions[v] = Null
          BY <2>4, <3>2 DEF NoVersions
        <5>3. table[c] # Null => versions[v] = table[c][v] BY <2>4, <3>2
        <5> QED BY <3>2, <4>1, <4>2, <5>1, <5>2, <5>3 DEF Holds
      <4>3. CASE v = s.version
        <5>1. table[c][v]' = entry /\ entry # Null
          BY <2>2, <2>6, <4>1, <4>3 DEF VersionMap
        <5>2. table[c][v][a]' = IF a \in s.actions THEN h ELSE actions[a]
          BY <2>6, <5>1
        <5>3. actions[a] = g <=> Holds(g, c, v, a)
          <6>1. CASE table[c] = Null
            BY <2>4, <2>5, <3>2, <4>3, <6>1 DEF Holds, NoVersions, NoActions
          <6>2. CASE table[c] # Null /\ table[c][v] = Null
            BY <2>4, <2>5, <3>2, <4>3, <6>2 DEF Holds, NoActions
          <6>3. CASE table[c] # Null /\ table[c][v] # Null
            BY <2>4, <2>5, <3>2, <4>3, <6>3 DEF Holds
          <6> QED BY <6>1, <6>2, <6>3
        <5> QED BY <3>2, <4>1, <4>3, <5>1, <5>2, <5>3 DEF Holds
      <4> QED BY <4>2, <4>3
    <3> QED BY <3>1, <3>2
  <2>11. ASSUME NEW c \in AnyCloud, NEW v \in Version, NEW a \in ActionType,
                NEW g \in Handler
         PROVE  Supports(g, c, v, a)' <=>
                   IF g = h THEN c = s.cloud /\ v = s.version /\ a \in s.actions
                   ELSE Supports(g, c, v, a)
    <3>1. declared'[g] = IF g = h THEN s ELSE declared[g]
      BY <2>1, <2>3 DEF TableTyped
    <3> QED BY <2>2, <3>1 DEF Supports
  <2>12. \A c \in AnyCloud, v \in Version, a \in ActionType : ~Supports(h, c, v, a)
    BY <2>1 DEF Supports
  <2>13. ASSUME NEW c \in AnyCloud, NEW v \in Version, NEW a \in ActionType,
                NEW g \in Handler
         PROVE  /\ Holds(g, c, v, a)' => Supports(g, c, v, a)'
                /\ Supports(g, c, v, a)' => \E k \in Handler : Holds(k, c, v, a)'
    <3>1. /\ Holds(g, c, v, a) => Supports(g, c, v, a)
          /\ Supports(g, c, v, a) => \E k \in Handler : Holds(k, c, v, a)
      BY <1>2 DEF TableInv
    <3> QED BY <2>10, <2>11, <2>12, <3>1
  <2> QED BY <2>9, <2>13 DEF TableInv
<1>3. TableInv /\ UNCHANGED tableVars => TableInv'
  BY DEF TableInv, TableTyped, Holds, Supports, tableVars
<1> QED BY <1>1, <1>2, <1>3 DEF TableNext

-----------------------------------------------------------------------------
(* HandlerTable: getHandler                                                 *)

\* One round of the lookup, for the versions below computed as f.
FindStep(c, a, f, v) ==
    IF v = 0 THEN Null
    ELSE IF EmptyAt(c, v) THEN f[v - 1]
    ELSE IF table[c][v][a] # Null THEN table[c][v][a]
    ELSE At(c, v - 1, a)

FindUpTo(c, a, n, f) == f = [v \in 0..n |-> FindStep(c, a, f, v)]

\* The recursion of the lookup has a solution.
LEMMA FindExists ==
    ASSUME NEW c, NEW a PROVE \A n \in Nat : \E f : FindUpTo(c, a, n, f)
<1> DEFINE S == {n \in Nat : \E f : FindUpTo(c, a, n, f)}
<1>1. 0 \in S
  <2>1. PICK f : f = [v \in 0..0 |-> Null] OBVIOUS
  <2>2. \A v \in 0..0 : v = 0 OBVIOUS
  <2>3. f = [v \in 0..0 |-> FindStep(c, a, f, v)] BY <2>1, <2>2 DEF FindStep
  <2> QED BY <2>3 DEF FindUpTo
<1>2. ASSUME NEW n \in S PROVE n + 1 \in S
  <2>1. PICK f : FindUpTo(c, a, n, f) OBVIOUS
  <2>2. PICK g : g = [v \in 0..(n + 1) |-> IF v = n + 1 THEN FindStep(c, a, f, n + 1) ELSE f[v]]
    OBVIOUS
  <2>3. \A v \in 0..(n + 1) : v # n + 1 => v \in 0..n OBVIOUS
  <2>4. \A v \in 0..(n + 1) : v # 0 => v - 1 \in 0..n OBVIOUS
  <2>5. \A v \in 0..n : g[v] = f[v] BY <2>2
  <2>6. \A v \in 0..(n + 1) : FindStep(c, a, g, v) = FindStep(c, a, f, v)
    BY <2>4, <2>5 DEF FindStep
  <2>7. \A v \in 0..n : f[v] = FindStep(c, a, f, v) BY <2>1 DEF FindUpTo
  <2>8. \A v \in 0..(n + 1) : g[v] = FindStep(c, a, g, v) BY <2>2, <2>3, <2>6, <2>7
  <2>9. g = [v \in 0..(n + 1) |-> g[v]] BY <2>2
  <2>10. FindUpTo(c, a, n + 1, g) BY <2>8, <2>9 DEF FindUpTo
  <2> QED BY <2>10
<1>3. S = Nat
  <2> HIDE DEF S
  <2>1. S \in SUBSET Nat BY DEF S
  <2> QED BY <1>1, <1>2, <2>1, Induction
<1> QED BY <1>3

LEMMA HandlerIsFound ==
    ASSUME NEW c, NEW a
    PROVE  \E f : /\ FindUpTo(c, a, MaxVersion, f)
                  /\ \A v : GetHandler(c, v, a) = f[v]
<1> DEFINE f == CHOOSE f : f = [v \in 0..MaxVersion |-> FindStep(c, a, f, v)]
<1>1. \E g : g = [v \in 0..MaxVersion |-> FindStep(c, a, g, v)]
  BY FindExists, VersionsAreCounted DEF FindUpTo
<1>2. f = [v \in 0..MaxVersion |-> FindStep(c, a, f, v)] BY <1>1, Zenon
<1>3. \A v : GetHandler(c, v, a) = f[v] BY Zenon DEF GetHandler, FindStep
<1> HIDE DEF f
<1> QED BY <1>2, <1>3 DEF FindUpTo

\* Version m is the newest up to v that has any handler.
Newest(c, m, v) ==
    m \in 1..v /\ ~EmptyAt(c, m) /\ \A u \in (m + 1)..v : EmptyAt(c, u)

\* What the lookup of action a returns when it stops at version m.
Answer(c, m, a) ==
    IF table[c][m][a] # Null THEN table[c][m][a] ELSE At(c, m - 1, a)

\* The lookup answers from the newest version with any handler, if there is one.
LEMMA LookupIs ==
    ASSUME NEW c, NEW version \in Version, NEW a
    PROVE  \/ /\ GetHandler(c, version, a) = Null
              /\ \A v \in 1..version : EmptyAt(c, v)
           \/ \E m \in 1..version : /\ Newest(c, m, version)
                                    /\ GetHandler(c, version, a) = Answer(c, m, a)
<1>1. PICK f : FindUpTo(c, a, MaxVersion, f) /\ \A v : GetHandler(c, v, a) = f[v]
  BY HandlerIsFound
<1>2. \A v \in 0..MaxVersion : f[v] = FindStep(c, a, f, v) BY <1>1 DEF FindUpTo
<1>3. MaxVersion \in Nat BY VersionsAreCounted
<1> DEFINE Is(v) == \/ f[v] = Null /\ \A u \in 1..v : EmptyAt(c, u)
                    \/ \E m \in 1..v : Newest(c, m, v) /\ f[v] = Answer(c, m, a)
           S == {v \in Nat : v <= MaxVersion => Is(v)}
<1>4. 0 \in S
  <2>1. f[0] = Null BY <1>2, <1>3 DEF FindStep
  <2> QED BY <2>1
<1>5. ASSUME NEW n \in S PROVE n + 1 \in S
  <2> SUFFICES ASSUME n + 1 <= MaxVersion PROVE Is(n + 1) OBVIOUS
  <2>1. Is(n) BY <1>3
  <2>2. f[n + 1] = FindStep(c, a, f, n + 1) BY <1>2, <1>3
  <2>3. CASE EmptyAt(c, n + 1)
    <3>1. f[n + 1] = f[n] BY <2>2, <2>3 DEF FindStep
    <3>2. CASE f[n] = Null /\ \A u \in 1..n : EmptyAt(c, u)
      <4>1. \A u \in 1..(n + 1) : u = n + 1 \/ u \in 1..n OBVIOUS
      <4>2. \A u \in 1..(n + 1) : EmptyAt(c, u) BY <2>3, <3>2, <4>1
      <4> QED BY <3>1, <3>2, <4>2
    <3>3. CASE \E m \in 1..n : Newest(c, m, n) /\ f[n] = Answer(c, m, a)
      <4>1. PICK m \in 1..n : Newest(c, m, n) /\ f[n] = Answer(c, m, a) BY <3>3
      <4>2. \A u \in (m + 1)..(n + 1) : u = n + 1 \/ u \in (m + 1)..n OBVIOUS
      <4>3. m \in 1..(n + 1) OBVIOUS
      <4>4. Newest(c, m, n + 1) BY <2>3, <4>1, <4>2, <4>3 DEF Newest
      <4> QED BY <3>1, <4>1, <4>3, <4>4
    <3> QED BY <2>1, <3>2, <3>3
  <2>4. CASE ~EmptyAt(c, n + 1)
    <3>1. f[n + 1] = Answer(c, n + 1, a) BY <2>2, <2>4 DEF FindStep, Answer
    <3>2. n + 1 \in 1..(n + 1) /\ (n + 1 + 1)..(n + 1) = {} OBVIOUS
    <3>3. Newest(c, n + 1, n + 1) BY <2>4, <3>2 DEF Newest
    <3> QED BY <3>1, <3>2, <3>3
  <2> QED BY <2>3, <2>4
<1>6. S = Nat
  <2> HIDE DEF S
  <2>1. S \in SUBSET Nat BY DEF S
  <2> QED BY <1>4, <1>5, <2>1, Induction
<1>7. Is(version)
  <2>1. version \in Nat /\ version <= MaxVersion BY <1>3 DEF Version
  <2>2. version \in S BY <1>6, <2>1
  <2> HIDE DEF Is
  <2> QED BY <2>1, <2>2
<1> QED BY <1>1, <1>7

\* An entry of the maps is a supported action, and the other way round.
LEMMA EntryIsSupported ==
    ASSUME TableInv, NEW c \in AnyCloud, Served(c),
           NEW v \in Version, NEW a \in ActionType
    PROVE  /\ table[c][v] = Null => ~Supported(c, v, a)
           /\ table[c][v] # Null =>
                 /\ table[c][v][a] = Null => ~Supported(c, v, a)
                 /\ table[c][v][a] # Null => /\ table[c][v][a] \in Handler
                                             /\ Supports(table[c][v][a], c, v, a)
           /\ EmptyAt(c, v) => ~Supported(c, v, a)
<1>1. table[c] # Null BY DEF Served
<1>2. table[c] \in VersionMap BY <1>1 DEF TableInv, TableTyped
<1>3. table[c][v] # Null => table[c][v][a] \in Handler \cup {Null}
  BY <1>2 DEF VersionMap, ActionMap
<1>4. ASSUME NEW h \in Handler
      PROVE  /\ Holds(h, c, v, a) => Supports(h, c, v, a)
             /\ Supports(h, c, v, a) => \E g \in Handler : Holds(g, c, v, a)
  BY DEF TableInv
<1>5. \A g \in Handler : g # Null BY NullIsNoHandler
<1>6. table[c][v] = Null \/ table[c][v][a] = Null => ~Supported(c, v, a)
  BY <1>4, <1>5 DEF Supported, Holds
<1>7. table[c][v] # Null /\ table[c][v][a] # Null =>
         table[c][v][a] \in Handler /\ Supports(table[c][v][a], c, v, a)
  BY <1>1, <1>3, <1>4 DEF Holds
<1>8. EmptyAt(c, v) => table[c][v] = Null \/ table[c][v][a] = Null
  BY DEF EmptyAt
<1> QED BY <1>6, <1>7, <1>8

LEMMA NewestFound ==
    ASSUME TableInv PROVE NewestHandlerFound
<1> SUFFICES ASSUME NEW c \in AnyCloud, NEW version \in Version,
                    NEW a \in ActionType, Served(c),
                    GetHandler(c, version, a) # Null
             PROVE  \E v \in 1..version :
                       /\ Supports(GetHandler(c, version, a), c, v, a)
                       /\ \A newer \in (v + 1)..version : ~Supported(c, newer, a)
  BY DEF NewestHandlerFound
<1>1. PICK m \in 1..version : /\ Newest(c, m, version)
                              /\ GetHandler(c, version, a) = Answer(c, m, a)
  BY LookupIs
<1>2. version \in Nat /\ 1..version \subseteq Version
  BY VersionsAreCounted DEF Version
<1>3. m \in Version BY <1>2
<1>4. ASSUME NEW newer \in (m + 1)..version PROVE ~Supported(c, newer, a)
  <2>1. newer \in Version BY <1>2
  <2> QED BY <1>1, <2>1, EntryIsSupported DEF Newest
<1>5. table[c][m] # Null BY <1>1 DEF Newest, EmptyAt
<1>6. CASE table[c][m][a] # Null
  <2>1. Supports(table[c][m][a], c, m, a) BY <1>3, <1>5, <1>6, EntryIsSupported
  <2> QED BY <1>1, <1>4, <1>6, <2>1 DEF Answer
<1>7. CASE table[c][m][a] = Null
  <2>1. /\ m - 1 # 0 /\ table[c][m - 1] # Null /\ table[c][m - 1][a] # Null
        /\ GetHandler(c, version, a) = table[c][m - 1][a]
    BY <1>1, <1>7 DEF Answer, At
  <2>2. m - 1 \in 1..version /\ m - 1 \in Version BY <1>2, <2>1
  <2>3. Supports(table[c][m - 1][a], c, m - 1, a) BY <2>1, <2>2, EntryIsSupported
  <2>4. ~Supported(c, m, a) BY <1>3, <1>5, <1>7, EntryIsSupported
  <2>5. \A newer \in (m - 1 + 1)..version : newer = m \/ newer \in (m + 1)..version
    BY <1>2
  <2>6. \A newer \in (m - 1 + 1)..version : ~Supported(c, newer, a)
    BY <1>4, <2>4, <2>5
  <2> QED BY <2>1, <2>2, <2>3, <2>6
<1> QED BY <1>6, <1>7

LEMMA RecentFound ==
    ASSUME TableInv PROVE RecentActionFound
<1> SUFFICES ASSUME NEW c \in AnyCloud, NEW version \in Version,
                    NEW a \in ActionType, Served(c),
                    GetHandler(c, version, a) = Null, NEW v \in 1..version,
                    \A newer \in (v + 1)..version, b \in ActionType :
                        ~Supported(c, newer, b)
             PROVE  /\ ~Supported(c, v, a)
                    /\ v > 1 => ~Supported(c, v - 1, a)
  BY DEF RecentActionFound
<1>1. version \in Nat /\ 1..version \subseteq Version
  BY VersionsAreCounted DEF Version
<1>2. v \in Version /\ (v > 1 => v - 1 \in 1..version) BY <1>1
<1>3. CASE \A u \in 1..version : EmptyAt(c, u)
  <2>1. \A u \in 1..version : ~Supported(c, u, a) BY <1>1, <1>3, EntryIsSupported
  <2> QED BY <1>2, <2>1
<1>4. ASSUME NEW m \in 1..version, Newest(c, m, version),
             GetHandler(c, version, a) = Answer(c, m, a)
      PROVE  ~Supported(c, v, a) /\ (v > 1 => ~Supported(c, v - 1, a))
  <2>1. m \in Version /\ table[c][m] # Null BY <1>1, <1>4 DEF Newest, EmptyAt
  <2>2. v >= m
    <3>1. PICK b \in ActionType : table[c][m][b] # Null BY <1>4 DEF Newest, EmptyAt
    <3>2. Supported(c, m, b) BY <2>1, <3>1, EntryIsSupported DEF Supported
    <3>3. v < m => m \in (v + 1)..version BY <1>1
    <3>4. ~(v < m) BY <3>2, <3>3
    <3> QED BY <1>1, <3>4
  <2>3. ASSUME NEW u \in 1..version, u >= m PROVE ~Supported(c, u, a)
    <3>1. CASE u = m
      <4>1. table[c][m][a] = Null BY <1>4 DEF Answer
      <4> QED BY <2>1, <3>1, <4>1, EntryIsSupported
    <3>2. CASE u # m
      <4>1. u \in (m + 1)..version /\ u \in Version BY <1>1, <2>3, <3>2
      <4>2. EmptyAt(c, u) BY <1>4, <4>1 DEF Newest
      <4> QED BY <4>1, <4>2, EntryIsSupported
    <3> QED BY <3>1, <3>2
  <2>4. CASE v = m
    <3>1. ASSUME v > 1 PROVE ~Supported(c, v - 1, a)
      <4>1. v - 1 \in Version /\ m - 1 # 0 BY <1>1, <1>2, <2>4, <3>1
      <4>2. At(c, m - 1, a) = Null BY <1>4 DEF Answer
      <4>3. table[c][m - 1] = Null \/ table[c][m - 1][a] = Null BY <4>1, <4>2 DEF At
      <4> QED BY <2>4, <4>1, <4>3, EntryIsSupported
    <3> QED BY <2>2, <2>3, <3>1
  <2>5. CASE v > m
    <3>1. v > 1 => v - 1 \in 1..version /\ v - 1 >= m BY <1>1, <2>5
    <3> QED BY <2>2, <2>3, <3>1
  <2> QED BY <1>1, <2>2, <2>4, <2>5
<1> QED BY <1>3, <1>4, LookupIs

LEMMA TableInvariant == TableSpec => []TableInv
BY TableInductive, PTL DEF TableSpec

\* The handler that an action gets supports it, in the newest version up to the
\* sender's that any handler supports it in, for any handlers and versions.
THEOREM HandlerIsNewest == TableSpec => []NewestHandlerFound
BY TableInvariant, NewestFound, PTL

\* An action is refused only if neither the newest version with any handler nor
\* the one before supports it.
THEOREM RecentActionsAreFound == TableSpec => []RecentActionFound
BY TableInvariant, RecentFound, PTL

-----------------------------------------------------------------------------
(* MemoryMonitor: numbers                                                   *)

\* The ticks of r + 1 periods.
Periods(r) == (r + 1) * Period

LEMMA Times ==
    /\ Period \in Nat /\ Period > 0 /\ MaxLate \in Nat /\ MaxCompose \in Nat
    /\ Store \in Nat /\ Half \in Nat /\ Half > 0
    /\ N \in Nat /\ N >= 3
    /\ Slot = 1..N
<1>1. /\ Period \in Nat /\ Period > 0 /\ MaxLate \in Nat /\ MaxCompose \in Nat
      /\ Store \in Nat /\ Half \in Nat /\ Half > 0 /\ Store >= 2 * Period
  BY TimesAreCounted
<1>2. Store \div Period \in Nat /\ Store \div Period >= 2
  BY <1>1
<1> QED BY <1>1, <1>2 DEF N, Slot

LEMMA PeriodsAre ==
    ASSUME NEW r \in Nat
    PROVE  /\ Periods(r) \in Nat /\ Periods(r) >= Period
           /\ Periods(r + 1) = Periods(r) + Period
           /\ \A s \in Nat : r < s => Periods(r) + Period <= Periods(s)
<1>1. Period \in Nat BY Times
<1>2. Periods(r) = r * Period + Period /\ r * Period \in Nat BY <1>1 DEF Periods
<1>3. Periods(r + 1) = Periods(r) + Period BY <1>1 DEF Periods
<1>4. ASSUME NEW s \in Nat, r < s PROVE Periods(r) + Period <= Periods(s)
  <2>1. PICK d \in Nat : s = r + 1 + d
    <3>1. s - r - 1 \in Nat /\ s = r + 1 + (s - r - 1) BY <1>4
    <3> QED BY <3>1
  <2>2. Periods(s) = r * Period + Period + Period + d * Period BY <1>1, <2>1 DEF Periods
  <2>3. d * Period \in Nat BY <1>1
  <2> QED BY <1>1, <1>2, <2>2, <2>3
<1> QED BY <1>1, <1>2, <1>3, <1>4

\* A wrapped number is an int.
LEMMA WrapIsInt ==
    ASSUME NEW x \in Int
    PROVE  Wrap(x) \in -Half..(Half - 1)
<1>1. Half \in Nat /\ Half > 0 BY Times
<1>2. PICK m \in Nat : m = 2 * Half /\ m > 0 BY <1>1
<1>3. PICK y \in Int : y = x + Half BY <1>1
<1>4. y % m \in 0..(m - 1) BY <1>2
<1>5. Wrap(x) = (y % m) - Half BY <1>2, <1>3 DEF Wrap
<1> QED BY <1>1, <1>2, <1>4, <1>5

-----------------------------------------------------------------------------
(* MemoryMonitor: the ring                                                  *)

\* How many samples are newer than slot i, if slot p was set last.
RankOf(p, i) == IF i <= p THEN p - i ELSE p - i + N

\* The slots are set one after the other, round and round; p is the one set
\* last.  At the next run that is due a sample is as old as the periods since
\* its own run was due, or younger by the delay of that run; the slots that
\* have not been set are as old as the agent.
Ring(p) ==
    /\ p \in 0..N
    /\ age \in [1..N -> Nat]
    /\ due \in -MaxLate..Period
    /\ initial = (p + 1)..N \/ (initial = {} /\ p # 0)
    /\ \A i \in (1..N) \ initial :
          /\ age[i] + due <= Periods(RankOf(p, i))
          /\ age[i] + due >= Periods(RankOf(p, i)) - MaxLate
    /\ \A i \in initial : age[i] + due = Periods(p)

\* No run of the timer is late by a period.
TimerAssumptions == MaxLate < Period

After(p) == IF p = N THEN 1 ELSE p + 1

LEMMA RingInit == ASSUME TimerAssumptions, MonitorInit PROVE Ring(0)
<1>1. N \in Nat /\ Period \in Nat /\ MaxLate \in Nat /\ Slot = 1..N
  BY Times DEF TimerAssumptions
<1>2. age = [i \in 1..N |-> 0] /\ initial = 1..N /\ due = Period
  BY <1>1 DEF MonitorInit
<1>3. Periods(0) = Period BY <1>1 DEF Periods
<1>4. 0 + 1 = 1 /\ (1..N) \ initial = {} BY <1>2
<1> QED BY <1>1, <1>2, <1>3, <1>4 DEF Ring

LEMMA RingTick ==
    ASSUME TimerAssumptions, NEW p, Ring(p), Tick PROVE Ring(p)'
<1>1. N \in Nat /\ Period \in Nat /\ MaxLate \in Nat /\ Slot = 1..N
  BY Times DEF TimerAssumptions
<1>2. /\ age' = [i \in 1..N |-> age[i] + 1] /\ due' = due - 1 /\ initial' = initial
      /\ due > -MaxLate
  BY <1>1 DEF Tick
<1>3. due \in -MaxLate..Period /\ age \in [1..N -> Nat] BY DEF Ring
<1>4. age' \in [1..N -> Nat] /\ due' \in -MaxLate..Period BY <1>1, <1>2, <1>3
<1>5. \A i \in 1..N : age'[i] + due' = age[i] + due BY <1>1, <1>2, <1>3
<1>6. initial \subseteq 1..N BY <1>1 DEF Ring
<1> QED BY <1>2, <1>4, <1>5, <1>6 DEF Ring

LEMMA RingStays ==
    ASSUME NEW p, Ring(p), UNCHANGED <<age, initial, due>> PROVE Ring(p)'
BY DEF Ring

\* The oldest slot is the one after the one set last.
LEMMA OldestIsNext ==
    ASSUME TimerAssumptions, NEW p, Ring(p)
    PROVE  /\ Oldest = After(p) /\ After(p) \in 1..N
           /\ initial # {} => p < N /\ p + 1 \in initial
           /\ initial = {} => RankOf(p, After(p)) = N - 1
<1>1. N \in Nat /\ N >= 3 /\ Period \in Nat /\ Period > 0 /\ MaxLate \in Nat /\ MaxLate < Period
      /\ Slot = 1..N
  BY Times DEF TimerAssumptions
<1>2. p \in 0..N /\ age \in [1..N -> Nat] /\ due \in -MaxLate..Period
      /\ (initial = (p + 1)..N \/ (initial = {} /\ p # 0))
  BY DEF Ring
<1>3. PICK o : o = After(p) OBVIOUS
<1>4. o \in 1..N BY <1>1, <1>2, <1>3 DEF After
<1>5. initial # {} => p < N /\ o = p + 1 /\ o \in initial
  BY <1>1, <1>2, <1>3 DEF After
<1>6. initial = {} => RankOf(p, o) = N - 1
  BY <1>1, <1>2, <1>3 DEF After, RankOf
<1>7. ASSUME NEW j \in 1..N PROVE age[j] <= age[o] /\ (age[j] = age[o] => o <= j)
  <2>1. CASE initial # {} /\ j \in initial
    <3>1. age[j] + due = age[o] + due BY <1>5, <2>1 DEF Ring
    <3>2. o <= j BY <1>1, <1>2, <1>5, <2>1
    <3>3. age[j] \in Nat /\ age[o] \in Nat /\ due \in Int BY <1>1, <1>2, <1>4
    <3> QED BY <3>1, <3>2, <3>3
  <2>2. CASE initial # {} /\ j \notin initial
    <3>1. j <= p /\ RankOf(p, j) = p - j BY <1>1, <1>2, <2>2 DEF RankOf
    <3>2. age[j] + due <= Periods(p - j) BY <2>2, <3>1 DEF Ring
    <3>3. age[o] + due = Periods(p) BY <1>5, <2>2 DEF Ring
    <3>4. p - j \in Nat /\ p \in Nat /\ p - j < p BY <1>1, <1>2, <3>1
    <3>5. Periods(p - j) + Period <= Periods(p) /\ Periods(p - j) \in Nat /\ Periods(p) \in Nat
      BY <3>4, PeriodsAre DEF TimerAssumptions
    <3>6. age[j] \in Nat /\ age[o] \in Nat /\ due \in Int BY <1>1, <1>2, <1>4
    <3>7. age[j] < age[o] BY <1>1, <3>2, <3>3, <3>5, <3>6
    <3> QED BY <3>6, <3>7
  <2>3. CASE initial = {}
    <3>1. CASE j = o BY <1>2, <1>4, <3>1
    <3>2. CASE j # o
      <4>1. PICK r \in Nat : r = RankOf(p, j) /\ r < N - 1
        <5>1. CASE p = N
          <6>1. j <= p /\ p - j \in Nat /\ p - j < N - 1
            BY <1>1, <1>3, <3>2, <5>1 DEF After
          <6> QED BY <6>1 DEF RankOf
        <5>2. CASE p # N /\ j <= p
          <6>1. p - j \in Nat /\ p - j < N - 1 BY <1>1, <1>2, <5>2
          <6> QED BY <5>2, <6>1 DEF RankOf
        <5>3. CASE p # N /\ ~(j <= p)
          <6>1. p - j + N \in Nat /\ p - j + N < N - 1
            BY <1>1, <1>2, <1>3, <3>2, <5>3 DEF After
          <6> QED BY <5>3, <6>1 DEF RankOf
        <5> QED BY <5>1, <5>2, <5>3
      <4>2. age[j] + due <= Periods(r) BY <2>3, <4>1 DEF Ring
      <4>3. age[o] + due >= Periods(N - 1) - MaxLate BY <1>4, <1>6, <2>3 DEF Ring
      <4>4. N - 1 \in Nat BY <1>1
      <4>5. Periods(r) + Period <= Periods(N - 1) /\ Periods(r) \in Nat /\ Periods(N - 1) \in Nat
        BY <4>1, <4>4, PeriodsAre DEF TimerAssumptions
      <4>6. age[j] \in Nat /\ age[o] \in Nat /\ due \in Int BY <1>1, <1>2, <1>4
      <4>7. age[j] < age[o] BY <1>1, <4>2, <4>3, <4>5, <4>6
      <4> QED BY <4>6, <4>7
    <3> QED BY <3>1, <3>2
  <2> QED BY <2>1, <2>2, <2>3
<1>8. ASSUME NEW i \in 1..N, \A j \in 1..N : age[j] <= age[i] /\ (age[j] = age[i] => i <= j)
      PROVE  i = o
  <2>1. /\ age[o] <= age[i] /\ age[i] <= age[o]
        /\ age[o] = age[i] => i <= o /\ o <= i
    BY <1>4, <1>7, <1>8
  <2>2. age[o] \in Nat /\ age[i] \in Nat /\ o \in Nat /\ i \in Nat BY <1>1, <1>2, <1>4
  <2> QED BY <2>1, <2>2
<1>9. Oldest = o
  BY <1>1, <1>4, <1>7, <1>8 DEF Oldest
<1> QED BY <1>3, <1>4, <1>5, <1>6, <1>9

LEMMA RingCollect ==
    ASSUME TimerAssumptions, NEW p, Ring(p), Collect PROVE Ring(After(p))'
<1>1. N \in Nat /\ N >= 3 /\ Period \in Nat /\ Period > 0 /\ MaxLate \in Nat /\ MaxLate < Period
      /\ Slot = 1..N
  BY Times DEF TimerAssumptions
<1>2. p \in 0..N /\ age \in [1..N -> Nat] /\ due \in -MaxLate..Period
      /\ (initial = (p + 1)..N \/ (initial = {} /\ p # 0))
  BY DEF Ring
<1>3. PICK o \in 1..N : o = After(p) /\ Oldest = o BY OldestIsNext
<1>4. /\ age' = [age EXCEPT ![o] = 0] /\ initial' = initial \ {o}
      /\ due' = due + Period /\ due <= 0
  BY <1>3 DEF Collect
<1>5. age' \in [1..N -> Nat] /\ due' \in -MaxLate..Period BY <1>1, <1>2, <1>4
<1>6. initial # {} => p < N /\ o = p + 1 BY <1>1, <1>2, <1>3 DEF After
<1>7. initial' = (o + 1)..N \/ (initial' = {} /\ o # 0)
  BY <1>1, <1>2, <1>3, <1>4, <1>6
<1>8. ASSUME NEW i \in (1..N) \ initial'
      PROVE  /\ age'[i] + due' <= Periods(RankOf(o, i))
             /\ age'[i] + due' >= Periods(RankOf(o, i)) - MaxLate
  <2>1. CASE i = o
    <3>1. RankOf(o, i) = 0 /\ Periods(0) = Period BY <1>1, <2>1 DEF RankOf, Periods
    <3>2. age'[i] = 0 BY <1>2, <1>3, <1>4, <2>1
    <3> QED BY <1>1, <1>2, <1>4, <3>1, <3>2
  <2>2. CASE i # o
    <3>1. i \in (1..N) \ initial /\ age'[i] = age[i] /\ age[i] \in Nat
      BY <1>2, <1>3, <1>4, <2>2
    <3>2. PICK r \in Nat : r = RankOf(p, i) /\ RankOf(o, i) = r + 1
      BY <1>1, <1>2, <1>3, <2>2, <3>1 DEF RankOf, After
    <3>3. age[i] + due <= Periods(r) /\ age[i] + due >= Periods(r) - MaxLate
      BY <3>1, <3>2 DEF Ring
    <3>4. Periods(r + 1) = Periods(r) + Period /\ Periods(r) \in Nat
      BY <3>2, PeriodsAre DEF TimerAssumptions
    <3>5. age'[i] + due' = age[i] + due + Period /\ age[i] + due \in Int
      BY <1>1, <1>2, <1>4, <3>1
    <3>6. Periods(RankOf(o, i)) = Periods(r) + Period BY <3>2, <3>4
    <3> QED BY <1>1, <3>3, <3>4, <3>5, <3>6
  <2> QED BY <2>1, <2>2
<1>9. ASSUME NEW i \in initial' PROVE age'[i] + due' = Periods(o)
  <2>1. i \in initial /\ i # o /\ i \in 1..N /\ o = p + 1 /\ p \in Nat
    BY <1>1, <1>2, <1>4, <1>6
  <2>2. age[i] + due = Periods(p) /\ age'[i] = age[i] /\ age[i] \in Nat
    BY <1>2, <1>4, <2>1 DEF Ring
  <2>3. Periods(o) = Periods(p) + Period /\ Periods(p) \in Nat
    BY <2>1, PeriodsAre DEF TimerAssumptions
  <2> QED BY <1>1, <1>2, <1>4, <2>2, <2>3
<1>10. Ring(o)' BY <1>1, <1>3, <1>5, <1>7, <1>8, <1>9 DEF Ring
<1> QED BY <1>3, <1>10

-----------------------------------------------------------------------------
(* MemoryMonitor: the page                                                  *)

Rows  == [slot : 1..N, val : Int, fill : BOOLEAN]
Pages == [next : 1..N, elapsed : 0..MaxCompose, window : -Half..(Half - 1),
          warm : BOOLEAN, rows : SUBSET Rows]

\* A page has at most one row of a slot that it has read, with a value of its
\* window, and knows the rows that show the start-up.
PageTyped ==
    page # None =>
        /\ page \in Pages
        /\ \A r \in page.rows :
              /\ r.slot < page.next
              /\ 0 <= r.val /\ r.val <= MaxAge /\ r.val < page.window
              /\ r.slot \in initial => r.fill
        /\ \A r, s \in page.rows : r.slot = s.slot => r = s

LEMMA PagesAreNotNone == ASSUME NEW q \in Pages PROVE q # None
<1>1. q.next # 0 BY Times DEF Pages
<1>2. None.next = 0 BY DEF None
<1> QED BY <1>1, <1>2

\* What the steps do to the fields of the page.
LEMMA TickOfPage ==
    ASSUME page \in Pages, Tick
    PROVE  /\ page' \in Pages /\ page'.elapsed = page.elapsed + 1
           /\ page'.next = page.next /\ page'.window = page.window
           /\ page'.warm = page.warm /\ page'.rows = page.rows
<1>1. page # None BY PagesAreNotNone
<1>2. page' = [page EXCEPT !.elapsed = @ + 1] /\ page.elapsed < MaxCompose
  BY <1>1 DEF Tick
<1>3. page.elapsed + 1 \in 0..MaxCompose BY <1>2, Times DEF Pages
<1> QED BY <1>2, <1>3 DEF Pages

LEMMA ReadOfPage ==
    ASSUME page \in Pages, age \in [1..N -> Nat], ReadSlot
    PROVE  /\ page' \in Pages /\ page'.next = page.next + 1
           /\ page'.elapsed = page.elapsed /\ page'.window = page.window
           /\ page'.warm = page.warm
           /\ page'.rows = IF Selected(age[page.next] - page.elapsed, page.window)
                           THEN page.rows \cup {Row(page.next)} ELSE page.rows
           /\ Row(page.next) \in Rows
           /\ Row(page.next).slot = page.next
           /\ Row(page.next).val = age[page.next] - page.elapsed
           /\ Row(page.next).fill <=> page.next \in initial
<1>1. N \in Nat /\ N >= 3 BY Times
<1>2. page.next \in 1..N /\ page.next < N /\ page.elapsed \in Nat /\ page.rows \subseteq Rows
  BY <1>1, Times DEF Pages, ReadSlot, Reading, N
<1>3. PICK r : r = Row(page.next) OBVIOUS
<1>4. r = [slot |-> page.next, val |-> age[page.next] - page.elapsed,
           fill |-> page.next \in initial]
  BY <1>3 DEF Row
<1>5. age[page.next] - page.elapsed \in Int BY <1>2
<1>6. /\ r \in Rows /\ r.slot = page.next /\ r.val = age[page.next] - page.elapsed
      /\ r.fill <=> page.next \in initial
  <2>1. PICK n \in 1..N : n = page.next BY <1>2
  <2>2. PICK v \in Int : v = age[page.next] - page.elapsed BY <1>5
  <2>3. PICK b \in BOOLEAN : b = (n \in initial)
    <3>1. (n \in initial) \in BOOLEAN OBVIOUS
    <3> QED BY <3>1, Zenon
  <2>4. r = [slot |-> n, val |-> v, fill |-> b] BY <1>4, <2>1, <2>2, <2>3, Zenon
  <2>5. r \in Rows BY <2>4 DEF Rows
  <2>6. r.slot = n /\ r.val = v /\ r.fill = b BY <2>4
  <2>7. r.fill <=> n \in initial BY <2>3, <2>6, Zenon
  <2> QED BY <2>1, <2>2, <2>5, <2>6, <2>7, Zenon
<1>7. PICK rows \in SUBSET Rows :
         rows = IF Selected(r.val, page.window) THEN page.rows \cup {r} ELSE page.rows
  <2>1. (IF Selected(r.val, page.window) THEN page.rows \cup {r} ELSE page.rows) \subseteq Rows
    BY <1>2, <1>6
  <2> QED BY <2>1
<1>8. page' = [page EXCEPT !.next = page.next + 1, !.rows = rows]
  BY <1>3, <1>7 DEF ReadSlot
<1>9. page.next + 1 \in 1..N
  <2>1. PICK n \in 1..N : n = page.next BY <1>2
  <2>2. n < N BY <1>2, <2>1
  <2>3. n + 1 \in 1..N BY <1>1, <2>2
  <2> QED BY <2>1, <2>3
<1>10. /\ page' \in Pages /\ page'.next = page.next + 1 /\ page'.rows = rows
       /\ page'.elapsed = page.elapsed /\ page'.window = page.window /\ page'.warm = page.warm
  BY <1>8, <1>9 DEF Pages
<1> QED BY <1>3, <1>6, <1>7, <1>10

LEMMA RequestOfPage ==
    ASSUME Request
    PROVE  /\ page' \in Pages /\ page'.next = 1 /\ page'.elapsed = 0 /\ page'.rows = {}
           /\ page'.warm <=> initial = {}
<1>1. N \in Nat /\ N >= 3 /\ MaxCompose \in Nat /\ Store \in Nat BY Times
<1>2. PICK last \in LastMinutes :
         page' = [next |-> 1, elapsed |-> 0, window |-> Window(last),
                  warm |-> initial = {}, rows |-> {}]
  BY DEF Request
<1>3. Window(last) \in -Half..(Half - 1)
  <2>1. last \in Int /\ Minute \in Int BY TimesAreCounted
  <2>2. PICK x \in Int : x = IF last > 0 THEN last * Minute ELSE Store
    <3>1. last * Minute \in Int BY <2>1
    <3> QED BY <1>1, <3>1
  <2> QED BY <2>2, WrapIsInt DEF Window
<1>4. 1 \in 1..N /\ 0 \in 0..MaxCompose /\ (initial = {}) \in BOOLEAN BY <1>1
<1> QED BY <1>2, <1>3, <1>4 DEF Pages

\* The ages of the slots are bounded.
LEMMA AgesAreBounded ==
    ASSUME TimerAssumptions, NEW p, Ring(p), NEW i \in 1..N
    PROVE  age[i] \in Nat /\ age[i] <= MaxAge
<1>1. N \in Nat /\ N >= 3 /\ Period \in Nat /\ Period > 0 /\ MaxLate \in Nat
  BY Times DEF TimerAssumptions
<1>2. p \in 0..N /\ age[i] \in Nat /\ due \in -MaxLate..Period
      /\ (initial = (p + 1)..N \/ (initial = {} /\ p # 0))
  BY DEF Ring
<1>3. PICK r \in 0..N : age[i] + due <= Periods(r)
  <2>1. CASE i \in initial
    <3>1. age[i] + due <= Periods(p) /\ p \in Nat
      <4>1. age[i] + due = Periods(p) /\ age[i] + due \in Int BY <1>1, <1>2, <2>1 DEF Ring
      <4> QED BY <1>1, <1>2, <4>1
    <3> QED BY <1>2, <3>1
  <2>2. CASE i \notin initial
    <3>1. age[i] + due <= Periods(RankOf(p, i)) BY <2>2 DEF Ring
    <3>2. RankOf(p, i) \in 0..N BY <1>1, <1>2, <2>2 DEF RankOf
    <3> QED BY <3>1, <3>2
  <2> QED BY <2>1, <2>2
<1>4. Periods(r) <= Periods(N) /\ Periods(r) \in Nat /\ Periods(N) \in Nat
  <2>1. r \in Nat /\ (r = N \/ r < N) BY <1>1
  <2>2. Periods(r) \in Nat /\ Periods(N) \in Nat /\ (r < N => Periods(r) + Period <= Periods(N))
    BY <1>1, <2>1, PeriodsAre DEF TimerAssumptions
  <2> QED BY <1>1, <2>1, <2>2
<1>5. MaxAge = Periods(N) + MaxLate
  BY DEF MaxAge, Periods, N
<1> QED BY <1>1, <1>2, <1>3, <1>4, <1>5

LEMMA PageTypedInductive ==
    ASSUME TimerAssumptions, NEW p, Ring(p), PageTyped, [MonitorNext]_monitorVars
    PROVE  PageTyped'
<1>2. CASE page' = None BY <1>2 DEF PageTyped
<1>3. CASE page' = page /\ initial' \subseteq initial
  BY <1>3 DEF PageTyped, MaxAge
<1>4. CASE Tick /\ page # None
  <2>1. page \in Pages /\ initial' = initial BY <1>4 DEF PageTyped, Tick
  <2> QED BY <1>4, <2>1, TickOfPage DEF PageTyped
<1>5. CASE Request
  BY <1>5, RequestOfPage DEF PageTyped
<1>6. CASE ReadSlot
  <2>1. page # None /\ initial' = initial
    BY <1>6 DEF ReadSlot, Reading
  <2>2. page \in Pages /\ age \in [1..N -> Nat] BY <2>1 DEF PageTyped, Ring
  <2>3. PICK n, w, r, rows :
           /\ n = page.next /\ w = page.window /\ r = Row(page.next) /\ rows = page.rows
    OBVIOUS
  <2>4. /\ page' \in Pages /\ page'.next = n + 1 /\ page'.window = w
        /\ page'.rows = IF Selected(age[n] - page.elapsed, w) THEN rows \cup {r} ELSE rows
        /\ r.slot = n /\ r.val = age[n] - page.elapsed /\ (r.fill <=> n \in initial)
    BY <1>6, <2>2, <2>3, ReadOfPage
  <2>5. n \in 1..N /\ N \in Nat /\ w \in Int /\ page.elapsed \in Nat /\ rows \subseteq Rows
    BY <2>2, <2>3, Times DEF Pages
  <2>6. age[n] \in Nat /\ age[n] <= MaxAge BY <2>5, AgesAreBounded
  <2>7. MaxAge \in Int BY Times DEF MaxAge, N
  <2>8. Selected(age[n] - page.elapsed, w) =>
           0 <= r.val /\ r.val <= MaxAge /\ r.val < w
    BY <2>4, <2>5, <2>6, <2>7, Times DEF Selected
  <2>9. ASSUME NEW s \in rows
        PROVE  /\ s.slot < n /\ s.slot < n + 1 /\ s.slot \in Int
               /\ 0 <= s.val /\ s.val <= MaxAge /\ s.val < w
               /\ s.slot \in initial => s.fill
    <3>1. s.slot < n /\ s.slot \in 1..N
      BY <2>1, <2>3, <2>5 DEF PageTyped, Rows
    <3>2. /\ 0 <= s.val /\ s.val <= MaxAge /\ s.val < w
          /\ s.slot \in initial => s.fill
      BY <2>1, <2>3 DEF PageTyped
    <3> QED BY <2>5, <3>1, <3>2
  <2>10. \A s \in page'.rows :
            /\ s.slot < n + 1
            /\ 0 <= s.val /\ s.val <= MaxAge /\ s.val < w
            /\ s.slot \in initial => s.fill
    BY <2>4, <2>5, <2>8, <2>9
  <2>11. \A s, t \in page'.rows : s.slot = t.slot => s = t
    <3>1. \A s, t \in rows : s.slot = t.slot => s = t BY <2>1, <2>3 DEF PageTyped
    <3>2. \A s \in rows : s.slot # n BY <2>5, <2>9
    <3>3. \A s, t \in rows \cup {r} : s.slot = t.slot => s = t BY <2>4, <3>1, <3>2
    <3> QED BY <2>4, <3>1, <3>3
  <2>12. MaxAge' = MaxAge BY DEF MaxAge
  <2> QED BY <2>1, <2>4, <2>10, <2>11, <2>12 DEF PageTyped
<1>7. CASE Tick /\ page = None
  BY <1>2, <1>7 DEF Tick
<1>8. CASE Collect BY <1>3, <1>8 DEF Collect
<1>9. CASE Show BY <1>2, <1>9 DEF Show
<1>10. CASE UNCHANGED monitorVars BY <1>3, <1>10 DEF monitorVars
<1> QED BY <1>4, <1>5, <1>6, <1>7, <1>8, <1>9, <1>10 DEF MonitorNext

\* The ring and the page together.
RingInv == PageTyped /\ \E p \in 0..N : Ring(p)

LEMMA RingNext ==
    ASSUME TimerAssumptions, NEW p, Ring(p), [MonitorNext]_monitorVars, ~Collect
    PROVE  Ring(p)'
<1>1. CASE Tick BY <1>1, RingTick
<1>2. CASE UNCHANGED <<age, initial, due>> BY <1>2, RingStays
<1> QED BY <1>1, <1>2 DEF MonitorNext, Request, ReadSlot, Show, monitorVars

LEMMA RingInvariant == ASSUME TimerAssumptions PROVE MonitorSpec => []RingInv
<1>1. MonitorInit => RingInv
  <2> SUFFICES ASSUME MonitorInit PROVE RingInv OBVIOUS
  <2>1. Ring(0) BY RingInit
  <2>2. 0 \in 0..N BY <2>1 DEF Ring
  <2>3. PageTyped BY DEF MonitorInit, PageTyped
  <2> QED BY <2>1, <2>2, <2>3 DEF RingInv
<1>2. RingInv /\ [MonitorNext]_monitorVars => RingInv'
  <2> SUFFICES ASSUME RingInv, [MonitorNext]_monitorVars PROVE RingInv' OBVIOUS
  <2>1. PICK p \in 0..N : Ring(p) BY DEF RingInv
  <2>2. PageTyped' BY <2>1, PageTypedInductive DEF RingInv
  <2>3. PICK q : Ring(q)' BY <2>1, RingCollect, RingNext
  <2>4. q \in 0..N BY <2>3 DEF Ring
  <2> QED BY <2>2, <2>3, <2>4 DEF RingInv
<1> QED BY <1>1, <1>2, PTL DEF MonitorSpec

LEMMA RingIsTyped ==
    ASSUME TimerAssumptions, PageTyped, NEW p, Ring(p) PROVE MonitorTypeOK
<1>1. N \in Nat /\ N >= 3 /\ Period \in Nat /\ MaxLate \in Nat /\ Slot = 1..N
  BY Times DEF TimerAssumptions
<1>2. MaxAge \in Nat BY <1>1 DEF MaxAge, N
<1>3. age \in [1..N -> 0..MaxAge]
  <2>1. age \in [1..N -> Nat] BY DEF Ring
  <2>2. \A i \in 1..N : age[i] \in 0..MaxAge BY <1>2, AgesAreBounded
  <2> QED BY <2>1, <2>2
<1>4. initial \subseteq 1..N /\ due \in -MaxLate..Period BY <1>1 DEF Ring
<1>5. ASSUME page # None
      PROVE  /\ page.next \in 1..N
             /\ page.elapsed \in 0..MaxCompose
             /\ page.window \in -Half..(Half - 1)
             /\ \A r \in page.rows : r.slot \in 1..(page.next - 1) /\ r.val \in 0..MaxAge
  <2>1. page \in Pages BY <1>5 DEF PageTyped
  <2>2. PICK n \in 1..N : n = page.next BY <2>1 DEF Pages
  <2>3. ASSUME NEW r \in page.rows PROVE r.slot \in 1..(n - 1) /\ r.val \in 0..MaxAge
    <3>1. r.slot \in 1..N /\ r.val \in Int BY <2>1 DEF Pages, Rows
    <3>2. r.slot < n /\ 0 <= r.val /\ r.val <= MaxAge BY <1>5, <2>2 DEF PageTyped
    <3>3. PICK i \in 1..N : i = r.slot BY <3>1
    <3>4. i \in 1..(n - 1) BY <1>1, <3>2, <3>3
    <3> QED BY <1>2, <3>1, <3>2, <3>3, <3>4
  <2> QED BY <2>1, <2>2, <2>3 DEF Pages
<1> QED BY <1>1, <1>3, <1>4, <1>5 DEF MonitorTypeOK

\* The sample that is r runs old, and the one that is newer by one.
LEMMA AgesOfSamples ==
    ASSUME TimerAssumptions, NEW p, Ring(p), NEW i \in (1..N) \ initial
    PROVE  /\ RankOf(p, i) \in 0..(N - 1)
           /\ age[i] \in Nat /\ due \in Int
           /\ age[i] + due <= Periods(RankOf(p, i))
           /\ age[i] + due >= Periods(RankOf(p, i)) - MaxLate
           /\ \A j \in (1..N) \ initial : RankOf(p, j) = RankOf(p, i) => j = i
           /\ p \in (1..N) \ initial /\ RankOf(p, p) = 0
           /\ i # p => \E j \in (1..N) \ initial : RankOf(p, j) = RankOf(p, i) - 1
<1>1. N \in Nat /\ N >= 3 /\ MaxLate \in Nat BY Times DEF TimerAssumptions
<1>2. p \in 0..N /\ age \in [1..N -> Nat] /\ due \in -MaxLate..Period
      /\ (initial = (p + 1)..N \/ (initial = {} /\ p # 0))
  BY DEF Ring
<1>3. RankOf(p, i) \in 0..(N - 1) BY <1>1, <1>2 DEF RankOf
<1>4. age[i] + due <= Periods(RankOf(p, i)) /\ age[i] + due >= Periods(RankOf(p, i)) - MaxLate
  BY DEF Ring
<1>5. \A j \in (1..N) \ initial : RankOf(p, j) = RankOf(p, i) => j = i
  BY <1>1, <1>2 DEF RankOf
<1>6. p \in (1..N) \ initial /\ RankOf(p, p) = 0 BY <1>1, <1>2 DEF RankOf
<1>7. due \in Int /\ age[i] \in Nat
  <2>1. Period \in Int BY Times DEF TimerAssumptions
  <2> QED BY <1>1, <1>2, <2>1
<1>8. ASSUME i # p PROVE \E j \in (1..N) \ initial : RankOf(p, j) = RankOf(p, i) - 1
  <2>1. CASE i < N
    <3>1. i + 1 \in (1..N) \ initial BY <1>1, <1>2, <1>8, <2>1
    <3>2. RankOf(p, i + 1) = RankOf(p, i) - 1 BY <1>1, <1>2, <1>8, <2>1 DEF RankOf
    <3> QED BY <3>1, <3>2
  <2>2. CASE i = N
    <3>1. initial = {} /\ p < N BY <1>1, <1>2, <1>8, <2>2
    <3>2. 1 \in (1..N) \ initial /\ 1 <= p BY <1>1, <1>2, <3>1
    <3>3. RankOf(p, 1) = RankOf(p, i) - 1 BY <1>1, <1>2, <2>2, <3>1, <3>2 DEF RankOf
    <3> QED BY <3>2, <3>3
  <2> QED BY <1>1, <2>1, <2>2
<1> QED BY <1>3, <1>4, <1>5, <1>6, <1>7, <1>8

LEMMA AtMostOne == ASSUME NEW c, \A x, y \in c : x = y PROVE Cardinality(c) <= 1
<1>1. CASE c = {}
  <2>1. Cardinality(c) = 0 BY <1>1, FS_EmptySet
  <2> QED BY <2>1
<1>2. ASSUME NEW x \in c PROVE Cardinality(c) <= 1
  <2>1. c = {x} BY <1>2
  <2>2. Cardinality(c) = 1 BY <2>1, FS_Singleton
  <2> QED BY <2>2
<1> QED BY <1>1, <1>2

LEMMA Gap ==
    ASSUME NEW a \in Nat, NEW b \in Nat, NEW d \in Int, NEW k \in Nat, NEW l \in Nat,
           NEW u \in Nat,
           a + d <= u, a + d >= u - l, b + d <= k, b + d >= k - l
    PROVE  a - b >= u - k - l /\ a - b <= u - k + l
OBVIOUS

\* The ring is the history of the samples without a hole, for any period and
\* any number of slots, while the timer is late by less than a period.
THEOREM RingIsTheHistory ==
    ASSUME TimerAssumptions PROVE MonitorSpec => []RingIsHistory
<1>1. RingInv => RingIsHistory
  <2> SUFFICES ASSUME RingInv PROVE RingIsHistory OBVIOUS
  <2>1. PICK p \in 0..N : Ring(p) BY DEF RingInv
  <2>2. /\ N \in Nat /\ N >= 3 /\ Period \in Nat /\ Period > 0 /\ MaxLate \in Nat
        /\ MaxLate < Period /\ Slot = 1..N
    BY Times DEF TimerAssumptions
  <2>3. PICK samples : samples = (1..N) \ initial OBVIOUS
  <2>4. PICK newest : newest = {i \in samples : \A j \in samples : age[i] <= age[j]} OBVIOUS
  <2>5. ASSUME NEW i \in samples, i # p
        PROVE  \E j \in samples : /\ age[i] - age[j] >= Period - MaxLate
                                  /\ age[i] - age[j] <= Period + MaxLate
                                  /\ age[i] \in Nat /\ age[j] \in Nat
    <3>1. PICK r \in Nat : r + 1 = RankOf(p, i)
      <4>1. RankOf(p, i) \in 0..(N - 1) BY <2>1, <2>3, AgesOfSamples
      <4>2. \E j \in samples : RankOf(p, j) = RankOf(p, i) - 1 /\ RankOf(p, j) \in 0..(N - 1)
        BY <2>1, <2>3, <2>5, AgesOfSamples
      <4>3. RankOf(p, i) - 1 \in Nat /\ RankOf(p, i) - 1 + 1 = RankOf(p, i)
        BY <2>2, <4>1, <4>2
      <4> QED BY <4>3
    <3>2. PICK j \in samples : RankOf(p, j) = RankOf(p, i) - 1
      BY <2>1, <2>3, <2>5, AgesOfSamples
    <3>3. RankOf(p, j) = r BY <3>1, <3>2
    <3>4. /\ age[i] \in Nat /\ due \in Int
          /\ age[i] + due <= Periods(r + 1) /\ age[i] + due >= Periods(r + 1) - MaxLate
      BY <2>1, <2>3, <3>1, AgesOfSamples
    <3>5. /\ age[j] \in Nat
          /\ age[j] + due <= Periods(r) /\ age[j] + due >= Periods(r) - MaxLate
      BY <2>1, <2>3, <3>3, AgesOfSamples
    <3>6. Periods(r + 1) = Periods(r) + Period /\ Periods(r) \in Nat
      BY PeriodsAre DEF TimerAssumptions
    <3>7. PICK k \in Nat, u \in Nat :
             k = Periods(r) /\ u = Periods(r + 1) /\ u = k + Period
      BY <2>2, <3>6
    <3>8. age[i] - age[j] >= u - k - MaxLate /\ age[i] - age[j] <= u - k + MaxLate
      BY <2>2, <3>4, <3>5, <3>7, Gap
    <3>9. u - k = Period BY <2>2, <3>7
    <3>10. age[i] - age[j] >= Period - MaxLate /\ age[i] - age[j] <= Period + MaxLate
      BY <3>8, <3>9
    <3> QED BY <3>4, <3>5, <3>10
  <2>6. newest \subseteq {p}
    <3>1. ASSUME NEW i \in newest, i # p PROVE FALSE
      <4>1. PICK j \in samples : /\ age[i] - age[j] >= Period - MaxLate
                                 /\ age[i] \in Nat /\ age[j] \in Nat
        BY <2>4, <2>5, <3>1
      <4>2. age[i] <= age[j] BY <2>4
      <4> QED BY <2>2, <4>1, <4>2
    <3> QED BY <3>1
  <2>7. Cardinality(newest) <= 1
    <3>1. \A x, y \in newest : x = y BY <2>6
    <3> QED BY <3>1, AtMostOne
  <2>8. \A i \in newest : age[i] <= Period + MaxLate
    <3> SUFFICES ASSUME NEW i \in newest PROVE age[i] <= Period + MaxLate OBVIOUS
    <3>1. i = p /\ i \in samples BY <2>4, <2>6
    <3>2. /\ age[p] \in Nat /\ due \in Int
          /\ age[p] + due <= Periods(0)
      BY <2>1, <2>3, <3>1, AgesOfSamples
    <3>3. Periods(0) = Period BY <2>2 DEF Periods
    <3>4. due >= -MaxLate BY <2>1, <2>2 DEF Ring
    <3> QED BY <2>2, <3>1, <3>2, <3>3, <3>4
  <2>9. \A i \in samples \ newest : \E j \in samples :
            age[i] - age[j] \in (Period - MaxLate)..(Period + MaxLate)
    <3> SUFFICES ASSUME NEW i \in samples \ newest
                 PROVE  \E j \in samples :
                           age[i] - age[j] \in (Period - MaxLate)..(Period + MaxLate)
      OBVIOUS
    <3>1. i # p
      <4>1. ASSUME i = p PROVE i \in newest
        <5>1. ASSUME NEW j \in samples PROVE age[i] <= age[j]
          <6>1. CASE j = p
            <7>1. age[p] \in Nat BY <2>1, <2>3, <4>1, AgesOfSamples
            <7> QED BY <4>1, <6>1, <7>1
          <6>2. CASE j # p
            <7>1. /\ RankOf(p, j) \in 0..(N - 1) /\ age[j] \in Nat /\ due \in Int
                  /\ age[j] + due >= Periods(RankOf(p, j)) - MaxLate
                  /\ RankOf(p, p) = 0 /\ (RankOf(p, j) = RankOf(p, p) => p = j)
              BY <2>1, <2>3, <4>1, AgesOfSamples
            <7>2. PICK r \in Nat : r = RankOf(p, j) /\ 0 < r BY <2>2, <6>2, <7>1
            <7>3. age[p] \in Nat /\ age[p] + due <= Periods(0)
              BY <2>1, <2>3, <4>1, <7>1, AgesOfSamples
            <7>4. Periods(0) + Period <= Periods(r) /\ Periods(0) \in Nat /\ Periods(r) \in Nat
              BY <7>2, PeriodsAre DEF TimerAssumptions
            <7>5. age[j] + due >= Periods(r) - MaxLate BY <7>1, <7>2
            <7> QED BY <2>2, <4>1, <7>1, <7>3, <7>4, <7>5
          <6> QED BY <6>1, <6>2
        <5> QED BY <2>4, <5>1
      <4> QED BY <4>1
    <3>2. PICK j \in samples : /\ age[i] - age[j] >= Period - MaxLate
                               /\ age[i] - age[j] <= Period + MaxLate
                               /\ age[i] \in Nat /\ age[j] \in Nat
      BY <2>5, <3>1
    <3>3. age[i] - age[j] \in (Period - MaxLate)..(Period + MaxLate) BY <2>2, <3>2
    <3> QED BY <3>3
  <2>10. \A i \in initial : age[i] + due = Period * (Cardinality(samples) + 1)
    <3> SUFFICES ASSUME NEW i \in initial PROVE age[i] + due = Period * (Cardinality(samples) + 1)
      OBVIOUS
    <3>1. initial = (p + 1)..N /\ p \in 0..N /\ age[i] + due = Periods(p) BY <2>1 DEF Ring
    <3>2. samples = 1..p BY <2>2, <2>3, <3>1
    <3>3. Cardinality(samples) = p
      <4>1. 1 \in Int /\ p \in Int /\ (1 > p => p = 0) /\ p - 1 + 1 = p BY <2>2, <3>1
      <4>2. Cardinality(1..p) = IF 1 > p THEN 0 ELSE p - 1 + 1 BY <4>1, FS_Interval
      <4> QED BY <3>2, <4>1, <4>2
    <3>4. Periods(p) = Period * (p + 1) BY <2>2, <3>1 DEF Periods
    <3> QED BY <3>1, <3>3, <3>4
  <2>11. MonitorTypeOK BY <2>1, RingIsTyped DEF RingInv
  <2>12. /\ Cardinality(newest) <= 1
         /\ \A i \in initial \ {N} :
               age[i] + due = Period * (Cardinality(samples) + 1)
    BY <2>7, <2>10
  <2>13. samples = Slot \ initial BY <2>2, <2>3
  <2> QED BY <2>4, <2>8, <2>9, <2>11, <2>12, <2>13, Zenon DEF RingIsHistory
<1> QED BY <1>1, RingInvariant, PTL

-----------------------------------------------------------------------------
(* MemoryMonitor: the page while the timer goes on                          *)

\* A page is done before two runs of the timer have passed, and before the
\* oldest sample of the store time is replaced.
PageAssumptions ==
    /\ TimerAssumptions
    /\ MaxLate + MaxCompose < Period
    /\ Store + MaxLate + MaxCompose <= Periods(N - 1)

\* The timer has run since the page was requested (ran), or not.  It cannot run
\* twice: the ticks until its next run and those of the page add up.
KeptAt(ran) ==
    page # None =>
        /\ ran  => /\ due + page.elapsed >= Period - MaxLate
                   /\ due + page.elapsed <= Period + MaxCompose
        /\ ~ran => due + page.elapsed <= Period
        /\ ~ran \/ page.window <= Store => \A r \in page.rows : Kept(r)
        /\ \A r, s \in page.rows : ~Kept(r) /\ ~Kept(s) => r = s

\* Every slot that has been read is in the page if it belongs there, except the
\* one that was set meanwhile.
WarmAt(p, ran) ==
    page # None /\ page.warm =>
        /\ initial = {}
        /\ \A i \in 1..N :
              /\ i < page.next
              /\ ran => i # p
              /\ Selected(age[i] - page.elapsed, page.window)
              => \E r \in page.rows : r.val = age[i] - page.elapsed

LEMMA PageTick ==
    ASSUME TimerAssumptions, NEW p, Ring(p), PageTyped, NEW ran \in BOOLEAN,
           KeptAt(ran), WarmAt(p, ran), Tick
    PROVE  KeptAt(ran)' /\ WarmAt(p, ran)'
<1>1. CASE page = None
  <2>1. page' = None BY <1>1 DEF Tick
  <2> QED BY <2>1 DEF KeptAt, WarmAt
<1>2. CASE page # None
  <2>1. page \in Pages BY <1>2 DEF PageTyped
  <2>2. /\ page'.elapsed = page.elapsed + 1
        /\ page'.next = page.next /\ page'.window = page.window
        /\ page'.warm = page.warm /\ page'.rows = page.rows
    BY <1>2, <2>1, TickOfPage DEF TimerAssumptions
  <2>a. page.elapsed \in Nat /\ page.rows \subseteq Rows
    BY ONLY <2>1 DEF Pages
  <2>b. Slot = 1..N
    BY Times DEF TimerAssumptions
  <2>c. due \in Int
    BY Times DEF Ring, TimerAssumptions
  <2>d. age \in [1..N -> Nat]
    BY DEF Ring
  <2>3. page.elapsed \in Nat /\ page.rows \subseteq Rows /\ due \in Int /\ age \in [1..N -> Nat]
        /\ Slot = 1..N
    BY ONLY <2>a, <2>b, <2>c, <2>d
  <2>4. /\ age' = [i \in 1..N |-> age[i] + 1] /\ due' = due - 1 /\ initial' = initial
    BY <2>3 DEF Tick
  <2>5. due' + page'.elapsed = due + page.elapsed BY <2>2, <2>3, <2>4
  <2>6. \A i \in 1..N : age'[i] - page'.elapsed = age[i] - page.elapsed BY <2>2, <2>3, <2>4
  <2>7. \A r \in page.rows : Kept(r)' <=> Kept(r)
    BY <2>3, <2>6 DEF Kept, Rows
  <2>8. KeptAt(ran)' BY <1>2, <2>2, <2>5, <2>7 DEF KeptAt
  <2>9. WarmAt(p, ran)'
    <3>1. ASSUME NEW i \in 1..N
          PROVE  Selected(age[i] - page.elapsed, page.window)' <=>
                    Selected(age[i] - page.elapsed, page.window)
      BY <2>2, <2>6 DEF Selected
    <3> QED BY <1>2, <2>2, <2>4, <2>6, <3>1 DEF WarmAt
  <2> QED BY <2>8, <2>9
<1> QED BY <1>1, <1>2

LEMMA PageRequest ==
    ASSUME TimerAssumptions, NEW p, Ring(p), Request
    PROVE  KeptAt(FALSE)' /\ WarmAt(p, FALSE)'
<1>1. /\ page'.next = 1 /\ page'.elapsed = 0 /\ page'.rows = {}
      /\ page'.warm <=> initial = {}
  BY RequestOfPage DEF TimerAssumptions
<1>2. UNCHANGED <<age, initial, due>> BY DEF Request
<1>3. due + 0 <= Period /\ due \in Int
  BY Times DEF Ring, TimerAssumptions
<1>4. KeptAt(FALSE)' BY <1>1, <1>2, <1>3 DEF KeptAt
<1>5. \A i \in 1..N : ~(i < 1) BY Times DEF TimerAssumptions
<1>6. WarmAt(p, FALSE)' BY <1>1, <1>2, <1>5 DEF WarmAt
<1> QED BY <1>4, <1>6

LEMMA PageRead ==
    ASSUME TimerAssumptions, NEW p, Ring(p), PageTyped, NEW ran \in BOOLEAN,
           KeptAt(ran), WarmAt(p, ran), ReadSlot
    PROVE  KeptAt(ran)' /\ WarmAt(p, ran)'
<1>1. page # None /\ UNCHANGED <<age, initial, due>>
  BY DEF ReadSlot, Reading
<1>2. page \in Pages /\ age \in [1..N -> Nat] BY <1>1 DEF PageTyped, Ring
<1>3. PICK r : r = Row(page.next) OBVIOUS
<1>4. PICK n \in 1..N, e \in Nat, w \in Int, rows \in SUBSET Rows :
         n = page.next /\ e = page.elapsed /\ w = page.window /\ rows = page.rows
  <2>1. page.next \in 1..N /\ page.elapsed \in Nat /\ page.window \in Int
        /\ page.rows \in SUBSET Rows
    BY <1>2, Times DEF Pages, TimerAssumptions
  <2> QED BY <2>1
<1>5. /\ page'.next = n + 1 /\ page'.window = w /\ page'.elapsed = e
      /\ page'.warm = page.warm
      /\ page'.rows = IF Selected(age[n] - e, w) THEN rows \cup {r} ELSE rows
      /\ r.slot = n /\ r.val = age[n] - e
  BY <1>2, <1>3, <1>4, ReadOfPage DEF TimerAssumptions
<1>6. \A s \in rows : Kept(s)' <=> Kept(s)
  BY <1>1, <1>4, <1>5 DEF Kept
<1>7. Kept(r)' BY <1>1, <1>5 DEF Kept
<1>8. KeptAt(ran)'
  <2>1. /\ ran  => /\ due + e >= Period - MaxLate
                   /\ due + e <= Period + MaxCompose
        /\ ~ran => due + e <= Period
        /\ ~ran \/ w <= Store => \A s \in rows : Kept(s)
        /\ \A s, t \in rows : ~Kept(s) /\ ~Kept(t) => s = t
    BY <1>1, <1>4 DEF KeptAt
  <2>2. page'.rows \subseteq rows \cup {r} BY <1>5
  <2>3. ~ran \/ w <= Store => \A s \in page'.rows : Kept(s)'
    BY <1>6, <1>7, <2>1, <2>2
  <2>4. \A s, t \in page'.rows : ~Kept(s)' /\ ~Kept(t)' => s = t
    BY <1>6, <1>7, <2>1, <2>2
  <2> QED BY <1>1, <1>5, <2>1, <2>3, <2>4 DEF KeptAt
<1>9. WarmAt(p, ran)'
  <2> SUFFICES ASSUME page.warm
               PROVE  /\ initial = {}
                      /\ \A i \in 1..N :
                            /\ i < n + 1
                            /\ ran => i # p
                            /\ Selected(age[i] - e, w)
                            => \E s \in page'.rows : s.val = age[i] - e
    BY <1>1, <1>5 DEF WarmAt, Selected
  <2>1. /\ initial = {}
        /\ \A i \in 1..N :
              /\ i < n
              /\ ran => i # p
              /\ Selected(age[i] - e, w)
              => \E s \in rows : s.val = age[i] - e
    BY <1>1, <1>4 DEF WarmAt
  <2>2. rows \subseteq page'.rows BY <1>5
  <2>3. ASSUME NEW i \in 1..N, i < n + 1, ran => i # p, Selected(age[i] - e, w)
        PROVE  \E s \in page'.rows : s.val = age[i] - e
    <3>1. CASE i = n BY <1>5, <2>3, <3>1
    <3>2. CASE i < n BY <2>1, <2>2, <2>3, <3>2
    <3>3. i = n \/ i < n
      <4>1. N \in Nat BY Times DEF TimerAssumptions
      <4> QED BY <2>3, <4>1
    <3> QED BY <3>1, <3>2, <3>3
  <2> QED BY <2>1, <2>3
<1> QED BY <1>8, <1>9

LEMMA PageCollect ==
    ASSUME PageAssumptions, NEW p, Ring(p), PageTyped, NEW ran \in BOOLEAN,
           KeptAt(ran), WarmAt(p, ran), Collect
    PROVE  KeptAt(TRUE)' /\ WarmAt(After(p), TRUE)'
<1>1. /\ N \in Nat /\ N >= 3 /\ Period \in Nat /\ MaxLate \in Nat /\ MaxCompose \in Nat
      /\ Store \in Nat /\ MaxLate + MaxCompose < Period
  BY Times DEF TimerAssumptions, PageAssumptions
<1>2. TimerAssumptions BY DEF PageAssumptions
<1>3. PICK o \in 1..N : o = After(p) /\ Oldest = o BY <1>2, OldestIsNext
<1>4. /\ age' = [age EXCEPT ![o] = 0] /\ initial' = initial \ {o}
      /\ due' = due + Period /\ due <= 0 /\ page' = page
  BY <1>3 DEF Collect
<1>5. age \in [1..N -> Nat] /\ due \in Int /\ due >= -MaxLate BY <1>1 DEF Ring
<1> SUFFICES ASSUME page # None PROVE KeptAt(TRUE)' /\ WarmAt(o, TRUE)'
  BY <1>3, <1>4 DEF KeptAt, WarmAt
<1>6. page \in Pages BY DEF PageTyped
<1>7. PICK e \in Nat, w \in Int, rows \in SUBSET Rows :
         /\ e = page.elapsed /\ e <= MaxCompose /\ w = page.window /\ rows = page.rows
  <2>1. page.elapsed \in Nat /\ page.elapsed <= MaxCompose /\ page.window \in Int
        /\ page.rows \in SUBSET Rows
    BY <1>1, <1>6, Times DEF Pages, TimerAssumptions, PageAssumptions
  <2> QED BY <2>1
<1>8. ~ran
  <2>1. ran => due + e >= Period - MaxLate BY <1>7 DEF KeptAt
  <2> QED BY <1>1, <1>4, <1>5, <1>7, <2>1
<1>9. \A r \in rows : Kept(r) BY <1>7, <1>8 DEF KeptAt
<1>10. ASSUME NEW r \in rows, r.slot # o PROVE Kept(r)'
  <2>1. age'[r.slot] = age[r.slot] BY <1>4, <1>5, <1>10 DEF Rows
  <2> QED BY <1>4, <1>9, <2>1 DEF Kept
<1>11. ASSUME NEW r \in rows, r.slot = o, w <= Store PROVE Kept(r)'
  <2>1. CASE r.fill BY <2>1 DEF Kept
  <2>2. CASE ~r.fill
    <3>1. o \notin initial BY <1>7, <1>11, <2>2 DEF PageTyped
    <3>2. initial = {} /\ RankOf(p, o) = N - 1
      <4>1. initial # {} => p < N /\ p + 1 \in initial BY <1>2, OldestIsNext
      <4>2. p < N => o = p + 1
        <5>1. p \in Int /\ (p < N => p # N) BY <1>1 DEF Ring
        <5> QED BY <1>3, <5>1 DEF After
      <4>3. initial = {} BY <3>1, <4>1, <4>2
      <4> QED BY <1>2, <1>3, <4>3, OldestIsNext
    <3>3. age[o] + due >= Periods(N - 1) - MaxLate BY <3>2 DEF Ring
    <3>4. Store + MaxLate + MaxCompose <= Periods(N - 1) /\ Periods(N - 1) \in Nat
      <4>1. N - 1 \in Nat BY <1>1
      <4> QED BY <4>1, PeriodsAre DEF PageAssumptions, TimerAssumptions
    <3>5. r.val = age[o] - e BY <1>7, <1>9, <1>11, <2>2 DEF Kept
    <3>6. r.val < w BY <1>7 DEF PageTyped
    <3>7. age[o] \in Nat BY <1>5
    <3>8. PICK a \in Nat, d \in Int, k \in Nat : a = age[o] /\ d = due /\ k = Periods(N - 1)
      BY <1>5, <3>4, <3>7
    <3>9. /\ a + d >= k - MaxLate /\ d <= 0 /\ e <= MaxCompose /\ a - e < w /\ w <= Store
          /\ Store + MaxLate + MaxCompose <= k
      BY <1>4, <1>7, <1>11, <3>3, <3>4, <3>5, <3>6, <3>8
    <3>10. FALSE BY <1>1, <3>9
    <3> QED BY <3>10
  <2> QED BY <2>1, <2>2
<1>12. \A r, s \in rows : ~Kept(r)' /\ ~Kept(s)' => r = s
  <2>1. \A r, s \in rows : r.slot = s.slot => r = s BY <1>7 DEF PageTyped
  <2> QED BY <1>10, <2>1
<1>13. KeptAt(TRUE)'
  <2>1. due' + e >= Period - MaxLate /\ due' + e <= Period + MaxCompose
    BY <1>1, <1>4, <1>5, <1>7
  <2>2. w <= Store => \A r \in rows : Kept(r)' BY <1>10, <1>11
  <2> QED BY <1>4, <1>7, <1>12, <2>1, <2>2 DEF KeptAt
<1>14. WarmAt(o, TRUE)'
  <2> SUFFICES ASSUME page.warm
               PROVE  /\ initial' = {}
                      /\ \A i \in 1..N :
                            /\ i < page.next
                            /\ i # o
                            /\ Selected(age'[i] - e, w)
                            => \E r \in rows : r.val = age'[i] - e
    BY <1>4, <1>7 DEF WarmAt, Selected
  <2>1. \A i \in 1..N : i # o => age'[i] = age[i] BY <1>4, <1>5
  <2> QED BY <1>4, <1>7, <1>8, <2>1 DEF WarmAt
<1> QED BY <1>13, <1>14

LEMMA PageStays ==
    ASSUME NEW p, NEW ran, KeptAt(ran), WarmAt(p, ran), UNCHANGED monitorVars
    PROVE  KeptAt(ran)' /\ WarmAt(p, ran)'
<1>1. UNCHANGED <<age, initial, due, page>> BY DEF monitorVars
<1> QED BY <1>1 DEF KeptAt, WarmAt, Kept, Selected

PageInv ==
    /\ PageTyped
    /\ \E p \in 0..N, ran \in BOOLEAN : Ring(p) /\ KeptAt(ran) /\ WarmAt(p, ran)

LEMMA PageInvariant == ASSUME PageAssumptions PROVE MonitorSpec => []PageInv
<1>1. TimerAssumptions BY DEF PageAssumptions
<1>2. MonitorInit => PageInv
  <2> SUFFICES ASSUME MonitorInit PROVE PageInv OBVIOUS
  <2>1. Ring(0) BY <1>1, RingInit
  <2>2. 0 \in 0..N BY <2>1 DEF Ring
  <2>3. PageTyped /\ KeptAt(FALSE) /\ WarmAt(0, FALSE)
    BY DEF MonitorInit, PageTyped, KeptAt, WarmAt
  <2> QED BY <2>1, <2>2, <2>3 DEF PageInv
<1>3. PageInv /\ [MonitorNext]_monitorVars => PageInv'
  <2> SUFFICES ASSUME PageInv, [MonitorNext]_monitorVars PROVE PageInv' OBVIOUS
  <2>1. PICK p \in 0..N, ran \in BOOLEAN : Ring(p) /\ KeptAt(ran) /\ WarmAt(p, ran)
    BY DEF PageInv
  <2>2. PageTyped BY DEF PageInv
  <2>3. PageTyped' BY <1>1, <2>1, <2>2, PageTypedInductive
  <2>4. CASE Collect
    <3>1. Ring(After(p))' BY <1>1, <2>1, <2>4, RingCollect
    <3>2. KeptAt(TRUE)' /\ WarmAt(After(p), TRUE)'
      BY <2>1, <2>2, <2>4, PageCollect
    <3>3. After(p) \in 0..N BY <3>1 DEF Ring
    <3> QED BY <2>3, <3>1, <3>2, <3>3 DEF PageInv
  <2>5. CASE ~Collect
    <3>1. Ring(p)' BY <1>1, <2>1, <2>5, RingNext
    <3>2. \E b \in BOOLEAN : KeptAt(b)' /\ WarmAt(p, b)'
      <4>1. CASE Tick BY <1>1, <2>1, <2>2, <4>1, PageTick
      <4>2. CASE Request
        <5>1. KeptAt(FALSE)' /\ WarmAt(p, FALSE)' BY <1>1, <2>1, <4>2, PageRequest
        <5> QED BY <5>1
      <4>3. CASE ReadSlot BY <1>1, <2>1, <2>2, <4>3, PageRead
      <4>4. CASE Show
        <5>1. page' = None BY <4>4 DEF Show
        <5> QED BY <5>1 DEF KeptAt, WarmAt
      <4>5. CASE UNCHANGED monitorVars BY <2>1, <4>5, PageStays
      <4> QED BY <2>5, <4>1, <4>2, <4>3, <4>4, <4>5 DEF MonitorNext
    <3> QED BY <2>3, <3>1, <3>2 DEF PageInv
  <2> QED BY <2>4, <2>5
<1> QED BY <1>2, <1>3, PTL DEF MonitorSpec

\* No sample of a page is replaced while the page shows it, if the page asks for
\* no more than the store time, and at most one otherwise, for any ring, period
\* and window, while page and timer together are faster than a period.
THEOREM RowsStay ==
    ASSUME PageAssumptions PROVE MonitorSpec => []RowsAreKept
<1>1. PageInv => RowsAreKept
  <2> SUFFICES ASSUME PageInv, page # None PROVE RowsAreKept
    BY DEF RowsAreKept
  <2>1. PICK p, ran : KeptAt(ran) BY DEF PageInv
  <2>2. PICK lost : lost = {r \in page.rows : ~Kept(r)} OBVIOUS
  <2>3. page.window <= Store => lost = {} BY <2>1, <2>2 DEF KeptAt
  <2>4. \A r, s \in lost : r = s BY <2>1, <2>2 DEF KeptAt
  <2>5. Cardinality(lost) <= 1 BY <2>4, AtMostOne
  <2> QED BY <2>2, <2>3, <2>5, Zenon DEF RowsAreKept
<1> QED BY <1>1, PageInvariant, PTL

\* A set of numbers that has m and not n ends somewhere between them.
LEMMA Crossing ==
    ASSUME NEW S, NEW m \in Nat, NEW n \in Nat, m <= n, m \in S, n \notin S
    PROVE  \E r \in Nat : m <= r /\ r < n /\ r \in S /\ r + 1 \notin S
<1> SUFFICES ASSUME \A r \in Nat : m <= r /\ r < n /\ r \in S => r + 1 \in S PROVE FALSE
  OBVIOUS
<1> DEFINE T == {k \in Nat : m + k <= n => m + k \in S}
<1>1. 0 \in T OBVIOUS
<1>2. ASSUME NEW k \in T PROVE k + 1 \in T
  <2> SUFFICES ASSUME m + (k + 1) <= n PROVE m + (k + 1) \in S OBVIOUS
  <2>1. m + k \in Nat /\ m + k < n /\ m <= m + k /\ m + (k + 1) = m + k + 1 OBVIOUS
  <2>2. m + k \in S BY <2>1
  <2> QED BY <2>1, <2>2
<1>3. T = Nat
  <2> HIDE DEF T
  <2>1. T \in SUBSET Nat BY DEF T
  <2> QED BY <1>1, <1>2, <2>1, Induction
<1>4. n - m \in Nat /\ m + (n - m) = n OBVIOUS
<1>5. n - m \in T BY <1>3, <1>4
<1> QED BY <1>4, <1>5

LEMMA SlotOfRank ==
    ASSUME TimerAssumptions, NEW p \in 1..N, NEW r \in 0..(N - 1)
    PROVE  \E i \in 1..N : RankOf(p, i) = r
<1>1. N \in Nat BY Times DEF TimerAssumptions
<1>2. CASE r < p
  <2>1. p - r \in 1..N /\ p - r <= p /\ p - (p - r) = r BY <1>1, <1>2
  <2> QED BY <2>1 DEF RankOf
<1>3. CASE ~(r < p)
  <2>1. p - r + N \in 1..N /\ ~(p - r + N <= p) /\ p - (p - r + N) + N = r BY <1>1, <1>3
  <2> QED BY <2>1 DEF RankOf
<1> QED BY <1>2, <1>3

\* In a full ring the age of a slot when the page was requested, by its rank.
LEMMA AgeOfRank ==
    ASSUME TimerAssumptions, NEW p, Ring(p), initial = {}, NEW e \in Nat,
           NEW d \in Int, d = due + e, NEW r \in 0..(N - 1), NEW i \in 1..N, RankOf(p, i) = r
    PROVE  /\ age[i] - e \in Int
           /\ age[i] - e <= Periods(r) - d
           /\ age[i] - e >= Periods(r) - MaxLate - d
<1>1. N \in Nat /\ N >= 3 /\ MaxLate \in Nat BY Times DEF TimerAssumptions
<1>2. /\ age[i] \in Nat /\ due \in Int
      /\ age[i] + due <= Periods(r)
      /\ age[i] + due >= Periods(r) - MaxLate
  BY AgesOfSamples
<1>3. Periods(r) \in Nat
  <2>1. r \in Nat BY <1>1
  <2> QED BY <2>1, PeriodsAre DEF TimerAssumptions
<1>4. PICK a \in Nat, k \in Nat, u \in Int : a = age[i] /\ k = Periods(r) /\ u = due
  BY <1>2, <1>3
<1>5. a + u <= k /\ a + u >= k - MaxLate /\ d = u + e BY <1>2, <1>4
<1>6. a - e \in Int /\ a - e <= k - d /\ a - e >= k - MaxLate - d BY <1>1, <1>5
<1> QED BY <1>4, <1>6

\* Two samples in a row are older than x, and not too old, if the oldest and the
\* newest that count are on different sides of x.
LEMMA TwoSamples ==
    ASSUME PageAssumptions, NEW p \in 1..N, Ring(p), initial = {}, NEW e \in 0..MaxCompose,
           NEW ran \in BOOLEAN,
           ran  => due + e >= Period - MaxLate /\ due + e <= Period + MaxCompose,
           ~ran => due + e <= Period,
           NEW x \in Nat, x >= 2 * Period, x + 2 * Period + MaxLate < Store
    PROVE  \E i, j \in 1..N :
              /\ i # j /\ (ran => i # p /\ j # p)
              /\ age[i] - e \in Int /\ x < age[i] - e /\ age[i] - e <= x + 2 * Period + MaxLate
              /\ age[j] - e \in Int /\ x < age[j] - e /\ age[j] - e <= x + 2 * Period + MaxLate
<1>1. TimerAssumptions BY DEF PageAssumptions
<1>2. /\ N \in Nat /\ N >= 3 /\ Period \in Nat /\ Period > 0 /\ MaxLate \in Nat
      /\ MaxCompose \in Nat /\ Store \in Nat /\ MaxLate < Period
  BY <1>1, Times DEF TimerAssumptions
<1>3. due \in Int /\ due >= -MaxLate BY <1>2 DEF Ring
<1>4. PICK d \in Int : d = due + e /\ d >= -MaxLate BY <1>2, <1>3
<1>5. \A r \in 0..(N - 1), i \in 1..N : RankOf(p, i) = r =>
         /\ age[i] - e \in Int
         /\ age[i] - e <= Periods(r) - d
         /\ age[i] - e >= Periods(r) - MaxLate - d
  BY <1>1, <1>2, <1>4, AgeOfRank
<1>6. \A r \in 0..(N - 1) : \E i \in 1..N : RankOf(p, i) = r BY <1>1, SlotOfRank
<1> DEFINE S == {r \in 0..(N - 1) : \E i \in 1..N : RankOf(p, i) = r /\ age[i] - e <= x}
<1>7. PICK m \in 0..1 : /\ m \in S
                        /\ ran => m = 1
  <2>1. CASE ran
    <3>1. 1 \in 0..(N - 1) BY <1>2
    <3>2. PICK i \in 1..N : RankOf(p, i) = 1 BY <1>6, <3>1
    <3>3. age[i] - e \in Int /\ age[i] - e <= Periods(1) - d BY <1>5, <3>1, <3>2
    <3>4. Periods(1) = 2 * Period BY <1>2 DEF Periods
    <3>5. d >= Period - MaxLate BY <1>4, <2>1
    <3>6. age[i] - e <= x BY <1>2, <3>3, <3>4, <3>5
    <3> QED BY <3>1, <3>2, <3>6
  <2>2. CASE ~ran
    <3>1. 0 \in 0..(N - 1) BY <1>2
    <3>2. PICK i \in 1..N : RankOf(p, i) = 0 BY <1>6, <3>1
    <3>3. age[i] - e \in Int /\ age[i] - e <= Periods(0) - d BY <1>5, <3>1, <3>2
    <3>4. Periods(0) = Period BY <1>2 DEF Periods
    <3>5. age[i] - e <= x BY <1>2, <1>4, <3>3, <3>4
    <3> QED BY <2>2, <3>1, <3>2, <3>5
  <2> QED BY <2>1, <2>2
<1>8. N - 2 \notin S
  <2> SUFFICES ASSUME NEW i \in 1..N, RankOf(p, i) = N - 2, age[i] - e <= x PROVE FALSE
    OBVIOUS
  <2>1. N - 2 \in 0..(N - 1) /\ N - 2 \in Nat /\ N - 2 + 1 = N - 1 BY <1>2
  <2>2. age[i] - e \in Int /\ age[i] - e >= Periods(N - 2) - MaxLate - d BY <1>5, <2>1
  <2>3. Periods(N - 1) = Periods(N - 2) + Period /\ Periods(N - 2) \in Nat
    BY <1>1, <2>1, PeriodsAre DEF TimerAssumptions
  <2>4. Store + MaxLate + MaxCompose <= Periods(N - 1) BY DEF PageAssumptions
  <2>5. d <= Period + MaxCompose BY <1>2, <1>4
  <2>6. PICK a \in Int, k \in Nat : a = age[i] - e /\ k = Periods(N - 2) BY <2>2, <2>3
  <2>7. /\ a >= k - MaxLate - d /\ Store + MaxLate + MaxCompose <= k + Period /\ a <= x
    BY <2>2, <2>3, <2>4, <2>6
  <2> QED BY <1>2, <2>5, <2>7
<1> HIDE DEF S
<1>9. PICK r \in Nat : m <= r /\ r < N - 2 /\ r \in S /\ r + 1 \notin S
  <2>1. N - 2 \in Nat /\ m \in Nat /\ m <= N - 2 BY <1>2
  <2> QED BY <1>7, <1>8, <2>1, Crossing
<1>10. r \in 0..(N - 1) /\ r + 1 \in 0..(N - 1) /\ r + 2 \in 0..(N - 1) BY <1>2, <1>9
<1>11. PICK h \in 1..N : RankOf(p, h) = r /\ age[h] - e <= x BY <1>9 DEF S
<1>12. PICK i \in 1..N : RankOf(p, i) = r + 1 BY <1>6, <1>10
<1>13. PICK j \in 1..N : RankOf(p, j) = r + 2 BY <1>6, <1>10
<1>14. ~(age[i] - e <= x) BY <1>9, <1>10, <1>12 DEF S
<1>15. PICK k \in Nat, u \in Nat, v \in Nat :
          /\ k = Periods(r) /\ u = Periods(r + 1) /\ v = Periods(r + 2)
          /\ u = k + Period /\ v = k + 2 * Period
  <2>1. Periods(r + 1) = Periods(r) + Period /\ Periods(r) \in Nat
    BY <1>1, PeriodsAre DEF TimerAssumptions
  <2>2. r + 1 \in Nat /\ r + 1 + 1 = r + 2 OBVIOUS
  <2>3. Periods(r + 2) = Periods(r + 1) + Period
    BY <1>1, <2>2, PeriodsAre DEF TimerAssumptions
  <2> QED BY <1>2, <2>1, <2>3
<1>16. PICK a \in Int, b \in Int, c \in Int : a = age[h] - e /\ b = age[i] - e /\ c = age[j] - e
  BY <1>5, <1>10, <1>11, <1>12, <1>13
<1>17. /\ a >= k - MaxLate - d /\ a <= x
       /\ b <= u - d /\ b >= u - MaxLate - d /\ ~(b <= x)
       /\ c <= v - d /\ c >= v - MaxLate - d
  <2>1. a >= k - MaxLate - d BY <1>5, <1>10, <1>11, <1>15, <1>16
  <2>2. b <= u - d /\ b >= u - MaxLate - d BY <1>5, <1>10, <1>12, <1>15, <1>16
  <2>3. c <= v - d /\ c >= v - MaxLate - d BY <1>5, <1>10, <1>13, <1>15, <1>16
  <2>4. a <= x /\ ~(b <= x) BY <1>11, <1>14, <1>16
  <2> QED BY <2>1, <2>2, <2>3, <2>4
<1>18. /\ x < b /\ b <= x + 2 * Period + MaxLate
       /\ x < c /\ c <= x + 2 * Period + MaxLate
  BY <1>2, <1>15, <1>17
<1>19. i # j BY <1>12, <1>13
<1>20. ran => i # p /\ j # p
  <2>1. RankOf(p, p) = 0 BY <1>2 DEF RankOf
  <2> QED BY <1>12, <1>13, <2>1
<1> QED BY <1>16, <1>18, <1>19, <1>20

\* The page of a full ring has no hole longer than two periods and a delay, for
\* any ring, period and window, while page and timer are faster than a period.
THEOREM PageHasNoHole ==
    ASSUME PageAssumptions PROVE MonitorSpec => []PageIsComplete
<1>1. PageInv => PageIsComplete
  <2> SUFFICES ASSUME PageInv, Composing, page.warm,
                      NEW x \in (2 * Period)..(page.window - 1 - HoleBound),
                      x + HoleBound < Store
               PROVE  \E r \in page.rows : x < r.val /\ r.val <= x + HoleBound
    BY DEF PageIsComplete
  <2>1. PICK p \in 0..N, ran \in BOOLEAN : Ring(p) /\ KeptAt(ran) /\ WarmAt(p, ran)
    BY DEF PageInv
  <2>2. /\ N \in Nat /\ N >= 3 /\ Period \in Nat /\ Period > 0 /\ MaxLate \in Nat
        /\ MaxCompose \in Nat /\ Half \in Nat
    BY Times DEF PageAssumptions, TimerAssumptions
  <2>3. page # None /\ page.next = N /\ page \in Pages
    BY DEF Composing, PageInv, PageTyped, N
  <2>4. PICK e \in 0..MaxCompose, w \in Int : e = page.elapsed /\ w = page.window
    <3>1. page.elapsed \in 0..MaxCompose /\ page.window \in Int BY <2>2, <2>3 DEF Pages
    <3> QED BY <3>1
  <2>5. initial = {} /\ p \in 1..N
    <3>1. initial = {} BY <2>1, <2>3 DEF WarmAt
    <3>2. p # 0
      <4>1. p = 0 => (p + 1)..N # {} BY <2>2
      <4> QED BY <2>1, <2>2, <3>1, <4>1 DEF Ring
    <3> QED BY <2>2, <3>1, <3>2
  <2>6. PICK y \in Nat :
           /\ y = x /\ y >= 2 * Period
           /\ y + 2 * Period + MaxLate < Store /\ y + 2 * Period + MaxLate < w
           /\ x + HoleBound = y + 2 * Period + MaxLate
    <3>1. HoleBound = 2 * Period + MaxLate BY DEF HoleBound
    <3>2. x \in Nat /\ x >= 2 * Period BY <2>2, <2>4, <3>1
    <3>3. x + (2 * Period + MaxLate) = x + 2 * Period + MaxLate BY <2>2, <3>2
    <3>4. x <= w - 1 - (2 * Period + MaxLate) BY <2>2, <2>4, <3>1
    <3>5. x + 2 * Period + MaxLate < w BY <2>2, <3>2, <3>4
    <3>6. x + 2 * Period + MaxLate < Store BY <3>1, <3>3
    <3> QED BY <3>1, <3>2, <3>3, <3>5, <3>6
  <2>7. /\ ran  => due + e >= Period - MaxLate /\ due + e <= Period + MaxCompose
        /\ ~ran => due + e <= Period
    BY <2>1, <2>3, <2>4 DEF KeptAt
  <2>8. PICK i, j \in 1..N :
           /\ i # j /\ (ran => i # p /\ j # p)
           /\ age[i] - e \in Int /\ y < age[i] - e /\ age[i] - e <= y + 2 * Period + MaxLate
           /\ age[j] - e \in Int /\ y < age[j] - e /\ age[j] - e <= y + 2 * Period + MaxLate
    BY <2>1, <2>5, <2>6, <2>7, TwoSamples
  <2>9. PICK k \in 1..N :
           /\ k < N /\ (ran => k # p)
           /\ age[k] - e \in Int /\ y < age[k] - e /\ age[k] - e <= y + 2 * Period + MaxLate
    <3>1. i < N \/ j < N BY <2>2, <2>8
    <3> QED BY <2>8, <3>1
  <2>10. Selected(age[k] - e, w)
    BY <2>2, <2>6, <2>9 DEF Selected
  <2>11. \E r \in page.rows : r.val = age[k] - e
    BY <2>1, <2>3, <2>4, <2>9, <2>10 DEF WarmAt
  <2> QED BY <2>6, <2>9, <2>11
<1> QED BY <1>1, PageInvariant, PTL
=============================================================================
